------------------------------ MODULE GangZones ------------------------------
(***************************************************************************)
(* Gang zones: a table of coloured rectangles that RPCs 108, 120, 121 and   *)
(* 85 create, destroy, flash and stop flashing.  The adapter keeps the      *)
(* table itself and a ring of the newest events; the bridge keeps its own   *)
(* copy, which the radar draws, and a count of it, brought up to date once   *)
(* per frame by the events it has not seen, or from the adapter's table when *)
(* the ring has lost some of them.                                          *)
(*                                                                         *)
(* A zone's rectangle and base colour are one value, the number of the RPC  *)
(* that said them, over the sessions.  Left out: payloads that fail to      *)
(* decode (they change nothing), rectangles that the adapter accepts and    *)
(* the bridge refuses, the drawing, packets that end the session for good.  *)
(* Names with an underscore are mutations, as in ClassSelection.            *)
(***************************************************************************)
EXTENDS FiniteSets, Ring

CONSTANTS
    Ids,          \* zones: 0 .. 1023 in the code
    RingSize,     \* SAMP_RAKNET_GANG_ZONE_EVENT_RING (128 in the code)
    MaxEvents,    \* bound: RPCs, over the sessions
    MaxRestarts   \* bound: game-mode restarts

VARIABLES net, own, scene, pc   \* adapter; bridge; always "none"; "pump" since the last RPC

vars == <<net, own, scene, pc>>

NoZone == [base |-> 0, alt |-> 0]
NoZones == [i \in Ids |-> NoZone]

ResetZones == [seq |-> 0, ring |-> <<>>, states |-> NoZones]

Init ==
    /\ net = [probe |-> ResetZones, restart |-> 0, generation |-> 0, rpcs |-> 0, link |-> "up"]
    /\ own = [synced |-> FALSE, mark |-> 0, slots |-> NoZones, count |-> 0, handled |-> 0]
    /\ scene = "none" /\ pc = "pump"

-----------------------------------------------------------------------------
(* The adapter.  net.restart is game_mode_restart_seq, net.generation the   *)
(* static g_game_mode_restart_generation; the last packet of a connection    *)
(* that is lost is also the last of its pump.                               *)

Actions == {"create", "destroy", "flash", "stop"}

\* What an event does to the zone of the adapter's table.
StateAfter(state, e) ==
    CASE e.action = "create" -> [base |-> e.says, alt |-> e.says]
      [] e.action = "destroy" -> NoZone
      [] e.action = "flash" /\ state # NoZone -> [state EXCEPT !.alt = e.says]
      [] e.action = "stop" /\ state # NoZone -> [state EXCEPT !.alt = state.base]
      [] OTHER -> state

Receives == net.link = "up"

\* queue_gang_zone_event, which writes the ring and the table.
Queue(e) ==
    LET p == net.probe
        states == [p.states EXCEPT ![e.id] = StateAfter(p.states[e.id], e)]
    IN  /\ net' = [net EXCEPT !.rpcs = @ + 1,
                     !.probe = [seq |-> e.seq, ring |-> Push(p.ring, RingSize, e), states |-> states]]
        /\ pc' = "pump" /\ UNCHANGED <<own, scene>>

OnZone ==
    /\ Receives /\ net.rpcs < MaxEvents
    /\ \E action \in Actions, id \in Ids :
         Queue([seq |-> net.probe.seq + 1, action |-> action, id |-> id, says |-> net.rpcs + 1])

OnRestart ==
    /\ Receives /\ net.generation < MaxRestarts
    /\ net' = [net EXCEPT !.probe = ResetZones, !.generation = @ + 1, !.restart = net.generation + 1]
    /\ pc' = "pump" /\ UNCHANGED <<own, scene>>

OnConnectionLost ==
    /\ Receives
    /\ net' = [net EXCEPT !.probe = ResetZones, !.restart = 0, !.link = "lost"]
    /\ pc' = "pump" /\ UNCHANGED <<own, scene>>

-----------------------------------------------------------------------------
(* The bridge. *)

Active(table) == Cardinality({i \in Ids : table[i] # NoZone})

\* gang_zone_compat_apply_event, the slot.
SlotAfter(slot, e) ==
    IF e.action = "create" THEN [base |-> e.says, alt |-> e.says]
    ELSE IF e.action = "destroy" \/ slot = NoZone THEN NoZone
    ELSE [slot EXCEPT !.alt = IF e.action = "flash" THEN e.says ELSE slot.base]

\* The count goes up and down with the slot that comes or goes.
CountAfter(count, slot, e) ==
    CASE e.action = "create" /\ slot = NoZone -> count + 1
      [] e.action = "destroy" /\ slot # NoZone -> count - 1
      [] OTHER -> count

ApplyEvent(view, e) ==
    [slots |-> [view.slots EXCEPT ![e.id] = SlotAfter(@, e)],
     count |-> CountAfter(view.count, view.slots[e.id], e)]

\* gang_zone_compat_resync_from_snapshot.
Resync(o) ==
    [o EXCEPT !.slots = net.probe.states, !.count = Active(net.probe.states),
              !.mark = net.probe.seq, !.synced = TRUE]

View(o) == [slots |-> o.slots, count |-> o.count]

Replay(o) ==
    LET view == Replayed(net.probe.ring, o.mark, View(o), ApplyEvent)
    IN  [o EXCEPT !.slots = view.slots, !.count = view.count, !.mark = net.probe.seq]

\* gang_zone_compat_reset.
ResetSlots(o) == [o EXCEPT !.slots = NoZones, !.count = 0, !.mark = 0, !.synced = FALSE]

Restarted == net.restart # 0 /\ net.restart # own.handled

\* A restart wipes the bridge's zones first, so that it ends in a full copy too.
Known == IF Restarted THEN [ResetSlots(own) EXCEPT !.handled = net.restart] ELSE own

Copies_AcrossGaps(o) == ~o.synced \/ net.probe.seq < o.mark

\* The ring has lost what comes next, or what comes last, or is behind the mark.
Copies(o) ==
    \/ ~o.synced \/ net.probe.seq < o.mark
    \/ Gap(net.probe.ring, o.mark) \/ MarkAfter(net.probe.ring, o.mark) # net.probe.seq

Refreshed(o) == IF Copies(o) THEN Resync(o) ELSE Replay(o)

\* A frame: the refresh after the pump, then the answer to the pump's last packet.
Update ==
    /\ net.link # "down"
    /\ own' = IF net.link = "lost" THEN ResetSlots(Refreshed(Known)) ELSE Refreshed(Known)
    /\ net' = [net EXCEPT !.link = IF @ = "lost" THEN "down" ELSE @]
    /\ pc' = "drawn" /\ UNCHANGED scene

\* A new attempt clears the bridge's zones, and connecting the adapter's.
Connect ==
    /\ net.link = "down"
    /\ net' = [net EXCEPT !.probe = ResetZones, !.restart = 0, !.link = "up"]
    /\ own' = ResetSlots(own)
    /\ pc' = "pump" /\ UNCHANGED scene

Next == OnZone \/ OnRestart \/ OnConnectionLost \/ Update \/ Connect

Spec == Init /\ [][Next]_vars

-----------------------------------------------------------------------------
Zones == {NoZone} \cup [base : Nat \ {0}, alt : Nat \ {0}]
Events == [seq : Nat, action : Actions, id : Ids, says : Nat \ {0}]
Tables == [Ids -> Zones]

TypeOK ==
    /\ net \in [probe : [seq : Nat, ring : Seq(Events), states : Tables], restart : Nat,
                generation : Nat, rpcs : Nat, link : {"up", "lost", "down"}]
    /\ own \in [synced : BOOLEAN, mark : Nat, slots : Tables, count : Nat, handled : Nat]
    /\ scene = "none" /\ pc \in {"pump", "drawn"}

\* When a frame is over the zones drawn are the server's, however many events the
\* ring has lost and whatever session they came from: replaying the ring and copying
\* the table come to the same thing.  The count, kept by increments and decrements
\* along the replay, is the number of zones drawn.
ZonesMirrored ==
    /\ pc = "drawn" => own.slots = net.probe.states
    /\ own.count = Active(own.slots)

-----------------------------------------------------------------------------
(* What the proofs rest on. *)

\* The ring ends with the newest event, and is behind it by its length.
RingEnds ==
    LET p == net.probe
    IN  /\ Len(p.ring) = IF p.seq < RingSize THEN p.seq ELSE RingSize
        /\ \A k \in 1 .. Len(p.ring) : p.ring[k].seq = p.seq - Len(p.ring) + k

Counts == own.handled <= net.generation /\ net.restart <= net.generation

\* A replay by a reader who knows k would catch up, unless the ring has lost what it needs.
CatchesUp(p, k) ==
    /\ k.mark <= p.seq
    /\ ~Gap(p.ring, k.mark) =>
         Replayed(p.ring, k.mark, View(k), ApplyEvent) = [slots |-> p.states, count |-> Active(p.states)]

\* A copy that is not about to be made again is of this session.
OfSession == own.synced /\ net.link = "up" /\ ~Restarted => CatchesUp(net.probe, own)

ZonesInv ==
    /\ TypeOK /\ RingEnds /\ Counts /\ OfSession /\ ZonesMirrored
    /\ net.link # "up" => net.probe = ResetZones
    /\ net.link = "down" => ~own.synced
=============================================================================
