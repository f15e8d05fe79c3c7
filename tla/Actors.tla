------------------------------- MODULE Actors -------------------------------
(***************************************************************************)
(* The server's actors (peds that nobody plays).  The adapter queues each   *)
(* RPC in one ring and keeps the newest state of every actor; the bridge    *)
(* keeps a desired state for each, brought up to date from the events or,   *)
(* after a gap, from the adapter's states.  The graphics callback, another  *)
(* thread than some of those that update, brings GTA's peds to the desired   *)
(* states: what is still to be done is told by comparing revisions, and      *)
(* what GTA does not confirm is tried again.                                *)
(*                                                                         *)
(* What an RPC says is <<session, event>>; a revision is the number of the   *)
(* event alone.  A place stands for position, facing, health and            *)
(* invulnerability, which have a revision each.  Left out: positions that    *)
(* the adapter accepts and the bridge refuses, the animation "SEX".          *)
(***************************************************************************)
EXTENDS FiniteSets, Ring

CONSTANTS
    Ids,          \* actor ids: 1 .. n here, 0 .. 999 in the code
    RingSize,     \* SAMP_RAKNET_ACTOR_EVENT_RING (128 in the code)
    Budget,       \* SAMP_ACTOR_COMPAT_CREATE_BUDGET (4 in the code)
    MaxEvents,    \* bound: RPCs, over the sessions
    MaxRestarts   \* bound: game-mode restarts

VARIABLES net, own, scene, pc   \* adapter; bridge and GTA; scene; "pump" since the last RPC

vars == <<net, own, scene, pc>>

Nothing == <<0, 0>>
NoActor == [active |-> FALSE, revision |-> 0, made |-> Nothing, at |-> Nothing, plays |-> Nothing]
NoWish == [active |-> FALSE, create |-> 0, place |-> 0, anim |-> 0,
           made |-> Nothing, at |-> Nothing, plays |-> Nothing]
NoPed == [spawned |-> FALSE, create |-> 0, place |-> 0, anim |-> 0,
          made |-> Nothing, at |-> Nothing, plays |-> Nothing]

ResetActors == [seq |-> 0, ring |-> <<>>, states |-> [i \in Ids |-> NoActor]]

Init ==
    /\ net = [probe |-> ResetActors, restart |-> 0, rpcs |-> 0]
    /\ own = [mark |-> 0, wish |-> [i \in Ids |-> NoWish], peds |-> [i \in Ids |-> NoPed], handled |-> 0]
    /\ scene = "none" /\ pc = "pump"

-----------------------------------------------------------------------------
(* The adapter's handlers. *)

Receives == net.rpcs < MaxEvents

Says == <<net.restart, net.probe.seq + 1>>

\* queue_actor_event, and the state that the RPC leaves the actor in.
Queue(action, id, state) ==
    LET seq == net.probe.seq + 1
    IN  /\ net' = [net EXCEPT !.rpcs = @ + 1,
                     !.probe = [seq |-> seq,
                                ring |-> Push(@.ring, RingSize,
                                              [seq |-> seq, action |-> action, id |-> id, says |-> Says]),
                                states |-> [@.states EXCEPT ![id] = [state EXCEPT !.revision = seq]]]]
        /\ pc' = "pump" /\ UNCHANGED <<own, scene>>

OnCreate ==
    Receives /\ \E id \in Ids :
        Queue("create", id, [NoActor EXCEPT !.active = TRUE, !.made = Says, !.at = Says])

\* The other RPCs say nothing of an actor that is not there.
Present(id) == net.probe.states[id].active

OnDestroy == Receives /\ \E id \in Ids : Present(id) /\ Queue("destroy", id, NoActor)

OnAnimate ==
    Receives /\ \E id \in Ids :
        Present(id) /\ Queue("animate", id, [net.probe.states[id] EXCEPT !.plays = Says])

OnClear ==
    Receives /\ \E id \in Ids :
        Present(id) /\ Queue("clear", id, [net.probe.states[id] EXCEPT !.plays = Nothing])

OnPlace ==
    Receives /\ \E id \in Ids :
        Present(id) /\ Queue("place", id, [net.probe.states[id] EXCEPT !.at = Says])

OnRestart ==
    /\ net.restart < MaxRestarts
    /\ net' = [net EXCEPT !.probe = ResetActors, !.restart = @ + 1]
    /\ pc' = "pump" /\ UNCHANGED <<own, scene>>

-----------------------------------------------------------------------------
(* The desired states. *)

\* What an event makes of its actor's desired state.
Heard(w, e) ==
    IF e.action = "create"
    THEN [active |-> TRUE, create |-> e.seq, place |-> e.seq, anim |-> e.seq,
          made |-> e.says, at |-> e.says, plays |-> Nothing]
    ELSE IF e.action = "destroy" THEN [w EXCEPT !.active = FALSE, !.plays = Nothing]
    ELSE IF ~w.active THEN w
    ELSE CASE e.action = "animate" -> [w EXCEPT !.anim = e.seq, !.plays = e.says]
           [] e.action = "clear" -> [w EXCEPT !.anim = e.seq, !.plays = Nothing]
           [] e.action = "place" -> [w EXCEPT !.place = e.seq, !.at = e.says]

ApplyEvent(wish, e) == [wish EXCEPT ![e.id] = Heard(@, e)]

\* The adapter's state becomes the wish; every revision is that of the state.
Authoritative(s) ==
    IF ~s.active THEN NoWish
    ELSE [active |-> TRUE, create |-> s.revision, place |-> s.revision, anim |-> s.revision,
          made |-> s.made, at |-> s.at, plays |-> s.plays]

Resync(o) ==
    [o EXCEPT !.mark = net.probe.seq, !.wish = [i \in Ids |-> Authoritative(net.probe.states[i])]]

\* The ring always ends with the newest event, so that it is never behind the states.
Replay(o) ==
    [o EXCEPT !.wish = Replayed(net.probe.ring, o.mark, @, ApplyEvent),
              !.mark = MarkAfter(net.probe.ring, @)]

\* The peds wait for the graphics callback; so do the revisions they were made with.
ResetPool(o) == [o EXCEPT !.mark = 0, !.wish = [i \in Ids |-> NoWish]]

Restarted == net.restart # own.handled
Known == IF Restarted THEN [ResetPool(own) EXCEPT !.handled = net.restart] ELSE own

Update ==
    /\ own' = IF Gap(net.probe.ring, Known.mark) THEN Resync(Known) ELSE Replay(Known)
    /\ scene' = (IF Restarted THEN "none" ELSE scene)
    /\ pc' = "drawn" /\ UNCHANGED net

-----------------------------------------------------------------------------
(* The graphics callback.  works: what GTA does and confirms this time.     *)

DestroyPed_KeepsRevisions(p, works) ==
    IF "destroy" \in works THEN [p EXCEPT !.spawned = FALSE, !.made = Nothing, !.at = Nothing] ELSE p

DestroyPed(p, works) == IF "destroy" \in works THEN NoPed ELSE p

\* A ped without an animation has nothing to clear.
CreatePed(p, w, works) ==
    [p EXCEPT !.spawned = TRUE, !.create = w.create, !.made = w.made, !.plays = Nothing,
              !.at = IF "place" \in works THEN w.at ELSE Nothing,
              !.place = IF "place" \in works THEN w.place ELSE @,
              !.anim = IF w.anim = w.create /\ w.plays = Nothing THEN w.anim ELSE @]

\* An animation is tried once, whether GTA has its library or not; clearing is confirmed.
AnimatePed(p, w, works) ==
    IF p.anim = w.anim \/ (w.plays = Nothing /\ "animate" \notin works) THEN p
    ELSE [p EXCEPT !.anim = w.anim, !.plays = IF "animate" \in works THEN w.plays ELSE @]

PlacePed(p, w, works) ==
    IF p.place = w.place \/ "place" \notin works THEN p ELSE [p EXCEPT !.place = w.place, !.at = w.at]

\* One actor: destroy what is not wanted, or not this one; create; then what has changed.
ProcessPed(p, w, works, mayCreate) ==
    LET stale == p.spawned /\ (~w.active \/ p.create # w.create)
        kept == IF stale THEN DestroyPed(p, works) ELSE p
        made == IF w.active /\ ~kept.spawned /\ mayCreate THEN CreatePed(kept, w, works) ELSE kept
    IN  IF ~w.active \/ ~made.spawned \/ (stale /\ kept.spawned) THEN made
        ELSE PlacePed(AnimatePed(made, w, works), w, works)

\* Not the actors whose wish another thread is writing (read), and no more than
\* Budget creations (able), when the scene and the model are there.
Process ==
    \E works \in SUBSET {"destroy", "place", "animate"}, read \in SUBSET Ids, able \in SUBSET Ids :
        /\ Cardinality(able) <= Budget /\ (scene = "spawned" \/ able = {})
        /\ own' = [own EXCEPT !.peds = [i \in Ids |->
                     IF i \in read THEN ProcessPed(@[i], own.wish[i], works, i \in able) ELSE @[i]]]
        /\ UNCHANGED <<net, scene, pc>>

NextScene == scene # "spawned" /\ scene' = "spawned" /\ UNCHANGED <<net, own, pc>>

Next ==
    \/ OnCreate \/ OnDestroy \/ OnAnimate \/ OnClear \/ OnPlace \/ OnRestart
    \/ Update \/ Process \/ NextScene

Spec == Init /\ [][Next]_vars

-----------------------------------------------------------------------------
TypeOK ==
    /\ pc \in {"pump", "drawn"} /\ scene \in {"none", "spawned"}
    /\ net.restart \in 0 .. MaxRestarts /\ own.handled \in 0 .. net.restart
    /\ own.mark \in 0 .. MaxEvents
    /\ \A i \in Ids : own.wish[i].create \in 0 .. MaxEvents /\ own.peds[i].create \in 0 .. MaxEvents

\* Nothing is left to do for the actor, as far as the revisions tell.
Settled(i) ==
    LET p == own.peds[i]  w == own.wish[i]
    IN  p.spawned /\ w.active /\ p.create = w.create /\ p.place = w.place /\ p.anim = w.anim

\* After an update the wishes are the server's actors, whichever events the ring
\* has lost; and a settled ped that this session has made is the server's actor,
\* where the server wants it, and plays no animation the server has cleared.
ActorsAgree ==
    pc = "drawn" =>
        \A i \in Ids :
            LET s == net.probe.states[i]  w == own.wish[i]  p == own.peds[i]
            IN  /\ w.active = s.active
                /\ s.active => w.made = s.made /\ w.at = s.at /\ w.plays = s.plays
                /\ Settled(i) /\ p.made[1] = net.restart =>
                     p.made = s.made /\ p.at = s.at /\ (s.plays = Nothing => p.plays = Nothing)

\* The reset of a session leaves the peds to the graphics callback ("actor: logical_reset
\* ... physical_destroy=graphics_tick"): no settled ped is one of an earlier mode.
ActorsOfMode ==
    pc = "drawn" =>
        \A i \in Ids : Settled(i) => own.peds[i].made = net.probe.states[i].made

-----------------------------------------------------------------------------
(* What the proofs rest on. *)

Tellings == Nat \X Nat
Events == [seq : Nat, action : {"create", "destroy", "animate", "clear", "place"}, id : Ids, says : Tellings]
States == [active : BOOLEAN, revision : Nat, made : Tellings, at : Tellings, plays : Tellings]
Wishes == [active : BOOLEAN, create : Nat, place : Nat, anim : Nat,
           made : Tellings, at : Tellings, plays : Tellings]
Peds == [spawned : BOOLEAN, create : Nat, place : Nat, anim : Nat,
         made : Tellings, at : Tellings, plays : Tellings]

Fields ==
    /\ net \in [probe : [seq : Nat, ring : Seq(Events), states : [Ids -> States]], restart : Nat, rpcs : Nat]
    /\ own \in [mark : Nat, wish : [Ids -> Wishes], peds : [Ids -> Peds], handled : Nat]
    /\ pc \in {"pump", "drawn"} /\ scene \in {"none", "spawned"}

\* The ring ends with the newest event, and is behind it by its length.
RingEnds ==
    LET p == net.probe
    IN  /\ Len(p.ring) = IF p.seq < RingSize THEN p.seq ELSE RingSize
        /\ \A k \in 1 .. Len(p.ring) : p.ring[k].seq = p.seq - Len(p.ring) + k

Counts ==
    /\ net.probe.seq <= net.rpcs /\ net.rpcs <= MaxEvents
    /\ own.handled <= net.restart /\ net.restart <= MaxRestarts
    /\ own.mark <= MaxEvents
    /\ own.handled = net.restart => own.mark <= net.probe.seq
    /\ pc = "drawn" => own.handled = net.restart /\ own.mark = net.probe.seq

\* An actor of the server is of this session.
StateOk(s) == s.revision <= net.probe.seq /\ (s.active => s.revision > 0 /\ s.made[1] = net.restart)

\* A wish is of the session of the last update.
WishOk(w) ==
    /\ w.create <= own.mark /\ w.place <= own.mark /\ w.anim <= own.mark
    /\ w.active => w.place > 0 /\ w.made[1] = own.handled

\* A ped of this session was made and changed at events that were seen.
PedOk(p) ==
    /\ p.create <= MaxEvents /\ p.made[1] <= own.handled
    /\ ~p.spawned => p = NoPed
    /\ p.made[1] = own.handled => p.create <= own.mark /\ p.place <= own.mark /\ p.anim <= own.mark

\* The same revision means the same actor, place and, when there is none, animation.
WishFits(w, s) ==
    own.handled = net.restart /\ s.active /\ w.active =>
        /\ w.create = s.revision => w.made = s.made
        /\ w.place = s.revision => w.at = s.at
        /\ w.anim = s.revision => w.plays = s.plays

PedFits(p, s) ==
    own.handled = net.restart /\ p.spawned /\ p.made[1] = own.handled /\ s.active =>
        /\ p.create = s.revision => p.made = s.made
        /\ p.place = s.revision => p.at = s.at
        /\ p.anim = s.revision /\ s.plays = Nothing => p.plays = Nothing

PedFollows(p, w) ==
    p.spawned /\ p.made[1] = own.handled /\ w.active =>
        /\ p.create = w.create => p.made = w.made
        /\ p.place = w.place => p.at = w.at
        /\ p.anim = w.anim /\ w.plays = Nothing => p.plays = Nothing

ActorOk(i) ==
    LET s == net.probe.states[i]  w == own.wish[i]  p == own.peds[i]
    IN  StateOk(s) /\ WishOk(w) /\ PedOk(p) /\ WishFits(w, s) /\ PedFits(p, s) /\ PedFollows(p, w)

\* The wish is the server's actor.
Right(w, s) ==
    w.active = s.active /\ (s.active => w.made = s.made /\ w.at = s.at /\ w.plays = s.plays)

Caught(wish, states) == \A i \in Ids : Right(wish[i], states[i])

\* A replay by a reader who knows k would catch up, unless the ring has lost what it needs.
CatchesUp(p, k) == ~Gap(p.ring, k.mark) => Caught(Replayed(p.ring, k.mark, k.wish, ApplyEvent), p.states)

ActorsInv == Fields /\ RingEnds /\ Counts /\ CatchesUp(net.probe, Known) /\ \A i \in Ids : ActorOk(i)
=============================================================================
