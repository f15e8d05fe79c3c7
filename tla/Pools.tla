-------------------------------- MODULE Pools --------------------------------
(***************************************************************************)
(* The mirrors of the server's entities, checked together.  They share the  *)
(* adapter, the snapshot and the frame but none reads another's state, so    *)
(* a behaviour of this module is one of its mirror named by part.           *)
(***************************************************************************)
EXTENDS Naturals, FiniteSets

CONSTANTS Ids, Addresses, Handles, RingSize, Cap, Budget, MaxEvents, MaxRestarts,
          DecorRing, MaxRecords, MaxDecor   \* of Decor, whose states are fewer

ASSUME PoolsAssumption ==
    /\ RingSize \in Nat \ {0} /\ Cap \in Nat /\ Budget \in Nat \ {0}
    /\ DecorRing \in Nat \ {0} /\ MaxRecords \in Nat /\ MaxDecor \in Nat
    /\ MaxEvents \in Nat /\ MaxRestarts \in Nat /\ 0 \notin Ids \cup Addresses \cup Handles
    /\ Ids \subseteq Nat /\ IsFiniteSet(Ids) /\ IsFiniteSet(Handles)
    /\ Cardinality(Ids) <= Cardinality(Handles)   \* GTA does not run out of handles

VARIABLES part, net, own, scene, pc

vars == <<part, net, own, scene, pc>>

Obj == INSTANCE Objects
Veh == INSTANCE Vehicles
Act == INSTANCE Actors
Ply == INSTANCE RemotePlayers
Zon == INSTANCE GangZones
Dec == INSTANCE Decor WITH RingSize <- DecorRing, MaxEvents <- MaxDecor

Init ==
    \/ part = "objects" /\ Obj!Init
    \/ part = "vehicles" /\ Veh!Init
    \/ part = "actors" /\ Act!Init
    \/ part = "players" /\ Ply!Init
    \/ part = "zones" /\ Zon!Init
    \/ part = "decor" /\ Dec!Init

Next ==
    \/ part = "objects" /\ Obj!Next /\ UNCHANGED part
    \/ part = "vehicles" /\ Veh!Next /\ UNCHANGED part
    \/ part = "actors" /\ Act!Next /\ UNCHANGED part
    \/ part = "players" /\ Ply!Next /\ UNCHANGED part
    \/ part = "zones" /\ Zon!Next /\ UNCHANGED part
    \/ part = "decor" /\ Dec!Next /\ UNCHANGED part

Spec == Init /\ [][Next]_vars

\* The types of every mirror.
TypeOK ==
    /\ part = "objects" => Obj!TypeOK
    /\ part = "vehicles" => Veh!TypeOK
    /\ part = "actors" => Act!TypeOK
    /\ part = "players" => Ply!TypeOK
    /\ part = "zones" => Zon!TypeOK
    /\ part = "decor" => Dec!TypeOK

\* Objects!ObjectsAgree, MaterialsAgree: after a frame the pool holds the server's
\* objects, and they have their newest materials and no others.
ObjectsAgree == part = "objects" => Obj!ObjectsAgree /\ Obj!MaterialsAgree

\* Vehicles!VehiclesAgree: after a frame the pool holds the server's vehicles.
VehiclesAgree == part = "vehicles" => Veh!VehiclesAgree

\* Actors!ActorsAgree: after an update the wishes are the server's actors.
ActorsAgree == part = "actors" => Act!ActorsAgree

\* RemotePlayers!PlayersAgree: after a frame the pool holds the server's players.
PlayersAgree == part = "players" => Ply!PlayersAgree

\* GangZones!ZonesMirrored: after a frame the zones drawn are the server's, and counted.
ZonesMirrored == part = "zones" => Zon!ZonesMirrored

\* Decor!DecorAgrees: icons, labels, attachments and buildings are as the server said.
DecorAgrees == part = "decor" => Dec!DecorAgrees

\* What the proofs rest on.
ActorsInv == part = "actors" => Act!ActorsInv
VehiclesInv == part = "vehicles" => Veh!VehiclesInv
ZonesInv == part = "zones" => Zon!ZonesInv
PlayersInv == part = "players" => Ply!PlayersInv
DecorInv == part = "decor" => Dec!DecorInv /\ Dec!Unexcused /\ Dec!Survives
=============================================================================
