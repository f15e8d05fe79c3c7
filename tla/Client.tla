-------------------------------- MODULE Client --------------------------------
(***************************************************************************)
(* The parts of the library that work beside the mirrors: its start and     *)
(* stop, its hooks in GTA, its input, the packets about its own player, the  *)
(* archive, the models of its own, the sockets.  None reads another's state  *)
(* beyond what each module says of its surroundings, so a behaviour of this  *)
(* module is one of the part named.                                         *)
(***************************************************************************)
EXTENDS Naturals

CONSTANTS ReleaseFrames, Interval, Wrap, Slots, FakeHandles, Threads,
          PendingMax, ReloadLimit, Images, TimeStore, Addresses, MaxSockets,
          TextDraws, RetryTicks,
          MaxTicks, MaxEvents, MaxShots, MaxAsks, MaxChanges, MaxFaults, MaxRestarts

ASSUME ClientAssumption ==
    /\ ReleaseFrames \in Nat \ {0} /\ Interval \in Nat \ {0} /\ Wrap \in Nat /\ Interval < Wrap
    /\ MaxTicks \in Nat /\ MaxTicks < Wrap
    /\ Slots \in Nat \ {0} /\ FakeHandles \in Nat /\ Slots < FakeHandles
    /\ PendingMax \in Nat \ {0} /\ ReloadLimit \in Nat /\ Images \in Nat \ {0} /\ TimeStore \in Nat
    /\ Addresses \in Nat \ {0} /\ MaxSockets \in Nat
    /\ TextDraws \in Nat /\ RetryTicks \in Nat \ {0} /\ MaxChanges \in Nat
    /\ MaxAsks \in Nat /\ MaxFaults \in Nat /\ MaxEvents \in Nat /\ MaxShots \in Nat /\ MaxRestarts \in Nat

VARIABLES part, net, own, env, pc

vars == <<part, net, own, env, pc>>

Inp == INSTANCE Input
Lch == INSTANCE Launch
Hks == INSTANCE Hooks
Snc == INSTANCE LocalSync
Arc == INSTANCE ArchiveFs
Ast == INSTANCE Assets
Skt == INSTANCE Sockets
Ovl == INSTANCE Overlay

Init ==
    \/ part = "input" /\ Inp!Init
    \/ part = "launch" /\ Lch!Init
    \/ part = "hooks" /\ Hks!Init
    \/ part = "sync" /\ Snc!Init
    \/ part = "archive" /\ Arc!Init
    \/ part = "assets" /\ Ast!Init
    \/ part = "sockets" /\ Skt!Init
    \/ part = "overlay" /\ Ovl!Init

Next ==
    \/ part = "input" /\ Inp!Next /\ UNCHANGED part
    \/ part = "launch" /\ Lch!Next /\ UNCHANGED part
    \/ part = "hooks" /\ Hks!Next /\ UNCHANGED part
    \/ part = "sync" /\ Snc!Next /\ UNCHANGED part
    \/ part = "archive" /\ Arc!Next /\ UNCHANGED part
    \/ part = "assets" /\ Ast!Next /\ UNCHANGED part
    \/ part = "sockets" /\ Skt!Next /\ UNCHANGED part
    \/ part = "overlay" /\ Ovl!Next /\ UNCHANGED part

Spec == Init /\ [][Next]_vars

\* The types of every part.
TypeOK ==
    /\ part = "input" => Inp!TypeOK
    /\ part = "launch" => Lch!TypeOK
    /\ part = "hooks" => Hks!TypeOK
    /\ part = "sync" => Snc!TypeOK
    /\ part = "archive" => Arc!TypeOK
    /\ part = "assets" => Ast!TypeOK
    /\ part = "sockets" => Skt!TypeOK
    /\ part = "overlay" => Ovl!TypeOK

\* Input!DialogsAgree: after the refresh the screen shows the probe's dialog, menu and
\* editing, and no dialog just where the answer to the one before took it along.
DialogsAgree == part = "input" => Inp!DialogsAgree

\* Input!MouseHasOwner, ControlsReturn: the mouse is held for a reason and shown while it
\* is held, and GTA gets its controls back.
InputGivenBack == part = "input" => Inp!MouseHasOwner /\ Inp!ControlsReturn

\* Launch!NothingLeaks, Sockets!SocketsReturn, Overlay!PicturesReturn: what a start, a
\* connection or a text draw has taken, its rollback, its failing path, the stop or the
\* end of the text draw gives back.
NothingLeaks ==
    /\ part = "launch" => Lch!NothingLeaks
    /\ part = "sockets" => Skt!SocketsReturn
    /\ part = "overlay" => Ovl!PicturesReturn

\* Launch!ManagerMadeOnce, Sockets!ResolverIsReady: two threads make one net manager, or
\* one each where the monitor has no guard, and nobody uses the resolver before it is there.
MadeOnce ==
    /\ part = "launch" => Lch!ManagerMadeOnce
    /\ part = "sockets" => Skt!ResolverIsReady

\* Hooks!HookIsSafe: until the DLL is unloaded GTA never runs into a hook whose code is
\* not there, but for the zones' two calls; the weapon entries not afterwards either.
HookIsSafe == part = "hooks" => Hks!HookIsSafe

\* Hooks!OthersKept, ArchiveFs!TableIsWhole: the hooks that look keep the patches of other
\* mods; the import table is taken as a whole and given back as far as its pages let
\* themselves be written.
PatchesBehave ==
    /\ part = "hooks" => Hks!OthersKept
    /\ part = "archive" => Arc!TableIsWhole

\* LocalSync!ShotsOnce, DeathReported: no shot and no death is reported twice.
ReportedOnce == part = "sync" => Snc!ShotsOnce /\ Snc!DeathReported

\* LocalSync!RateHonored: packets of a kind keep their distance.
RateHonored == part = "sync" => Snc!RateHonored

\* LocalSync!SpectatesAsTold: the player spectates as the newest toggle says, unless its
\* number is that of an earlier session's last.
SpectatesAsTold == part = "sync" => Snc!SpectatesAsTold

\* ArchiveFs!FilesKeepPlace: each open file keeps its place.
FilesKeepPlace == part = "archive" => Arc!FilesKeepPlace

\* Assets!ModelsUsable, TablesAgree, PreviewOpensGate: a model that is there has its place
\* on the disk and its collision, GTA's tables and the library's notes of them agree, and
\* a text draw's model is registered before the scene is there.
ModelsUsable == part = "assets" => Ast!ModelsUsable /\ Ast!TablesAgree /\ Ast!PreviewOpensGate

\* Overlay!ResetFindsNothing, PictureIsCurrent: nothing of the library's is in the way of a
\* reset of the device, and no picture is drawn that is of another device or another time.
PicturesBehave == part = "overlay" => Ovl!ResetFindsNothing /\ Ovl!PictureIsCurrent
=============================================================================
