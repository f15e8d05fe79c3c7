------------------------------- MODULE Overlay -------------------------------
(***************************************************************************)
(* What the library draws over GTA's picture with Direct3D: a hook of        *)
(* EndScene draws, a hook of Reset releases everything first.  The fonts and  *)
(* the pictures of text draws that show a model are made when they are first  *)
(* drawn; a picture is rendered with a camera in GTA's world and kept.        *)
(*                                                                         *)
(* In one of two modes EndScene only makes the pictures and a callback of     *)
(* GTA's frame draws them.  A reset within a reset goes to Windows untouched.  *)
(* Left out: the other overlays, sprites, the rectangles, removing the hooks.  *)
(***************************************************************************)
EXTENDS Integers, FiniteSets

CONSTANTS
    TextDraws,     \* text draws that show a model: 1 .. n
    RetryTicks,    \* how long a picture that failed is left alone
    MaxEvents, MaxFaults, MaxChanges, MaxRestarts    \* bounds

VARIABLES
    net,   \* the sequence of text-draw events, the sessions begun
    own,   \* text draws, the camera's surroundings, the fonts, the hooks, device lost
    env,   \* GTA's device and world, the mode, what is allocated, faults and changes
    pc     \* "frame", or "reset" while Windows resets the device

vars == <<net, own, env, pc>>

Ids == 1 .. TextDraws
Devices == {"d1", "d2"}
Worlds == {"w1", "w2"}
None == [device |-> "none"]

Empty == [active |-> FALSE, seq |-> 0, shown |-> 0, texture |-> None, resource |-> 0, retry |-> 0]

Init ==
    /\ net = [seq |-> 0, restarts |-> 0]
    /\ own = [slots |-> [i \in Ids |-> Empty], context |-> None, chat |-> "none", text |-> "none",
              hooked |-> FALSE, lost |-> FALSE]
    /\ env \in [device : {"d1"}, world : {"w1"}, mode : {"end_scene", "game_process"},
                alive : {[pictures |-> 0, contexts |-> 0, fonts |-> 0]}, faults : {0}, changes : {0}]
    /\ pc = "frame"

-----------------------------------------------------------------------------
(* Releasing.  s holds what drawing and releasing change. *)

Now == [slots |-> own.slots, context |-> own.context, chat |-> own.chat, text |-> own.text, alive |-> env.alive]

Keep(s, cost) ==
    /\ own' = [own EXCEPT !.slots = s.slots, !.context = s.context, !.chat = s.chat, !.text = s.text]
    /\ env' = [env EXCEPT !.alive = s.alive, !.faults = @ + cost]

Bare(slot) == [slot EXCEPT !.texture = None, !.resource = 0, !.retry = 0]
Held(slots) == Cardinality({i \in Ids : slots[i].texture # None})
One(there) == IF there THEN 1 ELSE 0

ReleaseSlot(s, i) ==
    [s EXCEPT !.slots[i] = Bare(@), !.alive.pictures = @ - One(s.slots[i].texture # None)]

ReleaseContext(s) == [s EXCEPT !.context = None, !.alive.contexts = @ - One(s.context # None)]

ReleaseAll(s) ==
    ReleaseContext([s EXCEPT !.slots = [i \in Ids |-> Bare(s.slots[i])], !.alive.pictures = @ - Held(s.slots)])

ReleaseFonts(s) ==
    LET r == ReleaseAll(s) IN [r EXCEPT !.text = "none", !.alive.fonts = @ - One(s.text # "none")]

\* Every font, and with them every picture.
ReleaseOverlay_KeepsPictures(s) ==
    [s EXCEPT !.chat = "none", !.text = "none", !.alive.fonts = @ - One(s.chat # "none") - One(s.text # "none")]

ReleaseOverlay(s) ==
    LET r == ReleaseFonts(s) IN [r EXCEPT !.chat = "none", !.alive.fonts = @ - One(s.chat # "none")]

-----------------------------------------------------------------------------
(* The text draws. *)

Event == net.seq < MaxEvents /\ net' = [net EXCEPT !.seq = @ + 1] /\ pc = "frame"

Show(i) ==
    /\ Event /\ UNCHANGED pc
    /\ LET r == ReleaseSlot(Now, i)
       IN  Keep([r EXCEPT !.slots[i].active = TRUE, !.slots[i].seq = net'.seq, !.slots[i].shown = net'.seq], 0)

\* Only the text is new, but the picture will be made again.
Edit(i) ==
    /\ Event /\ UNCHANGED <<pc, env>>
    /\ own' = IF own.slots[i].active THEN [own EXCEPT !.slots[i].seq = net'.seq] ELSE own

Hide(i) ==
    /\ Event /\ UNCHANGED pc
    /\ LET r == ReleaseSlot(Now, i) IN Keep([r EXCEPT !.slots[i].active = FALSE], 0)

\* The session ends or a connection begins: both count the events from 1 again.
Restart ==
    /\ net.restarts < MaxRestarts /\ net' = [seq |-> 0, restarts |-> net.restarts + 1]
    /\ pc = "frame" /\ UNCHANGED pc /\ Keep([ReleaseAll(Now) EXCEPT !.slots = [i \in Ids |-> Empty]], 0)

-----------------------------------------------------------------------------
(* Making a picture. *)

\* What may fail in a frame, one thing at most: the font, or the making of a text draw's
\* picture, or its drawing ("spoilt": Direct3D's state could not be put back).
Nothing == [at |-> 0, is |-> "nothing"]

Failures ==
    {Nothing, [at |-> 0, is |-> "font"]}
      \cup [at : Ids, is : {"not_ready", "context", "no_raster", "not_rendered", "not_drawn", "spoilt"}]

Possible == IF env.faults < MaxFaults THEN Failures ELSE {Nothing}

How(f, i) == IF f.at = i THEN f.is ELSE "nothing"

Here(device) == [device |-> device, world |-> env.world]

\* A light, a depth raster, a camera and its frame in GTA's world, or none of them.
EnsureContext(s, device, works) ==
    IF env.world = "none" \/ s.context = Here(device) THEN s
    ELSE LET r == IF s.context # None THEN ReleaseAll(s) ELSE s
         IN  IF works THEN [r EXCEPT !.context = Here(device), !.alive.contexts = @ + 1] ELSE r

\* The raster goes with its texture, and both if nothing was rendered into them.
Picture(s, device, i, made) ==
    IF made
    THEN [s EXCEPT !.slots[i].texture = [device |-> device, of |-> s.slots[i].shown],
                   !.slots[i].resource = s.slots[i].seq, !.slots[i].retry = 0, !.alive.pictures = @ + 1]
    ELSE s

MakePicture(s, device, i, how) ==
    IF how = "not_ready" THEN s
    ELSE LET c == EnsureContext(s, device, how # "context")
         IN  IF c.context = Here(device) /\ env.world # "none" /\ how # "no_raster"
             THEN Picture(c, device, i, how # "not_rendered") ELSE c

\* One of another device or of an older event is released first.
Prepare(s, device, i, how) ==
    LET a == IF s.context # None /\ s.context.device # device THEN ReleaseAll(s) ELSE s
        b == IF a.slots[i].texture # None /\ a.slots[i].resource # a.slots[i].seq THEN ReleaseSlot(a, i) ELSE a
        c == MakePicture(b, device, i, how)
    IN  IF b.slots[i].texture # None \/ b.slots[i].retry > 0 THEN b
        ELSE IF c.slots[i].texture = None THEN [c EXCEPT !.slots[i].retry = RetryTicks] ELSE c

-----------------------------------------------------------------------------
(* Drawing. *)

Drawable(s, device, i) ==
    /\ s.slots[i].texture # None /\ s.slots[i].retry = 0
    /\ s.context # None => s.context.device = device
    /\ s.slots[i].resource # 0 /\ s.slots[i].resource = s.slots[i].seq

\* A picture whose drawing spoilt the state is made again by the next EndScene.
DrawCached(s, device, i, how) ==
    IF ~Drawable(s, device, i) \/ how \notin {"not_drawn", "spoilt"} THEN s
    ELSE [s EXCEPT !.slots[i].retry = RetryTicks, !.slots[i].resource = IF how = "spoilt" THEN 0 ELSE @]

DrawSlot(s, device, i, f) ==
    LET p == Prepare(s, device, i, How(f, i))
    IN  IF env.mode = "game_process" THEN p ELSE DrawCached(p, device, i, How(f, i))

DrawSlots(s, device, f) ==
    LET after[i \in 0 .. TextDraws] ==
          IF i = 0 THEN s
          ELSE IF after[i - 1].slots[i].active THEN DrawSlot(after[i - 1], device, i, f) ELSE after[i - 1]
    IN  after[TextDraws]

EnsureChatFont(s, device, works) ==
    IF s.chat = device THEN s
    ELSE LET r == ReleaseOverlay(s) IN IF works THEN [r EXCEPT !.chat = device, !.alive.fonts = @ + 1] ELSE r

EnsureTextFont(s, device) ==
    LET r == IF s.text \notin {"none", device} THEN ReleaseFonts(s) ELSE s
    IN  IF r.text = device THEN r ELSE [r EXCEPT !.text = device, !.alive.fonts = @ + 1]

Active == {i \in Ids : own.slots[i].active}

\* The scoreboard hides the text draws; some of them show text as well.
EndScene ==
    /\ pc = "frame" /\ own.hooked /\ ~own.lost
    /\ \E f \in Possible, scoreboard \in BOOLEAN, plain \in BOOLEAN :
         LET c == EnsureChatFont(Now, env.device, f.is # "font")
             t == IF plain THEN EnsureTextFont(c, env.device) ELSE c
         IN  Keep(IF c.chat = "none" \/ Active = {} \/ scoreboard THEN c ELSE DrawSlots(t, env.device, f), One(f # Nothing))
    /\ UNCHANGED <<net, pc>>

Spoils(j, f) == Drawable(Now, env.device, j) /\ How(f, j) = "spoilt"

\* It stops at a drawing that spoilt the state.
GameProcess ==
    /\ pc = "frame" /\ env.mode = "game_process" /\ Active # {}
    /\ \E f \in Possible :
         LET after[i \in 0 .. TextDraws] ==
               IF i = 0 THEN Now
               ELSE IF own.slots[i].active /\ \A j \in 1 .. (i - 1) : ~Spoils(j, f)
                    THEN DrawCached(after[i - 1], env.device, i, How(f, i)) ELSE after[i - 1]
         IN  Keep(after[TextDraws], One(f # Nothing))
    /\ UNCHANGED <<net, pc>>

-----------------------------------------------------------------------------
(* The device. *)

\* Both entries of the device's table, or on a refusal of Windows neither; when there is
\* something to draw.
InstallHook == ~own.hooked /\ own' = [own EXCEPT !.hooked = TRUE] /\ UNCHANGED <<net, env, pc>>

ResetBegins ==
    /\ pc = "frame" /\ own.hooked /\ pc' = "reset"
    /\ LET s == ReleaseOverlay(Now)
       IN  /\ own' = [own EXCEPT !.slots = s.slots, !.context = s.context, !.chat = s.chat, !.text = s.text,
                                 !.lost = TRUE]
           /\ env' = [env EXCEPT !.alive = s.alive]
    /\ UNCHANGED net

\* After a failure GTA tries again, and until then nothing is drawn.
ResetEnds ==
    /\ pc = "reset" /\ pc' = "frame"
    /\ \/ own' = [own EXCEPT !.lost = FALSE]
       \/ UNCHANGED own
    /\ UNCHANGED <<net, env>>

\* /fontsize
SetFontSize == pc = "frame" /\ Keep(ReleaseOverlay(Now), 0) /\ UNCHANGED <<net, pc>>

-----------------------------------------------------------------------------
(* The surroundings. *)

Cooled(slot) == [slot EXCEPT !.retry = IF @ > 0 THEN @ - 1 ELSE 0]

Tick ==
    /\ \E i \in Ids : own.slots[i].retry > 0
    /\ own' = [own EXCEPT !.slots = [i \in Ids |-> Cooled(own.slots[i])]]
    /\ UNCHANGED <<net, env, pc>>

Changes ==
    /\ pc = "frame" /\ env.changes < MaxChanges /\ UNCHANGED <<net, own, pc>>
    /\ \/ \E d \in Devices \ {env.device} : env' = [env EXCEPT !.device = d, !.changes = @ + 1]
       \/ \E w \in (Worlds \cup {"none"}) \ {env.world} : env' = [env EXCEPT !.world = w, !.changes = @ + 1]

Next ==
    \/ \E i \in Ids : Show(i) \/ Edit(i) \/ Hide(i)
    \/ Restart \/ EndScene \/ GameProcess \/ InstallHook \/ ResetBegins \/ ResetEnds \/ SetFontSize
    \/ Tick \/ Changes

Spec == Init /\ [][Next]_vars

-----------------------------------------------------------------------------
TypeOK ==
    /\ net.seq \in 0 .. MaxEvents /\ net.restarts \in 0 .. MaxRestarts
    /\ \A i \in Ids : /\ own.slots[i].active \in BOOLEAN /\ own.slots[i].retry \in 0 .. RetryTicks
                      /\ own.slots[i].seq \in 0 .. MaxEvents /\ own.slots[i].resource \in 0 .. MaxEvents
                      /\ own.slots[i].texture # None => own.slots[i].texture.device \in Devices
    /\ own.context # None => own.context.device \in Devices /\ own.context.world \in Worlds
    /\ own.chat \in Devices \cup {"none"} /\ own.text \in Devices \cup {"none"}
    /\ env.faults \in 0 .. MaxFaults /\ env.changes \in 0 .. MaxChanges /\ pc \in {"frame", "reset"}

\* Windows resets a device only when nothing of the library's is left on it, and nothing
\* is made while the device is lost: else Reset fails for good (chat_compat_reset_hook).
ResetFindsNothing ==
    pc = "reset" \/ own.lost => own.chat = "none" /\ own.text = "none" /\ env.alive = [pictures |-> 0, contexts |-> 0, fonts |-> 0]

\* Whatever was made is still known to a text draw or a font, and so will be released:
\* over hidden, shown and edited text draws, failures, new devices and sessions.
PicturesReturn ==
    /\ env.alive.pictures = Held(own.slots) /\ env.alive.contexts = One(own.context # None)
    /\ env.alive.fonts = One(own.chat # "none") + One(own.text # "none")

\* A picture that would be drawn shows what the text draw shows now and lies on the
\* device GTA draws with, even in GTA's own frame before the next EndScene; the camera
\* of every picture that is kept is on the picture's device (Drawable, EnsureContext).
PictureIsCurrent ==
    \A i \in Ids : own.slots[i].texture # None =>
       /\ own.context # None /\ own.context.device = own.slots[i].texture.device
       /\ own.slots[i].active /\ own.slots[i].texture.of = own.slots[i].shown
       /\ Drawable(own, env.device, i) => own.slots[i].texture.device = env.device
-----------------------------------------------------------------------------
(* What the proofs rest on. *)

Texture == [device : Devices, of : 0 .. MaxEvents]
Camera == [device : Devices, world : Worlds]
Slot == [active : BOOLEAN, seq : 0 .. MaxEvents, shown : 0 .. MaxEvents, texture : Texture \cup {None},
         resource : 0 .. MaxEvents, retry : 0 .. RetryTicks]
Screen == [slots : [Ids -> Slot], context : Camera \cup {None}, chat : Devices \cup {"none"},
           text : Devices \cup {"none"}, alive : [pictures : Int, contexts : Int, fonts : Int]]

\* What there is to be released, kind by kind.
Counts(s) ==
    [pictures |-> Held(s.slots), contexts |-> One(s.context # None),
     fonts |-> One(s.chat # "none") + One(s.text # "none")]

\* A picture belongs to a text draw that is shown and to the camera there is.
PicturesFit(s) ==
    \A i \in Ids : s.slots[i].texture # None =>
       /\ s.context # None /\ s.context.device = s.slots[i].texture.device
       /\ s.slots[i].active /\ s.slots[i].texture.of = s.slots[i].shown

\* What every operator that draws or releases keeps.
Whole(s) == s \in Screen /\ s.alive = Counts(s) /\ PicturesFit(s)

Cleared(s) ==
    s.chat = "none" /\ s.text = "none" /\ s.context = None /\ \A i \in Ids : s.slots[i].texture = None

Fields ==
    /\ net \in [seq : 0 .. MaxEvents, restarts : 0 .. MaxRestarts]
    /\ DOMAIN own = {"slots", "context", "chat", "text", "hooked", "lost"}
    /\ DOMAIN env = {"device", "world", "mode", "alive", "faults", "changes"}
    /\ env.device \in Devices /\ env.world \in Worlds \cup {"none"}
    /\ env.faults \in 0 .. MaxFaults /\ env.changes \in 0 .. MaxChanges
    /\ pc \in {"frame", "reset"}

\* From the beginning of a reset until one has worked nothing is made.
IInv == Fields /\ Whole(Now) /\ (pc = "reset" => own.lost) /\ (own.lost => Cleared(own))
=============================================================================
