------------------------------ MODULE LocalSync ------------------------------
(***************************************************************************)
(* What the client tells the server about its own player: the packets of    *)
(* the session bridge, each on a timer of its own, the shots and wounds that *)
(* two hooks in GTA report while it simulates, the poller of the ammunition  *)
(* that stands in for one of them, the death, and the end of a spawn when a  *)
(* class is wanted after it.                                                *)
(*                                                                         *)
(* Left out: what the packets say, a second gun (the poller starts anew with *)
(* it), whom a blow or a shot meets (any answer is possible), and a frame    *)
(* without a ped.                                                           *)
(***************************************************************************)
EXTENDS Integers

CONSTANTS
    Interval,      \* the send rates and the cooldowns, in ticks
    Wrap,          \* GetTickCount is modulo this
    MaxTicks,      \* bound: ticks in all (below Wrap, so that none is mistaken)
    MaxEvents,     \* bound: what the server says, in all
    MaxShots,      \* bound: shots fired
    MaxRestarts    \* bound: restarts and reconnections

VARIABLES
    net,   \* adapter: spectate toggles and targets of this session, restart
    own,   \* bridge: spawn, spectating, timers, ammunition, death; what was sent
    env,   \* the player: place, life, ammunition, shots; hooks; clock
    pc     \* "idle", "refreshed"

vars == <<net, own, env, pc>>

\* A timer reads no other, so a behaviour follows one kind of packet (env.kind); and
\* it studies the rates (spectating or not), the shots or the death.
Kinds == {"aim", "foot", "car", "spectator", "bullet", "melee"}

Init ==
    /\ net = [seq |-> 0, on |-> FALSE, target |-> 0, session |-> 1, restart |-> 1, said |-> 0]
    /\ own = [finalized |-> FALSE, spectating |-> FALSE, mark |-> 0, markOf |-> 0, type |-> FALSE,
              targetMark |-> 0, last |-> 0, sampled |-> FALSE, ammo |-> 0, reported |-> FALSE,
              class |-> FALSE, seenDead |-> FALSE, handled |-> 1,
              at |-> 0, rushed |-> FALSE, bullets |-> 0, wounds |-> 0,
              told |-> FALSE, twice |-> FALSE, silent |-> FALSE]
    /\ \E hooks \in SUBSET {"impact", "damage"}, kind \in Kinds, study \in {"rates", "shots", "death"} :
         env = [place |-> "foot", life |-> "alive", ammo |-> 2, fired |-> 0, cuts |-> 0, ticks |-> 0,
                clock |-> Wrap - 1, hooks |-> IF study = "shots" THEN hooks ELSE {"impact"},
                kind |-> IF study = "rates" THEN kind ELSE "bullet", study |-> study]
    /\ pc = "idle"

-----------------------------------------------------------------------------
(* What the server says, in the pump. *)

Receives == pc = "idle" /\ env.study = "rates" /\ net.said < MaxEvents /\ UNCHANGED <<own, env, pc>>

OnToggleSpectating ==
    Receives /\ \E on \in BOOLEAN :
        net' = [net EXCEPT !.seq = @ + 1, !.on = on, !.said = @ + 1]

OnSpectate == Receives /\ net' = [net EXCEPT !.target = @ + 1, !.said = @ + 1]

OnForceClass ==
    pc = "idle" /\ env.study = "death" /\ ~own.class /\ own' = [own EXCEPT !.class = TRUE] /\ UNCHANGED <<net, env, pc>>

\* The numbers of the new session start at 1 again.
NewSession == [net EXCEPT !.seq = 0, !.on = FALSE, !.target = 0, !.session = @ + 1]

OnRestart ==
    /\ pc = "idle" /\ net.session =< MaxRestarts
    /\ net' = [NewSession EXCEPT !.restart = @ + 1] /\ UNCHANGED <<own, env, pc>>

-----------------------------------------------------------------------------
(* The refresh: a restart is handled first, then the control events. *)

\* The timers of these kinds start anew.
Restarts(o, kinds) == IF env.kind \in kinds THEN [o EXCEPT !.last = 0, !.at = 0] ELSE o

SessionReset_StillSpectating(o) ==
    [Restarts(o, {"spectator"}) EXCEPT !.finalized = FALSE, !.type = FALSE, !.reported = FALSE,
                                       !.class = FALSE, !.seenDead = FALSE, !.told = FALSE]

\* The marks of the control events are not reset: here nor anywhere else.
SessionReset(o) ==
    [Restarts(o, {"spectator"}) EXCEPT !.finalized = FALSE, !.spectating = FALSE, !.type = FALSE,
                                       !.reported = FALSE, !.class = FALSE, !.seenDead = FALSE,
                                       !.told = FALSE]

Toggle(o) ==
    IF net.seq \in {0, o.mark} THEN o
    ELSE LET seen == [o EXCEPT !.mark = net.seq, !.markOf = net.session, !.spectating = net.on]
         IN  IF net.on THEN seen
             ELSE [Restarts(seen, {"spectator"}) EXCEPT !.type = FALSE]

Target(o) ==
    IF net.target \in {0, o.targetMark} THEN o ELSE [o EXCEPT !.targetMark = net.target, !.type = TRUE]

Refresh ==
    /\ pc = "idle"
    /\ own' = Target(Toggle(IF own.handled = net.restart THEN own
                            ELSE [SessionReset(own) EXCEPT !.handled = net.restart]))
    /\ pc' = "refreshed" /\ UNCHANGED <<net, env>>

\* A new attempt resets the timers and the poller as well.
Reconnect ==
    /\ pc = "idle" /\ net.session =< MaxRestarts
    /\ net' = NewSession
    /\ own' = [Restarts(SessionReset(own), Kinds) EXCEPT !.sampled = FALSE, !.ammo = 0]
    /\ UNCHANGED <<env, pc>>

-----------------------------------------------------------------------------
(* The session bridge: timers. *)

Early(tick) == tick # 0 /\ (env.clock - tick) % Wrap < Interval

\* A kind that is not followed may be due or not: then its packet does not go (ok).
Due(o, k) == k # env.kind \/ ~Early(o.last)

\* A packet of kind k goes out (or fails); at is when the last one really did.
Sends(o, k, ok) ==
    IF k # env.kind THEN o
    ELSE [o EXCEPT !.last = env.clock, !.at = IF ok THEN env.clock ELSE @,
                   !.rushed = @ \/ (ok /\ Early(o.at))]

AimSync_Forgets(o, ok) ==
    IF ~Due(o, "aim") THEN o
    ELSE [Sends(o, "aim", ok) EXCEPT !.last = IF ok THEN o.last ELSE @]

\* The timer starts again before the aim is read: a failure costs an interval.
AimSync(o, ok) == IF Due(o, "aim") THEN Sends(o, "aim", ok) ELSE o

OnFootSync(o, ok) == IF env.place = "foot" /\ Due(o, "foot") THEN Sends(o, "foot", ok) ELSE o

\* A passenger sends nothing.
InCarSync(o, ok) == IF env.place = "driver" /\ Due(o, "car") THEN Sends(o, "car", ok) ELSE o

\* Only a packet that was sent starts this timer; without a target there is none.
SpectatorSync(o, ok) == IF o.type /\ ok /\ Due(o, "spectator") THEN Sends(o, "spectator", ok) ELSE o

\* process_local_damage: a blow, not a shot.
LocalDamage(o, ok, gun, near) ==
    IF env.place = "foot" /\ ~gun /\ near /\ Due(o, "melee") THEN Sends(o, "melee", ok) ELSE o

BulletSync_AlwaysPolls(o, ok, near) ==
    IF env.place # "foot" THEN o
    ELSE LET shot == o.sampled /\ env.ammo < o.ammo
             seen == [o EXCEPT !.sampled = TRUE, !.ammo = env.ammo]
         IN  IF ~shot \/ ~Due(o, "bullet") THEN seen
             ELSE [Sends(seen, "bullet", ok)
                     EXCEPT !.bullets = IF ok THEN @ + 1 ELSE @, !.wounds = IF ok /\ near THEN @ + 1 ELSE @]

\* Less ammunition than at the last look, with the button down: a shot.
BulletSync(o, ok, near) ==
    IF "impact" \in env.hooks \/ env.place # "foot" THEN o
    ELSE LET shot == o.sampled /\ env.ammo < o.ammo
             seen == [o EXCEPT !.sampled = TRUE, !.ammo = env.ammo]
         IN  IF ~shot \/ ~Due(o, "bullet") THEN seen
             ELSE [Sends(seen, "bullet", ok)
                     EXCEPT !.bullets = IF ok THEN @ + 1 ELSE @, !.wounds = IF ok /\ near THEN @ + 1 ELSE @]

-----------------------------------------------------------------------------
(* The session bridge: death. *)

Dead == env.life # "alive"

\* Once per life; a send that failed is tried again in the next frame.
Report(o, ok) ==
    IF ~o.finalized THEN o
    ELSE IF ~Dead THEN [o EXCEPT !.reported = FALSE]
    ELSE IF o.reported THEN o
    ELSE [o EXCEPT !.reported = ok, !.twice = @ \/ (o.told /\ ok), !.told = @ \/ ok, !.silent = ~ok]

\* The class selection that is wanted waits until the death is over.
AfterDeath(o) == o.class /\ o.finalized /\ (o.seenDead \/ Dead) /\ env.life # "dying"
SeesDeath(o) == [o EXCEPT !.seenDead = o.class /\ (@ \/ (o.finalized /\ Dead))]

Packets(o, ok, held, gun, near) ==
    LET d == IF held THEN LocalDamage(o, ok, gun, near) ELSE o
        a == AimSync(d, ok)
        b == IF held /\ gun THEN BulletSync(a, ok, near) ELSE a
    IN  IF ~o.finalized THEN o
        ELSE IF o.spectating THEN SpectatorSync(d, ok)
        ELSE InCarSync(OnFootSync(b, ok), ok)

Bridge ==
    /\ pc = "refreshed" /\ pc' = "idle"
    /\ \E ok, spawn, held, gun, near \in BOOLEAN :
         LET r == Report(own, ok)
             s == SeesDeath(r)
         IN  own' = IF AfterDeath(r) /\ ok
                    THEN [r EXCEPT !.finalized = FALSE, !.class = FALSE, !.seenDead = FALSE]
                    ELSE Packets([s EXCEPT !.finalized = @ \/ spawn], ok, held, gun, near)
    /\ UNCHANGED <<net, env>>

-----------------------------------------------------------------------------
(* GTA's simulation, between the frames; the two hooks run inside it. *)

Simulates == pc = "idle" /\ UNCHANGED <<net, pc>>

Tick ==
    /\ Simulates /\ env.study # "death" /\ env.ticks < MaxTicks
    /\ env' = [env EXCEPT !.clock = (@ + 1) % Wrap, !.ticks = @ + 1] /\ UNCHANGED own

Move ==
    Simulates /\ env.study = "rates" /\ \E place \in {"foot", "driver", "passenger"} \ {env.place} :
        env' = [env EXCEPT !.place = place] /\ UNCHANGED own

\* bullet_impact_hook_callback.
Impact(o, ok) ==
    IF "impact" \in env.hooks /\ o.finalized /\ ok
    THEN [o EXCEPT !.bullets = @ + 1, !.last = IF env.kind = "bullet" THEN env.clock ELSE @] ELSE o

\* actor_damage_hook_callback, for a player: whether or not we have spawned.
Damage(o, ok) == IF "damage" \in env.hooks /\ ok THEN [o EXCEPT !.wounds = @ + 1] ELSE o

Shoot ==
    /\ Simulates /\ env.study = "shots" /\ env.ammo > 0 /\ env.fired < MaxShots /\ env.place = "foot" /\ ~Dead
    /\ env' = [env EXCEPT !.ammo = @ - 1, !.fired = @ + 1]
    /\ \E ok, hit \in BOOLEAN : own' = IF hit THEN Damage(Impact(own, ok), ok) ELSE Impact(own, ok)

\* The server takes ammunition away, or gives some.
SetAmmo ==
    /\ pc = "idle" /\ env.study = "shots" /\ net.said < MaxEvents /\ UNCHANGED <<own, pc>>
    /\ net' = [net EXCEPT !.said = @ + 1]
    /\ \E ammo \in 0 .. 2 : ammo # env.ammo /\
         env' = [env EXCEPT !.ammo = ammo, !.cuts = IF ammo < env.ammo THEN @ + 1 ELSE @]

\* A new life that no frame has seen is not told from the old one.
Live ==
    /\ Simulates /\ env.study = "death"
    /\ \/ env.life = "alive" /\ env' = [env EXCEPT !.life = "dying"] /\ own' = [own EXCEPT !.silent = FALSE]
       \/ env.life = "dying" /\ env' = [env EXCEPT !.life = "down"] /\ UNCHANGED own
       \/ Dead /\ env' = [env EXCEPT !.life = "alive"] /\ own' = [own EXCEPT !.told = FALSE]

Next ==
    \/ OnToggleSpectating \/ OnSpectate \/ OnForceClass \/ OnRestart \/ Refresh \/ Reconnect \/ Bridge
    \/ Tick \/ Move \/ Shoot \/ SetAmmo \/ Live

Spec == Init /\ [][Next]_vars

-----------------------------------------------------------------------------
TypeOK ==
    /\ pc \in {"idle", "refreshed"} /\ env.clock \in 0 .. Wrap - 1 /\ env.ammo \in 0 .. 2
    /\ own.last \in 0 .. Wrap - 1 /\ own.mark \in 0 .. MaxEvents /\ own.handled \in 1 .. net.restart
    /\ \A f \in {"finalized", "spectating", "type", "sampled", "reported", "class", "seenDead"} :
         own[f] \in BOOLEAN

\* No shot is reported twice, though the hook and the poller both watch for them,
\* and no wound of a gun.  (Ammunition that the server takes away looks like a
\* shot; and with the damage hook alone the poller reports the wound again.)
ShotsOnce ==
    /\ own.bullets =< env.fired + env.cuts
    /\ env.hooks # {"damage"} => own.wounds =< env.fired + env.cuts

\* A death is told once, and told in the frame that sees it unless sending fails
\* or nobody has seen the player alive since the last one.
DeathReported ==
    /\ ~own.twice
    /\ own.reported => ~own.silent

\* Two packets of one kind are an interval apart; but for one sent at tick 0, which
\* the timers take for "never", and for a new spell of spectating.
RateHonored == ~own.rushed

\* After the refresh the player spectates as the server's newest toggle says, or
\* the toggle's number is the one at which an earlier session ended.
SpectatesAsTold ==
    pc = "refreshed" =>
        \/ own.spectating = (net.seq # 0 /\ net.on)
        \/ own.mark = net.seq /\ own.markOf # net.session

-----------------------------------------------------------------------------
(* What the proofs rest on. *)

Marks == [last : Nat, mark : Nat, markOf : Nat, targetMark : Nat, handled : Nat, at : Nat, ammo : Int,
          bullets : Nat, wounds : Nat, finalized : BOOLEAN, spectating : BOOLEAN, type : BOOLEAN,
          sampled : BOOLEAN, reported : BOOLEAN, class : BOOLEAN, seenDead : BOOLEAN,
          rushed : BOOLEAN, told : BOOLEAN, twice : BOOLEAN, silent : BOOLEAN]

Server == [seq : Nat, on : BOOLEAN, target : Nat, session : Nat, restart : Nat, said : Nat]

Player == [place : {"foot", "driver", "passenger"}, life : {"alive", "dying", "down"}, ammo : Int,
           fired : Nat, cuts : Nat, ticks : Nat, clock : Nat, hooks : SUBSET {"impact", "damage"},
           kind : Kinds, study : {"rates", "shots", "death"}]

\* The clock has wrapped once, with the first tick, and is not yet there again.
ClockRuns ==
    /\ env.ticks =< MaxTicks
    /\ env.clock = IF env.ticks = 0 THEN Wrap - 1 ELSE env.ticks - 1

\* The timer is not behind the last packet; it may say "never" instead of tick 0 only if
\* that makes no difference.
TimerFollows(o) ==
    /\ {o.last, o.at} \subseteq (0 .. env.ticks - 1) \cup {0, Wrap - 1}
    /\ o.at # 0 =>
         \/ o.at = Wrap - 1 /\ (o.last = 0 => Interval = 1 /\ env.ticks > 0)
         \/ o.at < Wrap - 1 /\ o.at =< o.last /\ o.last < env.ticks
    /\ "impact" \in env.hooks /\ env.kind = "bullet" => o.at = 0

\* A shot that the poller has not seen yet is still to be counted.
Unseen == IF "impact" \notin env.hooks /\ own.sampled /\ env.ammo < own.ammo THEN 1 ELSE 0

ShotsCounted ==
    /\ own.bullets + Unseen =< env.fired + env.cuts
    /\ env.hooks # {"damage"} => own.wounds + Unseen =< env.fired + env.cuts

\* A death that has been told is marked as reported while it lasts.
DeathMarked(o) ==
    /\ ~o.twice
    /\ o.reported => ~o.silent
    /\ o.told => o.reported /\ Dead

\* A mark of this session is the number of a toggle that has been followed; without one
\* the player does not spectate, unless the restart is still to be handled.
ToggleFollowed ==
    /\ own.markOf =< net.session /\ own.handled =< net.restart
    /\ own.handled # net.restart => own.markOf < net.session
    /\ own.markOf < net.session /\ own.handled = net.restart => ~own.spectating
    /\ own.markOf = net.session =>
         own.mark \in 1 .. net.seq /\ (own.mark = net.seq => own.spectating = net.on)
    /\ pc = "refreshed" => own.handled = net.restart /\ net.seq \in {0, own.mark}

IInv ==
    /\ net \in Server /\ own \in Marks /\ env \in Player /\ ClockRuns
    /\ RateHonored /\ TimerFollows(own)
    /\ ShotsCounted /\ DeathMarked(own) /\ ToggleFollowed

\* What the types rest on besides: a mark is the number of a toggle that the server has
\* sent, and the ammunition is what the player was given.
NumbersSaid ==
    /\ pc \in {"idle", "refreshed"} /\ env.ammo \in 0 .. 2
    /\ net.seq =< net.said /\ net.said =< MaxEvents /\ own.mark =< MaxEvents
    /\ own.handled > 0 /\ net.restart > 0
=============================================================================
