----------------------------- MODULE PlayerBridge -----------------------------
(***************************************************************************)
(* What the server does to the local player: spawn, position, money and     *)
(* weapons.  A frame has two stages.  The refresh copies the adapter's      *)
(* numbers into the bridge and pays money at once; the session bridge       *)
(* (apply_multiplayer_session_bridge_compat) then acts on whatever it has   *)
(* not applied yet, each kind against a mark of its own and the kinds in a  *)
(* fixed order.  It may have to wait: for InitGame, for the player's ped,   *)
(* for the spawn; and it gives up after MaxApplies frames of a session.     *)
(*                                                                         *)
(* Money is the set of payments the player still has, weapons likewise.     *)
(* The rings of EventChannel are taken to be long enough, and RPCs to be    *)
(* received in order.  Left out: health, armour, camera, animation, sound   *)
(* and the other one-shot RPCs (they repeat the position's shape), spawn    *)
(* weapons, teleports GTA refuses, the loss of a peer that packet 33 has    *)
(* not announced yet.  Names with an underscore are mutations, as in        *)
(* ClassSelection.                                                         *)
(***************************************************************************)
EXTENDS Integers, FiniteSets, Sequences

CONSTANTS
    MaxApplies,   \* SAMP_MP_BRIDGE_MAX_APPLIES (3600 in the code)
    MaxInfos,     \* bound: spawn infos in a session
    MaxPos,       \* bound: positions set in a session
    MaxGifts,     \* bound: payments, gifts and their resets in a session
    MaxSessions   \* bound: sessions

ASSUME MaxAppliesAssumption == MaxApplies \in Nat \ {0}
ASSUME PlayerBoundsAssumption ==
    MaxInfos \in Nat /\ MaxPos \in Nat /\ MaxGifts \in Nat /\ MaxSessions \in Nat \ {0}

VARIABLES
    probe,      \* the adapter's half
    generation, \* g_game_mode_restart_generation
    bridge,     \* the bridge's half: copies (raknet_*) and marks (mp_session_*)
    where,      \* GTA: what last moved the player
    money,      \* GTA: payments the player has
    guns,       \* GTA: weapons the player has
    srvMoney,   \* the server's idea of money
    srvGuns,    \* the server's idea of guns
    session,    \* sessions the server began
    link,       \* connected
    lost,       \* packet 33 was drained in this pump
    pc,         \* "pump", "apply", or "done" when the session bridge has run through
    spawns,     \* history: the spawn infos the player was spawned with
    posAtSpawn  \* history: the last position set before the spawn

game == <<where, money, guns>>
server == <<srvMoney, srvGuns, session>>
history == <<spawns, posAtSpawn>>
vars == <<probe, generation, bridge, game, server, link, lost, pc, history>>

Event(n) == [session |-> session, n |-> n]
Nowhere == [kind |-> "nowhere", n |-> 0]
Place(k, n) == [kind |-> k, n |-> n]

\* spawnOk: request_spawn_outcome 1 or 2; told: sent_spawn_notify_seq.  The
\* others are the sequence numbers of RPCs 128 and 68, 12, 18, 20, 22 and 21.
ResetProbe ==
    [init |-> FALSE, classOk |-> FALSE, spawnOk |-> FALSE, info |-> 0, pos |-> 0, pay |-> 0,
     noMoney |-> 0, gun |-> 0, noGuns |-> 0, told |-> 0, restart |-> 0]

\* Copies, then marks.  handled is a function static.
FirstBridge ==
    [init |-> FALSE, flags |-> FALSE, classOk |-> FALSE, spawnOk |-> FALSE,
     info |-> 0, pos |-> 0, noMoney |-> 0, gun |-> 0, noGuns |-> 0,
     finalized |-> FALSE, finalInfo |-> 0, posMark |-> 0, payMark |-> 0,
     noMoneyMark |-> 0, gunMark |-> 0, noGunsMark |-> 0, count |-> 0, handled |-> 0]

Init ==
    /\ probe = ResetProbe /\ generation = 0 /\ bridge = FirstBridge
    /\ where = Nowhere /\ money = {} /\ guns = {} /\ srvMoney = {} /\ srvGuns = {}
    /\ session = 1 /\ link = TRUE /\ lost = FALSE /\ pc = "pump"
    /\ spawns = <<>> /\ posAtSpawn = 0

-----------------------------------------------------------------------------
(* The adapter's handlers. *)

Receives == pc # "apply" /\ link /\ ~lost
Handled == pc' = "pump" /\ UNCHANGED <<generation, bridge, game, session, link, lost, history>>
Owes == UNCHANGED <<srvMoney, srvGuns>>

OnInitGame ==
    /\ Receives /\ ~probe.init
    /\ probe' = [probe EXCEPT !.init = TRUE]
    /\ Handled /\ Owes

\* read_spawn_info: an accepted class comes with its spawn info.
OnClassReply ==
    /\ Receives /\ probe.init /\ ~probe.spawnOk /\ probe.info < MaxInfos
    /\ \E ok \in BOOLEAN :
         probe' = [probe EXCEPT !.classOk = ok, !.info = IF ok THEN @ + 1 ELSE @]
    /\ Handled /\ Owes

OnSetSpawnInfo ==
    /\ Receives /\ probe.init /\ probe.info < MaxInfos
    /\ probe' = [probe EXCEPT !.info = @ + 1]
    /\ Handled /\ Owes

\* The player can ask only with an accepted class: ClassSelection.
OnSpawnReply ==
    /\ Receives /\ probe.classOk /\ ~probe.spawnOk
    /\ \E ok \in BOOLEAN : probe' = [probe EXCEPT !.spawnOk = ok]
    /\ Handled /\ Owes

OnPlayerPos ==
    /\ Receives /\ probe.init /\ probe.pos < MaxPos
    /\ probe' = [probe EXCEPT !.pos = @ + 1]
    /\ Handled /\ Owes

Gifts == probe.pay + probe.noMoney + probe.gun + probe.noGuns
ReceivesGift == Receives /\ probe.init /\ Gifts < MaxGifts

OnGiveMoney ==
    /\ ReceivesGift
    /\ probe' = [probe EXCEPT !.pay = @ + 1]
    /\ srvMoney' = srvMoney \cup {Event(probe.pay + 1)}
    /\ Handled /\ UNCHANGED srvGuns

OnResetMoney ==
    /\ ReceivesGift
    /\ probe' = [probe EXCEPT !.noMoney = @ + 1]
    /\ srvMoney' = {}
    /\ Handled /\ UNCHANGED srvGuns

OnGiveWeapon ==
    /\ ReceivesGift
    /\ probe' = [probe EXCEPT !.gun = @ + 1]
    /\ srvGuns' = srvGuns \cup {probe.gun + 1}
    /\ Handled /\ UNCHANGED srvMoney

OnResetWeapons ==
    /\ ReceivesGift
    /\ probe' = [probe EXCEPT !.noGuns = @ + 1]
    /\ srvGuns' = {}
    /\ Handled /\ UNCHANGED srvMoney

NewSession ==
    /\ Receives /\ session < MaxSessions
    /\ session' = session + 1
    /\ srvMoney' = {} /\ srvGuns' = {}
    /\ pc' = "pump"
    /\ UNCHANGED <<bridge, game, link, history>>

OnRestart ==
    /\ NewSession
    /\ generation' = generation + 1
    /\ probe' = [ResetProbe EXCEPT !.restart = generation + 1]
    /\ UNCHANGED lost

OnConnectionLost ==
    /\ NewSession
    /\ probe' = ResetProbe
    /\ lost' = TRUE
    /\ UNCHANGED generation

-----------------------------------------------------------------------------
(* The first stage: refresh_raknet_rpc_snapshot_compat. *)

SessionReset_KeepsFinal(b) ==
    [FirstBridge EXCEPT !.handled = b.handled, !.finalInfo = b.finalInfo]

SessionReset_KeepsMoneyMark(b) ==
    [FirstBridge EXCEPT !.handled = b.handled, !.noMoneyMark = b.noMoneyMark]

SessionReset(b) == [FirstBridge EXCEPT !.handled = b.handled]

Restarted == probe.restart # 0 /\ probe.restart # bridge.handled
HandleRestart == IF Restarted THEN [SessionReset(bridge) EXCEPT !.handled = probe.restart] ELSE bridge

\* SAMP_RAKNET_RPC_FLAG_GAME_STATE_MASK, of the events modelled here.
GameFlags == Gifts + probe.pos + probe.restart > 0

\* A new spawn info takes the spawn back.
NewInfo(b) ==
    IF probe.info = 0 THEN b
    ELSE [b EXCEPT !.info = probe.info, !.finalized = @ /\ probe.info = b.info]

Copies(b) ==
    [NewInfo(b) EXCEPT
        !.init = probe.init, !.flags = GameFlags,
        !.classOk = probe.classOk, !.spawnOk = probe.spawnOk,
        !.pos = IF probe.pos # 0 THEN probe.pos ELSE @,
        !.gun = IF probe.gun # 0 THEN probe.gun ELSE @,
        !.noGuns = IF probe.noGuns # 0 THEN probe.noGuns ELSE @,
        !.noMoney = IF probe.noMoney # 0 THEN probe.noMoney ELSE @,
        !.payMark = IF probe.pay # 0 THEN probe.pay ELSE @]

Payments(b) == IF probe.pay # 0 THEN {Event(n) : n \in b.payMark + 1 .. probe.pay} ELSE {}

\* Then the answer to packet 33.  A session reset takes the weapons away.
Refresh ==
    /\ pc # "apply" /\ link
    /\ LET b == HandleRestart
       IN  /\ bridge' = IF lost THEN SessionReset(Copies(b)) ELSE Copies(b)
           /\ money' = money \cup Payments(b)
           /\ guns' = IF lost \/ Restarted THEN {} ELSE guns
    /\ link' = ~lost
    /\ lost' = FALSE
    /\ pc' = "apply"
    /\ UNCHANGED <<probe, generation, where, server, history>>

Connect ==
    /\ pc # "apply" /\ ~link
    /\ probe' = ResetProbe
    /\ bridge' = SessionReset(bridge)
    /\ link' = TRUE
    /\ pc' = "pump"
    /\ UNCHANGED <<generation, game, server, lost, history>>

-----------------------------------------------------------------------------
(* The second stage: apply_multiplayer_session_bridge_compat. *)

Joined == link /\ bridge.init /\ bridge.flags

Applies_OneMore == pc = "apply" /\ Joined /\ bridge.count <= MaxApplies

Applies == pc = "apply" /\ Joined /\ bridge.count < MaxApplies

Waits ==
    /\ pc = "apply" /\ ~Joined
    /\ pc' = "pump"
    /\ UNCHANGED <<probe, generation, bridge, game, server, link, lost, history>>

\* The counter goes on, and is not looked at for anything else.
GivesUp ==
    /\ pc = "apply" /\ Joined /\ bridge.count = MaxApplies
    /\ pc' = "pump"
    /\ UNCHANGED <<probe, generation, bridge, game, server, link, lost, history>>

WithoutPed ==
    /\ Applies
    /\ bridge' = [bridge EXCEPT !.count = @ + 1]
    /\ pc' = "pump"
    /\ UNCHANGED <<probe, generation, game, server, link, lost, history>>

\* class_selection_compat_process_after_death_latch, after F4 and a death.
ReturnsToClass ==
    /\ Applies /\ bridge.spawnOk
    /\ probe' = [probe EXCEPT !.classOk = FALSE, !.spawnOk = FALSE]
    /\ bridge' = [bridge EXCEPT !.classOk = FALSE, !.spawnOk = FALSE,
                                !.finalized = FALSE, !.finalInfo = 0, !.count = @ + 1]
    /\ pc' = "pump"
    /\ UNCHANGED <<generation, game, server, link, lost, history>>

New(copy, mark) == copy # 0 /\ copy # mark

\* Resets first, then gifts.
GunsAfter(b) ==
    (IF New(b.noGuns, b.noGunsMark) THEN {} ELSE guns) \cup (b.gunMark + 1 .. b.gun)

MoneyAfter(b) == IF New(b.noMoney, b.noMoneyMark) THEN {} ELSE money

MarkBelongings(b) ==
    [b EXCEPT !.noGunsMark = b.noGuns, !.gunMark = b.gun, !.noMoneyMark = b.noMoney]

Finalizes(b) == b.spawnOk /\ New(b.info, b.finalInfo)

Finalize_Unmarked(b) == [b EXCEPT !.finalized = TRUE, !.posMark = b.pos]

Finalize_KeepsPos(b) == [b EXCEPT !.finalized = TRUE, !.finalInfo = b.info]

\* The positions set so far count as applied: the spawn's place prevails.
Finalize(b) == [b EXCEPT !.finalized = TRUE, !.finalInfo = b.info, !.posMark = b.pos]

\* In play, or in the scene of class selection.
Moves(b) == (IF b.spawnOk THEN b.finalized ELSE b.classOk) /\ New(b.pos, b.posMark)

WithPed ==
    /\ Applies
    /\ LET m == MarkBelongings([bridge EXCEPT !.count = @ + 1])
           f == IF Finalizes(m) THEN Finalize(m) ELSE m
       IN  /\ guns' = GunsAfter(bridge)
           /\ money' = MoneyAfter(bridge)
           /\ bridge' = IF Moves(f) THEN [f EXCEPT !.posMark = f.pos] ELSE f
           /\ where' = IF Moves(f) THEN Place("set", f.pos)
                       ELSE IF Finalizes(m) THEN Place("spawn", m.info) ELSE where
           /\ probe' = IF Finalizes(m) THEN [probe EXCEPT !.told = m.info] ELSE probe
           /\ spawns' = IF Finalizes(m) THEN Append(spawns, Event(m.info)) ELSE spawns
           /\ posAtSpawn' = IF Finalizes(m) THEN m.pos ELSE posAtSpawn
    /\ pc' = "done"
    /\ UNCHANGED <<generation, server, link, lost>>

-----------------------------------------------------------------------------
Rpc ==
    \/ OnInitGame \/ OnClassReply \/ OnSetSpawnInfo \/ OnSpawnReply \/ OnPlayerPos
    \/ OnGiveMoney \/ OnResetMoney \/ OnGiveWeapon \/ OnResetWeapons
    \/ OnRestart \/ OnConnectionLost

Apply == Waits \/ GivesUp \/ WithoutPed \/ ReturnsToClass \/ WithPed

Next == Rpc \/ Refresh \/ Connect \/ Apply

Spec == Init /\ [][Next]_vars

\* Frames follow one another for ever, and the ped is there again and again.
Fairness == WF_vars(Refresh) /\ WF_vars(Connect) /\ WF_vars(Apply) /\ SF_vars(WithPed)

LiveSpec == Spec /\ Fairness

-----------------------------------------------------------------------------
Numbers == 0 .. MaxInfos + MaxPos + MaxGifts
Events == [session : 1 .. MaxSessions, n : Numbers]

Probe ==
    [init : BOOLEAN, classOk : BOOLEAN, spawnOk : BOOLEAN, info : 0 .. MaxInfos,
     pos : 0 .. MaxPos, pay : Numbers, noMoney : Numbers, gun : Numbers,
     noGuns : Numbers, told : 0 .. MaxInfos, restart : 0 .. MaxSessions]
Bridge ==
    [init : BOOLEAN, flags : BOOLEAN, classOk : BOOLEAN, spawnOk : BOOLEAN,
     info : 0 .. MaxInfos, pos : 0 .. MaxPos, noMoney : Numbers, gun : Numbers,
     noGuns : Numbers, finalized : BOOLEAN, finalInfo : 0 .. MaxInfos,
     posMark : 0 .. MaxPos, payMark : Numbers, noMoneyMark : Numbers,
     gunMark : Numbers, noGunsMark : Numbers, count : 0 .. MaxApplies,
     handled : 0 .. MaxSessions]

TypeOK ==
    /\ probe \in Probe /\ bridge \in Bridge
    /\ where \in [kind : {"nowhere", "spawn", "set"}, n : Numbers]
    /\ money \subseteq Events /\ srvMoney \subseteq Events
    /\ guns \subseteq Numbers /\ srvGuns \subseteq Numbers
    /\ generation \in 0 .. MaxSessions /\ session \in 1 .. MaxSessions
    /\ link \in BOOLEAN /\ lost \in BOOLEAN /\ pc \in {"pump", "apply", "done"}
    /\ spawns \in Seq(Events) /\ posAtSpawn \in 0 .. MaxPos

\* When the session bridge has run, a spawn the server allowed has taken place
\* with the newest spawn info, and the server has been told (RPC 52): also
\* after a restart, a reconnection or a return to class selection.
SpawnTakesEffect ==
    pc = "done" /\ bridge.spawnOk /\ bridge.info # 0
      => bridge.finalized /\ bridge.finalInfo = probe.info /\ probe.told = probe.info

\* No spawn info throws the player back to its place twice.
SpawnsOnce ==
    \A i, j \in 1 .. Len(spawns) : spawns[i] = spawns[j] => i = j

\* In play the player stands where the server last put him after the spawn,
\* or where he spawned: what was set before belongs to class selection.
PosHonored ==
    pc = "done" /\ bridge.spawnOk /\ bridge.info # 0 =>
      where = IF probe.pos = posAtSpawn THEN Place("spawn", probe.info) ELSE Place("set", probe.pos)

\* The player is never without a weapon the server has given him and not
\* taken away, however the resets and the gifts of a frame are mixed.
NeverDisarmed == pc = "done" => srvGuns \subseteq guns

\* The player never keeps money of this session that the server has taken.
MoneyNeverKept ==
    pc = "done" => {m \in money : m.session = session} \subseteq srvMoney

\* What a frame leaves of the player's belongings is right on the side each must be right on.
BelongingsHonored == NeverDisarmed /\ MoneyNeverKept

\* "honoring later server events" (31024-31026): the money a server gives after it has
\* reset it arrives.  The code does not keep this: the refresh pays at once and the
\* session bridge takes away everything afterwards.
MoneyArrives == pc = "done" => srvMoney \subseteq money

\* The same comment, of weapons: a gift is applied in the end unless the
\* session is over.  The code does not keep this: it stops after MaxApplies.
GiftsArrive ==
    \A n \in 1 .. MaxGifts :
      link /\ bridge.gun >= n ~> bridge.gunMark >= n \/ bridge.gun < n

-----------------------------------------------------------------------------
(* The inductive invariant behind the four properties. *)

\* The adapter has begun a session the bridge has not noticed yet.
Forgotten == lost \/ Restarted

\* A mark never runs ahead of its copy, nor a copy ahead of the adapter.
MarksFollow ==
    /\ bridge.finalInfo <= bridge.info /\ bridge.posMark <= bridge.pos
    /\ bridge.gunMark <= bridge.gun /\ bridge.noGunsMark <= bridge.noGuns
    /\ bridge.noMoneyMark <= bridge.noMoney
CopiesFollow ==
    ~Forgotten =>
      /\ bridge.info <= probe.info /\ bridge.pos <= probe.pos
      /\ bridge.gun <= probe.gun /\ bridge.noGuns <= probe.noGuns
      /\ bridge.noMoney <= probe.noMoney /\ bridge.payMark <= probe.pay

\* In the second stage of a frame the copies are the adapter's.
CopiesAgree ==
    pc # "pump" /\ link =>
      /\ ~Forgotten /\ bridge.spawnOk = probe.spawnOk
      /\ bridge.info = probe.info /\ bridge.pos = probe.pos
      /\ bridge.gun = probe.gun /\ bridge.noGuns = probe.noGuns
      /\ bridge.noMoney = probe.noMoney /\ bridge.payMark = probe.pay

\* Nothing is left of a session that packet 33 has ended.
LinkEnds ==
    /\ lost => link /\ pc = "pump"
    /\ lost \/ ~link => probe = ResetProbe
    /\ ~link => pc # "done" /\ bridge = SessionReset(bridge)

RestartsCounted == bridge.handled <= generation /\ probe.restart <= generation /\ generation < session

\* What has been applied belongs to sessions the server has begun, and not to
\* one the bridge has yet to notice.
OfThePast ==
    /\ \A i \in 1 .. Len(spawns) : spawns[i].session <= session
    /\ \A m \in money : m.session <= session
    /\ Forgotten \/ ~link =>
         /\ \A i \in 1 .. Len(spawns) : spawns[i].session # session
         /\ \A m \in money : m.session # session

\* While a spawn counts as made, the player stands where it or a later position
\* put him, and the server knows of it.
SpawnStands ==
    bridge.finalInfo # 0 =>
      /\ bridge.finalInfo = bridge.info => bridge.finalized
      /\ posAtSpawn <= bridge.posMark
      /\ where = IF bridge.posMark = posAtSpawn THEN Place("spawn", bridge.finalInfo)
                 ELSE Place("set", bridge.posMark)
      /\ ~Forgotten => probe.spawnOk /\ probe.told = bridge.finalInfo

\* The spawn infos of this session used so far: up to the mark or, after a
\* return to class selection, before the one that comes with the next class.
SpawnsUsed ==
    \A i \in 1 .. Len(spawns) : spawns[i].session = session =>
      /\ spawns[i].n <= probe.info
      /\ bridge.finalInfo # 0 => spawns[i].n <= bridge.finalInfo
      /\ bridge.finalInfo = 0 /\ (probe.classOk \/ probe.spawnOk) => spawns[i].n < probe.info

\* The gifts below the mark are in the player's hands, or a reset has come.
GunsFollow ==
    /\ srvGuns \subseteq 1 .. probe.gun
    /\ ~Forgotten => \A n \in srvGuns : n <= bridge.gunMark =>
         probe.noGuns = bridge.noGunsMark /\ n \in guns

\* The payments made stand, or a reset has come that will take them away.
MoneyFollows ==
    /\ probe.noMoney = 0 => \A n \in 1 .. probe.pay : Event(n) \in srvMoney
    /\ ~Forgotten /\ probe.noMoney = bridge.noMoneyMark =>
         /\ \A m \in money : m.session = session => m \in srvMoney
         /\ \A n \in bridge.payMark + 1 .. probe.pay : Event(n) \in srvMoney

IInv ==
    /\ TypeOK /\ MarksFollow /\ CopiesFollow /\ CopiesAgree /\ LinkEnds /\ RestartsCounted
    /\ OfThePast /\ SpawnStands /\ SpawnsUsed /\ GunsFollow /\ MoneyFollows
    /\ SpawnTakesEffect /\ SpawnsOnce /\ PosHonored /\ BelongingsHonored
=============================================================================
