---------------------------- MODULE EventChannel ----------------------------
(***************************************************************************)
(* How what the server sends reaches the game: the RPC handlers of the      *)
(* adapter (g_rpc_probe in raknet_client_adapter.cpp) number every event    *)
(* and keep the newest in a ring; once per frame the bridge                 *)
(* (runtime_bridge.c) takes a snapshot and acts on whatever lies above the  *)
(* watermark of what it has already applied.  Both halves are wiped, at     *)
(* different moments, by a game-mode restart, a lost connection and a new   *)
(* connection; numbers start again at 1 each time.                          *)
(*                                                                         *)
(* One channel of each kind the code has: chat lines (a ring), money        *)
(* (a ring with a fallback), and world bounds (a latched value, whose       *)
(* watermark is a static of its consumer; PlayerBridge has those whose       *)
(* watermark is reset).  The other rings and latches repeat these.  The       *)
(* server's RPCs are delivered in order (RakNet, external), so a handler    *)
(* stands for sending and receiving at once.  Left out: the contents of the *)
(* events, and the wrap of a 32-bit number.  Names with an underscore are   *)
(* mutations, as in ClassSelection.                                         *)
(***************************************************************************)
EXTENDS Integers, Sequences, FiniteSets

CONSTANTS
    ChatRing,     \* SAMP_RAKNET_CLIENT_MESSAGE_RING (8 in the code)
    MoneyRing,    \* SAMP_RAKNET_GIVE_MONEY_EVENT_RING (16 in the code)
    MaxEvents,    \* bound: chat lines, and payments, in a session
    MaxLatches,   \* bound: world bounds set in a session
    MaxSessions   \* bound: sessions

ASSUME RingAssumption == ChatRing \in Nat \ {0} /\ MoneyRing \in Nat \ {0}
ASSUME EventBoundsAssumption ==
    MaxEvents \in Nat /\ MaxLatches \in 0 .. MaxEvents /\ MaxSessions \in Nat \ {0}

VARIABLES
    probe,    \* the adapter's half: numbers, rings and latched values
    generation, \* g_game_mode_restart_generation: survives every reset
    bridge,   \* the bridge's half: watermarks and what it shows
    chat,     \* chat lines applied since the bridge was last reset
    money,    \* money events applied since the bridge was last reset
    session,  \* sessions the server began
    link,     \* connected
    lost,     \* packet 33 was drained in this pump
    settled   \* no RPC since the last refresh

vars == <<probe, generation, bridge, chat, money, session, link, lost, settled>>

Event(n) == [session |-> session, n |-> n]
NoEvent == [session |-> 0, n |-> 0]
EmptyRing(size) == [slot \in 0 .. size - 1 |-> [seq |-> 0, event |-> NoEvent]]

ResetProbe ==
    [chatSeq |-> 0, chatRing |-> EmptyRing(ChatRing),
     moneySeq |-> 0, moneyRing |-> EmptyRing(MoneyRing), lastMoney |-> NoEvent,
     boundsSeq |-> 0, bounds |-> NoEvent, restartSeq |-> 0]

\* handled, controlSeq, boundsMark and boundsOn are statics of their functions.
FirstBridge ==
    [chatMark |-> 0, moneyMark |-> 0, handled |-> 0,
     controlSeq |-> 0, boundsMark |-> 0, boundsOn |-> FALSE, bounds |-> NoEvent]

Init ==
    /\ probe = ResetProbe
    /\ generation = 0
    /\ bridge = FirstBridge
    /\ chat = <<>> /\ money = <<>>
    /\ session = 1
    /\ link = TRUE
    /\ lost = FALSE
    /\ settled = TRUE

-----------------------------------------------------------------------------
(* The adapter's handlers, inside the pump. *)

Slot(seq, size) == (seq - 1) % size

Receives == link /\ ~lost
Handled == settled' = FALSE /\ UNCHANGED <<generation, bridge, chat, money, session, link, lost>>

OnClientMessage ==
    /\ Receives /\ probe.chatSeq < MaxEvents
    /\ LET seq == probe.chatSeq + 1
       IN  probe' = [probe EXCEPT !.chatSeq = seq,
                         !.chatRing[Slot(seq, ChatRing)] = [seq |-> seq, event |-> Event(seq)]]
    /\ Handled

OnGiveMoney ==
    /\ Receives /\ probe.moneySeq < MaxEvents
    /\ LET seq == probe.moneySeq + 1
       IN  probe' = [probe EXCEPT !.moneySeq = seq, !.lastMoney = Event(seq),
                         !.moneyRing[Slot(seq, MoneyRing)] = [seq |-> seq, event |-> Event(seq)]]
    /\ Handled

OnWorldBounds ==
    /\ Receives /\ probe.boundsSeq < MaxLatches
    /\ probe' = [probe EXCEPT !.boundsSeq = @ + 1, !.bounds = Event(probe.boundsSeq + 1)]
    /\ Handled

OnRestart_KeepsProbe ==
    /\ Receives /\ session < MaxSessions
    /\ generation' = generation + 1
    /\ probe' = [probe EXCEPT !.restartSeq = generation + 1]
    /\ session' = session + 1
    /\ settled' = FALSE
    /\ UNCHANGED <<bridge, chat, money, link, lost>>

\* The reset is done in receive order: what follows belongs to the new mode.
OnRestart ==
    /\ Receives /\ session < MaxSessions
    /\ generation' = generation + 1
    /\ probe' = [ResetProbe EXCEPT !.restartSeq = generation + 1]
    /\ session' = session + 1
    /\ settled' = FALSE
    /\ UNCHANGED <<bridge, chat, money, link, lost>>

\* ID_CONNECTION_LOST: nothing more is received until the next connection.
OnConnectionLost ==
    /\ Receives /\ session < MaxSessions
    /\ probe' = ResetProbe
    /\ session' = session + 1
    /\ lost' = TRUE
    /\ settled' = FALSE
    /\ UNCHANGED <<generation, bridge, chat, money, link>>

-----------------------------------------------------------------------------
(* The bridge: once per frame, after the pump. *)

\* samp_raknet_client_get_rpc_probe_snapshot: of the newest entries, those that
\* still have the number their place stands for.
Snapshot(seq, ring, size) ==
    LET held == {k \in 1 .. seq : k > seq - size /\ ring[Slot(k, size)].seq = k}
    IN  {ring[Slot(k, size)] : k \in held}

\* Both loops go through the entries in the order of their numbers.
InOrder(entries) ==
    [i \in 1 .. Cardinality(entries) |->
        (CHOOSE e \in entries : Cardinality({x \in entries : x.seq <= e.seq}) = i).event]

Above(mark, entries) == InOrder({e \in entries : e.seq > mark})

\* game_session_reset_to_preconnect_compat: not the statics.
SessionReset(b) == [b EXCEPT !.chatMark = 0, !.moneyMark = 0]

\* game_mode_restart_compat_update_from_snapshot.
Restarted(b) == probe.restartSeq # 0 /\ probe.restartSeq # b.handled
HandleRestart(b) ==
    IF Restarted(b) THEN [SessionReset(b) EXCEPT !.handled = probe.restartSeq] ELSE b

\* client_control_compat_update_from_snapshot, as far as it is about bounds.
ControlUpdate(b) ==
    LET c == IF probe.restartSeq # 0 /\ probe.restartSeq # b.controlSeq
             THEN [b EXCEPT !.controlSeq = probe.restartSeq, !.boundsOn = FALSE] ELSE b
    IN  IF probe.boundsSeq # 0 /\ probe.boundsSeq # c.boundsMark
        THEN [c EXCEPT !.boundsMark = probe.boundsSeq, !.bounds = probe.bounds, !.boundsOn = TRUE]
        ELSE c

\* Left out: a line without text, which the bridge passes over with its number.
NewChat(b) == Above(b.chatMark, Snapshot(probe.chatSeq, probe.chatRing, ChatRing))

MarkChat_Next(b) == IF NewChat(b) = <<>> THEN b ELSE [b EXCEPT !.chatMark = probe.chatSeq + 1]

MarkChat(b) == IF NewChat(b) = <<>> THEN b ELSE [b EXCEPT !.chatMark = probe.chatSeq]

\* Money that no ring entry accounts for is paid once from the latest amount.
MoneyDue(b) == probe.moneySeq # 0 /\ probe.moneySeq # b.moneyMark
NewMoney(b) ==
    LET ring == Above(b.moneyMark, Snapshot(probe.moneySeq, probe.moneyRing, MoneyRing))
    IN  IF ~MoneyDue(b) THEN <<>> ELSE IF ring = <<>> THEN <<probe.lastMoney>> ELSE ring

MarkMoney_Latest(b) == IF MoneyDue(b) THEN [b EXCEPT !.moneyMark = Len(NewMoney(b))] ELSE b

MarkMoney(b) == IF MoneyDue(b) THEN [b EXCEPT !.moneyMark = probe.moneySeq] ELSE b

\* refresh_raknet_rpc_snapshot_compat, then the bridge's answer to packet 33.
Refresh ==
    /\ link
    /\ LET r == HandleRestart(bridge)
           c == ControlUpdate(r)
           done == MarkMoney(MarkChat(c))
       IN  /\ bridge' = IF lost THEN SessionReset(done) ELSE done
           /\ chat' = IF lost THEN <<>>
                      ELSE (IF Restarted(bridge) THEN <<>> ELSE chat) \o NewChat(c)
           /\ money' = IF lost THEN <<>>
                       ELSE (IF Restarted(bridge) THEN <<>> ELSE money) \o NewMoney(c)
    /\ link' = ~lost
    /\ lost' = FALSE
    /\ settled' = TRUE
    /\ UNCHANGED <<probe, generation, session>>

\* A new attempt wipes the bridge's watermarks and connects; connecting wipes
\* the probe.
Connect ==
    /\ ~link
    /\ probe' = ResetProbe
    /\ bridge' = SessionReset(bridge)
    /\ chat' = <<>> /\ money' = <<>>
    /\ link' = TRUE
    /\ UNCHANGED <<generation, session, lost, settled>>

Next ==
    \/ OnClientMessage \/ OnGiveMoney \/ OnWorldBounds
    \/ OnRestart \/ OnConnectionLost \/ Refresh \/ Connect

Spec == Init /\ [][Next]_vars

-----------------------------------------------------------------------------
SentInSession == 0 .. MaxEvents
Events == [session : 0 .. MaxSessions, n : SentInSession]
Ring(size) == [0 .. size - 1 -> [seq : SentInSession, event : Events]]

Probe ==
    [chatSeq : SentInSession, chatRing : Ring(ChatRing),
     moneySeq : SentInSession, moneyRing : Ring(MoneyRing), lastMoney : Events,
     boundsSeq : 0 .. MaxLatches, bounds : Events, restartSeq : 0 .. MaxSessions]
Bridge ==
    [chatMark : SentInSession, moneyMark : SentInSession, handled : 0 .. MaxSessions,
     controlSeq : 0 .. MaxSessions, boundsMark : 0 .. MaxLatches, boundsOn : BOOLEAN,
     bounds : Events]

TypeOK ==
    /\ probe \in Probe
    /\ generation \in 0 .. MaxSessions
    /\ bridge \in Bridge
    /\ chat \in Seq(Events) /\ money \in Seq(Events)
    /\ session \in 1 .. MaxSessions
    /\ link \in BOOLEAN /\ lost \in BOOLEAN /\ settled \in BOOLEAN

\* The refinement mapping: what is pending lies above the watermark in force
\* once the bridge has noticed a restart or a loss.
Forgotten == lost \/ Restarted(bridge)
Pending(seq, mark) ==
    LET base == IF Forgotten THEN 0 ELSE mark
    IN  [i \in 1 .. seq - base |-> Event(base + i)]

\* Each chat line above the watermark reaches the window once and in order,
\* and none of a session that is over: the ring implements Feed.
ChatFeed == INSTANCE Feed WITH
    Capacity <- ChatRing,
    sent <- probe.chatSeq,
    pending <- Pending(probe.chatSeq, bridge.chatMark),
    delivered <- IF Forgotten THEN <<>> ELSE chat
ChatIsFeed == ChatFeed!Spec

\* The same of money, paid by a loop with a fallback: no amount is paid twice,
\* and the fallback never pays what the ring already has.
MoneyFeed == INSTANCE Feed WITH
    Capacity <- MoneyRing,
    sent <- probe.moneySeq,
    pending <- Pending(probe.moneySeq, bridge.moneyMark),
    delivered <- IF Forgotten THEN <<>> ELSE money
MoneyIsFeed == MoneyFeed!Spec

\* After a refresh bounds are enforced exactly when the server has set some in
\* this session (raknet_client_adapter.cpp:1336-1343: RPCs after a restart
\* belong to the new mode).  The code does not keep this.
BoundsFollowServer == settled /\ link => (bridge.boundsOn <=> probe.boundsSeq # 0)

-----------------------------------------------------------------------------
(* The inductive invariant behind the refinement. *)

\* The newest events are in the ring, each at its place.
Held(seq, ring, size) ==
    \A k \in 1 .. seq : k > seq - size =>
      ring[Slot(k, size)] = [seq |-> k, event |-> Event(k)]
RingsHold ==
    Held(probe.chatSeq, probe.chatRing, ChatRing) /\ Held(probe.moneySeq, probe.moneyRing, MoneyRing)

MarksFollow ==
    ~Forgotten => bridge.chatMark <= probe.chatSeq /\ bridge.moneyMark <= probe.moneySeq

\* Nothing is left of a session that packet 33 has ended.
LinkEnds ==
    /\ lost => link
    /\ lost \/ ~link => probe = ResetProbe
    /\ ~link => bridge.chatMark = 0 /\ bridge.moneyMark = 0 /\ chat = <<>> /\ money = <<>>

RestartsCounted ==
    bridge.handled <= generation /\ probe.restartSeq <= generation /\ generation < session

IInv == TypeOK /\ RingsHold /\ MarksFollow /\ LinkEnds /\ RestartsCounted
=============================================================================
