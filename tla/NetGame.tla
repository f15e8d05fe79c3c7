------------------------------- MODULE NetGame -------------------------------
(***************************************************************************)
(* The life of a connection: launch_prepare_network_compat, which runs once *)
(* per frame, decides whether to connect again, drains what RakNet has      *)
(* received, refreshes the bridge and answers the last packet of the drain. *)
(* RakNet has threads of its own (external): the peer may come up, be       *)
(* refused, closed or lost between any two steps of a frame, and what       *)
(* happened waits in its queue, in order.                                   *)
(*                                                                         *)
(* Covered: packets 29, 31, 32, 33, 34, 36, 37 and 38, RPCs 40 and 139, the *)
(* retry and stale timers, the front end's gate and its delay, the terminal *)
(* latch and the log-on mark.  A timer is an age, and time passes between   *)
(* frames.  Left out: the non-RakNet probe, an endpoint that does not parse *)
(* (the client then never connects), and the frame that the delay loses     *)
(* each time the GTA menu closes.  Assumed of RakNet: Disconnect empties    *)
(* the queue, and a connection's last packet is the one that says how it    *)
(* ended.  Names with an underscore are mutations, as in ClassSelection.    *)
(***************************************************************************)
EXTENDS Integers, Sequences

CONSTANTS
    MaxQueue,   \* bound: what RakNet holds, apart from the end of a connection
    Budget      \* SAMP_RAKNET_PUMP_BUDGET: packets drained in a frame (1024)

ASSUME MaxQueueAssumption == MaxQueue \in Nat \ {0}
ASSUME BudgetAssumption == Budget \in Nat \ {0}

VARIABLES
    state,     \* netgame_state
    terminal,  \* network_terminal_packet_id # 0
    connected, \* net_mgr_connected
    marked,    \* raknet_logon_marked
    flags,     \* raknet_rpc_flags: its InitGame bit
    since,     \* age of net_mgr_last_connect_attempt_tick
    ready,     \* preconnect_ready
    waited,    \* preconnect_delay_active_ms has reached the delay
    menu,      \* the GTA menu is open
    sawInit,   \* adapter: saw_init_game
    restart,   \* adapter: a restart the bridge has not handled
    pc,        \* where the frame is: "frame" is between two of them
    last,      \* the last packet of this drain
    drained,   \* packets of this drain
    sampled,   \* connected_after_pump
    peer,      \* RakNet: "down", "opening" or "up"
    inbox,     \* RakNet: what Receive() will return, RPCs included
    logon,     \* RakNet: the peer counts as logged on
    server     \* "idle", "joined" (it owes an InitGame) or "playing"

session == <<state, terminal, connected, marked, flags>>
gate == <<ready, waited, menu>>
adapter == <<sawInit, restart>>
frame == <<pc, last, drained, sampled>>
raknet == <<peer, inbox, logon>>
vars == <<session, since, gate, adapter, frame, raknet, server>>

States == {"WAIT_CONNECT", "CONNECTING", "CONNECTED", "FAILED"}
Ages == {"none", "fresh", "retry", "stale"}    \* none, below 3 s, below 12 s, above
Rpcs == {"InitGame", "Restart"}
Refusals == {"failed", "full"}                 \* 29, 31: try again
Final == {"closed", "banned", "password"}      \* 32, 36, 37: never try again
Packets == {"accepted", "modified", "lost"} \cup Refusals \cup Final
NoPacket == "none"

Init ==
    /\ state = "WAIT_CONNECT" /\ terminal = FALSE /\ connected = FALSE
    /\ marked = FALSE /\ flags = FALSE /\ since = "none"
    /\ ready = FALSE /\ waited = FALSE /\ menu = FALSE
    /\ sawInit = FALSE /\ restart = FALSE
    /\ pc = "frame" /\ last = NoPacket /\ drained = 0 /\ sampled = FALSE
    /\ peer = "down" /\ inbox = <<>> /\ logon = FALSE /\ server = "idle"

-----------------------------------------------------------------------------
(* Before the pump. *)

\* apply_preconnect_frontend_compat, when the player's ped is there.
Ready ==
    /\ pc = "frame" /\ ~ready /\ state # "FAILED" /\ ~flags
    /\ ready' = TRUE
    /\ menu' = FALSE
    /\ UNCHANGED <<session, since, waited, adapter, frame, raknet, server>>

DelayPasses ==
    /\ pc = "frame" /\ ready /\ ~menu /\ ~waited
    /\ waited' = TRUE
    /\ UNCHANGED <<session, since, ready, menu, adapter, frame, raknet, server>>

\* preconnect_frontend_connect_allowed_compat.
Gate == ready /\ ~menu /\ waited

\* The frame reaches the pump: a connected transport does not wait for the gate.
FrameStarts == pc = "frame" /\ ~terminal /\ (Gate \/ connected)

Stale == state = "CONNECTING" /\ since = "stale"
Tries_AfterTimeout ==
    /\ state = "WAIT_CONNECT" \/ Stale
    /\ ~connected
    /\ since \in {"retry", "stale"}

\* The retry timer; tick 0 asks for an attempt at once.
Tries ==
    /\ state = "WAIT_CONNECT" \/ Stale
    /\ ~connected
    /\ since # "fresh"

\* A fresh connection: Disconnect, then Connect, which resets the probe.
Attempt ==
    /\ FrameStarts /\ Tries
    /\ since' = "fresh" /\ flags' = FALSE /\ marked' = FALSE
    /\ \E started \in BOOLEAN :
         /\ state' = IF started THEN "CONNECTING" ELSE "WAIT_CONNECT"
         /\ peer' = IF started THEN "opening" ELSE "down"
    /\ inbox' = <<>> /\ logon' = FALSE /\ server' = "idle"
    /\ sawInit' = FALSE /\ restart' = FALSE
    /\ pc' = "drain"
    /\ UNCHANGED <<terminal, connected, gate, last, drained, sampled>>

\* The stale timer alone gives nothing up while the transport is connected.
Continue ==
    /\ FrameStarts /\ ~Tries
    /\ state' = IF Stale THEN "WAIT_CONNECT" ELSE state
    /\ pc' = "drain"
    /\ UNCHANGED <<terminal, connected, marked, flags, since, gate, adapter,
                   last, drained, sampled, raknet, server>>

-----------------------------------------------------------------------------
(* The drain: RPCs are handled inside Receive and are not packets. *)

Receives_OverBudget(kinds) ==
    /\ pc = "drain" /\ drained <= Budget
    /\ inbox # <<>> /\ Head(inbox) \in kinds
    /\ inbox' = Tail(inbox)
    /\ UNCHANGED <<session, since, gate, pc, sampled, peer, logon>>

Receives(kinds) ==
    /\ pc = "drain" /\ drained < Budget
    /\ inbox # <<>> /\ Head(inbox) \in kinds
    /\ inbox' = Tail(inbox)
    /\ UNCHANGED <<session, since, gate, pc, sampled, peer, logon>>

OnInitGame ==
    /\ Receives({"InitGame"})
    /\ sawInit' = TRUE
    /\ UNCHANGED <<restart, last, drained, server>>

OnRestart ==
    /\ Receives({"Restart"})
    /\ sawInit' = FALSE
    /\ restart' = TRUE
    /\ UNCHANGED <<last, drained, server>>

OnPacket ==
    /\ Receives(Packets)
    /\ last' = Head(inbox)
    /\ drained' = drained + 1
    /\ server' = IF last' = "accepted" /\ peer = "up" THEN "joined" ELSE server
    /\ IF last' \in {"closed", "lost"}
       THEN sawInit' = FALSE /\ restart' = FALSE
       ELSE UNCHANGED adapter

DrainEnds ==
    /\ pc = "drain"
    /\ inbox = <<>> \/ drained = Budget
    /\ sampled' = (peer = "up")
    /\ pc' = "refresh"
    /\ UNCHANGED <<session, since, gate, adapter, last, drained, raknet, server>>

-----------------------------------------------------------------------------
(* After the drain. *)

SessionReset_KeepsConnected(transport) ==
    /\ terminal' = FALSE
    /\ state' = "WAIT_CONNECT"
    /\ marked' = (marked /\ transport)
    /\ since' = IF transport THEN since ELSE "none"
    /\ waited' = FALSE
    /\ \E ped \in BOOLEAN : ready' = ped /\ menu' = (menu /\ ~ped)
    /\ UNCHANGED connected

\* game_session_reset_to_preconnect_compat; it ends by applying the front end,
\* which may be ready at once.
SessionReset(transport) ==
    /\ terminal' = FALSE
    /\ state' = "WAIT_CONNECT"
    /\ connected' = transport
    /\ marked' = (marked /\ transport)
    /\ since' = IF transport THEN since ELSE "none"
    /\ waited' = FALSE
    /\ \E ped \in BOOLEAN : ready' = ped /\ menu' = (menu /\ ~ped)

\* refresh_raknet_rpc_snapshot_compat: a restart first, then the flags.
Refresh ==
    /\ pc = "refresh"
    /\ IF restart THEN SessionReset(peer = "up")
       ELSE UNCHANGED <<terminal, state, connected, marked, since, gate>>
    /\ flags' = sawInit
    /\ restart' = FALSE
    /\ pc' = "answer"
    /\ UNCHANGED <<sawInit, last, drained, sampled, raknet, server>>

Answers(kinds) ==
    /\ pc = "answer" /\ last \in kinds
    /\ pc' = "frame" /\ last' = NoPacket /\ drained' = 0 /\ sampled' = FALSE

Lost ==
    /\ Answers({"lost"})
    /\ SessionReset(FALSE)
    /\ flags' = FALSE
    /\ UNCHANGED <<adapter, raknet, server>>

\* network_enter_terminal_disconnect_compat; a ban does not call Disconnect.
TerminalDisconnect ==
    /\ Answers(Final)
    /\ terminal' = TRUE
    /\ connected' = FALSE /\ marked' = FALSE /\ flags' = FALSE
    /\ state' = "FAILED"
    /\ IF last = "banned" THEN UNCHANGED raknet
       ELSE peer' = "down" /\ inbox' = <<>> /\ logon' = FALSE
    /\ UNCHANGED <<since, gate, adapter, server>>

Refused ==
    /\ Answers(Refusals)
    /\ connected' = FALSE
    /\ state' = "WAIT_CONNECT"
    /\ UNCHANGED <<terminal, marked, flags, since, gate, adapter, raknet, server>>

LogOn_OnAccept ==
    /\ Answers({NoPacket, "accepted", "modified"})
    /\ connected' = (connected \/ sampled)
    /\ IF sampled /\ flags
       THEN /\ marked' = (marked \/ peer = "up")
            /\ logon' = (logon \/ (~marked /\ peer = "up"))
       ELSE UNCHANGED <<marked, logon>>
    /\ state' = IF sampled THEN "CONNECTED" ELSE state
    /\ UNCHANGED <<terminal, flags, since, gate, adapter, peer, inbox, server>>

\* Nothing ended.  InitGame marks the peer as logged on; the mark is taken
\* back, to be tried again, when RakNet has no connection to put it on.
LogOn ==
    /\ Answers({NoPacket, "accepted", "modified"})
    /\ connected' = (connected \/ sampled)
    /\ IF sampled /\ flags
       THEN /\ marked' = (marked \/ peer = "up")
            /\ logon' = (logon \/ (~marked /\ peer = "up"))
            /\ state' = "CONNECTED"
       ELSE UNCHANGED <<marked, logon, state>>
    /\ UNCHANGED <<terminal, flags, since, gate, adapter, peer, inbox, server>>

-----------------------------------------------------------------------------
(* External: RakNet and the server, the player's menu, and time. *)

Own == <<session, since, gate, adapter, frame>>

Arrives(p, what) ==
    /\ peer' = p
    /\ inbox' = Append(inbox, what)
    /\ UNCHANGED Own

PeerAccepted ==
    /\ peer = "opening"
    /\ Arrives("up", "accepted")
    /\ UNCHANGED <<logon, server>>

PeerRefused ==
    /\ peer = "opening"
    /\ \E why \in Refusals \cup {"banned", "password"} : Arrives("down", why)
    /\ UNCHANGED <<logon, server>>

\* Among the losses: RakNet drops a peer not logged on within 30 s.
PeerEnds ==
    /\ peer = "up"
    /\ \E how \in {"lost", "closed"} : Arrives("down", how)
    /\ logon' = FALSE
    /\ server' = "idle"

Modified ==
    /\ peer = "up" /\ Len(inbox) < MaxQueue
    /\ Arrives("up", "modified")
    /\ UNCHANGED <<logon, server>>

ServerInitGame ==
    /\ peer = "up" /\ server = "joined" /\ Len(inbox) < MaxQueue
    /\ Arrives("up", "InitGame")
    /\ server' = "playing"
    /\ UNCHANGED logon

ServerRestart ==
    /\ peer = "up" /\ server = "playing" /\ Len(inbox) < MaxQueue
    /\ Arrives("up", "Restart")
    /\ server' = "joined"
    /\ UNCHANGED logon

ToggleMenu ==
    /\ menu' = ~menu
    /\ UNCHANGED <<session, since, ready, waited, adapter, frame, raknet, server>>

Tick ==
    /\ pc = "frame" /\ since \in {"fresh", "retry"}
    /\ since' = IF since = "fresh" THEN "retry" ELSE "stale"
    /\ UNCHANGED <<session, gate, adapter, frame, raknet, server>>

-----------------------------------------------------------------------------
Pump ==
    \/ OnInitGame \/ OnRestart \/ OnPacket \/ DrainEnds \/ Refresh
    \/ Lost \/ TerminalDisconnect \/ Refused \/ LogOn

RakNet == PeerAccepted \/ PeerRefused \/ PeerEnds \/ Modified

Next ==
    \/ Ready \/ DelayPasses \/ Attempt \/ Continue \/ Pump
    \/ RakNet \/ ServerInitGame \/ ServerRestart \/ ToggleMenu \/ Tick

Spec == Init /\ [][Next]_vars

\* The game calls the frame for ever, and time passes (strongly fair: a frame
\* in progress disables them).  The player's ped appears in the end, the player
\* keeps leaving the menu for long enough (a frame, and the delay) to be
\* noticed, and RakNet does not fail to start every single attempt.  Nothing is
\* asked of the network or of the server.
Fairness ==
    /\ WF_vars(Pump)
    /\ SF_vars(Ready) /\ SF_vars(DelayPasses) /\ SF_vars(Tick)
    /\ SF_vars(Continue) /\ SF_vars(Attempt /\ peer' = "opening")
    /\ WF_vars(menu /\ ToggleMenu)

LiveSpec == Spec /\ Fairness

-----------------------------------------------------------------------------
TypeOK ==
    /\ state \in States /\ terminal \in BOOLEAN /\ connected \in BOOLEAN
    /\ marked \in BOOLEAN /\ flags \in BOOLEAN /\ since \in Ages
    /\ ready \in BOOLEAN /\ waited \in BOOLEAN /\ menu \in BOOLEAN
    /\ sawInit \in BOOLEAN /\ restart \in BOOLEAN
    /\ pc \in {"frame", "drain", "refresh", "answer"}
    /\ last \in Packets \cup {NoPacket} /\ drained \in 0 .. Budget /\ sampled \in BOOLEAN
    /\ peer \in {"down", "opening", "up"} /\ logon \in BOOLEAN
    /\ inbox \in Seq(Packets \cup Rpcs)
    /\ server \in {"idle", "joined", "playing"}

\* A client that says CONNECTED over a live transport is logged on in RakNet,
\* so the 30 s limit (runtime_bridge.c:32420-32427) cannot end the session.
ConnectedIsLoggedOn ==
    pc = "frame" /\ state = "CONNECTED" /\ peer = "up" => logon

\* Once the client has joined, every frame reaches the pump, through restarts
\* and whatever the front end or the menu does (31974-31978).
JoinedIsPumped ==
    pc = "frame" /\ peer = "up" /\ server # "idle" => FrameStarts

\* A session once joined goes on: it is pumped in every frame and does not run into the limit.
JoinedLasts == ConnectedIsLoggedOn /\ JoinedIsPumped

\* net_mgr_connected never outlives its transport without the packet that will
\* say so: no half-open session that neither plays nor retries.
NewsOfTheEnd ==
    pc = "frame" /\ connected /\ peer = "down"
      => \E i \in 1 .. Len(inbox) : inbox[i] \in {"lost", "closed"}

\* The one state in which a dead link is never noticed: a restart handled after
\* the link died, with the new InitGame already seen.  Not connected, the
\* client does not pump; having seen InitGame, the front end never gets ready.
Wedged == ~connected /\ ~ready /\ flags

\* A dead link is given up for good or tried again, but for that state.
DeadLinkIsRetried == peer = "down" ~> peer # "down" \/ terminal \/ Wedged

\* "A real network loss still falls through to the ordinary reconnect path"
\* (24684-24685).  The code does not keep this.
LossReconnects == peer = "down" ~> peer # "down" \/ terminal

-----------------------------------------------------------------------------
(* The inductive invariant behind JoinedLasts and NewsOfTheEnd. *)

Losses == {"lost", "closed"}
Ends == {"lost"} \cup Refusals \cup Final

\* How a connection ended is the last thing it says, and nothing follows it
\* until the next attempt.
EndIsLast ==
    /\ \A i \in 1 .. Len(inbox) : inbox[i] \in Ends => i = Len(inbox) /\ peer = "down"
    /\ last \in Ends => inbox = <<>> /\ peer = "down"

\* A transport the client counts on is there, or its end is on the way.
News == last \in Losses \/ \E i \in 1 .. Len(inbox) : inbox[i] \in Losses
EndIsNews == (connected \/ sampled) /\ peer = "down" => News

\* Nothing of an earlier connection is left when one opens.
OpensAfresh ==
    peer = "opening" =>
      ~connected /\ ~sampled /\ ~marked /\ inbox = <<>> /\ last = NoPacket

\* The mark stands for a logged-on peer, and CONNECTED for the mark.
MarkHolds ==
    /\ marked /\ peer = "up" => logon
    /\ state = "CONNECTED" /\ peer # "down" => marked

\* A server that has let the client in has it connected by the end of the frame.
JoinedIsConnected ==
    server # "idle" =>
      /\ peer = "up"
      /\ pc = "frame" => connected
      /\ pc \in {"refresh", "answer"} => sampled

IInv ==
    /\ TypeOK /\ EndIsLast /\ EndIsNews /\ OpensAfresh /\ MarkHolds /\ JoinedIsConnected
    /\ terminal => peer = "down"
    /\ pc \in {"frame", "drain"} => ~sampled
    /\ pc = "frame" => last = NoPacket /\ drained = 0
=============================================================================
