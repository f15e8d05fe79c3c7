--------------------------- MODULE ClassSelection ---------------------------
(***************************************************************************)
(* The class-selection and spawn handshake of the RakNet client adapter    *)
(* (reimpl/src/net/raknet_client_adapter.cpp, global g_rpc_probe).         *)
(*                                                                         *)
(* RPC handlers run inside Receive() and only record what the server said; *)
(* the user interface and the bridge set "pending" flags; one service      *)
(* routine, run after every received packet, turns the flags into outgoing *)
(* RPCs.  RequestClass and RequestSpawn are sent RELIABLE, which RakNet    *)
(* does not order, so requests under way form a bag.  The server's RPCs    *)
(* come back in order.  A game-mode restart (RPC 40, "GMX") and a lost     *)
(* link erase the client's half of the handshake and not the server's.     *)
(*                                                                         *)
(* Covered: RPCs 40, 61, 128, 129 and 139, the service routine, the class  *)
(* and spawn calls of the adapter's interface, disconnect and reconnect.   *)
(* Names with an underscore are mutations: the definition that follows,    *)
(* changed the way a bug would change it, to show what a property catches.  *)
(* Left out: SetSpawnInfo (RPC 68), the score ping, the 250 ms key-repeat  *)
(* gate (a key may be accepted at any time), the contents of messages.     *)
(***************************************************************************)
EXTENDS Integers, Sequences, FiniteSets

CONSTANTS
    NumClasses,  \* classes the server offers: init_spawns_available
    MaxQueue,    \* bound: server messages under way
    MaxSame      \* bound: equal requests under way

ASSUME NumClassesAssumption == NumClasses \in Nat \ {0}
ASSUME BoundsAssumption == MaxQueue \in Nat /\ MaxSame \in Nat

Classes == 0 .. NumClasses - 1
NoClass == -1

VARIABLES
    probe,       \* g_rpc_probe: the client's half of the handshake
    link,        \* RakNet holds a connection, so RPC() succeeds
    classReqs,   \* bag of RequestClass under way: class -> copies
    spawnReqs,   \* RequestSpawn under way
    s2c,         \* server RPCs under way, in order
    srvClass,    \* the class the server last gave this player
    srvInit,     \* the server owes the player an InitGame
    orphaned     \* history: a request was abandoned while under way

vars == <<probe, link, classReqs, spawnReqs, s2c, srvClass, srvInit, orphaned>>
server == <<srvClass, srvInit>>

Kinds == {"InitGame", "Restart", "Dialog", "ClassReply", "SpawnReply"}
\* class: the class a reply is about (spawn info, or the class spawned as).
Message == [kind : Kinds, class : Classes \cup {NoClass}, ok : BOOLEAN]
Msg(k) == [kind |-> k, class |-> NoClass, ok |-> FALSE]
Reply(k, c, ok) == [kind |-> k, class |-> c, ok |-> ok]

\* pendClass, pendSpawn, pendDialog   pending_request_class / _spawn, pending_dialog_response
\* waiting, selected, sentClass       waiting_for_request_class_reply, selected_class, sent_request_class
\* sawReply, outcome                  saw_request_class_reply, request_class_outcome # 0
\* sawSpawn, spawnOk, spawnSent       saw_request_spawn_reply, outcome 1 or 2, send_count > 0
\* wantsClass, forced                 class_selection_after_death_requested / _consumed
\* info                               class described by the stored spawn info
Probe == [sawInit : BOOLEAN, sentClass : BOOLEAN, pendClass : BOOLEAN, pendId : Classes,
          waiting : BOOLEAN, selected : Classes, sawReply : BOOLEAN, outcome : BOOLEAN,
          sawSpawn : BOOLEAN, spawnOk : BOOLEAN, pendSpawn : BOOLEAN, spawnSent : BOOLEAN,
          dialog : BOOLEAN, pendDialog : BOOLEAN, shiftDown : BOOLEAN,
          wantsClass : BOOLEAN, forced : BOOLEAN, info : Classes \cup {NoClass}]

ResetProbe ==
    [sawInit |-> FALSE, sentClass |-> FALSE, pendClass |-> FALSE, pendId |-> 0,
     waiting |-> FALSE, selected |-> 0, sawReply |-> FALSE, outcome |-> FALSE,
     sawSpawn |-> FALSE, spawnOk |-> FALSE, pendSpawn |-> FALSE, spawnSent |-> FALSE,
     dialog |-> FALSE, pendDialog |-> FALSE, shiftDown |-> FALSE,
     wantsClass |-> FALSE, forced |-> FALSE, info |-> NoClass]

Init ==
    /\ probe = ResetProbe
    /\ link = TRUE
    /\ classReqs = [c \in Classes |-> 0]
    /\ spawnReqs = 0
    /\ s2c = <<>>
    /\ srvClass = NoClass
    /\ srvInit = TRUE
    /\ orphaned = FALSE

-----------------------------------------------------------------------------
(* Helpers of the adapter. *)

\* init_spawns_available is 0 until InitGame: then one class is assumed.
Available(p) == IF p.sawInit THEN NumClasses ELSE 1

ClampClassId_OffByOne(p, c) ==
    IF c < 0 THEN Available(p) - 1 ELSE IF c > Available(p) THEN 0 ELSE c

ClampClassId(p, c) ==
    IF c < 0 THEN Available(p) - 1 ELSE IF c >= Available(p) THEN 0 ELSE c

ScheduleRequestClass(p, c) ==
    [p EXCEPT !.selected = ClampClassId(p, c),
              !.pendId = ClampClassId(p, c),
              !.pendClass = TRUE]

ManualReady_WhileWaiting(p) ==
    /\ ~p.dialog /\ ~p.pendSpawn /\ ~p.pendClass
    /\ p.sawReply /\ p.outcome /\ ~p.spawnSent

ManualReady(p) ==
    /\ ~p.dialog /\ ~p.pendSpawn /\ ~p.pendClass /\ ~p.waiting
    /\ p.sawReply /\ p.outcome /\ ~p.spawnSent

SpawnReady(p) == p.sawSpawn /\ p.spawnOk

-----------------------------------------------------------------------------
(* service_rpc_probe_actions: its four parts, in the order of the code. *)

\* The pending answer is dropped even when it cannot be sent.
DialogPart(p) ==
    IF p.pendDialog THEN [p EXCEPT !.pendDialog = FALSE, !.dialog = IF link THEN FALSE ELSE @] ELSE p

SendsClass_HeldByDialog(p) == p.pendClass /\ ~p.waiting /\ link /\ ~p.dialog

SendsClass(p) == p.pendClass /\ ~p.waiting /\ link

ClassPart(p) ==
    IF SendsClass(p)
    THEN [p EXCEPT !.sentClass = TRUE, !.pendClass = FALSE, !.waiting = TRUE,
                   !.selected = ClampClassId(p, p.pendId)]
    ELSE p

\* SHIFT asks for the spawn on its down edge, LEFT and RIGHT for the next class.
KeyPart(p, shift, step) ==
    IF ~ManualReady(p) THEN p
    ELSE [(IF shift /\ ~p.shiftDown THEN [p EXCEPT !.pendSpawn = TRUE]
           ELSE IF step # 0 THEN ScheduleRequestClass(p, p.selected + step)
           ELSE p) EXCEPT !.shiftDown = shift]

SendsSpawn(p) == p.pendSpawn /\ ~p.dialog

SpawnPart(p) ==
    IF SendsSpawn(p) THEN [p EXCEPT !.pendSpawn = FALSE, !.spawnSent = link] ELSE p

Service ==
    /\ \E shift \in BOOLEAN, step \in {-1, 0, 1} :
         LET d == DialogPart(probe)
             c == ClassPart(d)
             k == KeyPart(c, shift, step)
         IN  /\ probe' = SpawnPart(k)
             /\ classReqs' = IF SendsClass(d)
                             THEN [classReqs EXCEPT ![c.selected] = @ + 1]
                             ELSE classReqs
             /\ spawnReqs' = IF SendsSpawn(k) /\ link THEN spawnReqs + 1 ELSE spawnReqs
    /\ classReqs' \in [Classes -> 0 .. MaxSame] /\ spawnReqs' <= MaxSame
    /\ UNCHANGED <<link, s2c, server, orphaned>>

-----------------------------------------------------------------------------
(* rpc_observer: one action per RPC. *)

Receive(k) ==
    /\ link /\ s2c # <<>> /\ Head(s2c).kind = k
    /\ s2c' = Tail(s2c)
    /\ UNCHANGED <<link, classReqs, spawnReqs, server>>

OnInitGame ==
    /\ Receive("InitGame")
    /\ LET p == [probe EXCEPT !.sawInit = TRUE]
       IN  probe' = IF ~p.sentClass /\ ~p.pendClass /\ ~p.waiting
                    THEN ScheduleRequestClass(p, p.selected) ELSE p
    /\ UNCHANGED orphaned

\* A class is accepted together with its spawn info.
OnClassReply ==
    /\ Receive("ClassReply")
    /\ LET m == Head(s2c)
       IN  probe' = IF m.ok
                    THEN [probe EXCEPT !.sawReply = TRUE, !.waiting = FALSE, !.outcome = TRUE,
                                       !.info = m.class, !.wantsClass = FALSE, !.forced = FALSE]
                    ELSE [probe EXCEPT !.sawReply = TRUE, !.waiting = FALSE, !.outcome = FALSE]
    /\ UNCHANGED orphaned

OnSpawnReply_KeepsSent ==
    /\ Receive("SpawnReply")
    /\ probe' = [probe EXCEPT !.sawSpawn = TRUE, !.spawnOk = Head(s2c).ok, !.pendSpawn = FALSE]
    /\ UNCHANGED orphaned

OnSpawnReply ==
    /\ Receive("SpawnReply")
    /\ probe' = [probe EXCEPT !.sawSpawn = TRUE, !.spawnOk = Head(s2c).ok, !.pendSpawn = FALSE,
                              !.spawnSent = IF Head(s2c).ok THEN @ ELSE FALSE]
    /\ UNCHANGED orphaned

OnDialog ==
    /\ Receive("Dialog")
    /\ probe' = [probe EXCEPT !.dialog = TRUE]
    /\ UNCHANGED orphaned

\* The client forgets what it has asked; the server does not.
Abandons(p) == p.waiting \/ (p.spawnSent /\ ~SpawnReady(p))

OnRestart ==
    /\ Receive("Restart")
    /\ probe' = ResetProbe
    /\ orphaned' = (orphaned \/ Abandons(probe))

-----------------------------------------------------------------------------
(* Calls of the adapter's interface. *)

ClientCall == UNCHANGED <<link, classReqs, spawnReqs, s2c, server>>

\* F4, or RPC 74 through the bridge.
MarkAfterDeath ==
    /\ ClientCall
    /\ probe.sawInit
    /\ ~(probe.wantsClass /\ ~probe.forced)
    /\ probe' = [probe EXCEPT !.wantsClass = TRUE, !.forced = FALSE]
    /\ UNCHANGED orphaned

RequestClassAfterDeath_KeepsSent ==
    /\ ClientCall
    /\ SpawnReady(probe)
    /\ probe.sawInit /\ probe.wantsClass /\ ~probe.forced
    /\ LET p == [probe EXCEPT !.wantsClass = FALSE, !.forced = TRUE, !.sawReply = FALSE,
                              !.outcome = FALSE, !.waiting = FALSE, !.sawSpawn = FALSE,
                              !.spawnOk = FALSE, !.pendSpawn = FALSE, !.shiftDown = FALSE]
       IN  probe' = ScheduleRequestClass(p, p.selected)
    /\ orphaned' = (orphaned \/ Abandons(probe))

\* The bridge calls it when a spawned player who pressed F4 has died.
RequestClassAfterDeath ==
    /\ ClientCall
    /\ SpawnReady(probe)
    /\ probe.sawInit /\ probe.wantsClass /\ ~probe.forced
    /\ LET p == [probe EXCEPT !.wantsClass = FALSE, !.forced = TRUE, !.sawReply = FALSE,
                              !.outcome = FALSE, !.waiting = FALSE, !.sawSpawn = FALSE,
                              !.spawnOk = FALSE, !.pendSpawn = FALSE, !.spawnSent = FALSE,
                              !.shiftDown = FALSE]
       IN  probe' = ScheduleRequestClass(p, p.selected)
    /\ orphaned' = (orphaned \/ Abandons(probe))

RequestClassDelta ==
    /\ ClientCall
    /\ ManualReady(probe) \/ probe.forced
    /\ \E step \in {-1, 1} :
         LET p == IF probe.forced
                  THEN [probe EXCEPT !.waiting = FALSE, !.sawReply = FALSE, !.outcome = FALSE]
                  ELSE probe
         IN  probe' = ScheduleRequestClass(p, probe.selected + step)
    /\ orphaned' = (orphaned \/ (probe.forced /\ probe.waiting))

RequestSpawn ==
    /\ ClientCall
    /\ ManualReady(probe) \/ probe.forced
    /\ ~probe.pendClass /\ ~probe.waiting /\ probe.sawReply /\ probe.outcome
    /\ probe' = [probe EXCEPT !.pendSpawn = TRUE]
    /\ UNCHANGED orphaned

\* Accepted for the open dialog, and for the last one after its answer too.
AnswerDialog ==
    /\ ClientCall
    /\ probe' = [probe EXCEPT !.pendDialog = TRUE]
    /\ UNCHANGED orphaned

\* Packets 32 and 33 reset the probe; the next Connect resets it again.
LoseLink ==
    /\ link
    /\ link' = FALSE
    /\ classReqs' = [c \in Classes |-> 0]
    /\ spawnReqs' = 0
    /\ s2c' = <<>>
    /\ UNCHANGED <<probe, server, orphaned>>

DisconnectPacket ==
    /\ ~link
    /\ probe' = ResetProbe
    /\ UNCHANGED <<link, classReqs, spawnReqs, s2c, server, orphaned>>

Connect_KeepsProbe ==
    /\ ~link
    /\ link' = TRUE
    /\ srvInit' = TRUE
    /\ srvClass' = NoClass
    /\ orphaned' = FALSE
    /\ UNCHANGED <<probe, classReqs, spawnReqs, s2c>>

Connect ==
    /\ ~link
    /\ link' = TRUE
    /\ probe' = ResetProbe
    /\ srvInit' = TRUE
    /\ srvClass' = NoClass
    /\ orphaned' = FALSE
    /\ UNCHANGED <<classReqs, spawnReqs, s2c>>

-----------------------------------------------------------------------------
(* The server: external, as the client's handlers expect it. *)

Send(m) ==
    /\ link /\ Len(s2c) < MaxQueue
    /\ s2c' = Append(s2c, m)
    /\ UNCHANGED <<probe, link, orphaned>>

SrvInitGame ==
    /\ srvInit
    /\ Send(Msg("InitGame"))
    /\ srvInit' = FALSE
    /\ UNCHANGED <<classReqs, spawnReqs, srvClass>>

SrvRestart ==
    /\ ~srvInit
    /\ Send(Msg("Restart"))
    /\ srvInit' = TRUE
    /\ UNCHANGED <<classReqs, spawnReqs, srvClass>>

SrvDialog ==
    /\ ~srvInit
    /\ Send(Msg("Dialog"))
    /\ UNCHANGED <<classReqs, spawnReqs, server>>

SrvAnswerClass ==
    \E c \in Classes, ok \in BOOLEAN :
      /\ classReqs[c] > 0
      /\ Send(Reply("ClassReply", c, ok))
      /\ classReqs' = [classReqs EXCEPT ![c] = @ - 1]
      /\ srvClass' = IF ok THEN c ELSE srvClass
      /\ UNCHANGED <<spawnReqs, srvInit>>

SrvAnswerSpawn ==
    \E ok \in BOOLEAN :
      /\ spawnReqs > 0
      /\ Send(Reply("SpawnReply", srvClass, ok))
      /\ spawnReqs' = spawnReqs - 1
      /\ UNCHANGED <<classReqs, server>>

-----------------------------------------------------------------------------
Deliver == OnInitGame \/ OnClassReply \/ OnSpawnReply \/ OnDialog \/ OnRestart

Calls == \/ MarkAfterDeath \/ RequestClassAfterDeath \/ RequestClassDelta
         \/ RequestSpawn \/ AnswerDialog

Link == LoseLink \/ DisconnectPacket \/ Connect

Server == \/ SrvInitGame \/ SrvRestart \/ SrvDialog \/ SrvAnswerClass \/ SrvAnswerSpawn

Next == Service \/ Deliver \/ Calls \/ Link \/ Server

Spec == Init /\ [][Next]_vars

\* The pump runs the handlers and the service routine on every frame, and a
\* connected server answers what it receives (strongly fair: only the bound on
\* s2c ever disables it).  Nothing is asked of the user, of restarts or of the
\* link.
Fairness ==
    /\ WF_vars(Service)
    /\ WF_vars(Deliver)
    /\ SF_vars(SrvInitGame) /\ SF_vars(SrvAnswerClass) /\ SF_vars(SrvAnswerSpawn)

LiveSpec == Spec /\ Fairness

-----------------------------------------------------------------------------
TypeOK ==
    /\ probe \in Probe
    /\ link \in BOOLEAN
    /\ classReqs \in [Classes -> Nat]
    /\ spawnReqs \in Nat
    /\ s2c \in Seq(Message)
    /\ srvClass \in Classes \cup {NoClass}
    /\ srvInit \in BOOLEAN
    /\ orphaned \in BOOLEAN

Coming(k) == \E i \in 1 .. Len(s2c) : s2c[i].kind = k
ClassUnderWay == Coming("ClassReply") \/ \E c \in Classes : classReqs[c] > 0
SpawnUnderWay == Coming("SpawnReply") \/ spawnReqs > 0

\* While the client waits for a class reply one is on its way: the flag that
\* blocks every key of class selection can never be left up for good.
WaitingIsAnswered == link /\ probe.waiting => ClassUnderWay

\* The flag that says a RequestSpawn was sent blocks class selection too: it
\* stands only for a request under way or a spawn the server has allowed.
SpawnSentIsAnswered == link /\ probe.spawnSent => SpawnUnderWay \/ SpawnReady(probe)

\* Unless a restart or a forced selection cut a request off, no RequestSpawn is
\* queued or under way while a class is still being asked for: RakNet does not
\* order the two, so the server could spawn the player as the wrong class.
SpawnNeverRacesClass ==
    link /\ ~orphaned /\ (probe.pendSpawn \/ spawnReqs > 0) => ~ClassUnderWay

\* Under the same condition a client that learns it may spawn holds the spawn info of the class
\* the server spawned it as.
SpawnInfoAgrees ==
    \A i \in 1 .. Len(s2c) :
      ~orphaned /\ s2c[i].kind = "SpawnReply" /\ s2c[i].ok
        => probe.info = s2c[i].class

\* So no one is spawned as another class than the one he was shown: a spawn neither overtakes
\* the request of its class nor finds the spawn info of another.
SpawnIsOfClass == SpawnNeverRacesClass /\ SpawnInfoAgrees

\* After InitGame the class handshake completes unless it is cut off.
ClassReplyArrives == probe.sawInit /\ link ~> probe.sawReply \/ ~probe.sawInit \/ ~link

\* A scheduled spawn is sent or held back by a dialog, and then answered.
SpawnIsAnswered == probe.spawnSent /\ link ~> SpawnReady(probe) \/ ~probe.spawnSent \/ ~link

-----------------------------------------------------------------------------
(* The inductive invariant behind SpawnNeverRacesClass and SpawnInfoAgrees:  *)
(* without an orphan there is one exchange at a time, and the flags of the   *)
(* probe say which.                                                          *)

AtMostOne(k) ==
    \A i, j \in 1 .. Len(s2c) : s2c[i].kind = k /\ s2c[j].kind = k => i = j

OneClass ==
    /\ AtMostOne("ClassReply")
    /\ \A c \in Classes : classReqs[c] > 0 =>
         /\ classReqs[c] = 1 /\ ~Coming("ClassReply")
         /\ \A d \in Classes : classReqs[d] > 0 => d = c

OneSpawn ==
    /\ AtMostOne("SpawnReply")
    /\ spawnReqs > 0 => spawnReqs = 1 /\ ~Coming("SpawnReply")

\* The flags alone.
Flags(p) ==
    /\ p.waiting \/ p.sawReply => p.sentClass
    /\ p.pendSpawn \/ p.spawnSent => ~p.pendClass /\ ~p.waiting /\ p.sawReply /\ p.outcome
    /\ p.pendSpawn => ~p.spawnSent
    /\ SpawnReady(p) => p.spawnSent

\* The flags against what is under way.
Exchange ==
    /\ OneClass /\ OneSpawn
    /\ ClassUnderWay => probe.waiting
    /\ SpawnUnderWay => probe.spawnSent /\ ~SpawnReady(probe)
    /\ ~ClassUnderWay /\ probe.sawReply /\ probe.outcome => probe.info = srvClass
    /\ \A i \in 1 .. Len(s2c) :
         s2c[i].kind \in {"ClassReply", "SpawnReply"} /\ s2c[i].ok => s2c[i].class = srvClass

IInv ==
    /\ TypeOK
    /\ probe.forced => ~probe.outcome
    /\ ~link => s2c = <<>> /\ spawnReqs = 0 /\ \A c \in Classes : classReqs[c] = 0
    /\ ~orphaned => Flags(probe)
    /\ ~orphaned /\ link => Exchange
=============================================================================
