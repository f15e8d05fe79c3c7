------------------------------ MODULE Sockets ------------------------------
(***************************************************************************)
(* The socket helpers and the network manager: threads that connect, each    *)
(* trying the addresses of a host in turn, a resolver that the first of them  *)
(* looks up in Windows while the others wait, and a manager with a listener.  *)
(* Every call of Windows may fail.                                          *)
(*                                                                         *)
(* Left out: what is sent, the parts of an address, the fourth kind of end of *)
(* a connection (a reset after it is handed out).  RakNet has sockets of its  *)
(* own.                                                                     *)
(***************************************************************************)
EXTENDS Integers, FiniteSets

CONSTANTS
    Threads,      \* that connect
    Addresses,    \* bound: a host's addresses
    MaxSockets    \* bound: sockets ever made

VARIABLES
    net,   \* the resolver: its state, whether its procedures are there; Windows' sockets
    own,   \* the manager: initialized, running, its listener; RakNet client
    env,   \* open sockets, those handed out, address lists held, sockets made
    pc     \* of each thread: where it is, its socket, addresses left, its way of connecting

vars == <<net, own, env, pc>>

Home == [at |-> "home", socket |-> 0, left |-> 0, way |-> "none"]

Init ==
    /\ net = [resolver |-> 0, found |-> FALSE, started |-> FALSE]
    /\ own = [initialized |-> FALSE, running |-> FALSE, listener |-> 0, raknet |-> FALSE]
    /\ env = [open |-> {}, given |-> {}, lists |-> {}, made |-> 0, unready |-> FALSE]
    /\ pc = [t \in Threads |-> Home]

-----------------------------------------------------------------------------
(* Sockets. *)

\* socket(): a new one, or none.
NewSocket == env.made + 1
CanOpen == env.made < MaxSockets
Opened == [env EXCEPT !.open = @ \cup {NewSocket}, !.made = @ + 1]
Closed(e, s) == [e EXCEPT !.open = @ \ {s}]

\* samp_net_runtime_init; when WSAStartup fails its caller returns and nothing has changed.
Started == \/ net.started /\ UNCHANGED net
           \/ ~net.started /\ net' = [net EXCEPT !.started = TRUE]

Moves(t, at) == pc' = [pc EXCEPT ![t].at = at]
Leaves(t) == pc' = [pc EXCEPT ![t] = Home]

-----------------------------------------------------------------------------
(* samp_net_connect_dual_stack, with the resolver of ensure_win32_resolver. *)

\* Without a time limit the socket blocks.
Enter(t) ==
    /\ pc[t].at = "home"
    /\ \E way \in {"limit", "blocking"} : pc' = [pc EXCEPT ![t] = [Home EXCEPT !.at = "ensure", !.way = way]]
    /\ Started /\ UNCHANGED <<own, env>>

\* The first thread looks for the procedures.
Claim(t) ==
    /\ pc[t].at = "ensure" /\ net.resolver = 0
    /\ net' = [net EXCEPT !.resolver = 1] /\ Moves(t, "look") /\ UNCHANGED <<own, env>>

Look(t) ==
    /\ pc[t].at = "look"
    /\ \E found \in BOOLEAN : net' = [net EXCEPT !.found = found]
    /\ Moves(t, "publish") /\ UNCHANGED <<own, env>>

Publish(t) ==
    /\ pc[t].at = "publish"
    /\ net' = [net EXCEPT !.resolver = IF net.found THEN 2 ELSE -1]
    /\ IF net.found THEN Moves(t, "resolve") ELSE Leaves(t)
    /\ UNCHANGED <<own, env>>

PassEnsure_Claimed(t) ==
    /\ pc[t].at = "ensure" /\ net.resolver # 0
    /\ IF net.resolver = -1 THEN Leaves(t) ELSE Moves(t, "resolve")
    /\ UNCHANGED <<net, own, env>>

\* The others wait for its result.
PassEnsure(t) ==
    /\ pc[t].at = "ensure" /\ net.resolver \in {2, -1}
    /\ IF net.resolver = 2 THEN Moves(t, "resolve") ELSE Leaves(t)
    /\ UNCHANGED <<net, own, env>>

\* getaddrinfo
Resolve(t) ==
    /\ pc[t].at = "resolve" /\ UNCHANGED <<net, own>>
    /\ \/ Leaves(t) /\ env' = [env EXCEPT !.unready = @ \/ ~net.found]
       \/ \E n \in 1 .. Addresses :
            /\ pc' = [pc EXCEPT ![t].at = "next", ![t].left = n]
            /\ env' = [env EXCEPT !.lists = @ \cup {t}, !.unready = @ \/ ~net.found]

\* The next address; the list is freed after the last one.
NextAddress(t) ==
    /\ pc[t].at = "next" /\ UNCHANGED <<net, own>>
    /\ \/ pc[t].left = 0 /\ Leaves(t) /\ env' = [env EXCEPT !.lists = @ \ {t}]
       \/ pc[t].left > 0 /\ pc' = [pc EXCEPT ![t].left = @ - 1] /\ UNCHANGED env
       \/ /\ pc[t].left > 0 /\ CanOpen /\ env' = Opened
          /\ pc' = [pc EXCEPT ![t] = [@ EXCEPT !.left = pc[t].left - 1, !.socket = NewSocket, !.at = "mode"]]

\* Only with a time limit; a socket that cannot be changed is given up.
SetMode_KeepsOpen(t) ==
    /\ pc[t].at = "mode" /\ UNCHANGED <<net, own>>
    /\ \/ Moves(t, "connect") /\ UNCHANGED env
       \/ pc[t].way = "limit" /\ pc' = [pc EXCEPT ![t].at = "next", ![t].socket = 0] /\ UNCHANGED env

SetMode(t) ==
    /\ pc[t].at = "mode" /\ UNCHANGED <<net, own>>
    /\ \/ Moves(t, "connect") /\ UNCHANGED env
       \/ /\ pc[t].way = "limit" /\ pc' = [pc EXCEPT ![t].at = "next", ![t].socket = 0]
          /\ env' = Closed(env, pc[t].socket)

Succeeds(t) ==
    /\ env' = [env EXCEPT !.given = @ \cup {pc[t].socket}, !.lists = @ \ {t}] /\ Leaves(t)

GivesUp(t) == env' = Closed(env, pc[t].socket) /\ pc' = [pc EXCEPT ![t].at = "next", ![t].socket = 0]

\* connect() answers at once, or select() waits for it and the socket's error decides.
Connect(t) ==
    /\ pc[t].at = "connect" /\ UNCHANGED <<net, own>>
    /\ \/ Succeeds(t)
       \/ GivesUp(t)
       \/ pc[t].way = "limit" /\ Moves(t, "select") /\ UNCHANGED env

Select(t) == pc[t].at = "select" /\ UNCHANGED <<net, own>> /\ (Succeeds(t) \/ GivesUp(t))

-----------------------------------------------------------------------------
(* The manager, on the thread of the session. *)

MgrInit ==
    /\ ~own.initialized /\ Started
    /\ \E raknet \in BOOLEAN : own' = [initialized |-> TRUE, running |-> FALSE, listener |-> 0, raknet |-> raknet]
    /\ UNCHANGED <<env, pc>>

\* samp_net_ipv4_tcp_listen and its port: a socket that cannot be bound, listened
\* on or asked for its port is closed again.
StartListener ==
    /\ own.initialized /\ ~own.running /\ CanOpen /\ UNCHANGED <<net, pc>>
    /\ \/ env' = Opened /\ own' = [own EXCEPT !.running = TRUE, !.listener = NewSocket]
       \/ env' = Closed(Opened, NewSocket) /\ UNCHANGED own

\* samp_net_ipv4_tcp_connect: one address, no time limit.
MgrConnect ==
    /\ own.initialized /\ CanOpen /\ UNCHANGED <<net, own, pc>>
    /\ \/ env' = [Opened EXCEPT !.given = @ \cup {NewSocket}]
       \/ env' = Closed(Opened, NewSocket)

\* samp_net_ipv4_create_udp_bound: a socket that cannot be changed or bound is closed again.
CreateUdpBound ==
    /\ CanOpen /\ Started /\ UNCHANGED <<own, pc>>
    /\ \/ env' = [Opened EXCEPT !.given = @ \cup {NewSocket}]
       \/ env' = Closed(Opened, NewSocket)

Stopped(o) == [o EXCEPT !.running = FALSE, !.listener = 0]

MgrStop ==
    /\ own.initialized /\ own' = Stopped(own)
    /\ env' = Closed(env, own.listener) /\ UNCHANGED <<net, pc>>

\* Whoever has been given a socket closes it: the session after its probe.
CloseGiven ==
    \E s \in env.given : env' = [Closed(env, s) EXCEPT !.given = @ \ {s}] /\ UNCHANGED <<net, own, pc>>

\* Stops first, then lets the RakNet client and Windows' sockets go; `started` is not
\* reset, and that an open socket is dead after the last WSACleanup is left out.
MgrDestroy ==
    /\ own.initialized
    /\ own' = [Stopped(own) EXCEPT !.initialized = FALSE, !.raknet = FALSE]
    /\ env' = Closed(env, own.listener) /\ UNCHANGED <<net, pc>>

Next ==
    \/ \E t \in Threads : \/ Enter(t) \/ Claim(t) \/ Look(t) \/ Publish(t) \/ PassEnsure(t) \/ Resolve(t)
                          \/ NextAddress(t) \/ SetMode(t) \/ Connect(t) \/ Select(t)
    \/ MgrInit \/ StartListener \/ MgrConnect \/ CreateUdpBound \/ MgrStop \/ CloseGiven \/ MgrDestroy

Spec == Init /\ [][Next]_vars

-----------------------------------------------------------------------------
TypeOK ==
    /\ net.resolver \in {-1, 0, 1, 2} /\ net.found \in BOOLEAN /\ net.started \in BOOLEAN
    /\ own.initialized \in BOOLEAN /\ own.running \in BOOLEAN /\ own.listener \in 0 .. MaxSockets
    /\ own.running <=> own.listener # 0
    /\ env.open \subseteq 1 .. env.made /\ env.made \in 0 .. MaxSockets /\ env.lists \subseteq Threads
    /\ \A t \in Threads : pc[t].left \in 0 .. Addresses

\* No socket and no address list is forgotten on a failing path: what is open is with
\* a thread, with the caller or with the manager, and a thread that is home holds
\* nothing (samp_net_connect_dual_stack, samp_net_mgr_start_listener).
SocketsReturn ==
    /\ env.open = (env.given \cup {pc[t].socket : t \in Threads} \cup {own.listener}) \ {0}
    /\ \A t \in Threads : t \in env.lists => pc[t].at \in {"next", "mode", "connect", "select"}

\* No thread resolves a name before the procedures are known to be there, whichever of
\* the threads looked for them (ensure_win32_resolver).
ResolverIsReady == ~env.unready

-----------------------------------------------------------------------------
(* What the proofs rest on. *)

Stages == {"home", "ensure", "look", "publish", "resolve", "next", "mode", "connect", "select"}

Resolver == [resolver : {-1, 0, 1, 2}, found : BOOLEAN, started : BOOLEAN]
Manager == [initialized : BOOLEAN, running : BOOLEAN, listener : Nat, raknet : BOOLEAN]
World == [open : SUBSET Nat, given : SUBSET Nat, lists : SUBSET Threads, made : Nat, unready : BOOLEAN]
Place == [at : Stages, socket : Nat, left : Nat, way : {"none", "limit", "blocking"}]

Looking == {"look", "publish"}
Connecting == {"mode", "connect", "select"}

Fields == net \in Resolver /\ own \in Manager /\ env \in World /\ pc \in [Threads -> Place]

\* One thread looks for the resolver, and until it has published nobody resolves.
OneLooks ==
    /\ \A t \in Threads : pc[t].at \in Looking =>
         net.resolver = 1 /\ \A u \in Threads : pc[u].at \in Looking => u = t
    /\ \A t \in Threads : pc[t].at = "resolve" => net.resolver = 2
    /\ net.resolver = 2 => net.found

\* A socket has been made and has one holder; a thread holds one while it connects.
OneHolder ==
    /\ \A t \in Threads : pc[t].socket # 0 <=> pc[t].at \in Connecting
    /\ \A t \in Threads : pc[t].socket # 0 =>
         /\ pc[t].socket =< env.made /\ pc[t].socket \notin env.given \cup {own.listener}
         /\ \A u \in Threads : pc[u].socket = pc[t].socket => u = t
    /\ env.given \subseteq 1 .. env.made /\ own.listener \in (0 .. env.made) \ env.given
    /\ own.running <=> own.listener # 0
    /\ own.running => own.initialized

IInv == Fields /\ OneLooks /\ OneHolder /\ ResolverIsReady /\ SocketsReturn

\* What the types rest on besides: sockets and addresses are within their bounds.
Bounded == env.made =< MaxSockets /\ \A t \in Threads : pc[t].left =< Addresses
=============================================================================
