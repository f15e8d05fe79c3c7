------------------------------- MODULE Launch -------------------------------
(***************************************************************************)
(* Loading and unloading the DLL: the phases of process_attach with their   *)
(* rollback, the monitor thread they start, GTA's thread once the graphics  *)
(* hook is in place, and process_detach with its join of two seconds.       *)
(*                                                                         *)
(* What has been acquired is a set of names.  "hooks" stands for the process,*)
(* script, zone and material hooks, "entry" for the two weapon hooks, which  *)
(* pin the DLL.  Connecting is NetGame; here only the network manager counts,*)
(* which launch_prepare_network creates when it finds none.                 *)
(***************************************************************************)
EXTENDS Integers

CONSTANT MaxRestarts    \* bound: how often the DLL is loaded again

VARIABLES
    net,   \* do_init_stuff's guard; the managers made, who saw none, who is unguarded
    own,   \* boot phase, initialized, held, stop event signalled, late, loads
    env,   \* settings: online, debug, drive_init; a callback has been counted
    pc     \* of the loader, the monitor thread and GTA's thread

vars == <<net, own, env, pc>>

Runners == {"monitor", "game"}
Hooks == {"hooks", "entry", "graphics", "select"}
Modules == {"d3dx9", "bass"}
Bootstrap == {"archive", "fonts", "block"}
Permanent == {"unlock", "pregame", "ingame"}     \* patches that nothing takes back

NoNetwork == [guard |-> FALSE, inited |-> FALSE, made |-> 0, saw |-> [t \in Runners |-> FALSE], bare |-> FALSE]

Init ==
    /\ net = NoNetwork
    /\ own = [phase |-> 0, initialized |-> FALSE, held |-> {}, signal |-> FALSE, late |-> FALSE, loads |-> 0]
    /\ env \in [online : BOOLEAN, debug : BOOLEAN, drive : BOOLEAN, calls : {FALSE}]
    /\ pc = [loader |-> "out", monitor |-> "none", game |-> "out"]

-----------------------------------------------------------------------------
(* DLL_PROCESS_ATTACH: one action per phase. *)

Enters(phase, got, next) ==
    /\ own' = [own EXCEPT !.phase = phase, !.held = @ \cup got]
    /\ pc' = [pc EXCEPT !.loader = next] /\ UNCHANGED <<net, env>>

\* rollback_from_phase: the hooks, the patches and the modules whatever the phase.
Rollback(o) ==
    LET freed == Hooks \cup Modules \cup {"time", "wanted"}
                   \cup (IF o.phase >= 5 THEN {"network"} ELSE {})
                   \cup (IF o.phase >= 4 THEN Bootstrap ELSE {})
                   \cup (IF o.phase >= 2 THEN {"filter"} ELSE {})
    IN  [o EXCEPT !.held = @ \ freed, !.phase = 0]

Fails == own' = Rollback(own) /\ pc' = [pc EXCEPT !.loader = "out"] /\ UNCHANGED <<net, env>>

Guard ==
    /\ pc.loader = "out" /\ ~own.late /\ own.loads =< MaxRestarts
    /\ own' = [own EXCEPT !.phase = 1, !.loads = @ + 1]
    /\ pc' = [loader |-> "filter", monitor |-> "none", game |-> "out"]
    /\ net' = NoNetwork /\ UNCHANGED env

Filter == pc.loader = "filter" /\ Enters(2, {"filter"}, "settings")

Settings == pc.loader = "settings" /\ (Enters(3, {}, "configure") \/ Fails)

Configure == pc.loader = "configure" /\ (Enters(own.phase, {}, "bootstrap") \/ Fails)

\* Online the archive must start, and nothing is acquired before it.
StartBootstrap ==
    /\ pc.loader = "bootstrap"
    /\ \E got \in SUBSET (Bootstrap \cup {"select"}) :
         IF env.online /\ "archive" \notin got THEN Fails ELSE Enters(4, got \cup {"unlock"}, "network")

InitNetwork == pc.loader = "network" /\ (Enters(5, {"network"}, "monitor") \/ Fails)

\* Without an event or a thread the event is closed again.
StartMonitor ==
    /\ pc.loader = "monitor"
    /\ \/ Fails
       \/ /\ own' = [own EXCEPT !.phase = 7, !.initialized = TRUE, !.held = @ \cup {"event", "thread"}]
          /\ pc' = [pc EXCEPT !.loader = "ready", !.monitor = "init"] /\ UNCHANGED <<net, env>>

-----------------------------------------------------------------------------
(* DLL_PROCESS_DETACH. *)

\* The process ends: nothing is waited for, restored or freed.
Terminate == pc.loader = "ready" /\ pc' = [pc EXCEPT !.loader = "terminated"] /\ UNCHANGED <<net, own, env>>

\* FreeLibrary: never of a pinned DLL.
Signal ==
    /\ pc.loader = "ready" /\ "entry" \notin own.held
    /\ own' = [own EXCEPT !.signal = TRUE]
    /\ pc' = [pc EXCEPT !.loader = "join"] /\ UNCHANGED <<net, env>>

\* The monitor has ended, or SAMP_LAUNCH_THREAD_JOIN_MS are over.
Join ==
    /\ pc.loader = "join"
    /\ own' = [own EXCEPT !.held = @ \ {"event", "thread"}, !.late = @ \/ pc.monitor # "done"]
    /\ pc' = [pc EXCEPT !.loader = "uninstall"] /\ UNCHANGED <<net, env>>

\* A callback that is under way is not waited for.
Uninstall ==
    /\ pc.loader = "uninstall"
    /\ own' = [own EXCEPT !.held = @ \ (Hooks \cup {"time", "wanted"}), !.late = @ \/ pc.game # "out"]
    /\ pc' = [pc EXCEPT !.loader = "shutdown"] /\ UNCHANGED <<net, env>>

\* Modules, bootstrap, network, filter and the reset of g_runtime.
Shutdown ==
    /\ pc.loader = "shutdown"
    /\ own' = [own EXCEPT !.held = @ \ (Modules \cup Bootstrap \cup {"network", "filter"}),
                          !.phase = 0, !.initialized = FALSE, !.signal = FALSE]
    /\ net' = [NoNetwork EXCEPT !.made = IF net.inited THEN net.made - 1 ELSE net.made]
    /\ env' = [env EXCEPT !.calls = FALSE]
    /\ pc' = [pc EXCEPT !.loader = "out"]

-----------------------------------------------------------------------------
(* launch_do_init_stuff and launch_prepare_network, by either thread. *)

Mapped == pc.loader \notin {"out", "terminated"}
Rest(t) == IF t = "monitor" THEN "tick" ELSE "out"
Goes(t, to) == pc' = [pc EXCEPT ![t] = to]

\* One CAS; whoever finds the guard taken skips everything.
TakeGuard(t) ==
    /\ Mapped /\ pc[t] = "stuff"
    /\ net' = [net EXCEPT !.guard = TRUE]
    /\ Goes(t, IF net.guard THEN Rest(t) ELSE "load") /\ UNCHANGED <<own, env>>

\* LoadLibrary waits for the loader lock, which attach and detach hold.
\* game_inited is set already: the monitor did it before it installed the hook.
LoadModules(t) ==
    /\ pc[t] = "load" /\ (Modules \subseteq own.held \/ pc.loader = "ready") /\ Mapped
    /\ \E got \in {{}, Modules} :
         own' = [own EXCEPT !.held = @ \cup got \cup (IF env.online THEN {"time"} ELSE {})]
    /\ Goes(t, "look") /\ UNCHANGED <<net, env>>

Look(t) ==
    /\ Mapped /\ pc[t] = "look"
    /\ net' = [net EXCEPT !.saw[t] = env.online /\ ~net.inited]
    /\ Goes(t, "make") /\ UNCHANGED <<own, env>>

Make(t) ==
    /\ Mapped /\ pc[t] = "make"
    /\ \E ok \in BOOLEAN :
         LET made == net.saw[t] /\ ok
             bare == t = "monitor" /\ net.bare
         IN  net' = [net EXCEPT !.saw[t] = FALSE, !.made = IF made THEN @ + 1 ELSE @, !.inited = @ \/ made,
                                !.guard = IF bare THEN @ ELSE FALSE, !.bare = IF bare THEN FALSE ELSE @]
    /\ Goes(t, Rest(t)) /\ UNCHANGED <<own, env>>

-----------------------------------------------------------------------------
(* The monitor thread and GTA's thread. *)

MonitorInit ==
    /\ Mapped /\ pc.monitor = "init"
    /\ own' = [own EXCEPT !.held = @ \cup {"pregame"}] /\ Goes("monitor", "wait") /\ UNCHANGED <<net, env>>

\* The entry gate is reached, the event is signalled, or waiting for it fails.
MonitorWait == Mapped /\ pc.monitor = "wait" /\ Goes("monitor", "check") /\ UNCHANGED <<net, own, env>>

\* A closed event is not "signalled": after a join that gave up the game starts.
MonitorCheck ==
    /\ Mapped /\ pc.monitor = "check"
    /\ Goes("monitor", IF ~(own.signal /\ "event" \in own.held) /\ (env.online \/ env.debug)
                       THEN "start" ELSE "tick")
    /\ UNCHANGED <<net, own, env>>

MonitorStart ==
    /\ Mapped /\ pc.monitor = "start"
    /\ \E got \in SUBSET {"hooks", "entry", "graphics"} :
         own' = [own EXCEPT !.held = @ \cup got \cup {"ingame", "wanted"}]
    /\ Goes("monitor", "stuff") /\ UNCHANGED <<net, env>>

\* Once callbacks are counted the monitor leaves the network to GTA's thread.
MonitorTick ==
    /\ Mapped /\ pc.monitor = "tick" /\ UNCHANGED <<own, env>>
    /\ \/ (own.signal \/ "event" \notin own.held) /\ Goes("monitor", "done") /\ UNCHANGED net
       \/ /\ ~own.signal /\ "event" \in own.held /\ ~env.calls /\ env.drive
          /\ Goes("monitor", "stuff") /\ UNCHANGED net
       \/ /\ ~own.signal /\ "event" \in own.held /\ ~env.calls /\ ~env.drive /\ env.online
          /\ Goes("monitor", "look") /\ net' = [net EXCEPT !.bare = TRUE]

Callback ==
    /\ Mapped /\ pc.game = "out" /\ "graphics" \in own.held
    /\ env' = [env EXCEPT !.calls = TRUE] /\ Goes("game", "stuff") /\ UNCHANGED <<net, own>>

Next ==
    \/ Guard \/ Filter \/ Settings \/ Configure \/ StartBootstrap \/ InitNetwork \/ StartMonitor
    \/ Terminate \/ Signal \/ Join \/ Uninstall \/ Shutdown
    \/ \E t \in Runners : TakeGuard(t) \/ LoadModules(t) \/ Look(t) \/ Make(t)
    \/ MonitorInit \/ MonitorWait \/ MonitorCheck \/ MonitorStart \/ MonitorTick \/ Callback

Spec == Init /\ [][Next]_vars

-----------------------------------------------------------------------------
TypeOK ==
    /\ own.phase \in 0 .. 7 /\ own.loads \in 0 .. MaxRestarts + 1 /\ net.made \in 0 .. 2 * own.loads
    /\ own.held \subseteq Hooks \cup Modules \cup Bootstrap \cup Permanent
                            \cup {"filter", "network", "event", "thread", "time", "wanted"}
    /\ own.initialized <=> pc.loader \notin {"out", "filter", "settings", "configure", "bootstrap",
                                             "network", "monitor"}

\* A failed attach and an unload leave nothing behind but the patches nobody
\* takes back, and no thread in our code: unless the join gave up or a callback
\* was under way when the hooks were taken out, and but for one manager too many
\* with SAMPDLL_MONITOR_DRIVE_INIT=0, where the monitor has no guard.
NothingLeaks ==
    pc.loader = "out" /\ ~own.late =>
        /\ own.held \subseteq Permanent /\ own.phase = 0 /\ net.made =< (IF env.drive THEN 0 ELSE 1)
        /\ pc.monitor \in {"none", "done"} /\ pc.game = "out"

\* The two threads never create two network managers: do_init_stuff is guarded.  With
\* SAMPDLL_MONITOR_DRIVE_INIT=0, where the monitor comes without the guard, each creates
\* one at most.
ManagerMadeOnce == net.made =< (IF env.drive THEN 1 ELSE 2)

-----------------------------------------------------------------------------
(* What the proofs rest on. *)

Attaching == {"filter", "settings", "configure", "bootstrap", "network", "monitor"}
Things == Hooks \cup Modules \cup Bootstrap \cup Permanent \cup {"filter", "network", "event", "thread", "time", "wanted"}

Network == [guard : BOOLEAN, inited : BOOLEAN, made : Int, saw : [Runners -> BOOLEAN], bare : BOOLEAN]
Library == [phase : 0 .. 7, initialized : BOOLEAN, held : SUBSET Things, signal : BOOLEAN, late : BOOLEAN, loads : Int]
Options == [online : BOOLEAN, debug : BOOLEAN, drive : BOOLEAN, calls : BOOLEAN]
Places == [loader : Attaching \cup {"out", "ready", "terminated", "join", "uninstall", "shutdown"},
           monitor : {"none", "init", "wait", "check", "start", "stuff", "load", "look", "make", "tick", "done"},
           game : {"out", "stuff", "load", "look", "make"}]

Fields == net \in Network /\ own \in Library /\ env \in Options /\ pc \in Places

\* The phase says what a rollback has to free, and nothing more is held.
HeldByPhase ==
    LET mine == own.held \ Permanent
    IN  /\ pc.loader \in {"out", "filter"} /\ ~own.late => mine = {}
        /\ pc.loader = "out" => own.phase = 0
        /\ pc.loader \in {"settings", "configure", "bootstrap"} => mine \subseteq {"filter"} /\ own.phase >= 2
        /\ pc.loader = "network" => mine \subseteq {"filter", "select"} \cup Bootstrap /\ own.phase >= 4
        /\ pc.loader = "monitor" => mine \subseteq {"filter", "select", "network"} \cup Bootstrap /\ own.phase >= 5
        /\ pc.loader \in {"uninstall", "shutdown"} => mine \cap {"event", "thread"} = {}
        /\ pc.loader = "shutdown" /\ ~own.late => mine \subseteq Modules \cup Bootstrap \cup {"network", "filter"}

\* Who may run our code while the loader attaches, waits or detaches.
ThreadsOut ==
    /\ own.late => pc.loader \in {"uninstall", "shutdown", "out"}
    /\ pc.loader \in Attaching => pc.monitor = "none" /\ pc.game = "out"
    /\ pc.loader = "out" /\ ~own.late => pc.monitor \in {"none", "done"} /\ pc.game = "out"
    /\ pc.loader \in {"uninstall", "shutdown"} /\ ~own.late => pc.monitor = "done"
    /\ pc.loader = "shutdown" /\ ~own.late => pc.game = "out"

\* One thread is between the guard and the manager, and only it may have seen that there is none.
GuardHeld ==
    /\ ~net.bare
    /\ IF net.inited THEN net.made = 1 ELSE net.made = 0
    /\ \A t \in Runners : net.saw[t] => pc[t] = "make" /\ ~net.inited
    /\ pc.loader # "out" => \A t \in Runners : pc[t] \in {"load", "look", "make"} =>
         net.guard /\ \A u \in Runners : pc[u] \in {"load", "look", "make"} => u = t

IInv == Fields /\ HeldByPhase /\ ThreadsOut /\ (env.drive => GuardHeld)

(* What the type of the manager's count rests on, whether or not the monitor has a guard. *)

\* A load makes two managers at most, one for each thread that saw none, and the detach
\* frees one.
MadeByTwo ==
    /\ net.made \in 0 .. 2 /\ (net.made = 2 => \A t \in Runners : ~net.saw[t])
    /\ net.made = 1 => ~(net.saw["monitor"] /\ net.saw["game"])
    /\ pc.loader # "out" => (net.inited <=> net.made # 0)
    /\ pc.loader \in Attaching \cup {"out"} => net.made =< 1

\* Loads are counted, and the library is initialized once it is attached.
LoadsCounted ==
    /\ own.loads \in 0 .. MaxRestarts + 1
    /\ own.loads = 0 => pc.loader = "out" /\ net.made = 0
    /\ own.initialized <=> pc.loader \notin Attaching \cup {"out"}
=============================================================================
