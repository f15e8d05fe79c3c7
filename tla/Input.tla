------------------------------- MODULE Input -------------------------------
(***************************************************************************)
(* Who owns the keyboard, the mouse and GTA's controls: the server's dialog *)
(* and menu, its SelectTextDraw and object editing, class selection, the    *)
(* chat line and the Tab scoreboard.  RPCs are handled in the pump, which   *)
(* also sends the pending answer; the refresh brings the screen to the      *)
(* snapshot; drawing follows; window messages come between the frames.      *)
(*                                                                         *)
(* A dialog or a menu is the number of the RPC that brought it (0: none).   *)
(* Left out: what is selected and typed, the rows that cannot be chosen,    *)
(* the layout, the chat's history and local commands, and the HUD, which is *)
(* hidden and shown with the scoreboard.                                    *)
(***************************************************************************)
EXTENDS Integers

CONSTANTS
    ReleaseFrames,   \* SAMP_GAME_INPUT_RELEASE_FRAMES (2)
    MaxEvents,       \* bound: RPCs, over the sessions
    MaxRestarts      \* bound: restarts and reconnections

VARIABLES
    net,   \* adapter: probe; restart; history: sent, passed, rpcs
    own,   \* bridge: what is open, who owns what, watermarks
    env,   \* Tab is held, GTA's menu is open, classes are being chosen
    pc     \* "pump", "connecting", "updated", "drawn", or "idle" after a message

vars == <<net, own, env, pc>>

ResetProbe == [saw |-> FALSE, dialog |-> 0, answer |-> 0, select |-> FALSE,
               made |-> 0, menu |-> FALSE, menuSeq |-> 0, edit |-> [seq |-> 0, on |-> FALSE]]

Init ==
    /\ net = [probe |-> ResetProbe, restart |-> 0, sent |-> 0, passed |-> FALSE, rpcs |-> 0]
    /\ own = [dialog |-> 0, menu |-> 0, menuMark |-> 0, edit |-> FALSE, editMark |-> 0,
              select |-> FALSE, class |-> FALSE, chat |-> FALSE, score |-> FALSE, owner |-> FALSE,
              release |-> 0, patched |-> FALSE, kept |-> FALSE, mouse |-> FALSE, handled |-> 0]
    /\ env = [tab |-> FALSE, gta |-> FALSE, class |-> FALSE]
    /\ pc = "idle"

-----------------------------------------------------------------------------
(* The pump. *)

Between == pc \in {"drawn", "idle"}
Receives == (Between \/ pc = "pump") /\ net.rpcs < MaxEvents
Number == net.rpcs + 1

Probe(p) == net' = [net EXCEPT !.probe = p, !.rpcs = Number] /\ pc' = "pump" /\ UNCHANGED <<own, env>>

OnDialog ==
    /\ Receives
    /\ net' = [net EXCEPT !.probe.saw = TRUE, !.probe.dialog = Number, !.rpcs = Number, !.passed = FALSE]
    /\ pc' = "pump" /\ UNCHANGED <<own, env>>

\* A menu that is described again is no longer shown.
OnInitMenu ==
    Receives /\ Probe([net.probe EXCEPT !.made = Number, !.menu = FALSE, !.menuSeq = @ + 1])

OnMenu ==
    Receives /\ net.probe.made # 0 /\ \E shown \in BOOLEAN :
        Probe([net.probe EXCEPT !.menu = shown, !.menuSeq = @ + 1])

OnSelectTextDraw == Receives /\ \E on \in BOOLEAN : Probe([net.probe EXCEPT !.select = on])

\* Begin and cancel share one latch: the newest event alone is kept.
OnEdit ==
    Receives /\ \E on \in BOOLEAN : Probe([net.probe EXCEPT !.edit = [seq |-> @.seq + 1, on |-> on]])

OnRestart ==
    /\ Between \/ pc = "pump"
    /\ net.restart < MaxRestarts
    /\ net' = [net EXCEPT !.probe = ResetProbe, !.restart = @ + 1]
    /\ pc' = "pump" /\ UNCHANGED <<own, env>>

Service_KeepsDialog(n, sent) ==
    IF n.probe.answer = 0 THEN n
    ELSE [n EXCEPT !.probe.answer = 0, !.sent = IF sent THEN n.probe.answer ELSE @]

\* service_rpc_probe_actions, its first part, after each packet and at the end.
Service(n, sent) ==
    IF n.probe.answer = 0 THEN n
    ELSE [n EXCEPT !.probe.answer = 0, !.probe.saw = @ /\ ~sent,
                   !.sent = IF sent THEN n.probe.answer ELSE @,
                   !.passed = sent /\ n.probe.answer # n.probe.dialog]

ServiceEarly ==
    /\ Between \/ pc = "pump"
    /\ \E sent \in BOOLEAN : net' = Service(net, sent)
    /\ pc' = "pump" /\ UNCHANGED <<own, env>>

-----------------------------------------------------------------------------
(* Who releases what: operators on own. *)

Dialog(o) == o.dialog # 0

\* dialog_compat_set_mouse_mode.
MouseOn(o) == [o EXCEPT !.mouse = TRUE]
MouseOffUnless(owned, o) == IF owned THEN o ELSE [o EXCEPT !.mouse = FALSE]

ChatClose(o) ==
    IF ~o.chat THEN o
    ELSE MouseOffUnless(Dialog(o) \/ o.edit \/ o.select \/ o.class \/ o.score,
                        [o EXCEPT !.chat = FALSE, !.release = ReleaseFrames])

\* chat_input_game_controls_apply_compat, when GTA's code is there to patch.
TakeControls(o) == [o EXCEPT !.release = 0, !.patched = TRUE, !.kept = FALSE]

ChatOpen(o) == IF o.chat THEN o ELSE MouseOn([TakeControls(o) EXCEPT !.chat = TRUE])

DialogClose(o) == [MouseOffUnless(o.select \/ o.class, o) EXCEPT !.dialog = 0]

ClearSelect(o) == MouseOffUnless(Dialog(o) \/ o.class, [o EXCEPT !.select = FALSE])

EditClose(o) ==
    IF ~o.edit THEN o ELSE MouseOffUnless(Dialog(o) \/ o.select \/ o.class, [o EXCEPT !.edit = FALSE])

ScoreOff(o) ==
    MouseOffUnless(~o.score \/ Dialog(o) \/ o.edit \/ o.select \/ o.class \/ o.chat,
                   [o EXCEPT !.score = FALSE])

\* With the chat open the controls stay taken, and are the chat's to release.
RestoreHud(o) ==
    IF ~o.owner THEN ScoreOff(o)
    ELSE [ScoreOff(o) EXCEPT !.owner = FALSE, !.release = IF o.chat THEN @ ELSE ReleaseFrames]

\* scoreboard_compat_active, in a session that has not failed.
ScoreShown(o) == env.tab /\ ~o.chat /\ ~Dialog(o) /\ o.menu = 0 /\ ~o.select

ScoreMouse(o) == IF o.score THEN o ELSE MouseOn([o EXCEPT !.score = TRUE])

-----------------------------------------------------------------------------
(* The refresh: one operator per part of the screen, in order. *)

DialogUpdate_HoldsMouse(o, p) ==
    IF ~p.saw THEN [o EXCEPT !.dialog = 0]
    ELSE LET shown == MouseOn([o EXCEPT !.dialog = p.dialog])
         IN  IF Dialog(o) THEN shown ELSE ChatClose(shown)

\* Closing is unconditional: in every frame without a dialog.  A dialog of
\* another id closes the chat too, which its predecessor has done already.
DialogUpdate(o, p) ==
    IF ~p.saw THEN DialogClose(o)
    ELSE LET shown == MouseOn([o EXCEPT !.dialog = p.dialog])
         IN  IF Dialog(o) THEN shown ELSE ChatClose(shown)

MenuUpdate(o, p) ==
    LET seen == [o EXCEPT !.menuMark = p.menuSeq]
    IN  IF ~p.menu THEN [seen EXCEPT !.menu = 0]
        ELSE IF o.menuMark # p.menuSeq \/ o.menu = 0
             THEN ChatClose([seen EXCEPT !.menu = p.made]) ELSE seen

\* The way out looks at the dialog only.
SelectUpdate(o, p) ==
    IF p.select THEN MouseOn([o EXCEPT !.select = TRUE])
    ELSE IF o.select THEN MouseOffUnless(Dialog(o), [o EXCEPT !.select = FALSE]) ELSE o

EditUpdate(o, e) ==
    LET seen == [o EXCEPT !.editMark = e.seq]
    IN  IF e.seq = 0 \/ e.seq = o.editMark THEN o
        ELSE IF e.on THEN MouseOn([ChatClose(seen) EXCEPT !.edit = TRUE]) ELSE EditClose(seen)

EditReset(o) == [EditClose(o) EXCEPT !.editMark = 0]

\* game_session_reset_to_preconnect_compat, as far as the screen goes.
SessionReset(o) ==
    LET chat == RestoreHud(ChatClose(o))
        closed == DialogClose(ClearSelect([chat EXCEPT !.class = FALSE]))
    IN  EditReset([closed EXCEPT !.menu = 0, !.menuMark = 0, !.owner = FALSE, !.score = FALSE])

Screen(o, p) == EditUpdate(SelectUpdate(MenuUpdate(DialogUpdate(o, p), p), p), p.edit)

Update ==
    /\ Between \/ pc \in {"pump", "connecting"}
    /\ \E sent \in BOOLEAN : net' = Service(net, sent)
    /\ own' = Screen(IF net.restart = own.handled THEN own
                     ELSE [SessionReset(own) EXCEPT !.handled = net.restart], net'.probe)
    /\ pc' = "updated" /\ UNCHANGED env

\* A new attempt to connect: a fresh probe, and what the bridge clears itself.
Reconnect ==
    /\ Between /\ net.restart < MaxRestarts
    /\ net' = [net EXCEPT !.probe = ResetProbe, !.restart = @ + 1]
    /\ own' = [EditReset(RestoreHud([own EXCEPT !.dialog = 0, !.select = FALSE]))
                 EXCEPT !.owner = FALSE, !.score = FALSE, !.class = FALSE, !.handled = net.restart + 1]
    /\ pc' = "connecting" /\ UNCHANGED env

-----------------------------------------------------------------------------
(* The rest of the frame. *)

\* The bridge finishes a spawn; SelectTextDraw returns with the next refresh.
SpawnFinalize == pc = "updated" /\ own' = ClearSelect(own) /\ UNCHANGED <<net, env, pc>>

UpdateHud(o) ==
    IF ~ScoreShown(o) \/ env.gta THEN RestoreHud(o)
    ELSE ScoreMouse(IF o.owner THEN o ELSE [TakeControls(o) EXCEPT !.owner = TRUE])

\* The count stands still while Tab is held, even under GTA's menu, where the
\* scoreboard has given the controls up: kept says that nobody counts any more.
Controls(o) ==
    IF o.chat \/ ScoreShown(o)
    THEN [o EXCEPT !.release = 0, !.kept = @ \/ (o.release > 0 /\ env.gta)]
    ELSE [o EXCEPT !.release = IF @ = 0 THEN 0 ELSE @ - 1, !.patched = @ /\ o.release # 1]

ClassMouse(o) ==
    IF env.class /\ ~Dialog(o) /\ ~o.select
    THEN IF o.class THEN o ELSE MouseOn([o EXCEPT !.class = TRUE])
    ELSE MouseOffUnless(~o.class \/ Dialog(o) \/ o.select, [o EXCEPT !.class = FALSE])

Draw ==
    /\ pc = "updated"
    /\ own' = ClassMouse(Controls(UpdateHud(own)))
    /\ pc' = "drawn" /\ UNCHANGED <<net, env>>

-----------------------------------------------------------------------------
(* Window messages, in the order in which the window procedure offers them. *)

Message(o) == own' = o /\ pc' = "idle" /\ UNCHANGED env

\* Under GTA's menu a message closes the chat and SelectTextDraw, no more.
UnderGtaMenu ==
    /\ Between /\ env.gta /\ UNCHANGED net
    /\ Message(IF own.select THEN ClearSelect(ChatClose(own)) ELSE ChatClose(own))

Reads == Between /\ ~env.gta
Free == Reads /\ ~Dialog(own)                \* a dialog takes every key and click
NoMenu == Free /\ own.menu = 0               \* a menu takes every key

\* Return, Escape or a button: one pending answer.
AnswerDialog ==
    /\ Reads /\ Dialog(own)
    /\ net' = [net EXCEPT !.probe.answer = own.dialog]
    /\ Message(DialogClose(own))

\* The adapter hides the menu with the bridge if the choice could be sent.
AnswerMenu ==
    /\ Free /\ own.menu # 0 /\ net.probe.menu
    /\ net' = [net EXCEPT !.probe.menu = FALSE, !.probe.menuSeq = @ + 1]
    /\ Message([own EXCEPT !.menu = 0])

\* By mouse, or by key when neither the menu nor the chat has it.
AnswerEdit == Free /\ ~own.select /\ own.edit /\ Message(EditClose(own)) /\ UNCHANGED net

ClickTextDraw ==
    /\ Free /\ own.select
    /\ net' = [net EXCEPT !.probe.select = FALSE]
    /\ Message(ClearSelect(own))

\* Escape clears the bridge's half alone.
EscapeTextDraw == NoMenu /\ own.select /\ Message(ClearSelect(own)) /\ UNCHANGED net

ScoreClick == Free /\ ScoreShown(own) /\ Message(ScoreMouse(own)) /\ UNCHANGED net

\* A letter passes a menu, the other keys do not.
OpenChat == Free /\ ~own.chat /\ Message(ChatOpen(own)) /\ UNCHANGED net
EndChat == NoMenu /\ own.chat /\ Message(ChatClose(own)) /\ UNCHANGED net

TabDown == Between /\ ~env.tab /\ env' = [env EXCEPT !.tab = TRUE] /\ pc' = "idle" /\ UNCHANGED <<net, own>>

\* The key's release reaches the scoreboard when nothing takes it first.
TabUp ==
    /\ Between /\ env.tab
    /\ env' = [env EXCEPT !.tab = FALSE]
    /\ own' = IF NoMenu THEN RestoreHud(own) ELSE own
    /\ pc' = "idle" /\ UNCHANGED net

GtaMenu == Between /\ env' = [env EXCEPT !.gta = ~@] /\ pc' = "idle" /\ UNCHANGED <<net, own>>

ClassSelection == pc = "updated" /\ env' = [env EXCEPT !.class = ~@] /\ UNCHANGED <<net, own, pc>>

Next ==
    \/ OnDialog \/ OnInitMenu \/ OnMenu \/ OnSelectTextDraw \/ OnEdit \/ OnRestart \/ ServiceEarly
    \/ Update \/ Reconnect \/ SpawnFinalize \/ Draw
    \/ UnderGtaMenu \/ AnswerDialog \/ AnswerMenu \/ AnswerEdit \/ ClickTextDraw \/ EscapeTextDraw
    \/ ScoreClick \/ OpenChat \/ EndChat \/ TabDown \/ TabUp \/ GtaMenu \/ ClassSelection

Spec == Init /\ [][Next]_vars

-----------------------------------------------------------------------------
TypeOK ==
    /\ pc \in {"pump", "connecting", "updated", "drawn", "idle"}
    /\ net.rpcs \in 0 .. MaxEvents /\ net.sent \in 0 .. MaxEvents /\ own.handled \in 0 .. net.restart
    /\ own.dialog \in 0 .. net.rpcs /\ own.menu \in 0 .. net.rpcs /\ own.release \in 0 .. ReleaseFrames
    /\ \A f \in {"edit", "select", "class", "chat", "score", "owner", "patched", "kept", "mouse"} :
         own[f] \in BOOLEAN

\* After the refresh the newest dialog is on the screen or has been answered, unless it
\* came in the pump that sent the answer to the one before it: then nothing is (service
\* clears saw_dialog whichever dialog it answers).  No answer is sent twice; the menu
\* and the editing on the screen are this session's.
DialogsAgree ==
    /\ net.probe.answer # 0 => net.probe.answer > net.sent
    /\ pc = "updated" =>
         /\ IF net.passed THEN own.dialog = 0 ELSE net.probe.dialog \in {own.dialog, net.sent}
         /\ own.menu = IF net.probe.menu THEN net.probe.made ELSE 0
         /\ own.edit => net.probe.edit.on /\ own.editMark = net.probe.edit.seq

\* When a frame has been drawn the mouse is free only for somebody who asked for
\* it, and a dialog or SelectTextDraw has it: nobody's release takes it from them.
MouseHasOwner ==
    pc = "drawn" =>
        /\ own.mouse => Dialog(own) \/ own.select \/ own.class \/ own.score \/ own.chat \/ own.edit
        /\ Dialog(own) \/ own.select => own.mouse

\* GTA does not see the keys typed into the chat or used on the scoreboard, though
\* both start and stop the same count of frames; and whoever took the controls
\* gives them back, except where Tab is held while GTA's menu opens.
ControlsReturn ==
    /\ own.chat \/ own.owner => own.patched
    /\ own.patched => own.chat \/ own.owner \/ own.release > 0 \/ own.kept
    /\ pc = "drawn" => ~(own.chat /\ Dialog(own))

-----------------------------------------------------------------------------
(* What the proofs rest on. *)

Latches == [saw : BOOLEAN, dialog : Nat, answer : Nat, select : BOOLEAN, made : Nat, menu : BOOLEAN,
            menuSeq : Nat, edit : [seq : Nat, on : BOOLEAN]]
Adapter == [probe : Latches, restart : Nat, sent : Nat, passed : BOOLEAN, rpcs : Nat]
Bridge == [dialog : Nat, menu : Nat, menuMark : Nat, edit : BOOLEAN, editMark : Nat, select : BOOLEAN,
           class : BOOLEAN, chat : BOOLEAN, score : BOOLEAN, owner : BOOLEAN, release : 0 .. ReleaseFrames,
           patched : BOOLEAN, kept : BOOLEAN, mouse : BOOLEAN, handled : Nat]
World == [tab : BOOLEAN, gta : BOOLEAN, class : BOOLEAN]
Points == {"pump", "connecting", "updated", "drawn", "idle"}

Fields == net \in Adapter /\ own \in Bridge /\ env \in World /\ pc \in Points

NumbersGiven ==
    /\ net.rpcs =< MaxEvents
    /\ {net.sent, net.probe.dialog, net.probe.answer, net.probe.made, own.dialog, own.menu} \subseteq 0 .. net.rpcs

\* What every operator on the screen keeps: the chat never lies under a dialog, and the
\* controls and the mouse are with those who asked for them.
HeldRight(o) ==
    /\ ~(o.chat /\ Dialog(o))
    /\ o.chat \/ o.owner => o.patched
    /\ o.patched => o.chat \/ o.owner \/ o.release > 0 \/ o.kept
    /\ Dialog(o) \/ o.select => o.mouse

Owned(o) == o.mouse => Dialog(o) \/ o.select \/ o.class \/ o.score \/ o.chat \/ o.edit

\* A dialog that can be answered has not been: its number is above the last one sent.  What
\* the server still waits for is on the screen, or its answer pending.
DialogOpen ==
    /\ net.probe.saw => net.probe.dialog > net.sent
    /\ ~net.probe.saw => net.probe.dialog \in {0, net.sent} \/ net.passed
    /\ Dialog(own) => own.dialog > net.sent
    /\ net.probe.answer # 0 => net.probe.answer > net.sent /\ net.probe.saw /\ ~Dialog(own)
    /\ pc \in {"updated", "drawn", "idle"} /\ Dialog(own) => net.probe.saw
    /\ net.passed => ~net.probe.saw
    /\ pc = "updated" =>
         IF net.passed THEN own.dialog = 0 ELSE net.probe.dialog \in {own.dialog, net.sent}

\* While the session is the adapter's the marks follow its numbers.
Current == own.handled = net.restart /\ pc # "connecting"
MenuFollows ==
    /\ Current => own.menuMark =< net.probe.menuSeq
    /\ Current /\ own.menuMark = net.probe.menuSeq /\ net.probe.menu /\ own.menu # 0 =>
         own.menu = net.probe.made
    /\ pc = "updated" => own.menu = IF net.probe.menu THEN net.probe.made ELSE 0
EditFollows ==
    /\ Current => own.editMark =< net.probe.edit.seq /\ (own.edit => own.editMark > 0)
    /\ Current /\ own.edit /\ own.editMark = net.probe.edit.seq => net.probe.edit.on
    /\ pc = "updated" /\ own.edit => own.editMark = net.probe.edit.seq

SessionKnown ==
    /\ own.handled =< net.restart
    /\ pc \in {"connecting", "updated", "drawn", "idle"} => own.handled = net.restart
    /\ pc = "connecting" => net.probe = ResetProbe /\ ~own.edit /\ own.editMark = 0

IInv ==
    /\ Fields /\ NumbersGiven /\ SessionKnown
    /\ HeldRight(own) /\ (pc \in {"updated", "drawn", "idle"} => Owned(own))
    /\ DialogOpen /\ MenuFollows /\ EditFollows
=============================================================================
