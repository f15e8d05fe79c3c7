-------------------------------- MODULE Hooks --------------------------------
(***************************************************************************)
(* The hooks in GTA's code, one per behaviour: the two weapon entries, which *)
(* live as long as the process, the two gang zone calls, the game process    *)
(* jump, the script call, the device selection jump, the two graphics calls  *)
(* and the object's render slot.  Another mod may take a place over at any   *)
(* time and go on to whatever it found there; GTA's thread may be in our code.*)
(*                                                                         *)
(* A place holds "gta", "ours" or "other".  Left out: the machine code of    *)
(* the stubs, the page protection, and what the hooks do when they run.      *)
(***************************************************************************)
EXTENDS Naturals, FiniteSets, FiniteSetsExt

CONSTANT MaxEvents     \* bound: places that the other mod takes

VARIABLES
    net,   \* GTA's thread is inside, and was when the hook went; taken, chain
    own,   \* places, what was saved, stub, latch, pin, and the work in hand
    env,   \* which hook
    pc     \* "idle", "write", "verify", "restore", "free" or "unmapped"

vars == <<net, own, env, pc>>

Entries == {"impact", "damage"}
Kinds == Entries \cup {"zones", "process", "script", "select", "graphics", "material"}
Checking == Entries \cup {"zones", "material"}       \* look before they write
Stubs == Kinds \ {"script", "material"}              \* allocate code
Replacing == {"process", "select"}                   \* never go on to what was there
Places == {1, 2}
Used == IF env.kind \in {"zones", "graphics", "process"} THEN Places ELSE {1}

\* The process hook has a word with the stub's address at place 1 and a jump through that
\* word at place 2; GTA runs into the jump alone.
Entrances == IF env.kind = "process" THEN {2} ELSE Used

Init ==
    /\ env \in [kind : Kinds]
    /\ own \in [site : {[s \in Places |-> "gta"]}, saved : {[s \in Places |-> "gta"]},
                seen : {[s \in Places |-> "gta"]}, installed : {{}}, todo : {{}}, code : {FALSE},
                attempted : {FALSE}, pin : {"unasked", "failed", "pinned"},
                failed : {FALSE}, lost : {FALSE}, leaving : {FALSE}]
    /\ net = [inside |-> FALSE, late |-> FALSE, taken |-> 0, chain |-> [s \in Places |-> "gta"]]
    /\ pc = "idle"

-----------------------------------------------------------------------------
(* Installing: look, write each place, verify. *)

Begins == pc = "idle" /\ ~own.attempted /\ UNCHANGED <<net, env>>

Looks(o, ready) ==
    /\ own' = [o EXCEPT !.attempted = TRUE, !.seen = own.site, !.todo = IF ready THEN Used ELSE {}]
    /\ pc' = IF ready THEN "write" ELSE "idle"

LooksEntry_NoPin ==
    Begins /\ \E made \in BOOLEAN :
        LET ready == made /\ own.site[1] = "gta" IN  Looks([own EXCEPT !.code = ready], ready)

\* The version, the bytes, two allocations, and the DLL pinned for good: asked
\* once, for whichever of the two entries comes first.
LooksEntry ==
    Begins /\ \E made \in BOOLEAN, pin \in IF own.pin = "unasked" THEN {"failed", "pinned"} ELSE {own.pin} :
        LET ready == made /\ own.site[1] = "gta"
            pinned == ready /\ pin = "pinned"
        IN  Looks([own EXCEPT !.code = pinned, !.pin = IF ready THEN pin ELSE @], pinned)

LookImpact == env.kind = "impact" /\ LooksEntry
LookDamage == env.kind = "damage" /\ LooksEntry

LookZones ==
    /\ env.kind = "zones" /\ Begins
    /\ \E made \in BOOLEAN :
         LET ready == made /\ \A s \in Used : own.site[s] = "gta"
         IN  Looks([own EXCEPT !.code = ready], ready)

LookMaterial == env.kind = "material" /\ Begins /\ Looks(own, own.site[1] = "gta")

\* Whatever is there is taken: nothing but the allocation can fail.  The process hook saves
\* both of its places before it writes the first.
LookProcess ==
    /\ env.kind = "process" /\ Begins
    /\ \E made \in BOOLEAN :
         Looks([own EXCEPT !.code = made, !.saved = IF made THEN own.site ELSE @], made)

LookSelect ==
    env.kind = "select" /\ Begins /\ \E made \in BOOLEAN : Looks([own EXCEPT !.code = made], made)

LookGraphics ==
    env.kind = "graphics" /\ Begins /\ \E made \in BOOLEAN : Looks([own EXCEPT !.code = made], made)

LookScripts == env.kind = "script" /\ Begins /\ \E ready \in BOOLEAN : Looks(own, ready)

\* patch_copy and install_call_disp_hook: the page may refuse to be written.
Overwrite(o, s, what, ok) ==
    [o EXCEPT !.site[s] = IF ok THEN what ELSE @, !.failed = @ \/ ~ok,
              !.lost = @ \/ (ok /\ o.site[s] = "other" /\ o.seen[s] = "other"
                                /\ (what = "ours" => env.kind \in Replacing))]

\* A write of the zones or of the process hook that fails is the last.
Write ==
    /\ pc = "write"
    /\ LET s == Min(own.todo)
       IN  \E ok \in BOOLEAN :
             /\ own' = [Overwrite(own, s, "ours", ok)
                          EXCEPT !.saved[s] = IF env.kind = "process" THEN @ ELSE own.site[s],
                                 !.todo = @ \ {s},
                                 !.installed = IF ok THEN @ \cup {s} ELSE @]
             /\ pc' = IF \/ own.todo = {s} \/ (env.kind = "process" /\ ~ok)
                         \/ env.kind = "zones" /\ ~(ok /\ own.site[s] = "gta")
                      THEN "verify" ELSE "write"
    /\ UNCHANGED <<net, env>>

Ours == {s \in own.installed : own.site[s] = "ours"}

\* A raced entry keeps its allocations: the other mod may go on to our stub.
VerifyEntry ==
    /\ env.kind \in Entries
    /\ own' = [own EXCEPT !.installed = Ours, !.code = own.site[1] # "gta"]
    /\ pc' = "idle"

\* Both calls or neither.
VerifyZones ==
    /\ env.kind = "zones"
    /\ IF Ours = Places /\ \A s \in Places : own.saved[s] = "gta"
       THEN own' = own /\ pc' = "idle"
       ELSE own' = [own EXCEPT !.seen = own.site, !.todo = Ours, !.installed = Ours] /\ pc' = "restore"

\* A process hook that failed puts both places back, without looking.
VerifyProcess ==
    /\ env.kind = "process"
    /\ IF own.installed = Used
       THEN own' = own /\ pc' = "idle"
       ELSE own' = [own EXCEPT !.todo = Used] /\ pc' = "restore"

VerifyOther ==
    /\ env.kind \notin Entries \cup {"zones", "process"}
    /\ own' = [own EXCEPT !.code = @ /\ own.installed # {}]
    /\ pc' = "idle"

Verify ==
    /\ pc = "verify" /\ UNCHANGED <<net, env>>
    /\ VerifyEntry \/ VerifyZones \/ VerifyProcess \/ VerifyOther

-----------------------------------------------------------------------------
(* FreeLibrary of a DLL that is not pinned: restore what is ours, free the    *)
(* stub, unmap.  The weapon entries are pinned wherever they are installed.   *)

Unload_WithoutLooking ==
    /\ pc = "idle" /\ own.pin # "pinned"
    /\ own' = [own EXCEPT !.leaving = TRUE, !.seen = own.site, !.todo = own.installed]
    /\ pc' = "restore" /\ UNCHANGED <<net, env>>

Unload ==
    /\ pc = "idle" /\ own.pin # "pinned"
    /\ own' = [own EXCEPT !.leaving = TRUE, !.seen = own.site,
                          !.todo = IF env.kind \in Checking THEN Ours ELSE own.installed,
                          !.installed = IF env.kind \in Checking THEN Ours ELSE @]
    /\ pc' = "restore" /\ UNCHANGED <<net, env>>

\* Only the zones remember that they could not be restored.  At the unload the jump of the
\* process hook goes before its word.
Restore ==
    /\ pc = "restore"
    /\ IF own.todo = {}
       THEN own' = own /\ pc' = "free"
       ELSE LET s == IF env.kind = "process" /\ own.leaving THEN Max(own.todo) ELSE Min(own.todo)
            IN  /\ \E ok \in BOOLEAN :
                     own' = [Overwrite(own, s, own.saved[s], ok)
                               EXCEPT !.todo = @ \ {s},
                                      !.installed = IF ok \/ env.kind # "zones" THEN @ \ {s} ELSE @]
                /\ pc' = pc
    /\ UNCHANGED <<net, env>>

\* GTA's thread, if it is inside, is not waited for.  A process hook that could not be
\* installed keeps its stub until the unload.
Free ==
    /\ pc = "free"
    /\ own' = [own EXCEPT !.code = @ /\ (own.installed # {} \/ (env.kind = "process" /\ ~own.leaving))]
    /\ net' = [net EXCEPT !.late = @ \/ net.inside]
    /\ pc' = IF own.leaving THEN "unmapped" ELSE "idle"
    /\ UNCHANGED env

-----------------------------------------------------------------------------
(* GTA's thread and the other mod. *)

Reached(s) == own.site[s] = "ours" \/ (own.site[s] = "other" /\ net.chain[s] = "ours")

Enter ==
    /\ ~net.inside /\ \E s \in Entrances : Reached(s)
    /\ net' = [net EXCEPT !.inside = TRUE] /\ UNCHANGED <<own, env, pc>>

Leave == net.inside /\ net' = [net EXCEPT !.inside = FALSE] /\ UNCHANGED <<own, env, pc>>

OtherMod ==
    /\ net.taken < MaxEvents
    /\ \E s \in Used :
         /\ own.site[s] # "other"
         /\ net' = [net EXCEPT !.taken = @ + 1, !.chain[s] = own.site[s]]
         /\ own' = [own EXCEPT !.site[s] = "other"]
    /\ UNCHANGED <<env, pc>>

Next ==
    \/ LookImpact \/ LookDamage \/ LookZones \/ LookMaterial \/ LookProcess \/ LookSelect
    \/ LookGraphics \/ LookScripts \/ Write \/ Verify \/ Unload \/ Restore \/ Free
    \/ Enter \/ Leave \/ OtherMod

Spec == Init /\ [][Next]_vars

-----------------------------------------------------------------------------
TypeOK ==
    /\ own.site \in [Places -> {"gta", "ours", "other"}] /\ own.saved \in [Places -> {"gta", "ours", "other"}]
    /\ own.installed \subseteq Used /\ own.todo \subseteq Used /\ net.taken \in 0 .. MaxEvents
    /\ env.kind \notin Stubs => ~own.code

\* Whoever is in our hook or can reach it finds its code there, and the process hook's jump
\* its word.  For the weapon entries always: they are never freed once published, and the
\* DLL is pinned before.  For the others until the DLL is unloaded, whatever other mods do
\* and whichever write fails, but for the zones' two calls, which are taken back when one of
\* them fails; and through the unload as long as no other mod has taken a place, every write
\* succeeded and GTA's thread was not inside when the stub was freed.
HookIsSafe ==
    net.inside \/ (\E s \in Entrances : Reached(s)) =>
        \/ /\ pc # "unmapped" /\ (env.kind \in Stubs => own.code)
           /\ env.kind = "process" /\ Reached(2) => own.site[1] # "gta"
        \/ /\ env.kind \notin Entries /\ (own.leaving \/ env.kind = "zones")
           /\ net.taken > 0 \/ own.failed \/ net.late

\* The hooks that look before they write never overwrite what another mod had put
\* there when they looked.  (One that comes in between is overwritten.)
OthersKept == own.lost => env.kind \notin Checking

-----------------------------------------------------------------------------
(* What the proofs rest on. *)

Bytes == {"gta", "ours", "other"}

Hook == [site : [Places -> Bytes], saved : [Places -> Bytes], seen : [Places -> Bytes],
         installed : SUBSET Places, todo : SUBSET Places, code : BOOLEAN, attempted : BOOLEAN,
         pin : {"unasked", "failed", "pinned"}, failed : BOOLEAN, lost : BOOLEAN, leaving : BOOLEAN]

Game == [inside : BOOLEAN, late : BOOLEAN, taken : Nat, chain : [Places -> Bytes]]

WorkIsUsed ==
    /\ own.installed \subseteq Used /\ own.todo \subseteq Used
    /\ pc = "write" => own.todo # {}

\* A weapon entry is published only when the DLL is pinned, and then stays published.
EntryHolds ==
    /\ net.inside \/ own.site[1] = "ours" \/ net.chain[1] = "ours" =>
         own.site[1] # "gta" /\ own.pin = "pinned" /\ own.code /\ own.attempted
    /\ own.installed # {} \/ own.todo # {} => own.pin = "pinned"
    /\ pc \in {"write", "verify"} => own.pin = "pinned" /\ own.code /\ own.attempted
    /\ pc \in {"restore", "free", "unmapped"} => own.pin # "pinned"

Excused == net.taken > 0 \/ own.failed \/ net.late

\* Undisturbed, the other hooks are where they have been installed and nowhere else.
OtherHolds ==
    /\ \A s \in Places : /\ own.site[s] = IF s \in own.installed THEN "ours" ELSE "gta"
                         /\ own.saved[s] = "gta" /\ net.chain[s] = "gta"
    /\ net.inside \/ own.installed # {} \/ pc \in {"write", "verify"} =>
         own.attempted /\ (env.kind \in Stubs => own.code)
    /\ pc = "write" => own.todo = Used \ own.installed
    /\ pc = "verify" => own.installed = Used
    /\ pc = "restore" => own.todo = own.installed /\ own.leaving
    /\ pc \in {"free", "unmapped"} => own.installed = {}
    /\ pc = "unmapped" => ~net.inside
    /\ env.kind = "process" /\ 2 \in own.installed => 1 \in own.installed

\* Until the unload the hooks that are neither entries nor zones keep their code, and the
\* process hook its word, whatever happens to the places.
Standing ==
    LET ours == {s \in Places : own.site[s] = "ours" \/ net.chain[s] = "ours"}
    IN  /\ ours \subseteq Used
        /\ ours # {} \/ net.inside \/ pc # "idle" \/ own.installed # {} =>
             own.attempted /\ (env.kind \in Stubs => own.code)
        /\ ours # {} \/ net.inside => env.kind = "process" \/ own.installed # {}
        /\ pc \in {"restore", "free", "unmapped"} => env.kind = "process" /\ pc # "unmapped"
        /\ env.kind = "process" =>
             /\ net.inside \/ 2 \in ours => own.installed = Used /\ pc \in {"idle", "verify"}
             /\ 1 \in own.installed /\ pc \in {"idle", "write", "verify"} => own.site[1] # "gta"
             /\ 2 \in own.installed => own.installed = Used /\ pc \in {"idle", "verify"}
             /\ pc = "write" => own.todo = Used \ own.installed
             /\ pc = "restore" => own.installed \subseteq own.todo
             /\ pc = "free" => own.installed = {}
             /\ own.saved[2] # "ours"

LooksFirst ==
    /\ OthersKept
    /\ pc = "restore" /\ env.kind \in Checking => \A s \in own.todo : own.seen[s] = "ours"

Kept ==
    /\ own \in Hook /\ net \in Game /\ env \in [kind : Kinds]
    /\ WorkIsUsed /\ LooksFirst
    /\ env.kind \in Entries => EntryHolds
    /\ env.kind \notin Entries /\ ~Excused => OtherHolds

IInv == Kept /\ (env.kind \notin Entries \cup {"zones"} /\ ~own.leaving => Standing)

\* What the types rest on besides: places are taken within the bound, and a hook without a
\* stub has no code to free.
CodeCounted == net.taken =< MaxEvents /\ (env.kind \notin Stubs => ~own.code)
=============================================================================
