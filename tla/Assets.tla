------------------------------- MODULE Assets -------------------------------
(***************************************************************************)
(* The multiplayer models: an index of the asset files, a list of models     *)
(* that objects and text draws have asked for, and its drain, which gives     *)
(* each of them a model info in GTA's table, shows GTA's streaming the two    *)
(* archives and binds the collision file.                                   *)
(*                                                                         *)
(* Three models stand for the catalogue: two of the low range, which are      *)
(* registered together, and one with a time of day, which GTA allocates in    *)
(* a store of its own; the others get a model info on the heap.  The path     *)
(* through GTA's own store of atomic models is not compiled in.              *)
(***************************************************************************)
EXTENDS Integers, Sequences, FiniteSets

CONSTANTS
    PendingMax,    \* places in the list of models asked for
    ReloadLimit,   \* directory passes after the first
    Images,        \* GTA's streaming archives, its own included
    TimeStore,     \* places in GTA's store of timed models
    MaxAsks, MaxFaults, MaxRestarts    \* bounds

VARIABLES
    net,   \* the list of models asked for and its three sequence numbers
    own,   \* heap model infos, blocked models, images, passes, bulk, collision
    env,   \* configuration, files, GTA's model table and streaming, objects, text draws
    pc     \* the scene: "gate" before the first class scene, "loading", "ready"

vars == <<net, own, env, pc>>

Low == {"low1", "low2"}
Models == Low \cup {"timed"}
Order == <<"timed", "low1", "low2">>    \* of SAMP.ide: the low range is last
Archives == {"samp", "custom"}

Init ==
    /\ net = [queue |-> <<>>, seq |-> 0, applied |-> 0, preview |-> 0]
    /\ own = [infos |-> {}, blocked |-> {}, image |-> [x \in Archives |-> -1],
              passes |-> 0, bulk |-> "untried", col |-> FALSE]
    /\ env \in [config : {"stock", "server", "hidden", "bulk"}, dff : {Models, {"low1", "timed"}},
                txd : {Models, {"timed"}}, slot : {[m \in Models |-> "empty"]}, store : {0},
                table : {<<"gta3">>}, known : {{}}, bound : {{}}, wanted : {{}}, asked : {{}},
                faults : {0}, restarts : {0}]
    /\ pc = "gate"

-----------------------------------------------------------------------------
(* The index: what the files say of a model. *)

\* A row of custom.IDE may be the server's; those wait for a setting.
Allowed(m) == ~(env.config = "hidden" /\ m = "timed")

Archive(m) == IF env.config \in {"server", "hidden"} /\ m = "timed" THEN "custom" ELSE "samp"

\* The texture may be one of GTA's, which are there later.
FilesReady(m) == m \in env.dff \cap env.txd

\* A table entry counts once its key is written.
Available(slot, m) == slot[m] \in {"heap", "native"}

-----------------------------------------------------------------------------
(* The list of models asked for. *)

Refuses(o, slot, m) == Available(slot, m) \/ m \in o.blocked \/ ~Allowed(m)

Queued(n, m) == \E i \in 1 .. Len(n.queue) : n.queue[i] = m

Ask_Unbounded(n, o, slot, m, preview) ==
    IF Refuses(o, slot, m) \/ Queued(n, m) THEN n
    ELSE [n EXCEPT !.queue = Append(@, m), !.seq = @ + 1, !.preview = IF preview THEN n.seq + 1 ELSE @]

\* A model already in the list is not added; a text draw still leaves its mark.
Ask(n, o, slot, m, preview) ==
    IF Refuses(o, slot, m) THEN n
    ELSE IF Queued(n, m) THEN [n EXCEPT !.preview = IF preview THEN n.seq ELSE @]
    ELSE IF Len(n.queue) >= PendingMax THEN n
    ELSE [n EXCEPT !.queue = Append(@, m), !.seq = @ + 1, !.preview = IF preview THEN n.seq + 1 ELSE @]

CreateObject(m) ==
    /\ net.seq < MaxAsks
    /\ net' = Ask(net, own, env.slot, m, FALSE)
    /\ env' = [env EXCEPT !.wanted = @ \cup {m}]
    /\ UNCHANGED <<own, pc>>

\* On the RPC that shows the text draw; while it is drawn, only if the files are ready.
ShowPreview(m) ==
    /\ net.seq < MaxAsks
    /\ net' = Ask(net, own, env.slot, m, TRUE)
    /\ env' = [env EXCEPT !.asked = IF Queued(net', m) THEN @ \cup {m} ELSE @]
    /\ UNCHANGED <<own, pc>>

\* object_compat_flush_pending asks again for what an object still waits for, once
\* the scene is there.
Flush(n, o, slot) ==
    LET after[i \in 0 .. Len(Order)] ==
          IF i = 0 THEN n
          ELSE IF Order[i] \in env.wanted /\ FilesReady(Order[i])
               THEN Ask(after[i - 1], o, slot, Order[i], FALSE)
               ELSE after[i - 1]
    IN  after[Len(Order)]

-----------------------------------------------------------------------------
(* A model info for a model; s holds what registration changes. *)

Now == [infos |-> own.infos, blocked |-> own.blocked, slot |-> env.slot, store |-> env.store,
        registered |-> FALSE, already |-> FALSE]

\* On a failure after the table was written, the table gets its old entry back
\* before the memory is released.
RegisterHeap(s, m, fault) ==
    IF fault \/ (s.slot[m] # "empty" /\ m \notin s.infos) THEN s
    ELSE [s EXCEPT !.slot[m] = "heap", !.infos = @ \cup {m}]

\* GTA's own allocation; an entry whose metadata could not be written stays without a key.
RegisterTimed(s, m, fault) ==
    IF s.store >= TimeStore THEN [s EXCEPT !.blocked = @ \cup {m}]
    ELSE [s EXCEPT !.slot[m] = IF fault THEN "bare" ELSE "native", !.store = @ + 1]

Register(s, m, bad) ==
    IF Available(s.slot, m) THEN s
    ELSE IF m = "timed" THEN RegisterTimed(s, m, m \in bad) ELSE RegisterHeap(s, m, m \in bad)

\* The whole low range at once, before the archives' directories are read for the
\* last time; not from spawn_finalize.
PreloadLow(s, m, bad, source) ==
    IF m \notin Low \/ source = "spawn_finalize" THEN s
    ELSE LET rest == CHOOSE x \in Low : x # m
         IN  IF rest \in s.blocked \/ ~FilesReady(rest) THEN s ELSE Register(s, rest, bad)

DrainOne(s, m, bad, source) ==
    IF ~Allowed(m) THEN s
    ELSE IF Available(s.slot, m) THEN [s EXCEPT !.already = TRUE]
    ELSE IF ~FilesReady(m) THEN s
    ELSE LET one == Register(s, m, bad)
         IN  IF Available(one.slot, m)
             THEN PreloadLow([one EXCEPT !.registered = TRUE], m, bad, source) ELSE one

DrainList(s, bad, source) ==
    LET after[i \in 0 .. Len(net.queue)] ==
          IF i = 0 THEN s ELSE DrainOne(after[i - 1], net.queue[i], bad, source)
    IN  after[Len(net.queue)]

\* Once, in the order of the file, whatever the settings for the server's rows.
Bulk(s, bad) ==
    IF own.bulk # "untried" THEN s
    ELSE LET after[i \in 0 .. Len(Order)] ==
               IF i = 0 THEN s ELSE Register(after[i - 1], Order[i], bad)
         IN  after[Len(Order)]

BulkDone(s) ==
    IF own.bulk # "untried" THEN own.bulk
    ELSE IF \E m \in Models : Available(s.slot, m) THEN "some" ELSE "nothing"

-----------------------------------------------------------------------------
(* GTA's streaming. *)

\* AddImageToList returns 0 both for the first entry and for a full list.
AddToList(table, x) ==
    IF Len(table) < Images THEN [table |-> Append(table, x), id |-> Len(table)] ELSE [table |-> table, id |-> 0]

\* The number is kept plus one, and only if the entry has our path; -2 is for good.
AddImage(st, x) ==
    IF st.image[x] # -1 THEN st
    ELSE LET got == AddToList(st.table, x)
         IN  [table |-> got.table,
              image |-> [st.image EXCEPT ![x] = IF got.table[got.id + 1] = x THEN got.id + 1 ELSE -2]]

DirectoryPass_Once(open, force) == open # {} /\ own.passes = 0

\* The first time, and again for new models while the limit allows.
DirectoryPass(open, force) == open # {} /\ (own.passes = 0 \/ (force /\ own.passes =< ReloadLimit))

\* The directory of an open archive names its models; it finds those with a key.
Known(open, there) == env.known \cup {m \in there \cap env.dff : Archive(m) \in open}

\* Every time; the second time with the loader that looks at every model.
Bound(there, read) == IF read THEN env.bound \cup there ELSE env.bound

\* A directory pass gives the models of the archive their place on the disk.
Streaming(s, force, read) ==
    LET st == AddImage(AddImage([table |-> env.table, image |-> own.image], "custom"), "samp")
        open == {x \in Archives : st.image[x] > 0}
        pass == DirectoryPass(open, force)
        there == {m \in Models : Available(s.slot, m)}
    IN  [table |-> st.table, image |-> st.image,
         passes |-> IF pass THEN own.passes + 1 ELSE own.passes,
         known |-> IF pass THEN Known(open, there) ELSE env.known,
         bound |-> Bound(there, read),
         col |-> read]

NoStreaming == [table |-> env.table, image |-> own.image, passes |-> own.passes,
                known |-> env.known, bound |-> env.bound, col |-> own.col]

Keep(s, st, bulk, cost) ==
    /\ own' = [own EXCEPT !.infos = s.infos, !.blocked = s.blocked, !.image = st.image,
                          !.passes = st.passes, !.bulk = bulk, !.col = st.col]
    /\ env' = [env EXCEPT !.slot = s.slot, !.store = s.store, !.table = st.table, !.known = st.known,
                          !.bound = st.bound, !.asked = {}, !.faults = @ + cost]

-----------------------------------------------------------------------------
(* The drain. *)

\* Before the first class scene only for a text draw that waits for a model.
DrainIsDue(scene, source) ==
    /\ net.queue # <<>>
    /\ scene = "ready" \/ (scene = "gate" /\ source # "spawn_finalize" /\ net.preview > net.applied)

\* Which models fail, and whether the collision file cannot be read.
Faults == {f \in [bad : SUBSET Models, read : BOOLEAN] :
             env.faults + Cardinality(f.bad) + (IF f.read THEN 0 ELSE 1) =< MaxFaults}

Cost(f) == Cardinality(f.bad) + (IF f.read THEN 0 ELSE 1)

\* The objects ask again at once, unless they are held back after a spawn.
AfterDrain(n, slot) ==
    \/ net' = n
    \/ pc = "ready" /\ pc' = pc /\ net' = Flush(n, own', slot)

Drained(s, source) ==
    \E f \in Faults :
       LET full == env.config = "bulk"
           first == IF full THEN Bulk(s, f.bad) ELSE s
           last == DrainList(first, f.bad, source)
           bulk == IF full THEN BulkDone(first) ELSE own.bulk
           st == IF last.registered \/ last.already \/ full
                 THEN Streaming(last, last.registered \/ bulk = "some", f.read) ELSE NoStreaming
       IN  /\ Keep(last, st, bulk, Cost(f))
           /\ AfterDrain([net EXCEPT !.queue = <<>>, !.applied = net.seq], last.slot)

\* From the object mirror, every tick.
Drain == DrainIsDue(pc, "object_bridge") /\ UNCHANGED pc /\ Drained(Now, "object_bridge")

FlushPending ==
    /\ pc = "ready" /\ net.seq < MaxAsks
    /\ net' = Flush(net, own, env.slot) /\ net' # net /\ UNCHANGED <<own, env, pc>>

\* The spawn makes the scene ready: the bulk at once if nothing is asked for.
SpawnFinalize ==
    /\ pc' = "ready"
    /\ \/ net.queue # <<>> /\ Drained(Now, "spawn_finalize")
       \/ /\ net.queue = <<>> /\ env.config = "bulk"
          /\ \E f \in Faults : LET s == Bulk(Now, f.bad)
                               IN  Keep(s, Streaming(s, BulkDone(s) = "some", f.read), BulkDone(s), Cost(f))
          /\ UNCHANGED net
       \/ net.queue = <<>> /\ env.config # "bulk" /\ UNCHANGED <<net, own, env>>

\* The class scene, or the scene of the next session.
SceneReady == pc # "ready" /\ pc' = "ready" /\ UNCHANGED <<net, own, env>>

\* The session ends: the scene and the objects go, blocked models may be tried again.
ConnectReset ==
    /\ pc = "ready" /\ env.restarts < MaxRestarts /\ pc' = "loading"
    /\ own' = [own EXCEPT !.blocked = {}]
    /\ env' = [env EXCEPT !.wanted = {}, !.restarts = @ + 1] /\ UNCHANGED net

-----------------------------------------------------------------------------
(* The surroundings. *)

TexturesArrive == env.txd # Models /\ env' = [env EXCEPT !.txd = Models] /\ UNCHANGED <<net, own, pc>>

OtherModAddsImage ==
    /\ Len(env.table) < Images /\ "other" \notin {env.table[i] : i \in 1 .. Len(env.table)}
    /\ env' = [env EXCEPT !.table = Append(@, "other")] /\ UNCHANGED <<net, own, pc>>

Next ==
    \/ \E m \in Models : CreateObject(m) \/ ShowPreview(m)
    \/ Drain \/ FlushPending \/ SpawnFinalize \/ SceneReady \/ ConnectReset
    \/ TexturesArrive \/ OtherModAddsImage

Spec == Init /\ [][Next]_vars

-----------------------------------------------------------------------------
TypeOK ==
    /\ Len(net.queue) =< PendingMax /\ \A i \in 1 .. Len(net.queue) : net.queue[i] \in Models
    /\ net.seq \in Nat /\ net.applied \in 0 .. net.seq /\ net.preview \in 0 .. net.seq
    /\ own.infos \subseteq Models /\ own.blocked \subseteq Models /\ own.col \in BOOLEAN
    /\ own.image \in [Archives -> -2 .. Images] /\ own.passes \in 0 .. ReloadLimit + 1
    /\ own.bulk \in {"untried", "some", "nothing"}
    /\ env.slot \in [Models -> {"empty", "heap", "native", "bare"}] /\ env.store \in 0 .. TimeStore
    /\ Len(env.table) =< Images /\ env.known \subseteq Models /\ env.bound \subseteq Models

\* GTA's tables and the library's notes of them agree: an entry of the model table
\* is on the heap exactly if the library holds that memory, and an archive's number
\* is the place of its own path (RegisterHeap, AddImage).
TablesAgree ==
    /\ \A m \in Models : env.slot[m] = "heap" <=> m \in own.infos
    /\ \A x \in Archives : own.image[x] > 0 => env.table[own.image[x]] = x

\* Before the first class scene the list is drained exactly if it holds a model that
\* a text draw waits for, whoever asked for it first (Ask, Drain).
PreviewOpensGate == net.preview > net.applied <=> env.asked # {}

\* A model that is there can be used: GTA has its place on the disk while there are
\* directory passes left, and its collision unless the file failed the last time
\* (Drained, Streaming).
ModelsUsable ==
    /\ (own.passes \in 1 .. ReloadLimit =>
          \A m \in Models : Available(env.slot, m) /\ m \in env.dff /\ own.image[Archive(m)] > 0 => m \in env.known)
    /\ (own.col => \A m \in Models : Available(env.slot, m) => m \in env.bound)

-----------------------------------------------------------------------------
(* What the proofs rest on. *)

Images_ == {"gta3", "other"} \cup Archives
List == [queue : Seq(Models), seq : Nat, applied : Nat, preview : Nat]
Notes == [infos : SUBSET Models, blocked : SUBSET Models, image : [Archives -> -2 .. Images],
          passes : 0 .. ReloadLimit + 1, bulk : {"untried", "some", "nothing"}, col : BOOLEAN]
World == [config : {"stock", "server", "hidden", "bulk"}, dff : SUBSET Models, txd : SUBSET Models,
          slot : [Models -> {"empty", "heap", "native", "bare"}], store : 0 .. TimeStore,
          table : Seq(Images_), known : SUBSET Models, bound : SUBSET Models, wanted : SUBSET Models,
          asked : SUBSET Models, faults : Nat, restarts : Nat]

Fields == net \in List /\ own \in Notes /\ env \in World /\ pc \in {"gate", "loading", "ready"}

\* A model of the low range is on the heap or nowhere, the timed one is GTA's or nowhere.
Placed(infos, slot) ==
    /\ \A m \in Models : slot[m] = "heap" <=> m \in infos
    /\ infos \subseteq Low /\ \A m \in Low : slot[m] \in {"empty", "heap"}

\* The list has room, is empty when everything has been seen to, and holds nothing that
\* would not be added to it.
Listed(n, o, slot) ==
    /\ Len(n.queue) =< PendingMax /\ n.applied =< n.seq /\ n.preview =< n.seq
    /\ n.queue = <<>> <=> n.applied = n.seq
    /\ \A i \in 1 .. Len(n.queue) : ~Refuses(o, slot, n.queue[i])

\* A number is the place of the archive's own path; after a pass both archives have been tried.
Streamed(image, table, passes) ==
    /\ Len(table) \in 1 .. Images
    /\ \A x \in Archives : image[x] =< Len(table) /\ (image[x] > 0 => table[image[x]] = x)
    /\ passes > 0 => \A x \in Archives : image[x] # -1

IInv ==
    /\ Fields /\ Placed(own.infos, env.slot) /\ Listed(net, own, env.slot)
    /\ Streamed(own.image, env.table, own.passes) /\ PreviewOpensGate /\ ModelsUsable
=============================================================================
