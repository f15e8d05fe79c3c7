------------------------------ MODULE ArchiveFs ------------------------------
(***************************************************************************)
(* GTA's calls for two of its files, answered from a signed archive held in  *)
(* memory: the archive's chain of files, six entries of GTA's import table   *)
(* that are taken over one by one, and a table of open files with handles    *)
(* of its own.  GTA's threads call at any moment.                           *)
(*                                                                         *)
(* Left out: the ciphers, the hashes and the signature (each may refuse the  *)
(* archive), what is read, calls with a null buffer.                         *)
(***************************************************************************)
EXTENDS Integers, FiniteSets

CONSTANTS
    Slots,         \* the records of open files
    FakeHandles,   \* the handles there are, 1 to this, more than Slots
    Threads,       \* GTA's threads
    MaxFaults      \* bound: entries whose page refuses when they are given back

VARIABLES
    net,   \* entries of the import table taken, refused; what start found
    own,   \* the file system: active, lock, data, records, next handle
    env,   \* the import table, GTA's threads and the files they hold
    pc     \* where start and stop are

vars == <<net, own, env, pc>>

Files == {"main", "script"}
None == [file |-> "none", handle |-> 0, position |-> 0]
Idle == [op |-> "none", file |-> None, n |-> 0]

\* In the order of g_iat_hooks.
Api == <<"GetFileSize", "CloseHandle", "SetFilePointer", "ReadFile", "CreateFileA", "GetFileType">>

Init ==
    /\ net = [installed |-> 0, refused |-> {}, fits |-> TRUE]
    /\ own = [active |-> FALSE, lock |-> FALSE, data |-> {}, next |-> 1, records |-> [s \in 1 .. Slots |-> None]]
    /\ env \in [study : {"files", "table"}, table : {[i \in 1 .. 6 |-> "system"]}, mod : {0}, 
                lost : {FALSE}, call : {[t \in Threads |-> Idle]}, held : {[t \in Threads |-> {}]}]
    /\ pc = "stopped"

-----------------------------------------------------------------------------
(* The archive: its entries say which file each one follows. *)

Entries == 1 .. 3
Room == 4
Sizes == <<2, 1, 2>>    \* in blocks; entry 1 is main.scm, 2 is script.img
Chains == [Entries -> 0 .. 3]    \* 0 is the index that ends a chain

\* samp_saa_find: where the file of an entry starts, or -1.  A chain longer than
\* the table comes back to an entry it has visited.
Find(follows, entry) ==
    LET Step(w) ==
            IF w.at = 0 \/ w.offset < 0 THEN w
            ELSE IF follows[w.at] = w.at \/ Sizes[w.at] > Room - w.offset THEN [w EXCEPT !.offset = -1]
            ELSE [at |-> follows[w.at], offset |-> w.offset + Sizes[w.at]]
        walk[n \in 0 .. 3] ==
            IF n = 0 THEN [at |-> follows[entry], offset |-> 0] ELSE Step(walk[n - 1])
        end == walk[3]
    IN  IF follows[entry] = entry \/ end.at # 0 \/ Sizes[entry] > Room - end.offset THEN -1 ELSE end.offset

Load ==
    /\ pc = "stopped" /\ ~own.active /\ own.next = 1
    /\ \E follows \in Chains :
         LET main == Find(follows, 1)
             script == Find(follows, 2)
         IN  /\ net' = [net EXCEPT !.fits = /\ main >= 0 => main + Sizes[1] =< Room
                                            /\ script >= 0 => script + Sizes[2] =< Room]
             /\ own' = [own EXCEPT !.data = {"archive"} \cup (IF main >= 0 THEN {"main"} ELSE {})
                                              \cup (IF main >= 0 /\ script >= 0 THEN {"script"} ELSE {})]
             /\ pc' = IF main >= 0 /\ script >= 0 THEN "validate" ELSE "fail"
    /\ UNCHANGED env

\* No such file, too large, a layout or a signature that is refused.
LoadFails ==
    /\ pc = "stopped" /\ own.next = 1 /\ pc' = "fail"
    /\ \E data \in {{}, {"archive"}} : own' = [own EXCEPT !.data = data] /\ UNCHANGED <<net, env>>

-----------------------------------------------------------------------------
(* The import table. *)

\* Every entry must still be the system's.
Validate ==
    /\ pc = "validate" /\ UNCHANGED <<net, env>>
    /\ pc' = IF \E i \in 1 .. 6 : env.table[i] # "system" THEN "fail" ELSE "install"
    /\ own' = IF pc' = "fail" THEN own ELSE [own EXCEPT !.lock = TRUE]

\* write_iat_slot: not if another mod has been there, nor if the page refuses.
WriteSlot(i, expected, replacement, ok) ==
    IF ok /\ env.table[i] = expected THEN [env EXCEPT !.table[i] = replacement] ELSE env

\* One entry at a time.
Install ==
    /\ pc = "install" /\ net.installed < 6 /\ UNCHANGED own
    /\ LET i == net.installed + 1
       IN  \E ok \in BOOLEAN :
             /\ env' = WriteSlot(i, "system", "ours", ok)
             /\ IF env' = env THEN pc' = "fail" /\ UNCHANGED net
                ELSE net' = [net EXCEPT !.installed = i] /\ UNCHANGED pc

Ready ==
    /\ pc = "install" /\ net.installed = 6
    /\ own' = [own EXCEPT !.active = TRUE] /\ pc' = "ready" /\ UNCHANGED <<net, env>>

\* Studied with the table.
Refuses == env.study = "table" /\ Cardinality(net.refused) < MaxFaults

\* The last entry first, tried once; one that is not ours any more is left alone, and
\* one whose page refuses stays ours.
Restore ==
    /\ pc \in {"fail", "stop"} /\ net.installed > 0
    /\ \E ok \in IF Refuses THEN BOOLEAN ELSE {TRUE} :
         /\ env' = WriteSlot(net.installed, "ours", "system", ok)
         /\ net' = [net EXCEPT !.installed = @ - 1,
                               !.refused = IF ok THEN @ ELSE @ \cup {net.installed}]
    /\ own' = [own EXCEPT !.active = FALSE] /\ UNCHANGED pc

\* The records, the lock and the files go; after a stop the kernel's functions too.
Free ==
    /\ pc \in {"fail", "stop"} /\ net.installed = 0
    /\ own' = [own EXCEPT !.active = FALSE, !.lock = FALSE, !.data = {}, !.next = 0,
                          !.records = [s \in 1 .. Slots |-> None]]
    /\ pc' = (IF pc = "fail" THEN "failed" ELSE "gone") /\ UNCHANGED <<net, env>>

Stop == pc = "ready" /\ pc' = "stop" /\ own' = [own EXCEPT !.active = FALSE] /\ UNCHANGED <<net, env>>

\* Another mod takes an entry and passes on what it is not concerned with.
Mod ==
    /\ env.mod = 0 /\ env.study = "table"
    /\ \E i \in 1 .. 6 :
         env' = [env EXCEPT !.mod = i, !.table[i] = IF @ = "ours" THEN "mod over ours" ELSE "mod"]
    /\ UNCHANGED <<net, own, pc>>

-----------------------------------------------------------------------------
(* The open files. *)

Records == {s \in 1 .. Slots : own.records[s] # None}

\* find_record: the first; 0 if there is none.
FindRecord(handle) ==
    LET found == {s \in Records : own.records[s].handle = handle}
    IN  IF found = {} THEN 0 ELSE CHOOSE s \in found : \A r \in found : s =< r

Next1(handle) == (handle % FakeHandles) + 1

FreshHandle_Unlooked(handle) == handle

\* The first handle from this one on that is not open; there is one (FakeHandles).
FreshHandle(handle) ==
    LET seek[n \in 0 .. FakeHandles] ==
            IF n = 0 THEN handle ELSE IF FindRecord(seek[n - 1]) = 0 THEN seek[n - 1] ELSE Next1(seek[n - 1])
    IN  seek[FakeHandles]

Size(f) == IF f.file = "main" THEN Sizes[1] ELSE Sizes[2]

\* What a call does to an open file: f is the record.
Reads(f, n) ==
    IF f.position >= Size(f) THEN f
    ELSE [f EXCEPT !.position = IF @ + n =< Size(f) THEN @ + n ELSE Size(f)]
Seeks(f, to) == IF to >= 0 THEN [f EXCEPT !.position = to] ELSE f
SeeksEnd(f) == [f EXCEPT !.position = Size(f)]

Effect(op, f, n) ==
    CASE op = "ReadFile" -> Reads(f, n)
      [] op = "ReadFile at" -> Reads([f EXCEPT !.position = n], 1)
      [] op = "SetFilePointer" -> Seeks(f, n)
      [] op = "SetFilePointer by" -> IF f.position + n > 3 THEN f ELSE Seeks(f, f.position + n)
      [] op = "SetFilePointer end" -> SeeksEnd(f)
      [] op = "CloseHandle" -> None
      [] OTHER -> f                         \* GetFileSize, GetFileType

\* A behaviour studies the files, or the table, with another mod about, one of the files
\* and calls that leave no trace.
Opens == IF env.study = "table" THEN {"main"} ELSE Files
Calls ==
    IF env.study = "table"
    THEN {[op |-> "CloseHandle", n |-> 0], [op |-> "GetFileSize", n |-> 0], [op |-> "GetFileType", n |-> 0]}
    ELSE {[op |-> "ReadFile", n |-> 2], [op |-> "ReadFile at", n |-> 1], [op |-> "SetFilePointer", n |-> 3],
          [op |-> "SetFilePointer by", n |-> -1], [op |-> "SetFilePointer end", n |-> 0],
          [op |-> "CloseHandle", n |-> 0]}

SlotOf(op) ==
    CASE op = "CreateFileA" -> 5
      [] op = "GetFileSize" -> 1
      [] op = "CloseHandle" -> 2
      [] op = "GetFileType" -> 6
      [] op \in {"ReadFile", "ReadFile at"} -> 4
      [] OTHER -> 3

Reaches(op) == env.table[SlotOf(op)] \in {"ours", "mod over ours"}

\* A call comes in and finds the file system active; one that does not is passed
\* on to the system, and after a stop to nothing at all.
Enter(t) ==
    /\ env.call[t] = Idle /\ ~env.lost /\ UNCHANGED <<net, own, pc>>
    /\ \/ \E file \in Opens : own.active /\ Reaches("CreateFileA") /\
            env' = [env EXCEPT !.call[t] = [op |-> "CreateFileA", file |-> [None EXCEPT !.file = file], n |-> 0]]
       \/ \E f \in env.held[t], c \in Calls : own.active /\ Reaches(c.op) /\
            env' = [env EXCEPT !.call[t] = [op |-> c.op, file |-> f, n |-> c.n]]
       \/ /\ pc = "gone" /\ \E i \in 1 .. 6 : env.table[i] \in {"ours", "mod over ours"}
          /\ env' = [env EXCEPT !.lost = TRUE]

\* Under the lock; a full table answers NULL.
OpenServed(t, c) ==
    IF Records = 1 .. Slots THEN own' = own /\ env' = [env EXCEPT !.call[t] = Idle]
    ELSE LET slot == CHOOSE s \in 1 .. Slots \ Records : \A r \in 1 .. Slots \ Records : s =< r
             f == [c.file EXCEPT !.handle = FreshHandle(own.next)]
         IN  /\ own' = [own EXCEPT !.records[slot] = f, !.next = Next1(f.handle)]
             /\ env' = [env EXCEPT !.call[t] = Idle, !.held[t] = @ \cup {f}]

FileServed(t, c) ==
    LET slot == FindRecord(c.file.handle)
        after == Effect(c.op, c.file, c.n)
        held == env.held[t] \ {c.file}
    IN  /\ own' = IF slot = 0 THEN own
                  ELSE [own EXCEPT !.records[slot] = Effect(c.op, @, c.n)]
        /\ env' = [env EXCEPT !.call[t] = Idle, !.held[t] = IF after = None THEN held ELSE held \cup {after}]

\* A stop between the check and this leaves neither lock nor data.
Serve(t) ==
    /\ env.call[t] # Idle /\ ~env.lost /\ UNCHANGED <<net, pc>>
    /\ LET c == env.call[t]
       IN  \/ own.lock /\ c.op = "CreateFileA" /\ OpenServed(t, c)
           \/ own.lock /\ c.op # "CreateFileA" /\ FileServed(t, c)
           \/ ~own.lock /\ env' = [env EXCEPT !.lost = TRUE, !.call[t] = Idle] /\ UNCHANGED own

Next ==
    \/ Load \/ LoadFails \/ Validate \/ Install \/ Ready \/ Restore \/ Free \/ Stop \/ Mod
    \/ \E t \in Threads : Enter(t) \/ Serve(t)

Spec == Init /\ [][Next]_vars

-----------------------------------------------------------------------------
TypeOK ==
    /\ pc \in {"stopped", "validate", "install", "ready", "fail", "failed", "stop", "gone"}
    /\ net.installed \in 0 .. 6 /\ own.next \in 0 .. FakeHandles
    /\ own.records \in [1 .. Slots -> [file : Files \cup {"none"}, handle : 0 .. FakeHandles, position : 0 .. 3]]

\* While the archive is served each open file of GTA's is a record of its own with
\* the file's place, whatever other threads open and close, and the archive's files
\* lie before its table.
FilesKeepPlace ==
    /\ net.fits
    /\ own.active /\ ~env.lost =>
         \A t \in Threads : \A f \in env.held[t] :
             /\ FindRecord(f.handle) # 0 /\ own.records[FindRecord(f.handle)] = f
             /\ \A u \in Threads \ {t} : \A g \in env.held[u] : f.handle # g.handle

\* Start and stop leave no entry of the import table behind whose page let itself be
\* written, nor take another mod's; the archive is served by all six or not at all;
\* and a start that fails loses no call of GTA's, through an entry left behind either.
\* (A stop can.)
TableIsWhole ==
    /\ pc \in {"failed", "gone"} => \A i \in 1 .. 6 : env.table[i] = "ours" => i \in net.refused
    /\ env.mod # 0 => env.table[env.mod] \in {"mod", "mod over ours"}
    /\ own.active => net.installed = 6
    /\ pc \in {"fail", "failed"} => ~env.lost

-----------------------------------------------------------------------------
(* What the proofs about the table rest on. *)

Fields ==
    /\ net \in [installed : 0 .. 6, refused : SUBSET (1 .. 6), fits : BOOLEAN]
    /\ DOMAIN own = {"active", "lock", "data", "next", "records"} /\ own.active \in BOOLEAN
    /\ DOMAIN env = {"study", "table", "mod", "lost", "call", "held"} /\ env.mod \in 0 .. 6
    /\ env.table \in [1 .. 6 -> {"system", "ours", "mod", "mod over ours"}]

\* What is ours has been counted or could not be given back, and nothing is counted before
\* the start or after the end.
TableCounted ==
    /\ \A i \in 1 .. 6 : env.table[i] = "ours" => i =< net.installed \/ i \in net.refused
    /\ pc \in {"stopped", "validate", "failed", "gone"} => net.installed = 0
    /\ own.active => pc = "ready"
    /\ pc = "ready" => net.installed = 6

\* Until the six are in place no call has come in.
NobodyIn ==
    pc \in {"stopped", "validate", "install", "fail", "failed"} =>
        ~env.lost /\ \A t \in Threads : env.call[t] = Idle

IInv == Fields /\ TableCounted /\ NobodyIn /\ TableIsWhole

(* What the proofs about the open files rest on. *)

Open == [file : Files, handle : 1 .. FakeHandles, position : 0 .. 3]
Phases == {"stopped", "validate", "install", "ready", "fail", "failed", "stop", "gone"}
Ops == {"ReadFile", "ReadFile at", "SetFilePointer", "SetFilePointer by", "SetFilePointer end",
        "CloseHandle", "GetFileSize", "GetFileType"}
Creates == [op : {"CreateFileA"}, file : [file : Files, handle : {0}, position : {0}], n : {0}]
Uses == {c \in [op : Ops, file : Open, n : -1 .. 3] : c.op = "SetFilePointer by" \/ c.n >= 0}

FileFields ==
    /\ pc \in Phases /\ net.fits /\ own.lock \in BOOLEAN /\ own.next \in 0 .. FakeHandles
    /\ own.records \in [1 .. Slots -> Open \cup {None}]
    /\ env.held \in [Threads -> SUBSET Open] /\ env.call \in [Threads -> {Idle} \cup Creates \cup Uses]

\* Lock and handles are there while calls can come in, and go with the records.
LockHeld ==
    /\ pc \in {"install", "ready", "stop"} => own.lock
    /\ own.lock => pc \in {"install", "ready", "stop", "fail"}
    /\ pc \notin {"failed", "gone"} => own.next # 0

NothingOpen ==
    pc \in {"stopped", "validate", "install", "fail", "failed"} =>
        (\A t \in Threads : env.held[t] = {}) /\ \A s \in 1 .. Slots : own.records[s] = None

\* A handle is of one record and of one thread, what a thread holds has its record, and a
\* call on the way is about a file its thread holds.
HandlesApart(records, held, call) ==
    /\ \A s, r \in 1 .. Slots : records[s] # None /\ records[s].handle = records[r].handle => s = r
    /\ \A t \in Threads : \A f \in held[t] : \E s \in 1 .. Slots : records[s] = f
    /\ \A t \in Threads : call[t] \in Uses => call[t].file \in held[t]
    /\ \A t, u \in Threads : t # u => \A f \in held[t], g \in held[u] : f.handle # g.handle

FilesInv ==
    /\ FileFields /\ LockHeld /\ NothingOpen
    /\ pc # "gone" => HandlesApart(own.records, env.held, env.call)
=============================================================================
