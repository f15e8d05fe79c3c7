----------------------------- MODULE Decor_proofs -----------------------------
(***************************************************************************)
(* What Pools promises of the server's decor and of its gang zones, for any  *)
(* ids, rings and sessions.                                                  *)
(***************************************************************************)
EXTENDS Pools_proofs

SanePools(kind) == {o \in Dec!Pools : Dec!Sane(kind, o)}

\* The fields of a pool.
LEMMA PoolFields ==
    ASSUME NEW o \in Dec!Pools
    PROVE  /\ o = [mark |-> o.mark, slots |-> o.slots, active |-> o.active, pending |-> o.pending, gta |-> o.gta,
                   refused |-> o.refused, peds |-> o.peds, records |-> o.records, standing |-> o.standing,
                   scan |-> o.scan]
           /\ o.mark \in Nat /\ o.slots \in [Ids -> Dec!Slots] /\ o.active \in Int /\ o.pending \in Int
           /\ o.gta \in [Handles -> Ids \cup {0}] /\ o.refused \subseteq Ids /\ o.peds \subseteq Ids
           /\ o.records \subseteq Ids /\ o.standing \subseteq Ids /\ o.scan \in {"never", "now", "earlier"}
  BY DEF Dec!Pools

\* The fields of a slot.
LEMMA DecorSlot ==
    ASSUME NEW s \in Dec!Slots
    PROVE  /\ s = [active |-> s.active, seq |-> s.seq, shows |-> s.shows, pending |-> s.pending, gta |-> s.gta]
           /\ s.active \in BOOLEAN /\ s.seq \in Nat /\ s.shows \in Nat /\ s.pending \in BOOLEAN
           /\ s.gta \in Handles \cup {0}
  BY DEF Dec!Slots

\* The empty slot.
LEMMA NoDecor ==
    /\ Dec!NoSlot \in Dec!Slots
    /\ Dec!NoSlot.active = FALSE /\ Dec!NoSlot.seq = 0 /\ Dec!NoSlot.shows = 0
    /\ Dec!NoSlot.pending = FALSE /\ Dec!NoSlot.gta = 0
  BY DEF Dec!NoSlot, Dec!Slots

\* A pool whose slot id is s, and what goes with it.
Put(o, id, s, g, a, n, f, r, t) ==
    [mark |-> o.mark, slots |-> [o.slots EXCEPT ![id] = s], active |-> a, pending |-> n, gta |-> g,
     refused |-> f, peds |-> o.peds, records |-> r, standing |-> t, scan |-> o.scan]

\* The handle of a slot that becomes s.
HandleFits(o, g, id, s) ==
    /\ s.gta # 0 => s.gta \in Handles /\ o.gta[s.gta] \in {0, id}
    /\ \A x \in Handles : g[x] = IF x = s.gta THEN id ELSE IF o.gta[x] = id THEN 0 ELSE o.gta[x]

\* The counts of a pool where it does.
CountsFit(kind, o, id, s, a, n) ==
    /\ kind \in {"text", "bubble"} => a = o.active + Bit(s.active) - Bit(o.slots[id].active)
    /\ kind = "attached" => /\ a = o.active + Bit(s.gta # 0) - Bit(o.slots[id].gta # 0)
                            /\ n = o.pending + Bit(s.pending) - Bit(o.slots[id].pending)

\* What a slot of its kind may be.
DecorFits(kind, o, id, s) ==
    /\ s.gta # 0 => kind \in {"icon", "attached"} /\ (kind = "attached" => id \in o.peds)
    /\ s.pending => s.gta = 0
    /\ kind = "text" /\ s.active => s.seq # 0
    /\ kind = "text" /\ ~s.active => s.seq = 0 /\ s.shows = 0
    /\ kind = "building" => s.seq = 0 /\ s.shows = 0

DecorOthers(o, d, id) == \A j \in Ids : j # id => d.slots[j] = o.slots[j]

\* Whose handle is whose.
LEMMA HandlesAre ==
    ASSUME NEW kind, NEW o \in SanePools(kind), NEW id \in Ids, NEW x \in Handles
    PROVE  o.gta[x] = id <=> o.slots[id].gta = x
  <1>1. o \in Dec!Pools /\ Dec!Sane(kind, o)
    BY DEF SanePools
  <1>2. Dec!SlotOk(kind, o, id) /\ Dec!HandleOk(o, x)
    BY <1>1 DEF Dec!Sane
  <1>3. id # 0 /\ x # 0
    BY IdsAre
  <1>4. o.slots[id].gta # 0 => o.gta[o.slots[id].gta] = id
    BY <1>2 DEF Dec!SlotOk
  <1>5. o.gta[x] # 0 => o.slots[o.gta[x]].gta = x
    BY <1>2 DEF Dec!HandleOk
  <1> QED
    BY <1>3, <1>4, <1>5

\* The slot id of a sane pool becomes s.
LEMMA SlotIsPut ==
    ASSUME NEW kind, NEW o \in SanePools(kind), NEW id \in Ids, NEW s \in Dec!Slots,
           NEW g \in [Handles -> Ids \cup {0}], NEW a \in Int, NEW n \in Int,
           NEW f, f \subseteq Ids, NEW r, r \subseteq Ids, NEW t, t \subseteq Ids, Cardinality(r) =< MaxRecords,
           HandleFits(o, g, id, s), CountsFit(kind, o, id, s, a, n), DecorFits(kind, o, id, s),
           NEW d, d = Put(o, id, s, g, a, n, f, r, t)
    PROVE  d \in SanePools(kind) /\ d.slots[id] = s /\ DecorOthers(o, d, id)
  <1>1. o \in Dec!Pools /\ Dec!Sane(kind, o)
    BY DEF SanePools
  <1>2. PICK w : w = [o.slots EXCEPT ![id] = s]
    OBVIOUS
  <1>3. w \in [Ids -> Dec!Slots] /\ w[id] = s /\ \A j \in Ids : j # id => w[j] = o.slots[j]
    <2>1. o.slots \in [Ids -> Dec!Slots]
      BY <1>1, PoolFields
    <2> QED
      BY <1>2, <2>1
  <1>4. d = [mark |-> o.mark, slots |-> w, active |-> a, pending |-> n, gta |-> g,
             refused |-> f, peds |-> o.peds, records |-> r, standing |-> t, scan |-> o.scan]
    BY <1>2 DEF Put
  <1>5. d \in Dec!Pools
    <2>1. o.mark \in Nat /\ o.peds \subseteq Ids /\ o.scan \in {"never", "now", "earlier"}
      BY <1>1, PoolFields
    <2> QED
      BY <1>3, <1>4, <2>1 DEF Dec!Pools
  <1>6. d.slots = w /\ d.gta = g /\ d.peds = o.peds /\ d.records = r /\ d.active = a /\ d.pending = n
    BY <1>4
  <1>7. id # 0 /\ 0 \notin Handles
    BY IdsAre
  <1>8. ASSUME NEW i \in Ids PROVE Dec!SlotOk(kind, d, i)
    <2>1. CASE i = id
      <3>1. s.gta # 0 => g[s.gta] = id
        BY DEF HandleFits
      <3> QED
        BY <1>3, <1>6, <2>1, <3>1 DEF Dec!SlotOk, DecorFits
    <2>2. CASE i # id
      <3>1. PICK u : u = o.slots[i]
        OBVIOUS
      <3>2. w[i] = u /\ Dec!SlotOk(kind, o, i) /\ u \in Dec!Slots
        BY <1>1, <1>3, <2>2, <3>1, PoolFields DEF Dec!Sane
      <3>3. u.gta # 0 => g[u.gta] = i
        <4> SUFFICES ASSUME u.gta # 0 PROVE g[u.gta] = i
          OBVIOUS
        <4>1. u.gta \in Handles /\ o.gta[u.gta] = i
          BY <3>1, <3>2, DecorSlot DEF Dec!SlotOk
        <4>2. u.gta # s.gta
          <5> SUFFICES ASSUME u.gta = s.gta PROVE FALSE
            OBVIOUS
          <5>1. s.gta # 0 /\ o.gta[s.gta] \in {0, id}
            BY DEF HandleFits
          <5>2. i # 0
            BY IdsAre
          <5> QED
            BY <2>2, <4>1, <5>1, <5>2
        <4> QED
          BY <2>2, <4>1, <4>2 DEF HandleFits
      <3> QED
        BY <1>6, <3>1, <3>2, <3>3 DEF Dec!SlotOk
    <2> QED
      BY <2>1, <2>2
  <1>9. ASSUME NEW x \in Handles PROVE Dec!HandleOk(d, x)
    <2>1. CASE x = s.gta
      <3>1. g[x] = id
        BY <2>1 DEF HandleFits
      <3> QED
        BY <1>3, <1>6, <2>1, <3>1 DEF Dec!HandleOk
    <2>2. CASE x # s.gta /\ o.gta[x] = id
      <3>1. g[x] = 0
        BY <2>2 DEF HandleFits
      <3> QED
        BY <1>6, <3>1 DEF Dec!HandleOk
    <2>3. CASE x # s.gta /\ o.gta[x] # id
      <3>1. PICK j : j = o.gta[x]
        OBVIOUS
      <3>2. g[x] = j /\ j \in Ids \cup {0} /\ j # id
        BY <1>1, <2>3, <3>1, PoolFields DEF HandleFits
      <3>3. j # 0 => o.slots[j].gta = x
        BY <1>1, <3>1 DEF Dec!Sane, Dec!HandleOk
      <3> QED
        BY <1>3, <1>6, <3>2, <3>3 DEF Dec!HandleOk
    <2> QED
      BY <2>1, <2>2, <2>3
  <1>10. Dec!Numbered(kind, d)
    <2>1. Dec!Numbered(kind, o)
      BY <1>1 DEF Dec!Sane
    <2>2. PICK A, B : A = {i \in Ids : o.slots[i].active} /\ B = {i \in Ids : w[i].active}
      OBVIOUS
    <2>3. PICK G, H : G = {i \in Ids : o.slots[i].gta # 0} /\ H = {i \in Ids : w[i].gta # 0}
      OBVIOUS
    <2>4. PICK P, Q : P = {i \in Ids : o.slots[i].pending} /\ Q = {i \in Ids : w[i].pending}
      OBVIOUS
    <2>5. /\ A \subseteq Ids /\ B \subseteq Ids /\ (id \in A <=> o.slots[id].active) /\ (id \in B <=> s.active)
          /\ \A j \in Ids : j # id => (j \in A <=> j \in B)
      BY <1>3, <2>2, Zenon
    <2>6. /\ G \subseteq Ids /\ H \subseteq Ids /\ (id \in G <=> o.slots[id].gta # 0) /\ (id \in H <=> s.gta # 0)
          /\ \A j \in Ids : j # id => (j \in G <=> j \in H)
      BY <1>3, <2>3, Zenon
    <2>7. /\ P \subseteq Ids /\ Q \subseteq Ids /\ (id \in P <=> o.slots[id].pending) /\ (id \in Q <=> s.pending)
          /\ \A j \in Ids : j # id => (j \in P <=> j \in Q)
      BY <1>3, <2>4, Zenon
    <2>8. Cardinality(B) = Cardinality(A) + Bit(id \in B) - Bit(id \in A)
      BY <2>5, OnesAre
    <2>9. Cardinality(H) = Cardinality(G) + Bit(id \in H) - Bit(id \in G)
      BY <2>6, OnesAre
    <2>10. Cardinality(Q) = Cardinality(P) + Bit(id \in Q) - Bit(id \in P)
      BY <2>7, OnesAre
    <2>11. kind \in {"text", "bubble"} => a = Cardinality(B)
      <3> SUFFICES ASSUME kind \in {"text", "bubble"} PROVE a = Cardinality(B)
        OBVIOUS
      <3>1. o.active = Cardinality(A)
        BY <2>1, <2>2 DEF Dec!Numbered, Dec!Cardinality, Cardinality
      <3>2. a = o.active + Bit(s.active) - Bit(o.slots[id].active)
        BY DEF CountsFit
      <3>3. Bit(s.active) = Bit(id \in B) /\ Bit(o.slots[id].active) = Bit(id \in A)
        BY <2>5 DEF Bit
      <3> QED
        BY <2>8, <3>1, <3>2, <3>3
    <2>12. kind = "attached" => a = Cardinality(H) /\ n = Cardinality(Q)
      <3> SUFFICES ASSUME kind = "attached" PROVE a = Cardinality(H) /\ n = Cardinality(Q)
        OBVIOUS
      <3>1. o.active = Cardinality(G) /\ o.pending = Cardinality(P)
        BY <2>1, <2>3, <2>4 DEF Dec!Numbered, Dec!Cardinality, Cardinality
      <3>2. a = o.active + Bit(s.gta # 0) - Bit(o.slots[id].gta # 0)
        BY DEF CountsFit
      <3>3. n = o.pending + Bit(s.pending) - Bit(o.slots[id].pending)
        BY DEF CountsFit
      <3>4. Bit(s.gta # 0) = Bit(id \in H) /\ Bit(o.slots[id].gta # 0) = Bit(id \in G)
        BY <2>6 DEF Bit
      <3>5. Bit(s.pending) = Bit(id \in Q) /\ Bit(o.slots[id].pending) = Bit(id \in P)
        BY <2>7 DEF Bit
      <3> QED
        BY <2>9, <2>10, <3>1, <3>2, <3>3, <3>4, <3>5
    <2> QED
      BY <1>6, <2>2, <2>3, <2>4, <2>11, <2>12 DEF Dec!Numbered, Dec!Cardinality, Cardinality
  <1>11. Dec!Sane(kind, d)
    <2>1. Dec!Cardinality(d.records) =< MaxRecords
      BY <1>6 DEF Dec!Cardinality, Cardinality
    <2> QED
      BY <1>8, <1>9, <1>10, <2>1 DEF Dec!Sane
  <1> QED
    BY <1>3, <1>5, <1>6, <1>11 DEF SanePools, DecorOthers

\* The handles of a pool where the slot id has none any more.
LEMMA HandleIsDeleted ==
    ASSUME NEW kind, NEW o \in SanePools(kind), NEW id \in Ids, NEW s, s.gta = 0,
           NEW g, g = Dec!Deleted(o, o.slots[id].gta)
    PROVE  g \in [Handles -> Ids \cup {0}] /\ HandleFits(o, g, id, s)
  <1>1. o \in Dec!Pools /\ o.gta \in [Handles -> Ids \cup {0}] /\ o.slots[id].gta \in Handles \cup {0}
    BY PoolFields, DecorSlot DEF SanePools
  <1>2. PICK y : y = o.slots[id].gta
    OBVIOUS
  <1>3. \A x \in Handles : (o.gta[x] = id <=> x = y) /\ x # 0
    BY <1>2, HandlesAre, IdsAre
  <1>4. g = IF y = 0 THEN o.gta ELSE [o.gta EXCEPT ![y] = 0]
    BY <1>2 DEF Dec!Deleted
  <1>5. g \in [Handles -> Ids \cup {0}]
    BY <1>1, <1>2, <1>4
  <1>6. \A x \in Handles : g[x] = IF x = y THEN 0 ELSE o.gta[x]
    BY <1>1, <1>2, <1>3, <1>4
  <1>7. \A x \in Handles : g[x] = IF x = s.gta THEN id ELSE IF o.gta[x] = id THEN 0 ELSE o.gta[x]
    BY <1>3, <1>6
  <1> QED
    BY <1>5, <1>7 DEF HandleFits

\* A handle is free for a slot that has none.
LEMMA DecorHandleIsFree ==
    ASSUME NEW kind, NEW o \in SanePools(kind), NEW id \in Ids, o.slots[id].gta = 0
    PROVE  \E h \in Handles : o.gta[h] = 0
  <1>1. o \in Dec!Pools
    BY DEF SanePools
  <1>2. PICK A, f : A = {i \in Ids : o.slots[i].gta # 0} /\ f = [i \in Ids |-> o.slots[i].gta]
    OBVIOUS
  <1>3. A \subseteq Ids /\ A # Ids
    BY <1>2
  <1>4. PICK h \in Handles : \A i \in A : f[i] # h
    <2>1. IsFiniteSet(Ids) /\ IsFiniteSet(Handles) /\ Cardinality(Ids) =< Cardinality(Handles)
      BY IdsAre
    <2> QED
      BY <1>3, <2>1, OneIsFree
  <1>5. PICK j : j = o.gta[h]
    OBVIOUS
  <1>6. j \in Ids \cup {0}
    BY <1>1, <1>5, PoolFields
  <1>7. SUFFICES ASSUME j # 0 PROVE FALSE
    BY <1>5
  <1>9. j \in Ids /\ h # 0
    BY <1>6, <1>7, IdsAre
  <1>8. j \in Ids /\ o.slots[j].gta = h /\ h # 0
    BY <1>5, <1>9, HandlesAre
  <1> QED
    BY <1>2, <1>4, <1>8

\* What is shown of i agrees with v, unless it is excused.
Fit(kind, o, i, v) ==
    Dec!Excused(kind, o, i) \/ (v.excused = FALSE /\ v.seq = o.slots[i].seq /\ v.shows = o.slots[i].shows)

\* An excuse stands.
Spared(kind, o, d, i) == Dec!Excused(kind, o, i) => Dec!Excused(kind, d, i)

\* What an event about id makes of the slot agrees with what is heard.
Obeys(kind, o, d, id, e) == \A v \in Dec!Views : Fit(kind, o, id, v) => Fit(kind, d, id, Dec!Heard(v, e))

\* An event of the ring has been applied.
Heeded(kind, o, d, e) ==
    /\ DecorOthers(o, d, e.id)
    /\ \A j \in Ids : j # e.id => Spared(kind, o, d, j)
    /\ Obeys(kind, o, d, e.id, e)

\* What the RPCs say.
LEMMA HeardSays ==
    ASSUME NEW v, NEW e
    PROVE  /\ e.action \in {"set", "show", "say", "take"} =>
                 Dec!Heard(v, e) = [seq |-> e.seq, shows |-> e.seq, excused |-> FALSE]
           /\ e.action = "edit" => Dec!Heard(v, e) = IF v.seq = 0 THEN v ELSE [v EXCEPT !.shows = e.seq]
           /\ e.action = "off" => Dec!Heard(v, e) = v
           /\ e.action \in {"remove", "hide", "silence"} => Dec!Heard(v, e) = Dec!Untold
  BY DEF Dec!Heard

\* They say it in the words of a view.
LEMMA HeardIsView ==
    ASSUME NEW v \in Dec!Views, NEW e, e.seq \in Nat,
           e.action \in {"set", "show", "say", "take", "edit", "off", "remove", "hide", "silence"}
    PROVE  Dec!Heard(v, e) \in Dec!Views
  <1>1. CASE e.action \in {"set", "show", "say", "take"}
    <2>1. Dec!Heard(v, e) = [seq |-> e.seq, shows |-> e.seq, excused |-> FALSE]
      BY <1>1, HeardSays
    <2> QED
      BY <2>1 DEF Dec!Views
  <1>2. CASE e.action = "edit"
    <2>1. Dec!Heard(v, e) = IF v.seq = 0 THEN v ELSE [v EXCEPT !.shows = e.seq]
      BY <1>2, HeardSays
    <2> QED
      BY <2>1 DEF Dec!Views
  <1>3. CASE e.action = "off"
    BY <1>3, HeardSays
  <1>4. CASE e.action \in {"remove", "hide", "silence"}
    <2>1. Dec!Heard(v, e) = Dec!Untold
      BY <1>4, HeardSays
    <2> QED
      BY <2>1 DEF Dec!Untold, Dec!Views
  <1> QED
    BY <1>1, <1>2, <1>3, <1>4

\* An event that says nothing the bridge takes.
LEMMA NothingIsTaken ==
    ASSUME NEW kind, NEW o, NEW e, e.action = "off"
    PROVE  Heeded(kind, o, o, e)
  <1>1. ASSUME NEW v PROVE Dec!Heard(v, e) = v
    BY HeardSays
  <1> QED
    BY <1>1 DEF Heeded, DecorOthers, Spared, Obeys

\* A slot that has become one that shows what was said.
LEMMA SaidIsShown ==
    ASSUME NEW kind, NEW o, NEW d, NEW e,
           e.action \in {"set", "show", "say", "take"},
           DecorOthers(o, d, e.id), \A j \in Ids : j # e.id => Spared(kind, o, d, j),
           \/ Dec!Excused(kind, d, e.id)
           \/ d.slots[e.id].seq = e.seq /\ d.slots[e.id].shows = e.seq
    PROVE  Heeded(kind, o, d, e)
  <1>1. ASSUME NEW v \in Dec!Views PROVE Fit(kind, d, e.id, Dec!Heard(v, e))
    <2>1. PICK u : u = Dec!Heard(v, e)
      OBVIOUS
    <2>3. u = [seq |-> e.seq, shows |-> e.seq, excused |-> FALSE]
      BY <2>1, HeardSays
    <2>2. u.excused = FALSE /\ u.seq = e.seq /\ u.shows = e.seq
      BY <2>3
    <2> QED
      BY <2>1, <2>2 DEF Fit
  <1> QED
    BY <1>1 DEF Heeded, Obeys

\* A slot that has become empty.
LEMMA EndIsShown ==
    ASSUME NEW kind, NEW o, NEW d, NEW e,
           e.action \in {"remove", "hide", "silence"},
           DecorOthers(o, d, e.id), \A j \in Ids : j # e.id => Spared(kind, o, d, j),
           d.slots[e.id].seq = 0 /\ d.slots[e.id].shows = 0
    PROVE  Heeded(kind, o, d, e)
  <1>1. ASSUME NEW v \in Dec!Views PROVE Fit(kind, d, e.id, Dec!Heard(v, e))
    <2>1. PICK u : u = Dec!Heard(v, e)
      OBVIOUS
    <2>3. u = Dec!Untold
      BY <2>1, HeardSays
    <2>2. u.excused = FALSE /\ u.seq = 0 /\ u.shows = 0
      BY <2>3 DEF Dec!Untold
    <2> QED
      BY <2>1, <2>2 DEF Fit
  <1> QED
    BY <1>1 DEF Heeded, Obeys

-----------------------------------------------------------------------------
(* The icons. *)

\* A pool whose slot id, handles and refused icons have changed.
LEMMA IconPut ==
    ASSUME NEW o \in Dec!Pools, NEW id, NEW s, NEW g, NEW a, NEW n, NEW f, NEW d,
           d = [o EXCEPT !.slots[id] = s, !.gta = g, !.refused = f]
    PROVE  d = Put(o, id, s, g, o.active, o.pending, f, o.records, o.standing)
  <1>1. PICK w, x : w = [o.slots EXCEPT ![id] = s] /\ x = [o EXCEPT !.slots = w, !.gta = g]
    OBVIOUS
  <1>2. x = [mark |-> o.mark, slots |-> w, active |-> o.active, pending |-> o.pending, gta |-> g,
             refused |-> o.refused, peds |-> o.peds, records |-> o.records, standing |-> o.standing, scan |-> o.scan]
    BY <1>1 DEF Dec!Pools
  <1>3. d = [x EXCEPT !.refused = f]
    BY <1>1
  <1>4. d = [mark |-> o.mark, slots |-> w, active |-> o.active, pending |-> o.pending, gta |-> g,
             refused |-> f, peds |-> o.peds, records |-> o.records, standing |-> o.standing, scan |-> o.scan]
    BY <1>2, <1>3
  <1> QED
    BY <1>1, <1>4 DEF Put

\* A pool whose slot id, handles and counts have changed.
LEMMA AttachedPut ==
    ASSUME NEW o \in Dec!Pools, NEW id, NEW s, NEW g, NEW a, NEW n, NEW f, NEW d,
           d = [o EXCEPT !.slots[id] = s, !.gta = g, !.pending = n, !.active = a]
    PROVE  d = Put(o, id, s, g, a, n, o.refused, o.records, o.standing)
  <1>1. PICK w, x : w = [o.slots EXCEPT ![id] = s] /\ x = [o EXCEPT !.slots = w, !.gta = g]
    OBVIOUS
  <1>2. x = [mark |-> o.mark, slots |-> w, active |-> o.active, pending |-> o.pending, gta |-> g,
             refused |-> o.refused, peds |-> o.peds, records |-> o.records, standing |-> o.standing, scan |-> o.scan]
    BY <1>1 DEF Dec!Pools
  <1>3. d = [x EXCEPT !.pending = n, !.active = a]
    BY <1>1
  <1>4. d = [mark |-> o.mark, slots |-> w, active |-> a, pending |-> n, gta |-> g,
             refused |-> o.refused, peds |-> o.peds, records |-> o.records, standing |-> o.standing, scan |-> o.scan]
    BY <1>2, <1>3
  <1> QED
    BY <1>1, <1>4 DEF Put

\* A pool whose slot id and count have changed.
LEMMA TextPut ==
    ASSUME NEW o \in Dec!Pools, NEW id, NEW s, NEW g, NEW a, NEW n, NEW f, NEW d,
           d = [o EXCEPT !.active = a, !.slots[id] = s]
    PROVE  d = Put(o, id, s, o.gta, a, o.pending, o.refused, o.records, o.standing)
  <1>1. PICK w : w = [o.slots EXCEPT ![id] = s]
    OBVIOUS
  <1>2. d = [o EXCEPT !.active = a, !.slots = w]
    BY <1>1
  <1>3. d = [mark |-> o.mark, slots |-> w, active |-> a, pending |-> o.pending, gta |-> o.gta,
             refused |-> o.refused, peds |-> o.peds, records |-> o.records, standing |-> o.standing, scan |-> o.scan]
    BY <1>2 DEF Dec!Pools
  <1> QED
    BY <1>1, <1>3 DEF Put

\* The records of a sane pool.
LEMMA RecordsFit ==
    ASSUME NEW kind, NEW o \in SanePools(kind)
    PROVE  o \in Dec!Pools /\ Dec!Sane(kind, o) /\ Cardinality(o.records) =< MaxRecords
  BY DEF SanePools, Dec!Sane, Dec!Cardinality, Cardinality

\* Decor!DisableIcon: the slot is empty, and its icon is no more.
LEMMA IconIsOff ==
    ASSUME NEW o \in SanePools("icon"), NEW id \in Ids, NEW d, d = Dec!DisableIcon(o, id)
    PROVE  /\ d \in SanePools("icon") /\ d.slots[id] = Dec!NoSlot /\ DecorOthers(o, d, id)
           /\ d.refused = o.refused \ {id}
  <1>1. o \in Dec!Pools /\ Cardinality(o.records) =< MaxRecords
    BY RecordsFit
  <1>2. PICK s, g, f : s = Dec!NoSlot /\ g = Dec!Deleted(o, o.slots[id].gta) /\ f = o.refused \ {id}
    OBVIOUS
  <1>3. s \in Dec!Slots /\ s.active = FALSE /\ s.seq = 0 /\ s.shows = 0 /\ s.pending = FALSE /\ s.gta = 0
    BY <1>2, NoDecor
  <1>4. d = Put(o, id, s, g, o.active, o.pending, f, o.records, o.standing)
    <2>1. d = [o EXCEPT !.slots[id] = s, !.gta = g, !.refused = f]
      BY <1>2 DEF Dec!DisableIcon
    <2> QED
      BY <1>1, <2>1, IconPut
  <1>5. g \in [Handles -> Ids \cup {0}] /\ HandleFits(o, g, id, s)
    BY <1>2, <1>3, HandleIsDeleted
  <1>6. CountsFit("icon", o, id, s, o.active, o.pending) /\ DecorFits("icon", o, id, s)
    BY <1>3 DEF CountsFit, DecorFits
  <1>7. f \subseteq Ids /\ o.records \subseteq Ids /\ o.standing \subseteq Ids /\ o.active \in Int /\ o.pending \in Int
    BY <1>1, <1>2, PoolFields
  <1>8. d \in SanePools("icon") /\ d.slots[id] = s /\ DecorOthers(o, d, id)
    BY <1>1, <1>3, <1>4, <1>5, <1>6, <1>7, SlotIsPut
  <1>9. d.refused = f
    BY <1>4 DEF Put
  <1> QED
    BY <1>2, <1>8, <1>9

\* The slot id had no handle, and gets a free one.
GetsHandle(o, id, s, x, g) ==
    /\ o.slots[id].gta = 0 /\ x \in Handles /\ o.gta[x] = 0
    /\ s.gta = x /\ s.pending = FALSE /\ g = [o.gta EXCEPT ![x] = id]

\* An empty slot gets an icon.
LEMMA IconIsPut ==
    ASSUME NEW o \in SanePools("icon"), NEW id \in Ids, NEW s \in Dec!Slots, NEW x, NEW g,
           GetsHandle(o, id, s, x, g), NEW d,
           d = Put(o, id, s, g, o.active, o.pending, o.refused, o.records, o.standing)
    PROVE  d \in SanePools("icon") /\ d.slots[id] = s /\ DecorOthers(o, d, id) /\ d.refused = o.refused
  <1>0. /\ o.slots[id].gta = 0 /\ x \in Handles /\ o.gta[x] = 0
        /\ s.gta = x /\ s.pending = FALSE /\ g = [o.gta EXCEPT ![x] = id]
    BY DEF GetsHandle
  <1>1. o \in Dec!Pools /\ Cardinality(o.records) =< MaxRecords
    BY RecordsFit
  <1>8. o.gta \in [Handles -> Ids \cup {0}]
    BY <1>1, PoolFields
  <1>9. g \in [Handles -> Ids \cup {0}]
    BY <1>0, <1>8
  <1>10. HandleFits(o, g, id, s)
    <2>1. \A y \in Handles : o.gta[y] # id
      <3>1. ASSUME NEW y \in Handles PROVE o.gta[y] # id
        <4>1. o.gta[y] = id <=> o.slots[id].gta = y
          BY HandlesAre
        <4> QED
          BY <1>0, <4>1, IdsAre
      <3> QED
        BY <3>1
    <2>2. \A y \in Handles : g[y] = IF y = x THEN id ELSE o.gta[y]
      BY <1>0, <1>8
    <2>3. \A y \in Handles : g[y] = IF y = s.gta THEN id ELSE IF o.gta[y] = id THEN 0 ELSE o.gta[y]
      BY <1>0, <2>1, <2>2
    <2>4. s.gta # 0 => s.gta \in Handles /\ o.gta[s.gta] \in {0, id}
      BY <1>0
    <2> QED
      BY <2>3, <2>4 DEF HandleFits
  <1>11. CountsFit("icon", o, id, s, o.active, o.pending) /\ DecorFits("icon", o, id, s)
    BY <1>0 DEF CountsFit, DecorFits
  <1>12. /\ o.refused \subseteq Ids /\ o.records \subseteq Ids /\ o.standing \subseteq Ids
         /\ o.active \in Int /\ o.pending \in Int
    BY <1>1, PoolFields
  <1>13. d \in SanePools("icon") /\ d.slots[id] = s /\ DecorOthers(o, d, id)
    BY <1>1, <1>9, <1>10, <1>11, <1>12, SlotIsPut
  <1>14. d.refused = o.refused
    BY DEF Put
  <1> QED
    BY <1>13, <1>14

IconSet(o, id, seq, x) ==
    [o EXCEPT !.gta[x] = id,
       !.slots[id] = [Dec!NoSlot EXCEPT !.active = TRUE, !.seq = seq, !.shows = seq, !.gta = x]]

\* An icon GTA accepts.
LEMMA IconIsSet ==
    ASSUME NEW o \in SanePools("icon"), NEW id \in Ids, o.slots[id] = Dec!NoSlot, NEW seq \in Nat, NEW x,
           x = Dec!Unused(o), NEW d,
           d = IconSet(o, id, seq, x)
    PROVE  /\ d \in SanePools("icon") /\ DecorOthers(o, d, id) /\ d.refused = o.refused
           /\ d.slots[id].seq = seq /\ d.slots[id].shows = seq
  <1>1. o \in Dec!Pools
    BY RecordsFit
  <1>2. o.slots[id].gta = 0
    BY NoDecor
  <1>3. x \in Handles /\ o.gta[x] = 0
    <2>1. \E h \in Handles : o.gta[h] = 0
      BY <1>2, DecorHandleIsFree
    <2> QED
      BY <2>1 DEF Dec!Unused
  <1>4. PICK s, g : /\ s = [active |-> TRUE, seq |-> seq, shows |-> seq, pending |-> FALSE, gta |-> x]
                    /\ g = [o.gta EXCEPT ![x] = id]
    OBVIOUS
  <1>5. s \in Dec!Slots /\ s.gta = x /\ s.pending = FALSE /\ s.seq = seq /\ s.shows = seq
    BY <1>3, <1>4 DEF Dec!Slots
  <1>6. [Dec!NoSlot EXCEPT !.active = TRUE, !.seq = seq, !.shows = seq, !.gta = x] = s
    <2>1. PICK v : v = [Dec!NoSlot EXCEPT !.active = TRUE, !.seq = seq, !.shows = seq, !.gta = x]
      OBVIOUS
    <2>2. v = [active |-> TRUE, seq |-> seq, shows |-> seq, pending |-> FALSE, gta |-> x]
      BY <2>1 DEF Dec!NoSlot
    <2> QED
      BY <1>4, <2>1, <2>2
  <1>7. d = Put(o, id, s, g, o.active, o.pending, o.refused, o.records, o.standing)
    <2>1. d = [o EXCEPT !.gta = g, !.slots[id] = s]
      BY <1>4, <1>6 DEF IconSet
    <2>2. PICK w : w = [o.slots EXCEPT ![id] = s]
      OBVIOUS
    <2>3. d = [o EXCEPT !.gta = g, !.slots = w]
      BY <2>1, <2>2
    <2>4. d = [mark |-> o.mark, slots |-> w, active |-> o.active, pending |-> o.pending, gta |-> g,
               refused |-> o.refused, peds |-> o.peds, records |-> o.records, standing |-> o.standing, scan |-> o.scan]
      BY <1>1, <2>3 DEF Dec!Pools
    <2> QED
      BY <2>2, <2>4 DEF Put
  <1>8. d \in SanePools("icon") /\ d.slots[id] = s /\ DecorOthers(o, d, id) /\ d.refused = o.refused
    <2>1. GetsHandle(o, id, s, x, g)
      BY <1>2, <1>3, <1>4, <1>5 DEF GetsHandle
    <2>2. PICK y : y = Put(o, id, s, g, o.active, o.pending, o.refused, o.records, o.standing)
      OBVIOUS
    <2>3. s \in Dec!Slots
      BY <1>5
    <2>4. y \in SanePools("icon") /\ y.slots[id] = s /\ DecorOthers(o, y, id) /\ y.refused = o.refused
      BY <2>1, <2>2, <2>3, IconIsPut
    <2> QED
      BY <1>7, <2>2, <2>4
  <1> QED
    BY <1>5, <1>8

\* Whether GTA refuses an icon is told by refused alone.
LEMMA IconsAreExcused ==
    ASSUME NEW o, NEW i
    PROVE  Dec!Excused("icon", o, i) <=> i \in o.refused
  BY DEF Dec!Excused

\* A pool with another set of refused icons.
LEMMA RefusedIsSet ==
    ASSUME NEW kind, NEW o \in SanePools(kind), NEW f, f \subseteq Ids, NEW d, d = [o EXCEPT !.refused = f]
    PROVE  d \in SanePools(kind) /\ d.slots = o.slots /\ d.refused = f
  <1>1. o \in Dec!Pools /\ Dec!Sane(kind, o)
    BY RecordsFit
  <1>2. d \in Dec!Pools
    BY <1>1 DEF Dec!Pools
  <1>3. /\ d.slots = o.slots /\ d.gta = o.gta /\ d.peds = o.peds /\ d.active = o.active
        /\ d.pending = o.pending /\ d.records = o.records /\ d.refused = f
    BY <1>1 DEF Dec!Pools
  <1>4. Dec!Sane(kind, d)
    BY <1>1, <1>3 DEF Dec!Sane, Dec!SlotOk, Dec!HandleOk, Dec!Numbered
  <1> QED
    BY <1>2, <1>3, <1>4 DEF SanePools

\* Decor!ApplyIcon.
LEMMA IconIsApplied ==
    ASSUME NEW o \in SanePools("icon"), NEW e \in Dec!Events("icon"), NEW refuses, NEW d,
           d = Dec!ApplyIcon(o, e, refuses)
    PROVE  d \in SanePools("icon") /\ Heeded("icon", o, d, e)
  <1>1. e.id \in Ids /\ e.seq \in Nat /\ e.action \in {"set", "off", "remove"}
    BY DEF Dec!Events, Dec!Actions
  <1>2. PICK id, c : id = e.id /\ c = Dec!DisableIcon(o, e.id)
    OBVIOUS
  <1>3. /\ c \in SanePools("icon") /\ c.slots[id] = Dec!NoSlot /\ DecorOthers(o, c, id)
        /\ c.refused = o.refused \ {id}
    BY <1>1, <1>2, IconIsOff
  <1>4. CASE e.action = "off"
    <2>1. d = o
      BY <1>4 DEF Dec!ApplyIcon
    <2> QED
      BY <1>4, <2>1, NothingIsTaken
  <1>5. CASE e.action = "remove"
    <2>1. d = c
      BY <1>2, <1>5 DEF Dec!ApplyIcon
    <2>2. \A j \in Ids : j # e.id => Spared("icon", o, d, j)
      BY <1>2, <1>3, <2>1, IconsAreExcused DEF Spared
    <2>3. d.slots[e.id].seq = 0 /\ d.slots[e.id].shows = 0
      BY <1>2, <1>3, <2>1, NoDecor
    <2>4. DecorOthers(o, d, e.id)
      BY <1>2, <1>3, <2>1
    <2>5. Heeded("icon", o, d, e)
      BY <1>5, <2>2, <2>3, <2>4, EndIsShown
    <2> QED
      BY <1>3, <2>1, <2>5
  <1>6. CASE e.action = "set" /\ e.seq \in refuses
    <2>1. d = [c EXCEPT !.refused = c.refused \cup {id}]
      BY <1>2, <1>6 DEF Dec!ApplyIcon
    <2>2. PICK f : f = c.refused \cup {id}
      OBVIOUS
    <2>8. f \subseteq Ids /\ d = [c EXCEPT !.refused = f]
      BY <1>1, <1>2, <1>3, <2>1, <2>2, PoolFields DEF SanePools
    <2>9. d \in SanePools("icon") /\ d.slots = c.slots /\ d.refused = f
      BY <1>3, <2>8, RefusedIsSet
    <2>3. d \in SanePools("icon") /\ d.slots = c.slots /\ d.refused = c.refused \cup {id}
      BY <2>2, <2>9
    <2>4. \A j \in Ids : j # e.id => Spared("icon", o, d, j)
      BY <1>2, <1>3, <2>3, IconsAreExcused DEF Spared
    <2>5. DecorOthers(o, d, e.id)
      BY <1>2, <1>3, <2>3 DEF DecorOthers
    <2>6. Dec!Excused("icon", d, e.id)
      BY <1>2, <2>3, IconsAreExcused
    <2>7. Heeded("icon", o, d, e)
      BY <1>6, <2>4, <2>5, <2>6, SaidIsShown
    <2> QED
      BY <2>3, <2>7
  <1>7. CASE e.action = "set" /\ e.seq \notin refuses
    <2>1. PICK x, seq : x = Dec!Unused(c) /\ seq = e.seq /\ seq \in Nat
      BY <1>1
    <2>2. d = IconSet(c, id, seq, x)
      BY <1>2, <1>7, <2>1 DEF Dec!ApplyIcon, IconSet
    <2>3. /\ d \in SanePools("icon") /\ DecorOthers(c, d, id) /\ d.refused = c.refused
          /\ d.slots[id].seq = seq /\ d.slots[id].shows = seq
      <3>1. id \in Ids /\ c.slots[id] = Dec!NoSlot /\ seq \in Nat /\ x = Dec!Unused(c) /\ c \in SanePools("icon")
        BY <1>1, <1>2, <1>3, <2>1
      <3> QED
        BY <2>2, <3>1, IconIsSet
    <2>4. \A j \in Ids : j # e.id => Spared("icon", o, d, j)
      BY <1>2, <1>3, <2>3, IconsAreExcused DEF Spared
    <2>5. DecorOthers(o, d, e.id)
      BY <1>2, <1>3, <2>3 DEF DecorOthers
    <2>6. d.slots[e.id].seq = e.seq /\ d.slots[e.id].shows = e.seq
      BY <1>2, <2>1, <2>3
    <2>7. Heeded("icon", o, d, e)
      BY <1>7, <2>4, <2>5, <2>6, SaidIsShown
    <2> QED
      BY <2>3, <2>7
  <1> QED
    BY <1>1, <1>4, <1>5, <1>6, <1>7

-----------------------------------------------------------------------------
(* The labels, text draws and bubbles. *)

\* A slot that had no handle and gets none.
LEMMA NoHandleFits ==
    ASSUME NEW kind, NEW o \in SanePools(kind), NEW id \in Ids, o.slots[id].gta = 0, NEW s, s.gta = 0
    PROVE  HandleFits(o, o.gta, id, s)
  <1>1. \A x \in Handles : o.gta[x] # id /\ x # 0
    BY HandlesAre, IdsAre
  <1> QED
    BY <1>1 DEF HandleFits

\* What a sane slot is.
LEMMA SlotIs ==
    ASSUME NEW kind, NEW o \in SanePools(kind), NEW id \in Ids, NEW s, s = o.slots[id]
    PROVE  /\ s \in Dec!Slots
           /\ s.gta # 0 => o.gta[s.gta] = id /\ kind \in {"icon", "attached"}
           /\ s.gta # 0 /\ kind = "attached" => id \in o.peds
           /\ s.pending => s.gta = 0
           /\ kind = "text" /\ s.active => s.seq # 0
           /\ kind = "text" /\ ~s.active => s.seq = 0 /\ s.shows = 0
           /\ kind = "building" => s.seq = 0 /\ s.shows = 0
  <1>1. o \in Dec!Pools /\ Dec!SlotOk(kind, o, id)
    BY RecordsFit DEF Dec!Sane
  <1> QED
    BY <1>1, PoolFields DEF Dec!SlotOk

\* The kinds whose excuses do not change, and those that count what is active.
Kept == {"text", "bubble", "attached"}
Texts == {"text", "bubble"}

\* Of the slots of the pool o, d has changed id alone, to s, and no excuse is gone.
Changed(kind, o, d, id, s) ==
    d \in SanePools(kind) /\ d.slots[id] = s /\ DecorOthers(o, d, id) /\ \A j : Spared(kind, o, d, j)

\* The slot id of a pool becomes s, and no more icons are refused, and no more buildings on record.
LEMMA SlotChanges ==
    ASSUME NEW kind \in Kept, NEW o \in SanePools(kind), NEW id \in Ids,
           NEW s \in Dec!Slots, NEW g \in [Handles -> Ids \cup {0}], NEW a \in Int, NEW n \in Int,
           HandleFits(o, g, id, s), CountsFit(kind, o, id, s, a, n), DecorFits(kind, o, id, s),
           NEW d, d = Put(o, id, s, g, a, n, o.refused, o.records, o.standing)
    PROVE  Changed(kind, o, d, id, s) /\ d.peds = o.peds
  <1>1. o \in Dec!Pools /\ Cardinality(o.records) =< MaxRecords
    BY RecordsFit
  <1>2. o.refused \subseteq Ids /\ o.records \subseteq Ids /\ o.standing \subseteq Ids
    BY <1>1, PoolFields
  <1>3. d \in SanePools(kind) /\ d.slots[id] = s /\ DecorOthers(o, d, id)
    BY <1>1, <1>2, SlotIsPut
  <1>4. d.refused = o.refused /\ d.records = o.records /\ d.peds = o.peds
    BY DEF Put
  <1> QED
    BY <1>3, <1>4 DEF Changed, Spared, Dec!Excused, Kept

TextSet(o, id, a, s) == [o EXCEPT !.active = a, !.slots[id] = s]

\* A slot without a handle becomes s, in a pool that counts the active ones.
LEMMA TextChanges ==
    ASSUME NEW kind \in Texts, NEW o \in SanePools(kind), NEW id \in Ids,
           NEW s \in Dec!Slots, s.gta = 0, NEW a \in Int,
           CountsFit(kind, o, id, s, a, o.pending), DecorFits(kind, o, id, s),
           NEW d, d = TextSet(o, id, a, s)
    PROVE  Changed(kind, o, d, id, s)
  <1>1. o \in Dec!Pools /\ o.gta \in [Handles -> Ids \cup {0}] /\ o.pending \in Int
    BY RecordsFit, PoolFields
  <1>2. d = Put(o, id, s, o.gta, a, o.pending, o.refused, o.records, o.standing)
    BY <1>1, TextPut DEF TextSet
  <1>3. o.slots[id].gta = 0
    BY SlotIs DEF Texts
  <1>4. HandleFits(o, o.gta, id, s)
    BY <1>3, NoHandleFits
  <1> QED
    BY <1>1, <1>2, <1>4, SlotChanges DEF Texts, Kept

OneMore(o, id) == IF o.slots[id].active THEN o.active ELSE o.active + 1
OneLess(o, id) == IF o.slots[id].active THEN o.active - 1 ELSE o.active

\* The count with one more, or one less.
LEMMA ActiveCounts ==
    ASSUME NEW kind \in Texts, NEW o, NEW id, NEW s, NEW n, NEW was, NEW is, NEW a,
           was = Bit(o.slots[id].active), is = Bit(s.active), a = o.active + is - was
    PROVE  CountsFit(kind, o, id, s, a, n)
  <1>1. kind # "attached"
    BY DEF Texts
  <1>2. a = o.active + Bit(s.active) - Bit(o.slots[id].active)
    BY Zenon
  <1> QED
    BY <1>1, <1>2, Zenon DEF CountsFit

\* What they come to.
LEMMA OneMoreIs ==
    ASSUME NEW o, NEW id, o.active \in Int, NEW was, was = Bit(o.slots[id].active)
    PROVE  /\ OneMore(o, id) = o.active + 1 - was /\ OneLess(o, id) = o.active + 0 - was
           /\ OneMore(o, id) \in Int /\ OneLess(o, id) \in Int
  BY DEF Bit, OneMore, OneLess

\* A slot that shows what has been said.
Showing(s, seq) == /\ s \in Dec!Slots /\ s.active = TRUE /\ s.seq = seq /\ s.shows = seq
                   /\ s.pending = FALSE /\ s.gta = 0

Displayed(seq) == [Dec!NoSlot EXCEPT !.active = TRUE, !.seq = seq, !.shows = seq]

\* There is one.
LEMMA DisplayedIs ==
    ASSUME NEW seq \in Nat, NEW s, s = Displayed(seq)
    PROVE  Showing(s, seq)
  <1>1. s = [active |-> TRUE, seq |-> seq, shows |-> seq, pending |-> FALSE, gta |-> 0]
    BY DEF Dec!NoSlot, Displayed
  <1>2. s \in Dec!Slots
    BY <1>1 DEF Dec!Slots
  <1> QED
    BY <1>1, <1>2 DEF Showing

\* A text is shown, or a bubble.
LEMMA TextIsShown ==
    ASSUME NEW kind \in Texts, NEW o \in SanePools(kind), NEW id \in Ids, NEW seq \in Nat,
           seq # 0, NEW s, Showing(s, seq), NEW a,
           a = OneMore(o, id),
           NEW d, d = TextSet(o, id, a, s)
    PROVE  Changed(kind, o, d, id, s)
  <1>1. o.active \in Int /\ o.slots[id] \in Dec!Slots
    BY RecordsFit, PoolFields, SlotIs
  <1>2. s \in Dec!Slots /\ s.active = TRUE /\ s.seq = seq /\ s.pending = FALSE /\ s.gta = 0
    BY DEF Showing
  <1>3. a \in Int /\ CountsFit(kind, o, id, s, a, o.pending)
    <2>1. PICK was, is : was = Bit(o.slots[id].active) /\ is = Bit(s.active)
      OBVIOUS
    <2>2. is = 1
      BY <1>2, <2>1 DEF Bit
    <2>3. a \in Int /\ a = o.active + is - was
      BY <1>1, <2>1, <2>2, OneMoreIs
    <2>4. CountsFit(kind, o, id, s, a, o.pending)
      BY <2>1, <2>3, ActiveCounts
    <2> QED
      BY <2>3, <2>4
  <1>4. DecorFits(kind, o, id, s)
    BY <1>2 DEF DecorFits, Texts
  <1> QED
    BY <1>2, <1>3, <1>4, TextChanges

\* A text is hidden, or a bubble.
LEMMA TextIsHidden ==
    ASSUME NEW kind \in Texts, NEW o \in SanePools(kind), NEW id \in Ids, NEW a,
           a = OneLess(o, id),
           NEW d, d = TextSet(o, id, a, Dec!NoSlot)
    PROVE  Changed(kind, o, d, id, d.slots[id]) /\ d.slots[id].seq = 0 /\ d.slots[id].shows = 0
  <1>0. PICK s : s = Dec!NoSlot
    OBVIOUS
  <1>1. o.active \in Int /\ o.slots[id] \in Dec!Slots
    BY RecordsFit, PoolFields, SlotIs
  <1>2. s \in Dec!Slots /\ s.active = FALSE /\ s.seq = 0 /\ s.shows = 0 /\ s.pending = FALSE /\ s.gta = 0
    BY <1>0, NoDecor
  <1>3. a \in Int /\ CountsFit(kind, o, id, s, a, o.pending)
    <2>1. PICK was, is : was = Bit(o.slots[id].active) /\ is = Bit(s.active)
      OBVIOUS
    <2>2. is = 0
      BY <1>2, <2>1 DEF Bit
    <2>3. a \in Int /\ a = o.active + is - was
      BY <1>1, <2>1, <2>2, OneMoreIs
    <2>4. CountsFit(kind, o, id, s, a, o.pending)
      BY <2>1, <2>3, ActiveCounts
    <2> QED
      BY <2>3, <2>4
  <1>4. DecorFits(kind, o, id, s)
    BY <1>2 DEF DecorFits
  <1>5. Changed(kind, o, d, id, s)
    BY <1>0, <1>2, <1>3, <1>4, TextChanges
  <1> QED
    BY <1>2, <1>5 DEF Changed

\* Another text in a slot.
LEMMA ShowsIsSet ==
    ASSUME NEW u \in Dec!Slots, NEW seq
    PROVE  [u EXCEPT !.shows = seq]
              = [active |-> u.active, seq |-> u.seq, shows |-> seq, pending |-> u.pending, gta |-> u.gta]
  BY DEF Dec!Slots

Edited(o, id, seq) == [o EXCEPT !.slots[id].shows = seq]

\* The text of a slot that shows one is edited.
LEMMA TextIsEdited ==
    ASSUME NEW o \in SanePools("text"), NEW id \in Ids, o.slots[id].active, NEW seq \in Nat,
           NEW d, d = Edited(o, id, seq)
    PROVE  /\ d \in SanePools("text") /\ DecorOthers(o, d, id) /\ \A j : Spared("text", o, d, j)
           /\ d.slots[id].seq = o.slots[id].seq /\ d.slots[id].shows = seq
  <1>1. PICK u : u = o.slots[id]
    OBVIOUS
  <1>2. o \in Dec!Pools /\ o.active \in Int /\ u \in Dec!Slots /\ u.gta = 0 /\ u.seq # 0 /\ u.active
    BY <1>1, RecordsFit, PoolFields, SlotIs
  <1>3. u.active = TRUE
    BY <1>2, DecorSlot
  <1>4. PICK s : s = [active |-> TRUE, seq |-> u.seq, shows |-> seq, pending |-> u.pending, gta |-> 0]
    OBVIOUS
  <1>5. s = [active |-> TRUE, seq |-> u.seq, shows |-> seq, pending |-> u.pending, gta |-> 0]
    BY <1>4
  <1>15. s = [u EXCEPT !.shows = seq]
    <2>1. [u EXCEPT !.shows = seq]
            = [active |-> u.active, seq |-> u.seq, shows |-> seq, pending |-> u.pending, gta |-> u.gta]
      BY <1>2, ShowsIsSet
    <2> QED
      BY <1>2, <1>3, <1>4, <2>1
  <1>6. u.seq \in Nat /\ u.pending \in BOOLEAN
    BY <1>2, DecorSlot
  <1>7. s \in Dec!Slots
    BY <1>5, <1>6 DEF Dec!Slots
  <1>8. s.active = TRUE /\ s.seq = u.seq /\ s.shows = seq /\ s.gta = 0 /\ s.pending = u.pending
    BY <1>5
  <1>9. d = Put(o, id, s, o.gta, o.active, o.pending, o.refused, o.records, o.standing)
    <2>1. PICK w : w = [o.slots EXCEPT ![id] = s]
      OBVIOUS
    <2>2. d = [o EXCEPT !.slots = w]
      BY <1>1, <1>15, <2>1 DEF Edited
    <2>3. d = [mark |-> o.mark, slots |-> w, active |-> o.active, pending |-> o.pending, gta |-> o.gta,
               refused |-> o.refused, peds |-> o.peds, records |-> o.records, standing |-> o.standing,
               scan |-> o.scan]
      BY <1>2, <2>2 DEF Dec!Pools
    <2> QED
      BY <2>1, <2>3 DEF Put
  <1>10. HandleFits(o, o.gta, id, s)
    BY <1>1, <1>2, <1>8, NoHandleFits
  <1>11. CountsFit("text", o, id, s, o.active, o.pending)
    <2>1. PICK was, is : was = Bit(o.slots[id].active) /\ is = Bit(s.active)
      OBVIOUS
    <2>2. is = 1 /\ was = 1
      BY <1>1, <1>3, <1>8, <2>1 DEF Bit
    <2>3. o.active = o.active + is - was /\ "text" \in Texts
      BY <1>2, <2>2 DEF Texts
    <2> QED
      BY <2>1, <2>3, ActiveCounts
  <1>12. DecorFits("text", o, id, s)
    BY <1>2, <1>8 DEF DecorFits
  <1>13. o.gta \in [Handles -> Ids \cup {0}] /\ o.pending \in Int
    BY <1>2, PoolFields
  <1>14. Changed("text", o, d, id, s)
    <2>1. "text" \in Kept /\ o.active \in Int
      BY <1>2 DEF Kept
    <2> QED
      BY <1>7, <1>9, <1>10, <1>11, <1>12, <1>13, <2>1, SlotChanges
  <1> QED
    BY <1>1, <1>8, <1>14 DEF Changed

\* Decor!ApplyText.
LEMMA TextIsApplied ==
    ASSUME NEW o \in SanePools("text"), NEW e \in Dec!Events("text"), e.seq # 0, NEW d, d = Dec!ApplyText(o, e)
    PROVE  d \in SanePools("text") /\ Heeded("text", o, d, e)
  <1>1. e.id \in Ids /\ e.seq \in Nat /\ e.action \in {"show", "edit", "hide"}
    BY DEF Dec!Events, Dec!Actions
  <1>2. PICK id, seq : id = e.id /\ seq = e.seq
    OBVIOUS
  <1>3. PICK u : u = o.slots[id]
    OBVIOUS
  <1>4. u \in Dec!Slots /\ u.active \in BOOLEAN /\ (u.active => u.seq # 0) /\ (~u.active => u.seq = 0 /\ u.shows = 0)
    BY <1>1, <1>2, <1>3, SlotIs, DecorSlot
  <1>5. CASE e.action = "show"
    <2>1. PICK a, s : /\ a = OneMore(o, id)
                      /\ s = Displayed(seq)
      OBVIOUS
    <2>2. d = TextSet(o, id, a, s)
      BY <1>2, <1>5, <2>1 DEF Dec!ApplyText, TextSet, Displayed, OneMore
    <2>3. Showing(s, seq)
      BY <1>1, <1>2, <2>1, DisplayedIs
    <2>4. d \in SanePools("text") /\ d.slots[id] = s /\ DecorOthers(o, d, id) /\ \A j : Spared("text", o, d, j)
      <3>1. "text" \in Texts /\ id \in Ids /\ seq \in Nat /\ seq # 0
        BY <1>1, <1>2 DEF Texts
      <3> QED
        BY <2>1, <2>2, <2>3, <3>1, TextIsShown DEF Changed
    <2>5. d.slots[e.id].seq = e.seq /\ d.slots[e.id].shows = e.seq
      BY <1>2, <2>3, <2>4 DEF Showing
    <2>6. Heeded("text", o, d, e)
      BY <1>2, <1>5, <2>4, <2>5, SaidIsShown
    <2> QED
      BY <2>4, <2>6
  <1>6. CASE e.action = "edit" /\ u.active
    <2>1. d = Edited(o, id, seq)
      BY <1>2, <1>3, <1>6 DEF Dec!ApplyText, Edited
    <2>2. /\ d \in SanePools("text") /\ DecorOthers(o, d, id) /\ \A j : Spared("text", o, d, j)
          /\ d.slots[id].seq = o.slots[id].seq /\ d.slots[id].shows = seq
      BY <1>1, <1>2, <1>3, <1>6, <2>1, TextIsEdited
    <2>3. ASSUME NEW v \in Dec!Views, Fit("text", o, id, v) PROVE Fit("text", d, id, Dec!Heard(v, e))
      <3>1. CASE Dec!Excused("text", o, id)
        BY <2>2, <3>1 DEF Fit, Spared
      <3>2. CASE v.excused = FALSE /\ v.seq = o.slots[id].seq
        <4>1. PICK y : y = Dec!Heard(v, e)
          OBVIOUS
        <4>2. y = [v EXCEPT !.shows = e.seq]
          BY <1>3, <1>4, <1>6, <3>2, <4>1, HeardSays
        <4>3. y.excused = FALSE /\ y.seq = v.seq /\ y.shows = seq
          BY <1>2, <3>2, <4>2 DEF Dec!Views
        <4> QED
          BY <2>2, <3>2, <4>1, <4>3 DEF Fit
      <3> QED
        BY <2>3, <3>1, <3>2 DEF Fit
    <2>4. Heeded("text", o, d, e)
      BY <1>2, <2>2, <2>3 DEF Heeded, Obeys
    <2> QED
      BY <2>2, <2>4
  <1>7. CASE e.action = "edit" /\ ~u.active
    <2>1. d = o
      BY <1>2, <1>3, <1>7 DEF Dec!ApplyText
    <2>2. ASSUME NEW v \in Dec!Views, Fit("text", o, id, v) PROVE Fit("text", o, id, Dec!Heard(v, e))
      <3>1. CASE Dec!Excused("text", o, id)
        BY <3>1 DEF Fit
      <3>2. CASE v.seq = o.slots[id].seq
        <4>1. Dec!Heard(v, e) = v
          BY <1>3, <1>4, <1>7, <3>2, HeardSays
        <4> QED
          BY <2>2, <4>1
      <3> QED
        BY <2>2, <3>1, <3>2 DEF Fit
    <2>3. Heeded("text", o, o, e)
      BY <1>2, <2>2 DEF Heeded, Obeys, DecorOthers, Spared
    <2> QED
      BY <2>1, <2>3
  <1>8. CASE e.action = "hide" /\ u.active
    <2>1. PICK a : a = OneLess(o, id)
      OBVIOUS
    <2>2. d = TextSet(o, id, a, Dec!NoSlot)
      BY <1>2, <1>3, <1>8, <2>1 DEF Dec!ApplyText, TextSet, OneLess
    <2>3. /\ d \in SanePools("text") /\ DecorOthers(o, d, id) /\ \A j : Spared("text", o, d, j)
          /\ d.slots[id].seq = 0 /\ d.slots[id].shows = 0
      <3>1. "text" \in Texts /\ id \in Ids
        BY <1>1, <1>2 DEF Texts
      <3> QED
        BY <2>1, <2>2, <3>1, TextIsHidden DEF Changed
    <2>4. Heeded("text", o, d, e)
      BY <1>2, <1>8, <2>3, EndIsShown
    <2> QED
      BY <2>3, <2>4
  <1>9. CASE e.action = "hide" /\ ~u.active
    <2>1. d = o
      BY <1>2, <1>3, <1>9 DEF Dec!ApplyText
    <2>2. o.slots[e.id].seq = 0 /\ o.slots[e.id].shows = 0
      BY <1>2, <1>3, <1>4, <1>9
    <2>3. DecorOthers(o, o, e.id) /\ \A j \in Ids : j # e.id => Spared("text", o, o, j)
      BY DEF DecorOthers, Spared
    <2>4. Heeded("text", o, o, e)
      BY <1>9, <2>2, <2>3, EndIsShown
    <2> QED
      BY <2>1, <2>4
  <1> QED
    BY <1>1, <1>5, <1>6, <1>7, <1>8, <1>9

\* Decor!ApplyBubble.
LEMMA BubbleIsApplied ==
    ASSUME NEW o \in SanePools("bubble"), NEW e \in Dec!Events("bubble"), e.seq # 0,
           NEW d, d = Dec!ApplyBubble(o, e)
    PROVE  d \in SanePools("bubble") /\ Heeded("bubble", o, d, e)
  <1>1. e.id \in Ids /\ e.seq \in Nat /\ e.action \in {"say", "silence"}
    BY DEF Dec!Events, Dec!Actions
  <1>2. PICK id, seq : id = e.id /\ seq = e.seq
    OBVIOUS
  <1>5. CASE e.action = "say"
    <2>1. PICK a, s : /\ a = OneMore(o, id)
                      /\ s = Displayed(seq)
      OBVIOUS
    <2>2. d = TextSet(o, id, a, s)
      BY <1>2, <1>5, <2>1 DEF Dec!ApplyBubble, TextSet, Displayed, OneMore
    <2>3. Showing(s, seq)
      BY <1>1, <1>2, <2>1, DisplayedIs
    <2>4. d \in SanePools("bubble") /\ d.slots[id] = s /\ DecorOthers(o, d, id) /\ \A j : Spared("bubble", o, d, j)
      <3>1. "bubble" \in Texts /\ id \in Ids /\ seq \in Nat /\ seq # 0
        BY <1>1, <1>2 DEF Texts
      <3> QED
        BY <2>1, <2>2, <2>3, <3>1, TextIsShown DEF Changed
    <2>5. d.slots[e.id].seq = e.seq /\ d.slots[e.id].shows = e.seq
      BY <1>2, <2>3, <2>4 DEF Showing
    <2>6. Heeded("bubble", o, d, e)
      BY <1>2, <1>5, <2>4, <2>5, SaidIsShown
    <2> QED
      BY <2>4, <2>6
  <1>6. CASE e.action = "silence"
    <2>1. PICK a : a = OneLess(o, id)
      OBVIOUS
    <2>2. d = TextSet(o, id, a, Dec!NoSlot)
      BY <1>2, <1>6, <2>1 DEF Dec!ApplyBubble, TextSet, OneLess
    <2>3. /\ d \in SanePools("bubble") /\ DecorOthers(o, d, id) /\ \A j : Spared("bubble", o, d, j)
          /\ d.slots[id].seq = 0 /\ d.slots[id].shows = 0
      <3>1. "bubble" \in Texts /\ id \in Ids
        BY <1>1, <1>2 DEF Texts
      <3> QED
        BY <2>1, <2>2, <3>1, TextIsHidden DEF Changed
    <2>4. Heeded("bubble", o, d, e)
      BY <1>2, <1>6, <2>3, EndIsShown
    <2> QED
      BY <2>3, <2>4
  <1> QED
    BY <1>1, <1>5, <1>6

-----------------------------------------------------------------------------
(* The attached objects. *)

AttachedSet(o, id, s, g, n, a) == [o EXCEPT !.slots[id] = s, !.gta = g, !.pending = n, !.active = a]

\* The counts of the attached objects, in numbers.
LEMMA AttachedCounts ==
    ASSUME NEW o, NEW id, NEW s, NEW a, NEW n, NEW hung, NEW hangs, NEW waited, NEW waits,
           hung = Bit(o.slots[id].gta # 0), hangs = Bit(s.gta # 0),
           waited = Bit(o.slots[id].pending), waits = Bit(s.pending),
           a = o.active + hangs - hung, n = o.pending + waits - waited
    PROVE  CountsFit("attached", o, id, s, a, n)
  <1>1. a = o.active + Bit(s.gta # 0) - Bit(o.slots[id].gta # 0)
    BY Zenon
  <1>2. n = o.pending + Bit(s.pending) - Bit(o.slots[id].pending)
    BY Zenon
  <1>3. "attached" \notin {"text", "bubble"}
    OBVIOUS
  <1> QED
    BY <1>1, <1>2, <1>3, Zenon DEF CountsFit

\* The slot of an attached object becomes one that has no handle.
LEMMA AttachedChanges ==
    ASSUME NEW o \in SanePools("attached"), NEW id \in Ids, NEW s \in Dec!Slots, s.gta = 0,
           NEW g, g = Dec!Deleted(o, o.slots[id].gta), NEW n \in Int, NEW a \in Int,
           CountsFit("attached", o, id, s, a, n), NEW d, d = AttachedSet(o, id, s, g, n, a)
    PROVE  Changed("attached", o, d, id, s) /\ d.peds = o.peds
  <1>1. o \in Dec!Pools
    BY RecordsFit
  <1>2. d = Put(o, id, s, g, a, n, o.refused, o.records, o.standing)
    BY <1>1, AttachedPut DEF AttachedSet
  <1>3. g \in [Handles -> Ids \cup {0}] /\ HandleFits(o, g, id, s)
    BY HandleIsDeleted
  <1>4. DecorFits("attached", o, id, s)
    BY DEF DecorFits
  <1>5. "attached" \in Kept
    BY DEF Kept
  <1> QED
    BY <1>2, <1>3, <1>4, <1>5, SlotChanges

\* Decor!DestroyAttached.
LEMMA AttachedIsOff ==
    ASSUME NEW o \in SanePools("attached"), NEW id \in Ids, NEW d, d = Dec!DestroyAttached(o, id)
    PROVE  Changed("attached", o, d, id, Dec!NoSlot) /\ d.peds = o.peds
  <1>1. PICK u, s : u = o.slots[id] /\ s = Dec!NoSlot
    OBVIOUS
  <1>2. /\ o \in Dec!Pools /\ o.active \in Int /\ o.pending \in Int /\ u \in Dec!Slots
        /\ s \in Dec!Slots /\ s.gta = 0 /\ s.pending = FALSE
    BY <1>1, RecordsFit, PoolFields, SlotIs, NoDecor
  <1>3. PICK hung, hangs, waited, waits : /\ hung = Bit(u.gta # 0) /\ hangs = Bit(s.gta # 0)
                                          /\ waited = Bit(u.pending) /\ waits = Bit(s.pending)
    OBVIOUS
  <1>4. PICK g, n, a : /\ g = Dec!Deleted(o, u.gta) /\ n = IF u.pending THEN o.pending - 1 ELSE o.pending
                       /\ a = IF u.gta # 0 THEN o.active - 1 ELSE o.active
    OBVIOUS
  <1>5. hangs = 0 /\ waits = 0 /\ hung \in {0, 1} /\ waited \in {0, 1}
    BY <1>2, <1>3 DEF Bit
  <1>6. a = o.active - hung /\ n = o.pending - waited
    <2>1. a = o.active - hung
      BY <1>2, <1>3, <1>4 DEF Bit
    <2>2. n = o.pending - waited
      BY <1>2, <1>3, <1>4 DEF Bit
    <2> QED
      BY <2>1, <2>2
  <1>7. a \in Int /\ n \in Int /\ a = o.active + hangs - hung /\ n = o.pending + waits - waited
    BY <1>2, <1>5, <1>6
  <1>8. CountsFit("attached", o, id, s, a, n)
    BY <1>1, <1>3, <1>7, AttachedCounts
  <1>9. d = AttachedSet(o, id, s, g, n, a)
    BY <1>1, <1>4 DEF Dec!DestroyAttached, AttachedSet
  <1> QED
    BY <1>1, <1>2, <1>4, <1>7, <1>8, <1>9, AttachedChanges

PendingSlot(seq) == [active |-> TRUE, seq |-> seq, shows |-> seq, pending |-> TRUE, gta |-> 0]

\* It is the empty one with what the event says.
LEMMA PendingIs ==
    ASSUME NEW seq
    PROVE  [Dec!NoSlot EXCEPT !.active = TRUE, !.pending = TRUE, !.seq = seq, !.shows = seq] = PendingSlot(seq)
  <1>1. PICK v : v = [Dec!NoSlot EXCEPT !.active = TRUE, !.pending = TRUE, !.seq = seq, !.shows = seq]
    OBVIOUS
  <1>2. v = [active |-> TRUE, seq |-> seq, shows |-> seq, pending |-> TRUE, gta |-> 0]
    BY <1>1 DEF Dec!NoSlot
  <1> QED
    BY <1>1, <1>2 DEF PendingSlot

PendingSet(o, id, seq) ==
    [o EXCEPT !.pending = @ + 1,
       !.slots[id] = [Dec!NoSlot EXCEPT !.active = TRUE, !.pending = TRUE, !.seq = seq, !.shows = seq]]

\* An empty slot waits for an object.
LEMMA AttachedWaits ==
    ASSUME NEW o \in SanePools("attached"), NEW id \in Ids, o.slots[id] = Dec!NoSlot, NEW seq \in Nat,
           NEW d, d = PendingSet(o, id, seq)
    PROVE  Changed("attached", o, d, id, PendingSlot(seq)) /\ d.peds = o.peds
  <1>1. PICK s : s = PendingSlot(seq)
    OBVIOUS
  <1>2. s \in Dec!Slots /\ s.gta = 0 /\ s.pending = TRUE
    BY <1>1 DEF PendingSlot, Dec!Slots
  <1>3. o \in Dec!Pools /\ o.active \in Int /\ o.pending \in Int
    BY RecordsFit, PoolFields
  <1>4. o.slots[id].gta = 0 /\ o.slots[id].pending = FALSE
    BY NoDecor
  <1>5. PICK g, n : g = o.gta /\ n = o.pending + 1
    OBVIOUS
  <1>6. g = Dec!Deleted(o, o.slots[id].gta)
    BY <1>4, <1>5 DEF Dec!Deleted
  <1>7. CountsFit("attached", o, id, s, o.active, n)
    <2>1. PICK hung, hangs, waited, waits : /\ hung = Bit(o.slots[id].gta # 0) /\ hangs = Bit(s.gta # 0)
                                            /\ waited = Bit(o.slots[id].pending) /\ waits = Bit(s.pending)
      OBVIOUS
    <2>2. hung = 0 /\ hangs = 0 /\ waited = 0 /\ waits = 1
      BY <1>2, <1>4, <2>1 DEF Bit
    <2>3. o.active = o.active + hangs - hung /\ n = o.pending + waits - waited
      BY <1>3, <1>5, <2>2
    <2> QED
      BY <2>1, <2>3, AttachedCounts
  <1>8. d = AttachedSet(o, id, s, g, n, o.active)
    <2>1. [Dec!NoSlot EXCEPT !.active = TRUE, !.pending = TRUE, !.seq = seq, !.shows = seq] = s
      BY <1>1, PendingIs
    <2>2. PICK w : w = [o.slots EXCEPT ![id] = s]
      OBVIOUS
    <2>3. d = [o EXCEPT !.pending = n, !.slots = w]
      BY <1>5, <2>1, <2>2 DEF PendingSet
    <2>4. [o EXCEPT !.slots = w, !.gta = g] = [o EXCEPT !.slots = w]
      BY <1>3, <1>5 DEF Dec!Pools
    <2>5. PICK x : x = [o EXCEPT !.slots = w]
      OBVIOUS
    <2>6. x.active = o.active /\ x \in [{"mark", "slots", "active", "pending", "gta", "refused", "peds", "records",
                                         "standing", "scan"} -> {x[f] : f \in DOMAIN x}]
      BY <1>3, <2>5 DEF Dec!Pools
    <2>7. AttachedSet(o, id, s, g, n, o.active) = [x EXCEPT !.pending = n, !.active = o.active]
      BY <2>2, <2>4, <2>5 DEF AttachedSet
    <2> QED
      BY <2>3, <2>5, <2>6, <2>7
  <1>9. n \in Int
    BY <1>3, <1>5
  <1> QED
    BY <1>1, <1>2, <1>3, <1>6, <1>7, <1>8, <1>9, AttachedChanges

\* One change of a slot after another.
LEMMA ChangedTwice ==
    ASSUME NEW kind, NEW o, NEW c, NEW d, NEW id, NEW s, NEW u,
           Changed(kind, o, c, id, s), Changed(kind, c, d, id, u)
    PROVE  Changed(kind, o, d, id, u)
  BY DEF Changed, DecorOthers, Spared

\* Decor!ApplyAttached.
LEMMA AttachedIsApplied ==
    ASSUME NEW o \in SanePools("attached"), NEW e \in Dec!Events("attached"), NEW d, d = Dec!ApplyAttached(o, e)
    PROVE  d \in SanePools("attached") /\ Heeded("attached", o, d, e) /\ d.peds = o.peds
  <1>1. e.id \in Ids /\ e.seq \in Nat /\ e.action \in {"set", "off", "remove"}
    BY DEF Dec!Events, Dec!Actions
  <1>2. PICK id, seq, c : id = e.id /\ seq = e.seq /\ c = Dec!DestroyAttached(o, id)
    OBVIOUS
  <1>3. Changed("attached", o, c, id, Dec!NoSlot) /\ c.peds = o.peds
    BY <1>1, <1>2, AttachedIsOff
  <1>4. CASE e.action = "off"
    <2>1. d = o
      BY <1>4 DEF Dec!ApplyAttached
    <2> QED
      BY <1>4, <2>1, NothingIsTaken
  <1>5. CASE e.action = "remove"
    <2>1. d = c
      BY <1>2, <1>5 DEF Dec!ApplyAttached
    <2>2. /\ d \in SanePools("attached") /\ DecorOthers(o, d, e.id) /\ \A j : Spared("attached", o, d, j)
          /\ d.slots[e.id].seq = 0 /\ d.slots[e.id].shows = 0
      BY <1>2, <1>3, <2>1, NoDecor DEF Changed
    <2>3. Heeded("attached", o, d, e)
      BY <1>5, <2>2, EndIsShown
    <2> QED
      BY <1>3, <2>1, <2>2, <2>3
  <1>6. CASE e.action = "set"
    <2>1. d = PendingSet(c, id, seq)
      BY <1>2, <1>6 DEF Dec!ApplyAttached, PendingSet
    <2>2. c \in SanePools("attached") /\ c.slots[id] = Dec!NoSlot /\ id \in Ids /\ seq \in Nat
      BY <1>1, <1>2, <1>3 DEF Changed
    <2>3. Changed("attached", c, d, id, PendingSlot(seq)) /\ d.peds = c.peds
      BY <2>1, <2>2, AttachedWaits
    <2>4. Changed("attached", o, d, id, PendingSlot(seq))
      BY <1>3, <2>3, ChangedTwice
    <2>5. /\ d \in SanePools("attached") /\ DecorOthers(o, d, e.id) /\ \A j : Spared("attached", o, d, j)
          /\ d.slots[e.id].seq = e.seq /\ d.slots[e.id].shows = e.seq
      BY <1>2, <2>4 DEF Changed, PendingSlot
    <2>6. Heeded("attached", o, d, e)
      BY <1>6, <2>5, SaidIsShown
    <2> QED
      BY <1>3, <2>3, <2>5, <2>6
  <1> QED
    BY <1>1, <1>4, <1>5, <1>6

-----------------------------------------------------------------------------
(* The buildings, and the kinds together. *)

\* Decor!Stored: what is on record stays, and there is no more of it than there is room for.
LEMMA BuildingIsStored ==
    ASSUME NEW r, r \subseteq Ids, Cardinality(r) =< MaxRecords, NEW id \in Ids, NEW t, t = Dec!Stored(r, id)
    PROVE  /\ t \subseteq Ids /\ r \subseteq t /\ Cardinality(t) =< MaxRecords
           /\ Cardinality(r) = MaxRecords => t = r
           /\ id \in t \/ Cardinality(t) = MaxRecords
  <1>1. PICK n : n = Cardinality(r)
    OBVIOUS
  <1>2. t = IF id \in r \/ n >= MaxRecords THEN r ELSE r \cup {id}
    BY <1>1 DEF Dec!Stored, Dec!Cardinality, Cardinality
  <1>3. n \in Nat /\ MaxRecords \in Nat
    <2>1. IsFiniteSet(Ids)
      BY IdsAre
    <2>2. IsFiniteSet(r)
      BY <2>1, FS_Subset
    <2> QED
      BY <1>1, <2>2, FS_CardinalityType, PoolsAssumption DEF PoolsAssumption
  <1>4. CASE id \in r \/ n >= MaxRecords
    BY <1>1, <1>2, <1>3, <1>4
  <1>5. CASE id \notin r /\ ~(n >= MaxRecords)
    <2>1. t = r \cup {id}
      BY <1>2, <1>5
    <2>2. \A j \in Ids : j # id => (j \in r <=> j \in t)
      BY <2>1
    <2>3. t \subseteq Ids /\ id \in t /\ r \subseteq t
      BY <2>1
    <2>4. Cardinality(t) = Cardinality(r) + Bit(id \in t) - Bit(id \in r)
      BY <2>2, <2>3, OnesAre
    <2>5. Bit(id \in t) = 1 /\ Bit(id \in r) = 0
      BY <1>5, <2>3 DEF Bit
    <2>6. PICK m : m = Cardinality(t)
      OBVIOUS
    <2>7. m = n + 1
      BY <1>1, <1>3, <2>4, <2>5, <2>6
    <2> QED
      BY <1>1, <1>3, <1>5, <2>3, <2>6, <2>7
  <1> QED
    BY <1>4, <1>5

\* A pool with other records, and other buildings that stand.
RecordsSet(o, r, t) == [o EXCEPT !.records = r, !.standing = t]

\* It is as sane.
LEMMA RecordsAreSet ==
    ASSUME NEW o \in SanePools("building"), NEW r, r \subseteq Ids, NEW t, t \subseteq Ids,
           Cardinality(r) =< MaxRecords, NEW d, d = RecordsSet(o, r, t)
    PROVE  d \in SanePools("building") /\ d.slots = o.slots /\ d.records = r /\ d.standing = t
  <1>1. o \in Dec!Pools /\ Dec!Sane("building", o)
    BY RecordsFit
  <1>2. d = [mark |-> o.mark, slots |-> o.slots, active |-> o.active, pending |-> o.pending, gta |-> o.gta,
             refused |-> o.refused, peds |-> o.peds, records |-> r, standing |-> t, scan |-> o.scan]
    BY <1>1 DEF RecordsSet, Dec!Pools
  <1>3. d \in Dec!Pools
    BY <1>1, <1>2, PoolFields DEF Dec!Pools
  <1>4. /\ d.slots = o.slots /\ d.gta = o.gta /\ d.peds = o.peds /\ d.active = o.active
        /\ d.pending = o.pending /\ d.records = r /\ d.standing = t
    BY <1>2
  <1>5. Dec!Cardinality(d.records) =< MaxRecords
    BY <1>4 DEF Dec!Cardinality, Cardinality
  <1>6. Dec!Sane("building", d)
    BY <1>1, <1>4, <1>5 DEF Dec!Sane, Dec!SlotOk, Dec!HandleOk, Dec!Numbered
  <1> QED
    BY <1>3, <1>4, <1>6 DEF SanePools

\* Decor!ApplyBuilding.
LEMMA BuildingIsApplied ==
    ASSUME NEW o \in SanePools("building"), NEW e \in Dec!Events("building"), NEW d, d = Dec!ApplyBuilding(o, e)
    PROVE  d \in SanePools("building") /\ Heeded("building", o, d, e)
  <1>1. e.id \in Ids /\ e.action = "take"
    BY DEF Dec!Events, Dec!Actions
  <1>2. PICK r, t : r = Dec!Stored(o.records, e.id) /\ t = o.standing \ {e.id}
    OBVIOUS
  <1>3. o.records \subseteq Ids /\ o.standing \subseteq Ids /\ Cardinality(o.records) =< MaxRecords
    BY RecordsFit, PoolFields
  <1>4. /\ r \subseteq Ids /\ o.records \subseteq r /\ Cardinality(r) =< MaxRecords
        /\ Cardinality(o.records) = MaxRecords => r = o.records
        /\ e.id \in r \/ Cardinality(r) = MaxRecords
    BY <1>1, <1>2, <1>3, BuildingIsStored
  <1>5. d = RecordsSet(o, r, t)
    BY <1>2 DEF Dec!ApplyBuilding, RecordsSet
  <1>6. d \in SanePools("building") /\ d.slots = o.slots /\ d.records = r
    <2>1. t \subseteq Ids
      BY <1>2, <1>3
    <2> QED
      BY <1>4, <1>5, <2>1, RecordsAreSet
  <1>7. \A x, j : Dec!Excused("building", x, j) <=> j \in x.records \/ Cardinality(x.records) = MaxRecords
    BY DEF Dec!Excused, Dec!Cardinality, Cardinality
  <1>8. \A j : Spared("building", o, d, j)
    BY <1>4, <1>6, <1>7 DEF Spared
  <1>9. Dec!Excused("building", d, e.id)
    BY <1>4, <1>6, <1>7
  <1>10. DecorOthers(o, d, e.id)
    BY <1>6 DEF DecorOthers
  <1>11. Heeded("building", o, d, e)
    BY <1>1, <1>8, <1>9, <1>10, SaidIsShown
  <1> QED
    BY <1>6, <1>11

\* The events of a ring: they are counted from 1.
Rung(kind) == {e \in Dec!Events(kind) : e.seq # 0}

\* Decor!Applied.
LEMMA DecorIsApplied ==
    ASSUME NEW kind \in Dec!Kinds, NEW o \in SanePools(kind), NEW e \in Rung(kind), NEW refuses,
           NEW d, d = Dec!Applied(kind, o, e, refuses)
    PROVE  d \in SanePools(kind) /\ Heeded(kind, o, d, e) /\ (kind = "attached" => d.peds = o.peds)
  <1>1. e \in Dec!Events(kind) /\ e.seq # 0
    BY DEF Rung
  <1>2. CASE kind = "icon"
    <2>1. d = Dec!ApplyIcon(o, e, refuses)
      BY <1>2 DEF Dec!Applied
    <2> QED
      BY <1>1, <1>2, <2>1, IconIsApplied
  <1>3. CASE kind = "text"
    <2>1. d = Dec!ApplyText(o, e)
      BY <1>3 DEF Dec!Applied
    <2> QED
      BY <1>1, <1>3, <2>1, TextIsApplied
  <1>4. CASE kind = "bubble"
    <2>1. d = Dec!ApplyBubble(o, e)
      BY <1>4 DEF Dec!Applied
    <2> QED
      BY <1>1, <1>4, <2>1, BubbleIsApplied
  <1>5. CASE kind = "attached"
    <2>1. d = Dec!ApplyAttached(o, e)
      BY <1>5 DEF Dec!Applied
    <2> QED
      BY <1>1, <1>5, <2>1, AttachedIsApplied
  <1>6. CASE kind = "building"
    <2>1. d = Dec!ApplyBuilding(o, e)
      BY <1>6 DEF Dec!Applied
    <2> QED
      BY <1>1, <1>6, <2>1, BuildingIsApplied
  <1> QED
    BY <1>2, <1>3, <1>4, <1>5, <1>6 DEF Dec!Kinds

-----------------------------------------------------------------------------
(* The replay of a ring of Decor, and what the RPCs in it come to. *)

PoolSteps(kind, refuses) == [p \in SanePools(kind) \X Rung(kind) |-> Dec!Applied(kind, p[1], p[2], refuses)]

ViewSteps(kind, i) == [p \in Dec!Views \X Rung(kind) |-> Dec!HeardOf(i, p[1], p[2])]

PoolReplayed(kind, ring, mark, o, refuses) ==
    Dec!Replayed(ring, mark, o, LAMBDA p, e : Dec!Applied(kind, p, e, refuses))

ViewReplayed(ring, mark, v, i) == Dec!Replayed(ring, mark, v, LAMBDA u, e : Dec!HeardOf(i, u, e))

\* The steps of the pool stay in the sane pools.
LEMMA PoolsStay ==
    ASSUME NEW kind \in Dec!Kinds, NEW refuses, NEW F, F = PoolSteps(kind, refuses)
    PROVE  /\ \A x \in SanePools(kind), e \in Rung(kind) : F[<<x, e>>] = Dec!Applied(kind, x, e, refuses)
           /\ Closed(F, SanePools(kind), Rung(kind))
  <1>1. \A x \in SanePools(kind), e \in Rung(kind) : F[<<x, e>>] = Dec!Applied(kind, x, e, refuses)
    BY DEF PoolSteps
  <1>2. ASSUME NEW x \in SanePools(kind), NEW e \in Rung(kind) PROVE F[<<x, e>>] \in SanePools(kind)
    <2>1. PICK d : d = Dec!Applied(kind, x, e, refuses)
      OBVIOUS
    <2>2. d \in SanePools(kind)
      BY <2>1, DecorIsApplied
    <2> QED
      BY <1>1, <2>1, <2>2
  <1> QED
    BY <1>1, <1>2 DEF Closed

\* What a ring holds of a kind.
LEMMA RungIs ==
    ASSUME NEW kind \in Dec!Kinds, NEW e \in Rung(kind)
    PROVE  /\ e.seq \in Nat /\ e.id \in Ids
           /\ e.action \in {"set", "show", "say", "take", "edit", "off", "remove", "hide", "silence"}
  <1>1. e.seq \in Nat /\ e.id \in Ids /\ e.action \in Dec!Actions(kind)
    BY DEF Rung, Dec!Events
  <1>2. e.action \in {"set", "show", "say", "take", "edit", "off", "remove", "hide", "silence"}
    BY <1>1 DEF Dec!Actions, Dec!Kinds
  <1> QED
    BY <1>1, <1>2

\* The steps of a view stay in the views.
LEMMA ViewsStay ==
    ASSUME NEW kind \in Dec!Kinds, NEW i, NEW H, H = ViewSteps(kind, i)
    PROVE  /\ \A v \in Dec!Views, e \in Rung(kind) : H[<<v, e>>] = Dec!HeardOf(i, v, e)
           /\ Closed(H, Dec!Views, Rung(kind))
  <1>1. \A v \in Dec!Views, e \in Rung(kind) : H[<<v, e>>] = Dec!HeardOf(i, v, e)
    BY DEF ViewSteps
  <1>2. ASSUME NEW v \in Dec!Views, NEW e \in Rung(kind) PROVE H[<<v, e>>] \in Dec!Views
    <2>1. Dec!Heard(v, e) \in Dec!Views
      BY RungIs, HeardIsView
    <2>2. Dec!HeardOf(i, v, e) \in Dec!Views
      BY <2>1 DEF Dec!HeardOf
    <2> QED
      BY <1>1, <2>2
  <1> QED
    BY <1>1, <1>2 DEF Closed

\* The loop over the snapshot is that of the function.
LEMMA PoolsLoop ==
    ASSUME NEW kind \in Dec!Kinds, NEW refuses, NEW ring, NEW mark, NEW o \in SanePools(kind),
           News(ring, mark, Rung(kind)), Len(ring) \in Nat
    PROVE  PoolReplayed(kind, ring, mark, o, refuses) = Value(ring, mark, o, PoolSteps(kind, refuses))
  <1>0. PICK F : F = PoolSteps(kind, refuses)
    OBVIOUS
  <1> DEFINE U == SanePools(kind)
             E == Rung(kind)
             Heeding(x, e) == Dec!Applied(kind, x, e, refuses)
  <1>1. \A x \in U, e \in E : F[<<x, e>>] = Heeding(x, e)
    BY <1>0, PoolsStay
  <1>2. Closed(F, U, E)
    BY <1>0, PoolsStay
  <1>3. PICK last \in Nat : last = Len(ring)
    OBVIOUS
  <1>4. PICK g : Loop(g, ring, mark, o, last, F) /\ Value(ring, mark, o, F) = g[last]
    BY <1>3, ValueIs
  <1>5. \A k \in 0 .. last : g[k] \in U
    <2>1. last =< Len(ring) /\ o \in U /\ News(ring, mark, E)
      BY <1>3
    <2> HIDE DEF U, E
    <2> QED
      BY <1>2, <1>3, <1>4, <2>1, LoopStays
  <1>13. /\ g[0] = o
         /\ \A k \in 0 .. last : k # 0 => g[k] = IF ring[k].seq > mark THEN F[<<g[k - 1], ring[k]>>] ELSE g[k - 1]
    BY <1>4 DEF Loop
  <1> DEFINE Then(x, k) == IF ring[k].seq > mark THEN Heeding(x, ring[k]) ELSE x
             Is(h) == h = [k \in 0 .. last |-> IF k = 0 THEN o ELSE Then(h[k - 1], k)]
             c == CHOOSE h : Is(h)
  <1>8. PoolReplayed(kind, ring, mark, o, refuses) = c[last]
    BY <1>3 DEF PoolReplayed, Dec!Replayed
  <1>6. Is(g)
    <2>2. ASSUME NEW k \in 0 .. last, k # 0 PROVE g[k] = Then(g[k - 1], k)
      <3>1. g[k] = IF ring[k].seq > mark THEN F[<<g[k - 1], ring[k]>>] ELSE g[k - 1]
        BY <1>13, <2>2
      <3>2. k - 1 \in 0 .. last /\ k \in 1 .. Len(ring)
        BY <1>3, <2>2
      <3>3. g[k - 1] \in U /\ (ring[k].seq > mark => ring[k] \in E)
        BY <1>5, <3>2 DEF News
      <3> HIDE DEF U, E, Heeding
      <3> QED
        BY <1>1, <3>1, <3>3
    <2>3. g = [k \in 0 .. last |-> g[k]]
      BY <1>4 DEF Loop
    <2> HIDE DEF Then
    <2> QED
      BY <1>13, <2>2, <2>3
  <1>7. Is(c)
    <2> HIDE DEF Is
    <2> QED
      BY <1>6
  <1> HIDE DEF c
  <1>9. c[0] = o /\ g[0] = o /\ \A k \in 0 .. last : k # 0 => c[k] = Then(c[k - 1], k) /\ g[k] = Then(g[k - 1], k)
    <2> HIDE DEF Then
    <2> QED
      BY <1>6, <1>7
  <1> HIDE DEF Is, Then
  <1> DEFINE S == {k \in Nat : k =< last => c[k] = g[k]}
  <1>10. 0 \in S
    BY <1>9
  <1>11. ASSUME NEW k \in Nat, k \in S PROVE k + 1 \in S
    <2> SUFFICES ASSUME k + 1 =< last PROVE c[k + 1] = g[k + 1]
      OBVIOUS
    <2>1. c[k] = g[k] /\ k + 1 \in 0 .. last /\ k + 1 # 0 /\ (k + 1) - 1 = k
      BY <1>11
    <2> QED
      BY <1>9, <2>1
  <1>12. Nat \subseteq S
    <2> HIDE DEF S
    <2> QED
      BY <1>10, <1>11, Steps
  <1> QED
    BY <1>0, <1>4, <1>8, <1>12

\* So it is for what the RPCs come to.
LEMMA ViewsLoop ==
    ASSUME NEW kind \in Dec!Kinds, NEW i, NEW ring, NEW mark, NEW o \in Dec!Views,
           News(ring, mark, Rung(kind)), Len(ring) \in Nat
    PROVE  ViewReplayed(ring, mark, o, i) = Value(ring, mark, o, ViewSteps(kind, i))
  <1>0. PICK F : F = ViewSteps(kind, i)
    OBVIOUS
  <1> DEFINE U == Dec!Views
             E == Rung(kind)
             Heeding(x, e) == Dec!HeardOf(i, x, e)
  <1>1. \A x \in U, e \in E : F[<<x, e>>] = Heeding(x, e)
    BY <1>0, ViewsStay
  <1>2. Closed(F, U, E)
    BY <1>0, ViewsStay
  <1>3. PICK last \in Nat : last = Len(ring)
    OBVIOUS
  <1>4. PICK g : Loop(g, ring, mark, o, last, F) /\ Value(ring, mark, o, F) = g[last]
    BY <1>3, ValueIs
  <1>5. \A k \in 0 .. last : g[k] \in U
    <2>1. last =< Len(ring) /\ o \in U /\ News(ring, mark, E)
      BY <1>3
    <2> HIDE DEF U, E
    <2> QED
      BY <1>2, <1>3, <1>4, <2>1, LoopStays
  <1>13. /\ g[0] = o
         /\ \A k \in 0 .. last : k # 0 => g[k] = IF ring[k].seq > mark THEN F[<<g[k - 1], ring[k]>>] ELSE g[k - 1]
    BY <1>4 DEF Loop
  <1> DEFINE Then(x, k) == IF ring[k].seq > mark THEN Heeding(x, ring[k]) ELSE x
             Is(h) == h = [k \in 0 .. last |-> IF k = 0 THEN o ELSE Then(h[k - 1], k)]
             c == CHOOSE h : Is(h)
  <1>8. ViewReplayed(ring, mark, o, i) = c[last]
    BY <1>3 DEF ViewReplayed, Dec!Replayed
  <1>6. Is(g)
    <2>2. ASSUME NEW k \in 0 .. last, k # 0 PROVE g[k] = Then(g[k - 1], k)
      <3>1. g[k] = IF ring[k].seq > mark THEN F[<<g[k - 1], ring[k]>>] ELSE g[k - 1]
        BY <1>13, <2>2
      <3>2. k - 1 \in 0 .. last /\ k \in 1 .. Len(ring)
        BY <1>3, <2>2
      <3>3. g[k - 1] \in U /\ (ring[k].seq > mark => ring[k] \in E)
        BY <1>5, <3>2 DEF News
      <3> HIDE DEF U, E, Heeding
      <3> QED
        BY <1>1, <3>1, <3>3
    <2>3. g = [k \in 0 .. last |-> g[k]]
      BY <1>4 DEF Loop
    <2> HIDE DEF Then
    <2> QED
      BY <1>13, <2>2, <2>3
  <1>7. Is(c)
    <2> HIDE DEF Is
    <2> QED
      BY <1>6
  <1> HIDE DEF c
  <1>9. c[0] = o /\ g[0] = o /\ \A k \in 0 .. last : k # 0 => c[k] = Then(c[k - 1], k) /\ g[k] = Then(g[k - 1], k)
    <2> HIDE DEF Then
    <2> QED
      BY <1>6, <1>7
  <1> HIDE DEF Is, Then
  <1> DEFINE S == {k \in Nat : k =< last => c[k] = g[k]}
  <1>10. 0 \in S
    BY <1>9
  <1>11. ASSUME NEW k \in Nat, k \in S PROVE k + 1 \in S
    <2> SUFFICES ASSUME k + 1 =< last PROVE c[k + 1] = g[k + 1]
      OBVIOUS
    <2>1. c[k] = g[k] /\ k + 1 \in 0 .. last /\ k + 1 # 0 /\ (k + 1) - 1 = k
      BY <1>11
    <2> QED
      BY <1>9, <2>1
  <1>12. Nat \subseteq S
    <2> HIDE DEF S
    <2> QED
      BY <1>10, <1>11, Steps
  <1> QED
    BY <1>0, <1>4, <1>8, <1>12

\* A sane pool stays sane through a replay, and what it has of i stays what the RPCs come to.
LEMMA FitIsReplayed ==
    ASSUME NEW kind \in Dec!Kinds, NEW refuses, NEW ring, NEW mark, NEW o \in SanePools(kind), NEW i \in Ids,
           NEW v \in Dec!Views, News(ring, mark, Rung(kind)), Len(ring) \in Nat, Fit(kind, o, i, v)
    PROVE  Fit(kind, PoolReplayed(kind, ring, mark, o, refuses), i, ViewReplayed(ring, mark, v, i))
  <1>1. PICK F, H : F = PoolSteps(kind, refuses) /\ H = ViewSteps(kind, i)
    OBVIOUS
  <1>2. PICK last \in Nat : last = Len(ring)
    OBVIOUS
  <1>3. PICK g : Loop(g, ring, mark, o, last, F) /\ Value(ring, mark, o, F) = g[last]
    BY <1>2, ValueIs
  <1>4. PICK h : Loop(h, ring, mark, v, last, H) /\ Value(ring, mark, v, H) = h[last]
    BY <1>2, ValueIs
  <1>5. \A k \in 0 .. last : g[k] \in SanePools(kind)
    <2>1. last =< Len(ring) /\ Closed(F, SanePools(kind), Rung(kind))
      BY <1>1, <1>2, PoolsStay
    <2> QED
      BY <1>3, <2>1, LoopStays
  <1>6. \A k \in 0 .. last : h[k] \in Dec!Views
    <2>1. last =< Len(ring) /\ Closed(H, Dec!Views, Rung(kind))
      BY <1>1, <1>2, ViewsStay
    <2> QED
      BY <1>4, <2>1, LoopStays
  <1>7. /\ g[0] = o
        /\ \A k \in 0 .. last : k # 0 => g[k] = IF ring[k].seq > mark THEN F[<<g[k - 1], ring[k]>>] ELSE g[k - 1]
    BY <1>3 DEF Loop
  <1>8. /\ h[0] = v
        /\ \A k \in 0 .. last : k # 0 => h[k] = IF ring[k].seq > mark THEN H[<<h[k - 1], ring[k]>>] ELSE h[k - 1]
    BY <1>4 DEF Loop
  <1> DEFINE S == {k \in Nat : k =< last => Fit(kind, g[k], i, h[k])}
  <1>9. 0 \in S
    BY <1>7, <1>8
  <1>10. ASSUME NEW k \in Nat, k \in S PROVE k + 1 \in S
    <2> SUFFICES ASSUME k + 1 =< last PROVE Fit(kind, g[k + 1], i, h[k + 1])
      OBVIOUS
    <2>1. PICK j : j = k + 1
      OBVIOUS
    <2>2. /\ Fit(kind, g[k], i, h[k]) /\ j \in 0 .. last /\ j # 0 /\ j - 1 = k
          /\ j \in 1 .. Len(ring) /\ k \in 0 .. last
      BY <1>2, <1>10, <2>1
    <2>3. PICK x, u, e : x = g[k] /\ u = h[k] /\ e = ring[j]
      OBVIOUS
    <2>4. /\ g[j] = IF e.seq > mark THEN F[<<x, e>>] ELSE x
          /\ h[j] = IF e.seq > mark THEN H[<<u, e>>] ELSE u
      BY <1>7, <1>8, <2>2, <2>3
    <2>5. x \in SanePools(kind) /\ u \in Dec!Views /\ Fit(kind, x, i, u)
      BY <1>5, <1>6, <2>2, <2>3
    <2>6. CASE e.seq > mark
      <3>1. e \in Rung(kind)
        BY <2>2, <2>3, <2>6 DEF News
      <3>2. PICK d : d = Dec!Applied(kind, x, e, refuses)
        OBVIOUS
      <3>3. Heeded(kind, x, d, e)
        BY <2>5, <3>1, <3>2, DecorIsApplied
      <3>4. g[j] = d
        BY <1>1, <2>4, <2>5, <2>6, <3>1, <3>2, PoolsStay
      <3>5. h[j] = Dec!HeardOf(i, u, e)
        BY <1>1, <2>4, <2>5, <2>6, <3>1, ViewsStay
      <3>6. CASE e.id = i
        <4>1. h[j] = Dec!Heard(u, e)
          BY <3>5, <3>6 DEF Dec!HeardOf
        <4> QED
          BY <2>1, <2>5, <3>3, <3>4, <3>6, <4>1 DEF Heeded, Obeys
      <3>7. CASE e.id # i
        <4>1. h[j] = u
          BY <3>5, <3>7 DEF Dec!HeardOf
        <4>2. d.slots[i] = x.slots[i] /\ Spared(kind, x, d, i)
          BY <3>3, <3>7 DEF Heeded, DecorOthers
        <4>3. Fit(kind, d, i, u)
          BY <2>5, <4>2 DEF Fit, Spared
        <4> QED
          BY <2>1, <3>4, <4>1, <4>3
      <3> QED
        BY <3>6, <3>7
    <2>7. CASE ~(e.seq > mark)
      BY <2>1, <2>4, <2>5, <2>7
    <2> QED
      BY <2>6, <2>7
  <1>11. Nat \subseteq S
    <2> HIDE DEF S
    <2> QED
      BY <1>9, <1>10, Steps
  <1>12. Fit(kind, g[last], i, h[last])
    BY <1>11
  <1>13. PoolReplayed(kind, ring, mark, o, refuses) = g[last] /\ ViewReplayed(ring, mark, v, i) = h[last]
    BY <1>1, <1>3, <1>4, PoolsLoop, ViewsLoop
  <1> QED
    BY <1>12, <1>13

\* What a replay ends with is a sane pool.
LEMMA PoolIsReplayed ==
    ASSUME NEW kind \in Dec!Kinds, NEW refuses, NEW ring, NEW mark, NEW o \in SanePools(kind),
           News(ring, mark, Rung(kind)), Len(ring) \in Nat
    PROVE  PoolReplayed(kind, ring, mark, o, refuses) \in SanePools(kind)
  <1>1. PICK F : F = PoolSteps(kind, refuses)
    OBVIOUS
  <1>2. Closed(F, SanePools(kind), Rung(kind))
    BY <1>1, PoolsStay
  <1>3. Value(ring, mark, o, F) \in SanePools(kind)
    BY <1>2, ValueStays
  <1> QED
    BY <1>1, <1>3, PoolsLoop

\* What the RPCs come to is a view.
LEMMA ViewIsReplayed ==
    ASSUME NEW kind \in Dec!Kinds, NEW i, NEW ring, NEW mark, NEW v \in Dec!Views,
           News(ring, mark, Rung(kind)), Len(ring) \in Nat
    PROVE  ViewReplayed(ring, mark, v, i) \in Dec!Views
  <1>1. PICK H : H = ViewSteps(kind, i)
    OBVIOUS
  <1>2. Closed(H, Dec!Views, Rung(kind))
    BY <1>1, ViewsStay
  <1>3. Value(ring, mark, v, H) \in Dec!Views
    BY <1>2, ValueStays
  <1> QED
    BY <1>1, <1>3, ViewsLoop

-----------------------------------------------------------------------------
(* The invariant of Decor, of any values of its variables. *)

DecorProbes(kind) ==
    [seq : Nat, ring : Seq(Dec!Events(kind)), server : [Ids -> Dec!Views], here : SUBSET Ids, moved : SUBSET Ids]
DecorNets(kind) == [probe : DecorProbes(kind), restart : Nat, rpcs : Nat]
DecorOwns == [kind : Dec!Kinds, pool : Dec!Pools, handled : Nat, gap : BOOLEAN]

DecorTypes(n, w, c, s) ==
    n \in DecorNets(w.kind) /\ w \in DecorOwns /\ c \in {"pump", "drawn"} /\ s \in {"none", "spawned"}

DecorRings(p) ==
    /\ Len(p.ring) = IF p.seq < DecorRing THEN p.seq ELSE DecorRing
    /\ \A k \in 1 .. Len(p.ring) : p.ring[k].seq = p.seq - Len(p.ring) + k

DecorCounts(n, w, c) ==
    /\ n.probe.seq =< n.rpcs /\ n.rpcs =< MaxDecor
    /\ w.handled =< n.restart /\ n.restart =< MaxRestarts
    /\ w.pool.mark =< MaxDecor
    /\ w.handled = n.restart => w.pool.mark =< n.probe.seq
    /\ c = "drawn" => w.handled = n.restart /\ w.pool.mark = n.probe.seq /\ n.probe.moved = {}
    /\ w.kind # "attached" => n.probe.moved = {}

DecorCleared(w, c) ==
    w.kind = "building" /\ c = "drawn" /\ w.pool.scan = "now" => w.pool.standing \cap w.pool.records = {}

DecorPool(n, w) == IF n.restart # w.handled THEN Dec!ResetPool(w.pool) ELSE w.pool

KnownOf(kind, o, moved) == [i \in Ids |-> IF i \in moved THEN Dec!Untold ELSE Dec!Seen(kind, o, i)]

DecorCatches(n, w) ==
    (w.gap => n.restart # w.handled) =>
        Dec!CatchesUp(n.probe, DecorPool(n, w).mark, KnownOf(w.kind, DecorPool(n, w), n.probe.moved))

DecorHas(n, w, c, s) ==
    /\ DecorTypes(n, w, c, s) /\ DecorRings(n.probe) /\ DecorCounts(n, w, c)
    /\ Dec!Sane(w.kind, w.pool) /\ DecorCleared(w, c) /\ DecorCatches(n, w)

\* It is the invariant, now
LEMMA DecorHasIs == Dec!DecorInv <=> DecorHas(net, own, pc, scene)
  <1>1. Dec!Fields <=> DecorTypes(net, own, pc, scene)
    BY DEF Dec!Fields, DecorTypes, DecorNets, DecorProbes, DecorOwns
  <1>2. Dec!RingEnds <=> DecorRings(net.probe)
    BY DEF Dec!RingEnds, DecorRings
  <1>3. Dec!Counts <=> DecorCounts(net, own, pc)
    BY DEF Dec!Counts, DecorCounts
  <1>4. Dec!Cleared <=> DecorCleared(own, pc)
    BY DEF Dec!Cleared, DecorCleared
  <1>5. Dec!Pool = DecorPool(net, own)
    BY DEF Dec!Pool, Dec!Restarted, DecorPool
  <1>6. Dec!Known = KnownOf(own.kind, DecorPool(net, own), net.probe.moved)
    BY <1>5 DEF Dec!Known, KnownOf
  <1>7. ((own.gap => Dec!Restarted) => Dec!CatchesUp(net.probe, Dec!Pool.mark, Dec!Known)) <=> DecorCatches(net, own)
    BY <1>5, <1>6 DEF Dec!Restarted, DecorCatches
  <1> QED
    BY <1>1, <1>2, <1>3, <1>4, <1>7 DEF Dec!DecorInv, DecorHas

\* and after a step.
LEMMA DecorWillHave == Dec!DecorInv' <=> DecorHas(net', own', pc', scene')
  <1>1. Dec!Fields' <=> DecorTypes(net', own', pc', scene')
    BY DEF Dec!Fields, DecorTypes, DecorNets, DecorProbes, DecorOwns
  <1>2. Dec!RingEnds' <=> DecorRings(net'.probe)
    BY DEF Dec!RingEnds, DecorRings
  <1>3. Dec!Counts' <=> DecorCounts(net', own', pc')
    BY DEF Dec!Counts, DecorCounts
  <1>4. Dec!Cleared' <=> DecorCleared(own', pc')
    BY DEF Dec!Cleared, DecorCleared
  <1>5. Dec!Pool' = DecorPool(net', own')
    BY DEF Dec!Pool, Dec!Restarted, DecorPool, Dec!ResetPool
  <1>6. Dec!Known' = KnownOf(own'.kind, DecorPool(net', own'), net'.probe.moved)
    BY <1>5 DEF Dec!Known, KnownOf
  <1>7. ((own.gap => Dec!Restarted) => Dec!CatchesUp(net.probe, Dec!Pool.mark, Dec!Known))'
           <=> DecorCatches(net', own')
    BY <1>5, <1>6 DEF Dec!Restarted, DecorCatches
  <1>8. Dec!Sane(own.kind, own.pool)' <=> Dec!Sane(own'.kind, own'.pool)
    OBVIOUS
  <1> QED
    BY <1>1, <1>2, <1>3, <1>4, <1>7, <1>8 DEF Dec!DecorInv, DecorHas

\* The parts of the adapter.
LEMMA DecorNet ==
    ASSUME NEW kind, NEW n \in DecorNets(kind)
    PROVE  /\ n = [probe |-> n.probe, restart |-> n.restart, rpcs |-> n.rpcs]
           /\ n.probe \in DecorProbes(kind) /\ n.restart \in Nat /\ n.rpcs \in Nat
  BY DEF DecorNets

\* The parts of its snapshot.
LEMMA DecorProbe ==
    ASSUME NEW kind, NEW p \in DecorProbes(kind)
    PROVE  /\ p = [seq |-> p.seq, ring |-> p.ring, server |-> p.server, here |-> p.here, moved |-> p.moved]
           /\ p.seq \in Nat /\ p.ring \in Seq(Dec!Events(kind)) /\ p.server \in [Ids -> Dec!Views]
           /\ p.here \subseteq Ids /\ p.moved \subseteq Ids
  BY DEF DecorProbes

\* The parts of the bridge.
LEMMA DecorOwn ==
    ASSUME NEW w \in DecorOwns
    PROVE  /\ w = [kind |-> w.kind, pool |-> w.pool, handled |-> w.handled, gap |-> w.gap]
           /\ w.kind \in Dec!Kinds /\ w.pool \in Dec!Pools /\ w.handled \in Nat /\ w.gap \in BOOLEAN
  BY DEF DecorOwns

\* A ring of Decor.
LEMMA DecorRingOk ==
    ASSUME NEW kind, NEW p \in DecorProbes(kind), DecorRings(p)
    PROVE  /\ RingOk(p.ring, p.seq, DecorRing, Rung(kind)) /\ Len(p.ring) \in Nat
           /\ \A mark : News(p.ring, mark, Rung(kind))
  <1>1. PICK r, seq : r = p.ring /\ seq = p.seq
    OBVIOUS
  <1>2. r \in Seq(Dec!Events(kind)) /\ seq \in Nat /\ DecorRing \in Nat
    BY <1>1, DecorProbe, PoolsAssumption
  <1>3. PICK l : l = Len(r)
    OBVIOUS
  <1>4. l = (IF seq < DecorRing THEN seq ELSE DecorRing) /\ l \in Nat /\ l =< seq
    BY <1>1, <1>2, <1>3 DEF DecorRings
  <1>5. \A k \in 1 .. l : r[k].seq = seq - l + k
    BY <1>1, <1>3 DEF DecorRings
  <1>6. ASSUME NEW k \in 1 .. l PROVE r[k] \in Rung(kind)
    <2>1. r[k] \in Dec!Events(kind)
      BY <1>2, <1>3
    <2>2. r[k].seq # 0
      BY <1>2, <1>4, <1>5
    <2> QED
      BY <2>1, <2>2 DEF Rung
  <1>7. r \in Seq(Rung(kind))
    BY <1>2, <1>3, <1>6
  <1>8. \A mark : News(r, mark, Rung(kind))
    BY <1>3, <1>6 DEF News
  <1>9. RingOk(r, seq, DecorRing, Rung(kind))
    BY <1>2, <1>3, <1>4, <1>5, <1>7 DEF RingOk
  <1> QED
    BY <1>1, <1>3, <1>4, <1>8, <1>9

\* The pool of a new session.
LEMMA FreshIs ==
    ASSUME NEW kind, NEW t, t \subseteq Ids, NEW d, d = Dec!FreshPool(t)
    PROVE  /\ d \in SanePools(kind) /\ d.mark = 0 /\ \A i \in Ids : d.slots[i] = Dec!NoSlot
           /\ d.standing = t /\ d.scan = "never"
  <1>1. PICK w, g : w = [i \in Ids |-> Dec!NoSlot] /\ g = [x \in Handles |-> 0]
    OBVIOUS
  <1>2. d = [mark |-> 0, slots |-> w, active |-> 0, pending |-> 0, gta |-> g, refused |-> {}, peds |-> {},
             records |-> {}, standing |-> t, scan |-> "never"]
    BY <1>1 DEF Dec!FreshPool
  <1>3. w \in [Ids -> Dec!Slots] /\ g \in [Handles -> Ids \cup {0}]
    BY <1>1, NoDecor
  <1>4. d \in Dec!Pools
    BY <1>2, <1>3 DEF Dec!Pools
  <1>5. d.slots = w /\ d.gta = g /\ d.active = 0 /\ d.pending = 0 /\ d.records = {}
    BY <1>2
  <1>6. ASSUME NEW i \in Ids PROVE Dec!SlotOk(kind, d, i)
    <2>1. PICK s : s = Dec!NoSlot
      OBVIOUS
    <2>2. d.slots[i] = s /\ s.gta = 0 /\ s.pending = FALSE /\ s.active = FALSE /\ s.seq = 0 /\ s.shows = 0
      BY <1>1, <1>5, <2>1, NoDecor
    <2> QED
      BY <2>2 DEF Dec!SlotOk
  <1>7. ASSUME NEW x \in Handles PROVE Dec!HandleOk(d, x)
    BY <1>1, <1>5 DEF Dec!HandleOk
  <1>8. Cardinality({}) = 0 /\ 0 =< MaxRecords
    BY FS_EmptySet, PoolsAssumption
  <1>9. Dec!Numbered(kind, d) /\ Dec!Cardinality(d.records) =< MaxRecords
    <2>1. /\ \A i \in Ids : d.slots[i].active = FALSE
          /\ \A i \in Ids : d.slots[i].gta = 0
          /\ \A i \in Ids : d.slots[i].pending = FALSE
      BY <1>1, <1>5, NoDecor
    <2>2. /\ {i \in Ids : d.slots[i].active} = {} /\ {i \in Ids : d.slots[i].gta # 0} = {}
          /\ {i \in Ids : d.slots[i].pending} = {}
      BY <2>1
    <2> QED
      BY <1>5, <1>8, <2>2 DEF Dec!Numbered, Dec!Cardinality, Cardinality
  <1>10. Dec!Sane(kind, d)
    BY <1>6, <1>7, <1>9 DEF Dec!Sane
  <1>11. \A i \in Ids : d.slots[i] = Dec!NoSlot
    BY <1>1, <1>5
  <1>12. d.mark = 0 /\ d.standing = t /\ d.scan = "never"
    BY <1>2
  <1> QED
    BY <1>4, <1>10, <1>11, <1>12 DEF SanePools

\* What is seen of a slot, and whether it fits.
LEMMA SeenIs ==
    ASSUME NEW kind, NEW o \in SanePools(kind), NEW i \in Ids
    PROVE  Dec!Seen(kind, o, i) \in Dec!Views /\ Fit(kind, o, i, Dec!Seen(kind, o, i))
  <1>1. PICK s, v, b : s = o.slots[i] /\ v = Dec!Seen(kind, o, i) /\ b = Dec!Excused(kind, o, i)
    OBVIOUS
  <1>2. s.seq \in Nat /\ s.shows \in Nat
    BY <1>1, SlotIs, DecorSlot
  <1>3. Dec!Excused(kind, o, i) \in BOOLEAN
    BY Zenon DEF Dec!Excused
  <1>4. v = [seq |-> s.seq, shows |-> s.shows, excused |-> b]
    BY <1>1 DEF Dec!Seen
  <1>5. v \in Dec!Views
    BY <1>1, <1>2, <1>3, <1>4 DEF Dec!Views
  <1>6. v.seq = s.seq /\ v.shows = s.shows /\ v.excused = b
    BY <1>4
  <1>7. Dec!Excused(kind, o, i) \/ b = FALSE
    BY <1>1, <1>3
  <1> QED
    BY <1>1, <1>5, <1>6, <1>7 DEF Fit

\* What has never been told of.
LEMMA UntoldIs == Dec!Untold \in Dec!Views /\ Dec!Untold.seq = 0 /\ Dec!Untold.shows = 0 /\ Dec!Untold.excused = FALSE
  BY DEF Dec!Untold, Dec!Views

\* What a replay begins with.
LEMMA KnownOfIs ==
    ASSUME NEW kind, NEW o \in SanePools(kind), NEW moved, NEW k, k = KnownOf(kind, o, moved)
    PROVE  /\ k \in [Ids -> Dec!Views]
           /\ \A i \in Ids : i \in moved => k[i] = Dec!Untold
           /\ \A i \in Ids : i \notin moved => k[i] = Dec!Seen(kind, o, i)
  <1>1. \A i \in Ids : i \in moved => k[i] = Dec!Untold
    BY DEF KnownOf
  <1>2. \A i \in Ids : i \notin moved => k[i] = Dec!Seen(kind, o, i)
    BY DEF KnownOf
  <1>3. k \in [Ids -> Dec!Views]
    BY SeenIs, UntoldIs DEF KnownOf
  <1> QED
    BY <1>1, <1>2, <1>3

\* The pool before a frame's replay.
LEMMA DecorPoolIs ==
    ASSUME NEW n, NEW w, NEW c, NEW s, DecorHas(n, w, c, s), NEW o, o = DecorPool(n, w)
    PROVE  /\ o \in SanePools(w.kind) /\ o.mark \in Nat /\ o.mark =< n.probe.seq
           /\ w.handled = n.restart => o = w.pool
           /\ w.handled # n.restart => o = Dec!FreshPool(w.pool.standing) /\ o.mark = 0
  <1>1. DecorTypes(n, w, c, s) /\ DecorCounts(n, w, c) /\ Dec!Sane(w.kind, w.pool)
    BY DEF DecorHas
  <1>2. PICK kind, k : kind = w.kind /\ k = w.pool
    OBVIOUS
  <1>3. n.probe.seq \in Nat /\ k \in Dec!Pools /\ k \in SanePools(kind)
    <2>1. n \in DecorNets(w.kind) /\ w \in DecorOwns
      BY <1>1 DEF DecorTypes
    <2>2. n.probe.seq \in Nat
      BY <2>1, DecorNet, DecorProbe
    <2> QED
      BY <1>1, <1>2, <2>1, <2>2, DecorOwn DEF SanePools
  <1>4. CASE w.handled = n.restart
    <2>1. o = k
      BY <1>2, <1>4 DEF DecorPool
    <2>2. k.mark \in Nat /\ k.mark =< n.probe.seq
      BY <1>1, <1>2, <1>3, <1>4, PoolFields DEF DecorCounts
    <2> QED
      BY <1>2, <1>3, <1>4, <2>1, <2>2
  <1>5. CASE w.handled # n.restart
    <2>1. o = Dec!FreshPool(k.standing)
      BY <1>2, <1>5 DEF DecorPool, Dec!ResetPool
    <2>2. k.standing \subseteq Ids
      BY <1>3, PoolFields
    <2>3. o \in SanePools(kind) /\ o.mark = 0
      BY <2>1, <2>2, FreshIs
    <2> QED
      BY <1>2, <1>3, <1>5, <2>1, <2>3
  <1> QED
    BY <1>4, <1>5

-----------------------------------------------------------------------------
(* Whether a replay catches up. *)

\* What an RPC makes of a view that is right is right for what it makes of the server's.
Answers(old, new, e) == \A v \in Dec!Views : Dec!Right(v, old) => Dec!Right(Dec!Heard(v, e), new)

\* Ring, of Decor.
LEMMA DecorsRing ==
    /\ \A r, m : Dec!Gap(r, m) = Gap(r, m) /\ Dec!MarkAfter(r, m) = MarkAfter(r, m)
    /\ \A r, n, e : Dec!Push(r, n, e) = Push(r, n, e)
  BY DEF Dec!Gap, Gap, Dec!MarkAfter, MarkAfter, Dec!Push, Push

\* What a replay ends with is what the RPCs come to.
LEMMA AfterIs ==
    ASSUME NEW p, NEW mark, NEW v, NEW i
    PROVE  Dec!After(p, mark, v, i) = ViewReplayed(p.ring, mark, v, i)
  BY DEF Dec!After, ViewReplayed

\* One RPC more, for what becomes of v.
LEMMA AfterPushed ==
    ASSUME NEW kind \in Dec!Kinds, NEW ring, NEW seq, NEW mark \in Nat, mark =< seq,
           RingOk(ring, seq, DecorRing, Rung(kind)), NEW e \in Rung(kind), e.seq = seq + 1,
           NEW r, r = Push(ring, DecorRing, e), Whole(r, seq + 1, mark), NEW i \in Ids, NEW v \in Dec!Views
    PROVE  /\ Whole(ring, seq, mark) /\ ViewReplayed(ring, mark, v, i) \in Dec!Views
           /\ ViewReplayed(r, mark, v, i) = Dec!HeardOf(i, ViewReplayed(ring, mark, v, i), e)
  <1>1. DecorRing \in Nat \ {0}
    BY PoolsAssumption
  <1>2. PICK H : H = ViewSteps(kind, i)
    OBVIOUS
  <1>3. RingOk(r, seq + 1, DecorRing, Rung(kind))
    BY <1>1, RingPushed
  <1>4. News(ring, mark, Rung(kind)) /\ Len(ring) \in Nat /\ News(r, mark, Rung(kind)) /\ Len(r) \in Nat
    <2>1. ring \in Seq(Rung(kind)) /\ r \in Seq(Rung(kind))
      BY <1>3 DEF RingOk
    <2> QED
      BY <2>1 DEF News
  <1>5. Whole(ring, seq, mark) /\ Value(r, mark, v, H) = H[<<Value(ring, mark, v, H), e>>]
    BY <1>1, ValuePushed
  <1>6. PICK x : x = ViewReplayed(ring, mark, v, i)
    OBVIOUS
  <1>7. x = Value(ring, mark, v, H) /\ x \in Dec!Views
    BY <1>2, <1>4, <1>6, ViewsLoop, ViewIsReplayed
  <1>8. ViewReplayed(r, mark, v, i) = Value(r, mark, v, H)
    BY <1>2, <1>4, ViewsLoop
  <1>9. H[<<x, e>>] = Dec!HeardOf(i, x, e)
    BY <1>2, <1>7, ViewsStay
  <1> QED
    BY <1>5, <1>6, <1>7, <1>8, <1>9

\* The event e is put into the ring of p, and q is what becomes of p.
Pushed(p, q, e) ==
    /\ e.seq = p.seq + 1 /\ q.seq = p.seq + 1 /\ q.ring = Push(p.ring, DecorRing, e)
    /\ \A i \in Ids : i # e.id => q.server[i] = p.server[i]
    /\ Answers(p.server[e.id], q.server[e.id], e)

\* One RPC more.
LEMMA DecorPushed ==
    ASSUME NEW kind \in Dec!Kinds, NEW p, NEW q, NEW mark \in Nat, mark =< p.seq, p.seq \in Nat,
           RingOk(p.ring, p.seq, DecorRing, Rung(kind)), NEW known \in [Ids -> Dec!Views],
           Dec!CatchesUp(p, mark, known), NEW e \in Rung(kind), Pushed(p, q, e)
    PROVE  Dec!CatchesUp(q, mark, known)
  <1>0. /\ e.seq = p.seq + 1 /\ q.seq = p.seq + 1 /\ q.ring = Push(p.ring, DecorRing, e)
        /\ \A i \in Ids : i # e.id => q.server[i] = p.server[i]
        /\ Answers(p.server[e.id], q.server[e.id], e)
    BY DEF Pushed
  <1>1. SUFFICES ASSUME ~Dec!Gap(q.ring, mark), NEW i \in Ids
                 PROVE  Dec!Right(Dec!After(q, mark, known[i], i), q.server[i])
    BY DEF Dec!CatchesUp
  <1>2. DecorRing \in Nat \ {0}
    BY PoolsAssumption
  <1>3. PICK ring, seq, r : ring = p.ring /\ seq = p.seq /\ r = q.ring
    OBVIOUS
  <1>4. r = Push(ring, DecorRing, e) /\ RingOk(ring, seq, DecorRing, Rung(kind)) /\ e.seq = seq + 1 /\ mark =< seq
    BY <1>0, <1>3
  <1>5. RingOk(r, seq + 1, DecorRing, Rung(kind))
    BY <1>2, <1>4, RingPushed
  <1>6. Whole(r, seq + 1, mark)
    BY <1>1, <1>2, <1>3, <1>5, GapIs, DecorsRing
  <1>7. PICK v : v = known[i]
    OBVIOUS
  <1>8. v \in Dec!Views
    BY <1>7
  <1>9. PICK x : x = ViewReplayed(ring, mark, v, i)
    OBVIOUS
  <1>10. /\ Whole(ring, seq, mark) /\ x \in Dec!Views
         /\ ViewReplayed(r, mark, v, i) = Dec!HeardOf(i, x, e)
    BY <1>4, <1>6, <1>8, <1>9, AfterPushed
  <1>11. ~Dec!Gap(ring, mark)
    BY <1>2, <1>4, <1>10, GapIs, DecorsRing
  <1>12. Dec!Right(x, p.server[i])
    BY <1>3, <1>7, <1>9, <1>11, AfterIs DEF Dec!CatchesUp
  <1>13. Dec!After(q, mark, known[i], i) = Dec!HeardOf(i, x, e)
    BY <1>3, <1>7, <1>10, AfterIs
  <1>14. CASE i = e.id
    BY <1>0, <1>10, <1>12, <1>13, <1>14 DEF Dec!HeardOf, Answers
  <1>15. CASE i # e.id
    BY <1>0, <1>12, <1>13, <1>15 DEF Dec!HeardOf
  <1> QED
    BY <1>14, <1>15

\* A ring with nothing about i that its reader has not seen.
LEMMA NothingIsHeard ==
    ASSUME NEW ring, NEW mark, NEW v, NEW i, Len(ring) \in Nat,
           \A k \in 1 .. Len(ring) : ~(ring[k].seq > mark /\ ring[k].id = i)
    PROVE  ViewReplayed(ring, mark, v, i) = v
  <1>1. PICK last \in Nat : last = Len(ring)
    OBVIOUS
  <1> DEFINE Then(x, k) == IF ring[k].seq > mark THEN Dec!HeardOf(i, x, ring[k]) ELSE x
             Is(h) == h = [k \in 0 .. last |-> IF k = 0 THEN v ELSE Then(h[k - 1], k)]
             c == CHOOSE h : Is(h)
  <1>2. ViewReplayed(ring, mark, v, i) = c[last]
    BY <1>1 DEF ViewReplayed, Dec!Replayed
  <1>3. ASSUME NEW x, NEW k \in 1 .. last PROVE Then(x, k) = x
    BY <1>1 DEF Dec!HeardOf
  <1>4. Is([k \in 0 .. last |-> v])
    <2>1. PICK g : g = [k \in 0 .. last |-> v]
      OBVIOUS
    <2>2. ASSUME NEW k \in 0 .. last PROVE g[k] = IF k = 0 THEN v ELSE Then(g[k - 1], k)
      <3>1. g[k] = v /\ (k # 0 => g[k - 1] = v /\ k \in 1 .. last)
        BY <2>1
      <3> HIDE DEF Then
      <3> QED
        BY <1>3, <3>1
    <2>3. g = [k \in 0 .. last |-> IF k = 0 THEN v ELSE Then(g[k - 1], k)]
      <3> HIDE DEF Then
      <3> QED
        BY <2>1, <2>2
    <2> QED
      BY <2>1, <2>3
  <1>5. Is(c)
    <2> HIDE DEF Is
    <2> QED
      BY <1>4
  <1> HIDE DEF c
  <1>6. c[0] = v /\ \A k \in 0 .. last : k # 0 => c[k] = c[k - 1]
    <2>1. c[0] = v /\ \A k \in 0 .. last : k # 0 => c[k] = Then(c[k - 1], k)
      <3> HIDE DEF Then
      <3> QED
        BY <1>5
    <2> HIDE DEF Then, Is
    <2>2. ASSUME NEW k \in 0 .. last, k # 0 PROVE c[k] = c[k - 1]
      <3>1. k \in 1 .. last
        BY <2>2
      <3> QED
        BY <1>3, <2>1, <2>2, <3>1
    <2> QED
      BY <2>1, <2>2
  <1> HIDE DEF Is, Then
  <1> DEFINE S == {k \in Nat : k =< last => c[k] = v}
  <1>7. 0 \in S
    BY <1>6
  <1>8. ASSUME NEW k \in Nat, k \in S PROVE k + 1 \in S
    <2> SUFFICES ASSUME k + 1 =< last PROVE c[k + 1] = v
      OBVIOUS
    <2>1. c[k] = v /\ k + 1 \in 0 .. last /\ k + 1 # 0 /\ (k + 1) - 1 = k
      BY <1>8
    <2> QED
      BY <1>6, <2>1
  <1>9. Nat \subseteq S
    <2> HIDE DEF S
    <2> QED
      BY <1>7, <1>8, Steps
  <1> QED
    BY <1>2, <1>9

\* A reader who has seen everything catches up just if what he has is right.
LEMMA DecorIsCaughtUp ==
    ASSUME NEW kind, NEW p \in DecorProbes(kind), DecorRings(p), NEW known
    PROVE  Dec!CatchesUp(p, p.seq, known) <=> \A i \in Ids : Dec!Right(known[i], p.server[i])
  <1>1. DecorRing \in Nat \ {0}
    BY PoolsAssumption
  <1>2. PICK r, m : r = p.ring /\ m = p.seq
    OBVIOUS
  <1>3. RingOk(r, m, DecorRing, Rung(kind)) /\ Len(r) \in Nat /\ m \in Nat
    BY <1>2, DecorRingOk, DecorProbe
  <1>4. Whole(r, m, m) /\ News(r, m, {})
    BY <1>1, <1>3, NoneUnseen
  <1>5. ~Dec!Gap(p.ring, p.seq)
    BY <1>1, <1>2, <1>3, <1>4, GapIs, DecorsRing
  <1>6. \A k \in 1 .. Len(r) : ~(r[k].seq > m)
    BY <1>4 DEF News
  <1>7. ASSUME NEW i, NEW v PROVE Dec!After(p, p.seq, v, i) = v
    <2>1. ViewReplayed(r, m, v, i) = v
      BY <1>3, <1>6, NothingIsHeard
    <2> QED
      BY <1>2, <2>1, AfterIs
  <1> QED
    BY <1>5, <1>7 DEF Dec!CatchesUp

-----------------------------------------------------------------------------
(* The adapter's steps. *)

\* A snapshot.
LEMMA ProbeMade ==
    ASSUME NEW kind, NEW seq \in Nat, NEW ring \in Seq(Dec!Events(kind)), NEW server \in [Ids -> Dec!Views],
           NEW here \in SUBSET Ids, NEW moved \in SUBSET Ids
    PROVE  [seq |-> seq, ring |-> ring, server |-> server, here |-> here, moved |-> moved] \in DecorProbes(kind)
  BY DEF DecorProbes

ProbeWith(p, now, id, v, r) == [p EXCEPT !.seq = now, !.server[id] = v, !.ring = r]
NetWith(n, k, now, id, v, r) ==
    [n EXCEPT !.rpcs = k, !.probe.seq = now, !.probe.server[id] = v, !.probe.ring = r]

\* The snapshot with one event more.
LEMMA ProbePushed ==
    ASSUME NEW kind, NEW p \in DecorProbes(kind), NEW id, NEW v, NEW now, NEW r
    PROVE  ProbeWith(p, now, id, v, r)
              = [seq |-> now, ring |-> r, server |-> [p.server EXCEPT ![id] = v], here |-> p.here, moved |-> p.moved]
  <1>1. PICK t : t = [p.server EXCEPT ![id] = v]
    OBVIOUS
  <1>2. PICK p1, p2, p3 : p1 = [p EXCEPT !.seq = now] /\ p2 = [p1 EXCEPT !.server = t] /\ p3 = [p2 EXCEPT !.ring = r]
    OBVIOUS
  <1>3. p1 = [seq |-> now, ring |-> p.ring, server |-> p.server, here |-> p.here, moved |-> p.moved]
    BY <1>2, DecorProbe
  <1>4. p2 = [seq |-> now, ring |-> p.ring, server |-> t, here |-> p.here, moved |-> p.moved]
    BY <1>2, <1>3
  <1>5. p3 = [seq |-> now, ring |-> r, server |-> t, here |-> p.here, moved |-> p.moved]
    BY <1>2, <1>4
  <1>6. p1.server = p.server
    BY <1>3
  <1>7. ProbeWith(p, now, id, v, r) = p3
    BY <1>1, <1>2, <1>6 DEF ProbeWith
  <1> QED
    BY <1>1, <1>5, <1>7

\* The adapter with it.
LEMMA NetPushed ==
    ASSUME NEW kind, NEW n \in DecorNets(kind), NEW k, NEW id, NEW v, NEW now, NEW r
    PROVE  NetWith(n, k, now, id, v, r)
              = [probe |-> ProbeWith(n.probe, now, id, v, r), restart |-> n.restart, rpcs |-> k]
  <1>2. ASSUME NEW p, NEW q PROVE [[probe |-> p, restart |-> n.restart, rpcs |-> k] EXCEPT !.probe = q]
                                     = [probe |-> q, restart |-> n.restart, rpcs |-> k]
    OBVIOUS
  <1>3. PICK p1, p2, p3 : /\ p1 = [n.probe EXCEPT !.seq = now] /\ p2 = [p1 EXCEPT !.server[id] = v]
                          /\ p3 = [p2 EXCEPT !.ring = r]
    OBVIOUS
  <1>4. PICK n1 : n1 = [n EXCEPT !.rpcs = k]
    OBVIOUS
  <1>5. n1 = [probe |-> n.probe, restart |-> n.restart, rpcs |-> k]
    BY <1>4 DEF DecorNets
  <1>6. [n1 EXCEPT !.probe.seq = now] = [probe |-> p1, restart |-> n.restart, rpcs |-> k]
    BY <1>3, <1>5
  <1>7. PICK n2 : n2 = [n1 EXCEPT !.probe.seq = now]
    OBVIOUS
  <1>13. n2 = [probe |-> p1, restart |-> n.restart, rpcs |-> k] /\ n2.probe = p1
    BY <1>6, <1>7
  <1>14. [n2 EXCEPT !.probe.server[id] = v] = [n2 EXCEPT !.probe = p2]
    BY <1>3, <1>13
  <1>8. [n2 EXCEPT !.probe.server[id] = v] = [probe |-> p2, restart |-> n.restart, rpcs |-> k]
    BY <1>2, <1>13, <1>14
  <1>9. PICK n3 : n3 = [n2 EXCEPT !.probe.server[id] = v]
    OBVIOUS
  <1>15. n3 = [probe |-> p2, restart |-> n.restart, rpcs |-> k] /\ n3.probe = p2
    BY <1>8, <1>9
  <1>16. [n3 EXCEPT !.probe.ring = r] = [n3 EXCEPT !.probe = p3]
    BY <1>3, <1>15
  <1>10. [n3 EXCEPT !.probe.ring = r] = [probe |-> p3, restart |-> n.restart, rpcs |-> k]
    BY <1>2, <1>15, <1>16
  <1>11. NetWith(n, k, now, id, v, r) = [n3 EXCEPT !.probe.ring = r]
    BY <1>4, <1>7, <1>9 DEF NetWith
  <1>12. p3 = ProbeWith(n.probe, now, id, v, r)
    BY <1>3 DEF ProbeWith
  <1> QED
    BY <1>10, <1>11, <1>12

\* An event is put into the ring, and what the server says of id changes.
LEMMA DecorRpc ==
    ASSUME NEW n, NEW w, NEW c, NEW s, DecorHas(n, w, c, s), n.rpcs < MaxDecor,
           NEW e \in Rung(w.kind), e.seq = n.probe.seq + 1, NEW v \in Dec!Views,
           Answers(n.probe.server[e.id], v, e), NEW q,
           q = [seq |-> n.probe.seq + 1, ring |-> Push(n.probe.ring, DecorRing, e),
                server |-> [n.probe.server EXCEPT ![e.id] = v], here |-> n.probe.here, moved |-> n.probe.moved],
           NEW m, m = [probe |-> q, restart |-> n.restart, rpcs |-> n.rpcs + 1]
    PROVE  DecorHas(m, w, "pump", s)
  <1>1. /\ DecorTypes(n, w, c, s) /\ DecorRings(n.probe) /\ DecorCounts(n, w, c)
        /\ Dec!Sane(w.kind, w.pool) /\ DecorCatches(n, w)
    BY DEF DecorHas
  <1>2. PICK kind, p, seq, r, t : /\ kind = w.kind /\ p = n.probe /\ seq = p.seq
                                  /\ r = Push(p.ring, DecorRing, e) /\ t = [p.server EXCEPT ![e.id] = v]
    OBVIOUS
  <1>3. n \in DecorNets(kind) /\ w \in DecorOwns /\ s \in {"none", "spawned"} /\ kind \in Dec!Kinds
    BY <1>1, <1>2, DecorOwn DEF DecorTypes
  <1>4. p \in DecorProbes(kind) /\ n.restart \in Nat /\ n.rpcs \in Nat /\ DecorRings(p) /\ DecorRing \in Nat \ {0}
    BY <1>1, <1>2, <1>3, DecorNet, PoolsAssumption
  <1>5. /\ seq \in Nat /\ p.ring \in Seq(Dec!Events(kind)) /\ p.server \in [Ids -> Dec!Views]
        /\ p.here \subseteq Ids /\ p.moved \subseteq Ids
    BY <1>2, <1>4, DecorProbe
  <1>6. e \in Rung(kind) /\ e.seq = seq + 1 /\ e.id \in Ids
    BY <1>2, <1>3, RungIs
  <1>7. RingOk(p.ring, seq, DecorRing, Rung(kind))
    BY <1>2, <1>4, DecorRingOk
  <1>8. RingOk(r, seq + 1, DecorRing, Rung(kind))
    BY <1>2, <1>4, <1>6, <1>7, RingPushed
  <1>9. t \in [Ids -> Dec!Views] /\ t[e.id] = v /\ \A i \in Ids : i # e.id => t[i] = p.server[i]
    BY <1>2, <1>5, <1>6
  <1>10. PICK now \in Nat : now = seq + 1
    BY <1>5
  <1>11. q = [seq |-> now, ring |-> r, server |-> t, here |-> p.here, moved |-> p.moved]
    BY <1>2, <1>10
  <1>12. q.seq = now /\ q.ring = r /\ q.server = t /\ q.moved = p.moved
    BY <1>11
  <1>13. q \in DecorProbes(kind)
    <2>1. r \in Seq(Rung(kind))
      BY <1>8 DEF RingOk
    <2>2. \A k \in 1 .. Len(r) : r[k] \in Dec!Events(kind)
      BY <2>1 DEF Rung
    <2>3. r \in Seq(Dec!Events(kind))
      BY <2>1, <2>2
    <2>4. p.here \in SUBSET Ids /\ p.moved \in SUBSET Ids
      BY <1>5
    <2>5. PICK a, b : a = p.here /\ b = p.moved
      OBVIOUS
    <2>6. a \in SUBSET Ids /\ b \in SUBSET Ids
      BY <2>4, <2>5
    <2>7. [seq |-> now, ring |-> r, server |-> t, here |-> a, moved |-> b] \in DecorProbes(kind)
      <3>1. t \in [Ids -> Dec!Views]
        BY <1>9
      <3> QED
        BY <2>3, <2>6, <3>1, ProbeMade
    <2> QED
      BY <1>11, <2>5, <2>7
  <1>14. m.probe = q /\ m.restart = n.restart /\ m.rpcs = n.rpcs + 1
    OBVIOUS
  <1>15. DecorTypes(m, w, "pump", s)
    <2>1. PICK k \in Nat : k = n.rpcs + 1
      BY <1>4
    <2>2. m = [probe |-> q, restart |-> n.restart, rpcs |-> k]
      BY <2>1
    <2>3. m \in DecorNets(kind)
      BY <1>4, <1>13, <2>2 DEF DecorNets
    <2> QED
      BY <1>2, <1>3, <2>3 DEF DecorTypes
  <1>16. DecorRings(q)
    BY <1>8, <1>10, <1>12 DEF RingOk, DecorRings
  <1>17. DecorCounts(m, w, "pump")
    <2>1. w.pool.mark \in Nat
      BY <1>3, DecorOwn, PoolFields
    <2>2. MaxDecor \in Nat
      BY PoolsAssumption
    <2>3. n.probe.seq = seq /\ n.probe.moved = p.moved
      BY <1>2
    <2> QED
      BY <1>1, <1>4, <1>5, <1>10, <1>12, <1>14, <2>1, <2>2, <2>3 DEF DecorCounts
  <1>18. DecorCleared(w, "pump")
    BY DEF DecorCleared
  <1>19. DecorCatches(m, w)
    <2>1. PICK o, known : o = DecorPool(n, w) /\ known = KnownOf(kind, o, p.moved)
      OBVIOUS
    <2>2. o = DecorPool(m, w)
      BY <1>14, <2>1 DEF DecorPool
    <2>3. o \in SanePools(kind) /\ o.mark \in Nat /\ o.mark =< seq
      BY <1>2, <2>1, DecorPoolIs
    <2>4. known \in [Ids -> Dec!Views]
      BY <2>1, <2>3, KnownOfIs
    <2>5. SUFFICES ASSUME w.gap => n.restart # w.handled PROVE Dec!CatchesUp(q, o.mark, known)
      BY <1>2, <1>12, <1>14, <2>1, <2>2 DEF DecorCatches
    <2>6. Dec!CatchesUp(p, o.mark, known)
      BY <1>1, <1>2, <2>1, <2>5 DEF DecorCatches
    <2>7. PICK mark : mark = o.mark
      OBVIOUS
    <2>8. mark \in Nat /\ mark =< p.seq /\ p.seq \in Nat /\ Dec!CatchesUp(p, mark, known)
      BY <1>2, <1>5, <2>3, <2>6, <2>7
    <2>9. RingOk(p.ring, p.seq, DecorRing, Rung(kind)) /\ e.seq = p.seq + 1 /\ q.seq = p.seq + 1 /\ e \in Rung(kind)
      BY <1>2, <1>6, <1>7, <1>10, <1>12
    <2>10. q.ring = Push(p.ring, DecorRing, e) /\ \A i \in Ids : i # e.id => q.server[i] = p.server[i]
      BY <1>2, <1>9, <1>12
    <2>11. Answers(p.server[e.id], q.server[e.id], e)
      BY <1>2, <1>9, <1>12
    <2>13. Pushed(p, q, e)
      BY <2>9, <2>10, <2>11 DEF Pushed
    <2>12. Dec!CatchesUp(q, mark, known)
      BY <1>3, <2>4, <2>8, <2>9, <2>13, DecorPushed
    <2> QED
      BY <2>7, <2>12
  <1> QED
    BY <1>1, <1>14, <1>15, <1>16, <1>17, <1>18, <1>19 DEF DecorHas

\* An RPC about one thing.
LEMMA DecorQueue ==
    ASSUME Dec!DecorInv, NEW kind, Dec!Receives(kind), NEW id \in Ids, NEW v \in Dec!Views,
           NEW action \in Dec!Actions(kind), NEW e, e = [seq |-> net.probe.seq + 1, action |-> action, id |-> id],
           Answers(net.probe.server[id], v, e), Dec!Queue(action, id, v)
    PROVE  Dec!DecorInv'
  <1>1. DecorHas(net, own, pc, scene)
    BY DecorHasIs
  <1>2. own.kind = kind /\ net.rpcs < MaxDecor
    BY DEF Dec!Receives
  <1>3. PICK n, w, p : n = net /\ w = own /\ p = net.probe
    OBVIOUS
  <1>4. n \in DecorNets(kind) /\ w \in DecorOwns /\ p \in DecorProbes(kind)
    BY <1>1, <1>2, <1>3, DecorNet DEF DecorHas, DecorTypes
  <1>5. p.seq \in Nat /\ p.server \in [Ids -> Dec!Views]
    BY <1>4, DecorProbe
  <1>6. e \in Rung(kind) /\ e.seq = p.seq + 1 /\ e.id = id
    <2>1. PICK now : now = p.seq + 1
      OBVIOUS
    <2>2. now \in Nat /\ now # 0
      BY <1>5, <2>1
    <2>3. e = [seq |-> now, action |-> action, id |-> id]
      BY <1>3, <2>1
    <2> QED
      BY <2>1, <2>2, <2>3 DEF Rung, Dec!Events
  <1>7. PICK r, t, now : r = Push(p.ring, DecorRing, e) /\ t = [p.server EXCEPT ![id] = v] /\ now = p.seq + 1
    OBVIOUS
  <1>8. PICK q : q = [seq |-> now, ring |-> r, server |-> t, here |-> p.here, moved |-> p.moved]
    OBVIOUS
  <1>9. net' = NetWith(n, n.rpcs + 1, now, id, v, r)
    BY <1>3, <1>7, DecorsRing DEF Dec!Queue, Dec!Now, NetWith
  <1>10. net' = [probe |-> q, restart |-> n.restart, rpcs |-> n.rpcs + 1]
    <2>1. ProbeWith(p, now, id, v, r) = q
      <3>1. ProbeWith(p, now, id, v, r)
              = [seq |-> now, ring |-> r, server |-> [p.server EXCEPT ![id] = v], here |-> p.here, moved |-> p.moved]
        BY <1>4, ProbePushed
      <3> QED
        BY <1>7, <1>8, <3>1
    <2>2. PICK k : k = n.rpcs + 1
      OBVIOUS
    <2>3. NetWith(n, k, now, id, v, r)
            = [probe |-> ProbeWith(n.probe, now, id, v, r), restart |-> n.restart, rpcs |-> k]
      BY <1>4, NetPushed
    <2> QED
      BY <1>3, <1>9, <2>1, <2>2, <2>3
  <1>11. pc' = "pump" /\ own' = w /\ scene' = scene
    BY <1>3 DEF Dec!Queue
  <1>12. PICK m : m = net'
    OBVIOUS
  <1>13. DecorHas(m, w, "pump", scene)
    <2>1. DecorHas(n, w, pc, scene) /\ n.rpcs < MaxDecor /\ e \in Rung(w.kind) /\ e.seq = n.probe.seq + 1
      BY <1>1, <1>2, <1>3, <1>6
    <2>2. Answers(n.probe.server[e.id], v, e)
      BY <1>3, <1>6
    <2>3. q = [seq |-> n.probe.seq + 1, ring |-> Push(n.probe.ring, DecorRing, e),
               server |-> [n.probe.server EXCEPT ![e.id] = v], here |-> n.probe.here, moved |-> n.probe.moved]
      BY <1>3, <1>6, <1>7, <1>8
    <2>4. m = [probe |-> q, restart |-> n.restart, rpcs |-> n.rpcs + 1]
      BY <1>10, <1>12
    <2> QED
      BY <2>1, <2>2, <2>3, <2>4, DecorRpc
  <1>14. DecorHas(net', own', pc', scene')
    BY <1>11, <1>12, <1>13
  <1> QED
    BY <1>14, DecorWillHave

\* What an RPC of Decor finds.
LEMMA DecorFinds ==
    ASSUME Dec!DecorInv, NEW id \in Ids
    PROVE  /\ net.probe.seq + 1 \in Nat /\ Dec!Now = net.probe.seq + 1 /\ net.probe.server[id] \in Dec!Views
           /\ Dec!Server(id) = net.probe.server[id] /\ net.probe.here \subseteq Ids
  <1>1. net \in DecorNets(own.kind)
    BY DecorHasIs DEF DecorHas, DecorTypes
  <1>2. PICK p : p = net.probe
    OBVIOUS
  <1>3. p.seq \in Nat /\ p.server \in [Ids -> Dec!Views] /\ p.here \subseteq Ids
    BY <1>1, <1>2, DecorNet, DecorProbe
  <1> QED
    BY <1>2, <1>3 DEF Dec!Now, Dec!Server

\* Something is told of.
LEMMA DecorTells ==
    ASSUME Dec!DecorInv, NEW kind, Dec!Receives(kind), NEW id \in Ids, NEW action \in Dec!Actions(kind),
           action \in {"set", "show", "say", "take"}, Dec!Queue(action, id, Dec!Told)
    PROVE  Dec!DecorInv'
  <1>1. PICK now, v : now = net.probe.seq + 1 /\ v = Dec!Told
    OBVIOUS
  <1>2. now \in Nat /\ Dec!Now = now
    BY <1>1, DecorFinds
  <1>3. v = [seq |-> now, shows |-> now, excused |-> FALSE]
    BY <1>1, <1>2 DEF Dec!Told, Dec!Untold
  <1>4. v \in Dec!Views /\ v.seq = now /\ v.shows = now
    BY <1>2, <1>3 DEF Dec!Views
  <1>5. PICK e : e = [seq |-> net.probe.seq + 1, action |-> action, id |-> id]
    OBVIOUS
  <1>6. e.seq = now /\ e.action = action
    BY <1>1, <1>5
  <1>7. ASSUME NEW u \in Dec!Views, NEW old, Dec!Right(u, old) PROVE Dec!Right(Dec!Heard(u, e), v)
    <2>1. PICK y : y = Dec!Heard(u, e)
      OBVIOUS
    <2>2. y = [seq |-> now, shows |-> now, excused |-> FALSE]
      BY <1>6, <2>1, HeardSays
    <2>3. y.seq = now /\ y.shows = now
      BY <2>2
    <2> QED
      BY <1>4, <2>1, <2>3 DEF Dec!Right
  <1>8. Answers(net.probe.server[id], v, e)
    BY <1>7 DEF Answers
  <1>9. Dec!Queue(action, id, v)
    BY <1>1
  <1> QED
    BY <1>4, <1>5, <1>8, <1>9, DecorQueue

\* Something is taken back.
LEMMA DecorEnds ==
    ASSUME Dec!DecorInv, NEW kind, Dec!Receives(kind), NEW id \in Ids, NEW action \in Dec!Actions(kind),
           action \in {"remove", "hide", "silence"}, Dec!Queue(action, id, Dec!Untold)
    PROVE  Dec!DecorInv'
  <1>1. PICK v : v = Dec!Untold
    OBVIOUS
  <1>5. PICK e : e = [seq |-> net.probe.seq + 1, action |-> action, id |-> id]
    OBVIOUS
  <1>6. e.action = action
    BY <1>5
  <1>7. ASSUME NEW u \in Dec!Views, NEW old, Dec!Right(u, old) PROVE Dec!Right(Dec!Heard(u, e), v)
    <2>1. Dec!Heard(u, e) = v
      BY <1>1, <1>6, HeardSays
    <2> QED
      BY <2>1 DEF Dec!Right
  <1>8. Answers(net.probe.server[id], v, e)
    BY <1>7 DEF Answers
  <1>9. v \in Dec!Views /\ Dec!Queue(action, id, v)
    BY <1>1, UntoldIs
  <1> QED
    BY <1>5, <1>8, <1>9, DecorQueue

\* The bridge does not take what is told.
LEMMA DecorLeaves ==
    ASSUME Dec!DecorInv, NEW kind, Dec!Receives(kind), NEW id \in Ids, "off" \in Dec!Actions(kind),
           Dec!Queue("off", id, Dec!Server(id))
    PROVE  Dec!DecorInv'
  <1>1. PICK v : v = Dec!Server(id)
    OBVIOUS
  <1>2. v \in Dec!Views /\ v = net.probe.server[id]
    BY <1>1, DecorFinds
  <1>5. PICK e : e = [seq |-> net.probe.seq + 1, action |-> "off", id |-> id]
    OBVIOUS
  <1>6. e.action = "off"
    BY <1>5
  <1>7. ASSUME NEW u \in Dec!Views, Dec!Right(u, v) PROVE Dec!Right(Dec!Heard(u, e), v)
    BY <1>6, <1>7, HeardSays
  <1>8. Answers(net.probe.server[id], v, e)
    BY <1>2, <1>7 DEF Answers
  <1>9. Dec!Queue("off", id, v)
    BY <1>1
  <1> QED
    BY <1>2, <1>5, <1>8, <1>9, DecorQueue

\* Decor!OnSetMapIcon preserves the invariant,
LEMMA DecorSetMapIcon ==
    ASSUME Dec!DecorInv, Dec!OnSetMapIcon
    PROVE  Dec!DecorInv'
  <1>1. Dec!Receives("icon") /\ {"set", "off"} \subseteq Dec!Actions("icon")
    BY DEF Dec!OnSetMapIcon, Dec!Actions
  <1>2. PICK id \in Ids : Dec!Queue("set", id, Dec!Told) \/ Dec!Queue("off", id, Dec!Server(id))
    BY DEF Dec!OnSetMapIcon
  <1> QED
    BY <1>1, <1>2, DecorTells, DecorLeaves

\* and so does OnRemoveMapIcon,
LEMMA DecorRemoveMapIcon ==
    ASSUME Dec!DecorInv, Dec!OnRemoveMapIcon
    PROVE  Dec!DecorInv'
  <1>1. Dec!Receives("icon") /\ "remove" \in Dec!Actions("icon")
    BY DEF Dec!OnRemoveMapIcon, Dec!Actions
  <1>2. PICK id \in Ids : Dec!Queue("remove", id, Dec!Untold)
    BY DEF Dec!OnRemoveMapIcon
  <1> QED
    BY <1>1, <1>2, DecorEnds

\* OnShowText,
LEMMA DecorShowText ==
    ASSUME Dec!DecorInv, Dec!OnShowText
    PROVE  Dec!DecorInv'
  <1>1. Dec!Receives("text") /\ "show" \in Dec!Actions("text")
    BY DEF Dec!OnShowText, Dec!Actions
  <1>2. PICK id \in Ids : Dec!Queue("show", id, Dec!Told)
    BY DEF Dec!OnShowText
  <1> QED
    BY <1>1, <1>2, DecorTells

\* OnHideText,
LEMMA DecorHideText ==
    ASSUME Dec!DecorInv, Dec!OnHideText
    PROVE  Dec!DecorInv'
  <1>1. Dec!Receives("text") /\ "hide" \in Dec!Actions("text")
    BY DEF Dec!OnHideText, Dec!Actions
  <1>2. PICK id \in Ids : Dec!Queue("hide", id, Dec!Untold)
    BY DEF Dec!OnHideText
  <1> QED
    BY <1>1, <1>2, DecorEnds

\* OnChatBubble,
LEMMA DecorChatBubble ==
    ASSUME Dec!DecorInv, Dec!OnChatBubble
    PROVE  Dec!DecorInv'
  <1>1. Dec!Receives("bubble") /\ {"say", "silence"} \subseteq Dec!Actions("bubble")
    BY DEF Dec!OnChatBubble, Dec!Actions
  <1>2. PICK id \in Ids : Dec!Queue("say", id, Dec!Told) \/ Dec!Queue("silence", id, Dec!Untold)
    BY DEF Dec!OnChatBubble
  <1> QED
    BY <1>1, <1>2, DecorTells, DecorEnds

\* OnRemoveBuilding,
LEMMA DecorRemoveBuilding ==
    ASSUME Dec!DecorInv, Dec!OnRemoveBuilding
    PROVE  Dec!DecorInv'
  <1>1. Dec!Receives("building") /\ "take" \in Dec!Actions("building")
    BY DEF Dec!OnRemoveBuilding, Dec!Actions
  <1>2. PICK id \in Ids : Dec!Queue("take", id, Dec!Told)
    BY DEF Dec!OnRemoveBuilding
  <1> QED
    BY <1>1, <1>2, DecorTells

\* OnAttach,
LEMMA DecorAttach ==
    ASSUME Dec!DecorInv, Dec!OnAttach
    PROVE  Dec!DecorInv'
  <1>1. Dec!Receives("attached") /\ {"set", "remove", "off"} \subseteq Dec!Actions("attached")
    BY DEF Dec!OnAttach, Dec!Actions
  <1>2. PICK id \in net.probe.here : \/ Dec!Queue("set", id, Dec!Told)
                                     \/ Dec!Queue("remove", id, Dec!Untold)
                                     \/ Dec!Queue("off", id, Dec!Server(id))
    BY DEF Dec!OnAttach
  <1>3. net \in DecorNets(own.kind)
    BY DecorHasIs DEF DecorHas, DecorTypes
  <1>4. net.probe.here \subseteq Ids
    BY <1>3, DecorNet, DecorProbe
  <1>5. id \in Ids
    BY <1>4
  <1> QED
    BY <1>1, <1>2, <1>5, DecorTells, DecorEnds, DecorLeaves

\* and OnEditText.
LEMMA DecorEditText ==
    ASSUME Dec!DecorInv, Dec!OnEditText
    PROVE  Dec!DecorInv'
  <1>1. Dec!Receives("text") /\ "edit" \in Dec!Actions("text")
    BY DEF Dec!OnEditText, Dec!Actions
  <1>2. PICK id \in Ids : Dec!Queue("edit", id,
            IF Dec!Server(id).seq = 0 THEN Dec!Server(id) ELSE [Dec!Server(id) EXCEPT !.shows = Dec!Now])
    BY DEF Dec!OnEditText
  <1>3. PICK old, now : old = net.probe.server[id] /\ now = net.probe.seq + 1
    OBVIOUS
  <1>4. old \in Dec!Views /\ now \in Nat /\ Dec!Server(id) = old /\ Dec!Now = now
    BY <1>3, DecorFinds
  <1>5. PICK v : v = IF old.seq = 0 THEN old ELSE [old EXCEPT !.shows = now]
    OBVIOUS
  <1>6. /\ v \in Dec!Views /\ v.seq = old.seq /\ v.excused = old.excused
        /\ v.shows = IF old.seq = 0 THEN old.shows ELSE now
    BY <1>4, <1>5 DEF Dec!Views
  <1>7. PICK e : e = [seq |-> net.probe.seq + 1, action |-> "edit", id |-> id]
    OBVIOUS
  <1>8. e.seq = now /\ e.action = "edit"
    BY <1>3, <1>7
  <1>9. ASSUME NEW u \in Dec!Views, Dec!Right(u, old) PROVE Dec!Right(Dec!Heard(u, e), v)
    <2>1. PICK y : y = Dec!Heard(u, e)
      OBVIOUS
    <2>2. y = IF u.seq = 0 THEN u ELSE [u EXCEPT !.shows = now]
      BY <1>8, <2>1, HeardSays
    <2>3. y.seq = u.seq /\ y.excused = u.excused /\ y.shows = IF u.seq = 0 THEN u.shows ELSE now
      BY <2>2 DEF Dec!Views
    <2>4. u.excused \/ old.excused \/ (u.seq = old.seq /\ u.shows = old.shows)
      BY <1>9 DEF Dec!Right
    <2>5. y.excused \/ v.excused \/ (y.seq = v.seq /\ y.shows = v.shows)
      BY <1>6, <2>3, <2>4
    <2> QED
      BY <2>1, <2>5 DEF Dec!Right
  <1>10. Answers(net.probe.server[id], v, e)
    BY <1>3, <1>9 DEF Answers
  <1>11. Dec!Queue("edit", id, v)
    BY <1>2, <1>4, <1>5
  <1> QED
    BY <1>1, <1>6, <1>7, <1>10, <1>11, DecorQueue

-----------------------------------------------------------------------------
(* Players come and go, the game mode restarts. *)

NetMoved(n, k, here, moved, id, v) ==
    [n EXCEPT !.rpcs = k, !.probe.here = here, !.probe.moved = moved, !.probe.server[id] = v]

\* The adapter after a player has moved.
LEMMA NetIsMoved ==
    ASSUME NEW kind, NEW n \in DecorNets(kind), NEW k, NEW here, NEW moved, NEW id, NEW v
    PROVE  NetMoved(n, k, here, moved, id, v)
              = [probe |-> [seq |-> n.probe.seq, ring |-> n.probe.ring, server |-> [n.probe.server EXCEPT ![id] = v],
                            here |-> here, moved |-> moved],
                 restart |-> n.restart, rpcs |-> k]
  <1>1. PICK p, t : p = n.probe /\ t = [p.server EXCEPT ![id] = v]
    OBVIOUS
  <1>2. ASSUME NEW x, NEW q PROVE [[probe |-> x, restart |-> n.restart, rpcs |-> k] EXCEPT !.probe = q]
                                     = [probe |-> q, restart |-> n.restart, rpcs |-> k]
    OBVIOUS
  <1>3. PICK p1, p2, p3 : /\ p1 = [p EXCEPT !.here = here] /\ p2 = [p1 EXCEPT !.moved = moved]
                          /\ p3 = [p2 EXCEPT !.server[id] = v]
    OBVIOUS
  <1>4. p1 = [seq |-> p.seq, ring |-> p.ring, server |-> p.server, here |-> here, moved |-> p.moved]
    <2>1. p \in DecorProbes(kind)
      BY <1>1, DecorNet
    <2> QED
      BY <1>3, <2>1, DecorProbe
  <1>5. p2 = [seq |-> p.seq, ring |-> p.ring, server |-> p.server, here |-> here, moved |-> moved]
    BY <1>3, <1>4
  <1>6. p3 = [p2 EXCEPT !.server = t]
    <2>1. p2.server = p.server
      BY <1>5
    <2> QED
      BY <1>1, <1>3, <2>1
  <1>7. p3 = [seq |-> p.seq, ring |-> p.ring, server |-> t, here |-> here, moved |-> moved]
    BY <1>5, <1>6
  <1>8. PICK n1 : n1 = [n EXCEPT !.rpcs = k]
    OBVIOUS
  <1>9. n1 = [probe |-> p, restart |-> n.restart, rpcs |-> k]
    BY <1>1, <1>8 DEF DecorNets
  <1>10. PICK n2 : n2 = [n1 EXCEPT !.probe.here = here]
    OBVIOUS
  <1>11. n2 = [probe |-> p1, restart |-> n.restart, rpcs |-> k] /\ n2.probe = p1
    BY <1>3, <1>9, <1>10
  <1>12. PICK n3 : n3 = [n2 EXCEPT !.probe.moved = moved]
    OBVIOUS
  <1>13. n3 = [probe |-> p2, restart |-> n.restart, rpcs |-> k] /\ n3.probe = p2
    BY <1>3, <1>11, <1>12
  <1>14. [n3 EXCEPT !.probe.server[id] = v] = [n3 EXCEPT !.probe = p3]
    BY <1>3, <1>13
  <1>15. [n3 EXCEPT !.probe.server[id] = v] = [probe |-> p3, restart |-> n.restart, rpcs |-> k]
    BY <1>2, <1>13, <1>14
  <1>16. NetMoved(n, k, here, moved, id, v) = [n3 EXCEPT !.probe.server[id] = v]
    BY <1>8, <1>10, <1>12 DEF NetMoved
  <1> QED
    BY <1>1, <1>7, <1>15, <1>16

\* A player's move takes all that is known of him, on both sides, but what waits.
LEMMA MoveIsCaught ==
    ASSUME NEW kind \in Dec!Kinds, NEW p \in DecorProbes(kind), DecorRings(p), NEW o \in SanePools(kind), NEW mark,
           Dec!CatchesUp(p, mark, KnownOf(kind, o, p.moved)), NEW id \in Ids, NEW v \in Dec!Views,
           ~Dec!Gap(p.ring, mark) => Dec!Right(ViewReplayed(p.ring, mark, Dec!Untold, id), v), NEW q,
           q.ring = p.ring, q.server = [p.server EXCEPT ![id] = v], NEW moved, moved = p.moved \cup {id}
    PROVE  Dec!CatchesUp(q, mark, KnownOf(kind, o, moved))
  <1>1. PICK k, l : k = KnownOf(kind, o, p.moved) /\ l = KnownOf(kind, o, moved)
    OBVIOUS
  <1>2. SUFFICES ASSUME ~Dec!Gap(q.ring, mark), NEW i \in Ids
                 PROVE  Dec!Right(Dec!After(q, mark, l[i], i), q.server[i])
    BY <1>1 DEF Dec!CatchesUp
  <1>3. Dec!Right(Dec!After(p, mark, k[i], i), p.server[i])
    BY <1>1, <1>2 DEF Dec!CatchesUp
  <1>4. \A x : Dec!After(q, mark, x, i) = Dec!After(p, mark, x, i)
    BY AfterIs
  <1>5. p.server \in [Ids -> Dec!Views] /\ Len(p.ring) \in Nat
    BY DecorProbe, DecorRingOk
  <1>6. CASE i # id
    <2>1. q.server[i] = p.server[i]
      BY <1>5, <1>6
    <2>2. l[i] = k[i]
      BY <1>1, <1>6, KnownOfIs
    <2> QED
      BY <1>3, <1>4, <2>1, <2>2
  <1>7. CASE i = id
    <2>1. q.server[i] = v
      BY <1>5, <1>7
    <2>2. l[i] = Dec!Untold
      BY <1>1, <1>7, KnownOfIs
    <2>3. Dec!After(q, mark, l[i], i) = ViewReplayed(p.ring, mark, Dec!Untold, id)
      BY <1>4, <1>7, <2>2, AfterIs
    <2> QED
      BY <1>2, <2>1, <2>3
  <1> QED
    BY <1>6, <1>7

\* A player enters or leaves.
LEMMA DecorMoves ==
    ASSUME NEW n, NEW w, NEW c, NEW s, DecorHas(n, w, c, s), n.rpcs < MaxDecor, w.kind = "attached",
           NEW id \in Ids, NEW here \in SUBSET Ids, NEW v \in Dec!Views, NEW mark, mark = DecorPool(n, w).mark,
           ~Dec!Gap(n.probe.ring, mark) => Dec!Right(ViewReplayed(n.probe.ring, mark, Dec!Untold, id), v), NEW q,
           q = [seq |-> n.probe.seq, ring |-> n.probe.ring, server |-> [n.probe.server EXCEPT ![id] = v],
                here |-> here, moved |-> n.probe.moved \cup {id}],
           NEW m, m = [probe |-> q, restart |-> n.restart, rpcs |-> n.rpcs + 1]
    PROVE  DecorHas(m, w, "pump", s)
  <1>1. /\ DecorTypes(n, w, c, s) /\ DecorRings(n.probe) /\ DecorCounts(n, w, c)
        /\ Dec!Sane(w.kind, w.pool) /\ DecorCatches(n, w)
    BY DEF DecorHas
  <1>2. PICK kind, p, seq, t, moved : /\ kind = w.kind /\ p = n.probe /\ seq = p.seq
                                      /\ t = [p.server EXCEPT ![id] = v] /\ moved = p.moved \cup {id}
    OBVIOUS
  <1>3. n \in DecorNets(kind) /\ w \in DecorOwns /\ s \in {"none", "spawned"} /\ kind \in Dec!Kinds
    BY <1>1, <1>2, DecorOwn DEF DecorTypes
  <1>4. p \in DecorProbes(kind) /\ n.restart \in Nat /\ n.rpcs \in Nat /\ DecorRings(p)
    BY <1>1, <1>2, <1>3, DecorNet
  <1>5. /\ seq \in Nat /\ p.ring \in Seq(Dec!Events(kind)) /\ p.server \in [Ids -> Dec!Views]
        /\ p.moved \subseteq Ids
    BY <1>2, <1>4, DecorProbe
  <1>6. t \in [Ids -> Dec!Views] /\ moved \in SUBSET Ids
    BY <1>2, <1>5
  <1>7. q = [seq |-> seq, ring |-> p.ring, server |-> t, here |-> here, moved |-> moved]
    BY <1>2
  <1>8. q.seq = seq /\ q.ring = p.ring /\ q.server = t /\ q.moved = moved
    BY <1>7
  <1>9. q \in DecorProbes(kind)
    <2>1. PICK r : r = p.ring
      OBVIOUS
    <2>2. r \in Seq(Dec!Events(kind))
      BY <1>5, <2>1
    <2>3. [seq |-> seq, ring |-> r, server |-> t, here |-> here, moved |-> moved] \in DecorProbes(kind)
      BY <1>5, <1>6, <2>2, ProbeMade
    <2> QED
      BY <1>7, <2>1, <2>3
  <1>10. m.probe = q /\ m.restart = n.restart /\ m.rpcs = n.rpcs + 1
    OBVIOUS
  <1>11. DecorTypes(m, w, "pump", s)
    <2>1. PICK k \in Nat : k = n.rpcs + 1
      BY <1>4
    <2>2. m = [probe |-> q, restart |-> n.restart, rpcs |-> k]
      BY <2>1
    <2>3. m \in DecorNets(kind)
      BY <1>4, <1>9, <2>2 DEF DecorNets
    <2> QED
      BY <1>2, <1>3, <2>3 DEF DecorTypes
  <1>12. DecorRings(q)
    BY <1>2, <1>4, <1>8 DEF DecorRings
  <1>13. DecorCounts(m, w, "pump")
    <2>1. w.pool.mark \in Nat /\ MaxDecor \in Nat
      BY <1>3, DecorOwn, PoolFields, PoolsAssumption
    <2>2. n.probe.seq = seq
      BY <1>2
    <2> QED
      BY <1>1, <1>4, <1>5, <1>8, <1>10, <2>1, <2>2 DEF DecorCounts
  <1>14. DecorCleared(w, "pump")
    BY DEF DecorCleared
  <1>15. DecorCatches(m, w)
    <2>1. PICK o : o = DecorPool(n, w) /\ mark = o.mark
      OBVIOUS
    <2>2. o = DecorPool(m, w)
      BY <1>10, <2>1 DEF DecorPool
    <2>3. o \in SanePools(kind)
      BY <1>2, <2>1, DecorPoolIs
    <2>4. SUFFICES ASSUME w.gap => n.restart # w.handled
                   PROVE  Dec!CatchesUp(q, mark, KnownOf(kind, o, moved))
      BY <1>2, <1>8, <1>10, <2>1, <2>2 DEF DecorCatches
    <2>5. Dec!CatchesUp(p, mark, KnownOf(kind, o, p.moved))
      BY <1>1, <1>2, <2>1, <2>4 DEF DecorCatches
    <2>6. ~Dec!Gap(p.ring, mark) => Dec!Right(ViewReplayed(p.ring, mark, Dec!Untold, id), v)
      BY <1>2
    <2>7. q.ring = p.ring /\ q.server = [p.server EXCEPT ![id] = v] /\ moved = p.moved \cup {id}
      BY <1>2, <1>8
    <2> QED
      BY <1>3, <1>4, <2>3, <2>5, <2>6, <2>7, MoveIsCaught
  <1> QED
    BY <1>1, <1>10, <1>11, <1>12, <1>13, <1>14, <1>15 DEF DecorHas

\* What of x is newer than the mark.
SinceOf(x, mark) == IF x.seq > mark THEN x ELSE Dec!Untold

\* It is a view, and so new.
LEMMA SinceIs ==
    ASSUME NEW x \in Dec!Views, NEW mark \in Nat
    PROVE  /\ SinceOf(x, mark) \in Dec!Views /\ SinceOf(SinceOf(x, mark), mark) = SinceOf(x, mark)
           /\ SinceOf(Dec!Untold, mark) = Dec!Untold
           /\ SinceOf(x, mark).seq = x.seq \/ SinceOf(x, mark).seq = 0
           /\ SinceOf(x, mark) = x \/ SinceOf(x, mark) = Dec!Untold
  <1>1. PICK u : u = Dec!Untold
    OBVIOUS
  <1>2. u \in Dec!Views /\ u.seq = 0
    BY <1>1, UntoldIs
  <1> QED
    BY <1>1, <1>2 DEF SinceOf

\* The mark of the bridge is that of its pool.
LEMMA MarkOf ==
    ASSUME NEW n, NEW w, NEW c, NEW s, DecorHas(n, w, c, s), NEW mark,
           mark = IF n.restart = w.handled THEN w.pool.mark ELSE 0
    PROVE  mark = DecorPool(n, w).mark /\ mark \in Nat /\ mark =< n.probe.seq
  <1>1. PICK o : o = DecorPool(n, w)
    OBVIOUS
  <1>2. o.mark \in Nat /\ o.mark =< n.probe.seq
    BY <1>1, DecorPoolIs
  <1>3. CASE w.handled = n.restart
    <2>1. o = w.pool
      BY <1>1, <1>3, DecorPoolIs
    <2> QED
      BY <1>1, <1>2, <1>3, <2>1
  <1>4. CASE w.handled # n.restart
    <2>1. o.mark = 0
      BY <1>1, <1>4, DecorPoolIs
    <2> QED
      BY <1>1, <1>2, <1>4, <2>1
  <1> QED
    BY <1>3, <1>4

\* So it is,
LEMMA MarkIs ==
    ASSUME Dec!DecorInv
    PROVE  /\ Dec!Mark = DecorPool(net, own).mark /\ Dec!Mark \in Nat /\ Dec!Mark =< net.probe.seq
           /\ \A i \in Ids : Dec!Since(i) = SinceOf(net.probe.server[i], Dec!Mark)
  <1>1. DecorHas(net, own, pc, scene)
    BY DecorHasIs
  <1>2. /\ Dec!Mark = DecorPool(net, own).mark /\ Dec!Mark \in Nat /\ Dec!Mark =< net.probe.seq
    BY <1>1, MarkOf DEF Dec!Mark
  <1> QED
    BY <1>2 DEF Dec!Since, Dec!Server, SinceOf

\* and so it will be.
LEMMA MarkWill ==
    ASSUME Dec!DecorInv'
    PROVE  Dec!Mark' \in Nat
  <1>1. DecorHas(net', own', pc', scene')
    BY DecorWillHave
  <1> QED
    BY <1>1, MarkOf DEF Dec!Mark

\* What a move makes of the adapter.
LEMMA MovesIs ==
    ASSUME NEW id, NEW here, Dec!Moves(id, here)
    PROVE  net' = NetMoved(net, net.rpcs + 1, here, net.probe.moved \cup {id}, id, Dec!Since(id))
  BY DEF Dec!Moves, NetMoved

\* Decor!Moves preserves the invariant,
LEMMA DecorMove ==
    ASSUME Dec!DecorInv, Dec!Survives, Dec!Receives("attached"), NEW id \in Ids, NEW here \in SUBSET Ids,
           Dec!Moves(id, here)
    PROVE  Dec!DecorInv'
  <1>1. DecorHas(net, own, pc, scene)
    BY DecorHasIs
  <1>2. own.kind = "attached" /\ net.rpcs < MaxDecor
    BY DEF Dec!Receives
  <1>3. PICK n, w, p : n = net /\ w = own /\ p = net.probe
    OBVIOUS
  <1>4. n \in DecorNets("attached") /\ w \in DecorOwns /\ p \in DecorProbes("attached")
    BY <1>1, <1>2, <1>3, DecorNet DEF DecorHas, DecorTypes
  <1>5. PICK mark : mark = Dec!Mark
    OBVIOUS
  <1>6. /\ mark = DecorPool(n, w).mark /\ mark \in Nat /\ Dec!Since(id) = SinceOf(p.server[id], mark)
        /\ p.server[id] \in Dec!Views
    BY <1>3, <1>4, <1>5, MarkIs, DecorProbe
  <1>7. PICK v : v = Dec!Since(id)
    OBVIOUS
  <1>8. v \in Dec!Views
    BY <1>6, <1>7, SinceIs
  <1>9. PICK q, t, moved : /\ t = [p.server EXCEPT ![id] = v] /\ moved = p.moved \cup {id}
                           /\ q = [seq |-> p.seq, ring |-> p.ring, server |-> t, here |-> here, moved |-> moved]
    OBVIOUS
  <1>10. net' = NetMoved(n, n.rpcs + 1, here, moved, id, v)
    BY <1>3, <1>7, <1>9, MovesIs
  <1>11. PICK m : m = net'
    OBVIOUS
  <1>12. m = [probe |-> q, restart |-> n.restart, rpcs |-> n.rpcs + 1]
    <2>1. PICK k : k = n.rpcs + 1
      OBVIOUS
    <2>2. NetMoved(n, k, here, moved, id, v)
            = [probe |-> [seq |-> n.probe.seq, ring |-> n.probe.ring, server |-> [n.probe.server EXCEPT ![id] = v],
                          here |-> here, moved |-> moved],
               restart |-> n.restart, rpcs |-> k]
      BY <1>4, NetIsMoved
    <2> QED
      BY <1>3, <1>9, <1>10, <1>11, <2>1, <2>2
  <1>13. ~Dec!Gap(n.probe.ring, mark) => Dec!Right(ViewReplayed(n.probe.ring, mark, Dec!Untold, id), v)
    <2>1. ~Dec!Gap(net.probe.ring, Dec!Mark) => Dec!Right(Dec!After(net.probe, Dec!Mark, Dec!Untold, id), Dec!Since(id))
      BY DEF Dec!Survives
    <2>2. Dec!After(p, mark, Dec!Untold, id) = ViewReplayed(p.ring, mark, Dec!Untold, id)
      BY AfterIs
    <2> QED
      BY <1>3, <1>5, <1>7, <2>1, <2>2
  <1>14. pc' = "pump" /\ own' = w /\ scene' = scene
    BY <1>3 DEF Dec!Moves
  <1>15. DecorHas(m, w, "pump", scene)
    <2>1. DecorHas(n, w, pc, scene) /\ n.rpcs < MaxDecor /\ w.kind = "attached"
      BY <1>1, <1>2, <1>3
    <2>2. q = [seq |-> n.probe.seq, ring |-> n.probe.ring, server |-> [n.probe.server EXCEPT ![id] = v],
               here |-> here, moved |-> n.probe.moved \cup {id}]
      BY <1>3, <1>9
    <2> QED
      BY <1>6, <1>8, <1>12, <1>13, <2>1, <2>2, DecorMoves
  <1> QED
    BY <1>11, <1>14, <1>15, DecorWillHave

\* so that OnEnter does,
LEMMA DecorEnter ==
    ASSUME Dec!DecorInv, Dec!Survives, Dec!OnEnter
    PROVE  Dec!DecorInv'
  <1>1. PICK id \in Ids : Dec!Moves(id, net.probe.here \cup {id})
    BY DEF Dec!OnEnter
  <1>2. PICK here : here = net.probe.here \cup {id}
    OBVIOUS
  <1>3. here \in SUBSET Ids
    BY <1>2, DecorFinds
  <1>4. Dec!Receives("attached") /\ Dec!Moves(id, here)
    BY <1>1, <1>2 DEF Dec!OnEnter
  <1> QED
    BY <1>3, <1>4, DecorMove

\* and OnLeave.
LEMMA DecorLeave ==
    ASSUME Dec!DecorInv, Dec!Survives, Dec!OnLeave
    PROVE  Dec!DecorInv'
  <1>1. PICK id \in net.probe.here : Dec!Moves(id, net.probe.here \ {id})
    BY DEF Dec!OnLeave
  <1>2. PICK here : here = net.probe.here \ {id}
    OBVIOUS
  <1>5. net.probe.here \subseteq Ids
    <2>1. net \in DecorNets(own.kind)
      BY DecorHasIs DEF DecorHas, DecorTypes
    <2> QED
      BY <2>1, DecorNet, DecorProbe
  <1>3. here \in SUBSET Ids /\ id \in Ids
    BY <1>2, <1>5
  <1>4. Dec!Receives("attached") /\ Dec!Moves(id, here)
    BY <1>1, <1>2 DEF Dec!OnLeave
  <1> QED
    BY <1>3, <1>4, DecorMove

\* What is seen of a slot is its numbers.
LEMMA SeenSays ==
    ASSUME NEW kind, NEW o, NEW i
    PROVE  /\ Dec!Seen(kind, o, i).seq = o.slots[i].seq /\ Dec!Seen(kind, o, i).shows = o.slots[i].shows
           /\ Dec!Seen(kind, o, i).excused = Dec!Excused(kind, o, i)
  BY DEF Dec!Seen

\* The snapshot of a new session.
LEMMA ResetIs ==
    ASSUME NEW kind, NEW p, p = Dec!ResetProbe
    PROVE  /\ p \in DecorProbes(kind) /\ DecorRings(p) /\ p.seq = 0 /\ p.moved = {}
           /\ \A i \in Ids : p.server[i] = Dec!Untold
  <1>1. PICK t : t = [i \in Ids |-> Dec!Untold]
    OBVIOUS
  <1>2. p = [seq |-> 0, ring |-> <<>>, server |-> t, here |-> {}, moved |-> {}]
    BY <1>1 DEF Dec!ResetProbe
  <1>3. t \in [Ids -> Dec!Views] /\ \A i \in Ids : t[i] = Dec!Untold
    BY <1>1, UntoldIs
  <1>4. p \in DecorProbes(kind)
    <2>1. PICK z, r, h : z = 0 /\ r = <<>> /\ h = {}
      OBVIOUS
    <2>2. z \in Nat /\ r \in Seq(Dec!Events(kind)) /\ h \in SUBSET Ids
      BY <2>1
    <2>3. p = [seq |-> z, ring |-> r, server |-> t, here |-> h, moved |-> h]
      BY <1>2, <2>1
    <2> QED
      BY <1>3, <2>2, <2>3, ProbeMade
  <1>5. p.seq = 0 /\ p.ring = <<>> /\ p.server = t /\ p.moved = {}
    BY <1>2
  <1>6. DecorRings(p)
    BY <1>5, PoolsAssumption DEF DecorRings
  <1> QED
    BY <1>3, <1>4, <1>5, <1>6

\* A session starts again.
LEMMA DecorStarts ==
    ASSUME NEW n, NEW w, NEW c, NEW s, DecorHas(n, w, c, s), n.restart < MaxRestarts, NEW q, q = Dec!ResetProbe,
           NEW m, m = [probe |-> q, restart |-> n.restart + 1, rpcs |-> n.rpcs]
    PROVE  DecorHas(m, w, "pump", s)
  <1>1. DecorTypes(n, w, c, s) /\ DecorCounts(n, w, c) /\ Dec!Sane(w.kind, w.pool)
    BY DEF DecorHas
  <1>2. PICK kind : kind = w.kind
    OBVIOUS
  <1>3. n \in DecorNets(kind) /\ w \in DecorOwns /\ s \in {"none", "spawned"} /\ kind \in Dec!Kinds
    BY <1>1, <1>2, DecorOwn DEF DecorTypes
  <1>4. n.restart \in Nat /\ n.rpcs \in Nat /\ w.handled \in Nat /\ w.pool \in Dec!Pools
    BY <1>3, DecorNet, DecorOwn
  <1>5. q \in DecorProbes(kind) /\ DecorRings(q) /\ q.seq = 0 /\ q.moved = {} /\ \A i \in Ids : q.server[i] = Dec!Untold
    BY ResetIs
  <1>6. m.probe = q /\ m.restart = n.restart + 1 /\ m.rpcs = n.rpcs
    OBVIOUS
  <1>7. DecorTypes(m, w, "pump", s)
    <2>1. PICK k \in Nat : k = n.restart + 1
      BY <1>4
    <2>2. m = [probe |-> q, restart |-> k, rpcs |-> n.rpcs]
      BY <2>1
    <2>3. m \in DecorNets(kind)
      BY <1>4, <1>5, <2>1, <2>2 DEF DecorNets
    <2> QED
      BY <1>2, <1>3, <2>3 DEF DecorTypes
  <1>8. w.handled < m.restart
    BY <1>1, <1>4, <1>6 DEF DecorCounts
  <1>9. DecorCounts(m, w, "pump")
    <2>1. MaxRestarts \in Nat /\ MaxDecor \in Nat
      BY PoolsAssumption
    <2> QED
      BY <1>1, <1>4, <1>5, <1>6, <1>8, <2>1 DEF DecorCounts
  <1>10. DecorCleared(w, "pump")
    BY DEF DecorCleared
  <1>11. DecorCatches(m, w)
    <2>1. PICK o, known : o = DecorPool(m, w) /\ known = KnownOf(kind, o, q.moved)
      OBVIOUS
    <2>2. o = Dec!FreshPool(w.pool.standing)
      <3>1. m.restart # w.handled
        BY <1>4, <1>6, <1>8
      <3> QED
        BY <2>1, <3>1 DEF DecorPool, Dec!ResetPool
    <2>3. o \in SanePools(kind) /\ o.mark = 0 /\ \A i \in Ids : o.slots[i] = Dec!NoSlot
      BY <1>4, <2>2, PoolFields, FreshIs
    <2>4. ASSUME NEW i \in Ids PROVE Dec!Right(known[i], q.server[i])
      <3>1. known[i] = Dec!Seen(kind, o, i)
        BY <1>5, <2>1, <2>3, KnownOfIs
      <3>2. known[i].seq = 0 /\ known[i].shows = 0
        BY <2>3, <3>1, SeenSays, NoDecor
      <3>3. q.server[i].seq = 0 /\ q.server[i].shows = 0
        BY <1>5, UntoldIs
      <3> QED
        BY <3>2, <3>3 DEF Dec!Right
    <2>5. Dec!CatchesUp(q, q.seq, known)
      BY <1>5, <2>4, DecorIsCaughtUp
    <2> QED
      BY <1>2, <1>5, <1>6, <2>1, <2>3, <2>5 DEF DecorCatches
  <1> QED
    BY <1>1, <1>5, <1>6, <1>7, <1>9, <1>10, <1>11 DEF DecorHas

\* Decor!OnRestart preserves the invariant.
LEMMA DecorRestart ==
    ASSUME Dec!DecorInv, Dec!OnRestart
    PROVE  Dec!DecorInv'
  <1>1. DecorHas(net, own, pc, scene)
    BY DecorHasIs
  <1>2. PICK n, w, q : n = net /\ w = own /\ q = Dec!ResetProbe
    OBVIOUS
  <1>3. n \in DecorNets(w.kind)
    BY <1>1, <1>2 DEF DecorHas, DecorTypes
  <1>4. PICK m : m = net'
    OBVIOUS
  <1>5. m = [n EXCEPT !.probe = q, !.restart = n.restart + 1]
    BY <1>2, <1>4 DEF Dec!OnRestart
  <1>6. m = [probe |-> q, restart |-> n.restart + 1, rpcs |-> n.rpcs]
    <2>1. PICK k : k = n.restart + 1
      OBVIOUS
    <2>2. PICK x, y, z : x = n.probe /\ y = n.rpcs /\ z = n.restart
      OBVIOUS
    <2>3. n = [probe |-> x, restart |-> z, rpcs |-> y]
      BY <1>3, <2>2, DecorNet
    <2>4. PICK l : l = [n EXCEPT !.probe = q]
      OBVIOUS
    <2>5. l = [probe |-> q, restart |-> z, rpcs |-> y]
      BY <2>3, <2>4
    <2>6. m = [l EXCEPT !.restart = k]
      BY <1>5, <2>1, <2>4
    <2>7. m = [probe |-> q, restart |-> k, rpcs |-> y]
      BY <2>5, <2>6
    <2> QED
      BY <2>1, <2>2, <2>7
  <1>7. n.restart < MaxRestarts /\ pc' = "pump" /\ own' = w /\ scene' = scene
    BY <1>2 DEF Dec!OnRestart
  <1>8. DecorHas(m, w, "pump", scene)
    <2>1. DecorHas(n, w, pc, scene)
      BY <1>1, <1>2
    <2> QED
      BY <1>2, <1>6, <1>7, <2>1, DecorStarts
  <1> QED
    BY <1>4, <1>7, <1>8, DecorWillHave

-----------------------------------------------------------------------------
(* The overlay, GTA and the scene. *)

\* The scene is another.
LEMMA DecorScene ==
    ASSUME NEW n, NEW w, NEW c, NEW s, DecorHas(n, w, c, s), NEW u \in {"none", "spawned"}
    PROVE  DecorHas(n, w, c, u)
  BY DEF DecorHas, DecorTypes

\* Nothing happens.
LEMMA DecorIdle ==
    ASSUME Dec!DecorInv, UNCHANGED <<net, own, pc>>, scene' = scene \/ scene' = "spawned"
    PROVE  Dec!DecorInv'
  <1>1. DecorHas(net, own, pc, scene)
    BY DecorHasIs
  <1>2. scene' \in {"none", "spawned"}
    BY <1>1 DEF DecorHas, DecorTypes
  <1>3. DecorHas(net', own', pc', scene)
    BY <1>1
  <1>4. DecorHas(net', own', pc', scene')
    BY <1>2, <1>3, DecorScene
  <1> QED
    BY <1>4, DecorWillHave

\* The pool is another: it is as sane, and what is seen of its slots is the same.
Alike(kind, o, d) ==
    /\ d \in SanePools(kind) /\ d.mark = o.mark
    /\ \A i \in Ids : Dec!Seen(kind, d, i) = Dec!Seen(kind, o, i)

\* In such a step the invariant holds as long as no session is new, or the pool is fresh as before.
LEMMA PoolIsAlike ==
    ASSUME NEW n, NEW w, NEW c, NEW s, DecorHas(n, w, c, s), NEW d, Alike(w.kind, w.pool, d),
           NEW u, u = [kind |-> w.kind, pool |-> d, handled |-> w.handled, gap |-> w.gap],
           NEW t \in {"pump", "drawn"}, t = "pump" \/ (c = t /\ w.kind # "building")
    PROVE  DecorHas(n, u, t, s)
  <1>1. DecorTypes(n, w, c, s) /\ DecorRings(n.probe) /\ DecorCounts(n, w, c) /\ DecorCatches(n, w)
    BY DEF DecorHas
  <1>2. PICK kind, o : kind = w.kind /\ o = w.pool
    OBVIOUS
  <1>3. n \in DecorNets(kind) /\ w \in DecorOwns /\ s \in {"none", "spawned"}
    BY <1>1, <1>2 DEF DecorTypes
  <1>4. kind \in Dec!Kinds /\ o \in Dec!Pools /\ w.handled \in Nat /\ w.gap \in BOOLEAN
    BY <1>2, <1>3, DecorOwn
  <1>5. /\ d \in SanePools(kind) /\ d \in Dec!Pools /\ Dec!Sane(kind, d) /\ d.mark = o.mark
        /\ \A i \in Ids : Dec!Seen(kind, d, i) = Dec!Seen(kind, o, i)
    BY <1>2 DEF Alike, SanePools
  <1>6. u.kind = kind /\ u.pool = d /\ u.handled = w.handled /\ u.gap = w.gap
    BY <1>2
  <1>7. u \in DecorOwns
    <2>1. PICK h, g : h = w.handled /\ g = w.gap
      OBVIOUS
    <2>2. u = [kind |-> kind, pool |-> d, handled |-> h, gap |-> g]
      BY <1>2, <2>1
    <2>3. h \in Nat /\ g \in BOOLEAN
      BY <1>4, <2>1
    <2> QED
      BY <1>4, <1>5, <2>2, <2>3 DEF DecorOwns
  <1>8. DecorTypes(n, u, t, s)
    BY <1>3, <1>6, <1>7 DEF DecorTypes
  <1>9. DecorCounts(n, u, t)
    BY <1>1, <1>2, <1>5, <1>6 DEF DecorCounts
  <1>10. DecorCleared(u, t)
    BY <1>2, <1>6 DEF DecorCleared
  <1>11. DecorCatches(n, u)
    <2>1. PICK a, b, moved : a = DecorPool(n, w) /\ b = DecorPool(n, u) /\ moved = n.probe.moved
      OBVIOUS
    <2>2. SUFFICES ASSUME w.gap => n.restart # w.handled
                   PROVE  Dec!CatchesUp(n.probe, b.mark, KnownOf(kind, b, moved))
      BY <1>6, <2>1 DEF DecorCatches
    <2>3. Dec!CatchesUp(n.probe, a.mark, KnownOf(kind, a, moved))
      BY <1>1, <1>2, <2>1, <2>2 DEF DecorCatches
    <2>4. b.mark = a.mark /\ \A i \in Ids : Dec!Seen(kind, b, i) = Dec!Seen(kind, a, i)
      <3>1. CASE n.restart = w.handled
        <4>1. a = o /\ b = d
          BY <1>2, <1>6, <2>1, <3>1 DEF DecorPool
        <4> QED
          BY <1>5, <4>1
      <3>2. CASE n.restart # w.handled
        <4>1. a = Dec!FreshPool(o.standing) /\ b = Dec!FreshPool(d.standing)
          BY <1>2, <1>6, <2>1, <3>2 DEF DecorPool, Dec!ResetPool
        <4>2. o.standing \subseteq Ids /\ d.standing \subseteq Ids
          BY <1>4, <1>5, PoolFields
        <4>3. a.mark = 0 /\ b.mark = 0
          BY <4>1, <4>2, FreshIs
        <4>4. /\ a.slots = [i \in Ids |-> Dec!NoSlot] /\ a.refused = {} /\ a.records = {}
              /\ b.slots = [i \in Ids |-> Dec!NoSlot] /\ b.refused = {} /\ b.records = {}
          BY <4>1 DEF Dec!FreshPool
        <4>5. \A i \in Ids : Dec!Seen(kind, b, i) = Dec!Seen(kind, a, i)
          BY <4>4 DEF Dec!Seen, Dec!Excused
        <4> QED
          BY <4>3, <4>5
      <3> QED
        BY <3>1, <3>2
    <2>5. KnownOf(kind, b, moved) = KnownOf(kind, a, moved)
      BY <2>4 DEF KnownOf
    <2> QED
      BY <2>3, <2>4, <2>5
  <1> QED
    BY <1>1, <1>2, <1>5, <1>6, <1>8, <1>9, <1>10, <1>11 DEF DecorHas

\* The bridge with another pool.
LEMMA OwnIsSet ==
    ASSUME NEW w \in DecorOwns, NEW d, NEW v, v = [w EXCEPT !.pool = d]
    PROVE  v = [kind |-> w.kind, pool |-> d, handled |-> w.handled, gap |-> w.gap]
  <1>1. PICK k, h, g, o : k = w.kind /\ h = w.handled /\ g = w.gap /\ o = w.pool
    OBVIOUS
  <1>2. w = [kind |-> k, pool |-> o, handled |-> h, gap |-> g]
    BY <1>1, DecorOwn
  <1>3. v = [kind |-> k, pool |-> d, handled |-> h, gap |-> g]
    BY <1>2
  <1> QED
    BY <1>1, <1>3

\* A slot that shows nothing any more.
LEMMA ActiveIsSet ==
    ASSUME NEW u \in Dec!Slots, NEW b, NEW s, s = [u EXCEPT !.active = b]
    PROVE  s = [active |-> b, seq |-> u.seq, shows |-> u.shows, pending |-> u.pending, gta |-> u.gta]
  BY DEF Dec!Slots

\* A bubble's time is over.
LEMMA BubbleEnds ==
    ASSUME NEW o \in SanePools("bubble"), NEW id \in Ids, o.slots[id].active, NEW d,
           d = TextSet(o, id, o.active - 1, [o.slots[id] EXCEPT !.active = FALSE])
    PROVE  Alike("bubble", o, d)
  <1>1. PICK u, s, a : u = o.slots[id] /\ s = [u EXCEPT !.active = FALSE] /\ a = o.active - 1
    OBVIOUS
  <1>2. /\ o \in Dec!Pools /\ o.active \in Int /\ u \in Dec!Slots /\ u.gta = 0 /\ u.active
        /\ u.seq \in Nat /\ u.shows \in Nat /\ u.pending \in BOOLEAN
    BY <1>1, RecordsFit, PoolFields, SlotIs, DecorSlot
  <1>3. s = [active |-> FALSE, seq |-> u.seq, shows |-> u.shows, pending |-> u.pending, gta |-> u.gta]
    BY <1>1, <1>2, ActiveIsSet
  <1>4. s \in Dec!Slots /\ s.active = FALSE /\ s.seq = u.seq /\ s.shows = u.shows /\ s.gta = 0
    BY <1>2, <1>3 DEF Dec!Slots
  <1>5. a \in Int /\ CountsFit("bubble", o, id, s, a, o.pending)
    <2>1. PICK was, is : was = Bit(o.slots[id].active) /\ is = Bit(s.active)
      OBVIOUS
    <2>2. was = 1 /\ is = 0
      BY <1>4, <2>1 DEF Bit
    <2>3. a \in Int /\ a = o.active + is - was
      BY <1>1, <1>2, <2>2
    <2> QED
      BY <2>1, <2>3, ActiveCounts DEF Texts
  <1>6. DecorFits("bubble", o, id, s)
    BY <1>4 DEF DecorFits
  <1>7. Changed("bubble", o, d, id, s)
    <2>1. d = TextSet(o, id, a, s) /\ "bubble" \in Texts
      BY <1>1 DEF Texts
    <2> QED
      BY <1>4, <1>5, <1>6, <2>1, TextChanges
  <1>8. d.mark = o.mark
    BY <1>2 DEF TextSet, Dec!Pools
  <1>9. ASSUME NEW i \in Ids PROVE Dec!Seen("bubble", d, i) = Dec!Seen("bubble", o, i)
    <2>1. d.slots[i].seq = o.slots[i].seq /\ d.slots[i].shows = o.slots[i].shows
      BY <1>1, <1>4, <1>7 DEF Changed, DecorOthers
    <2>2. Dec!Excused("bubble", d, i) = Dec!Excused("bubble", o, i)
      BY DEF Dec!Excused
    <2> QED
      BY <2>1, <2>2 DEF Dec!Seen
  <1> QED
    BY <1>7, <1>8, <1>9 DEF Alike, Changed

\* Decor!DrawBubbles preserves the invariant.
LEMMA DecorDraws ==
    ASSUME Dec!DecorInv, Dec!DrawBubbles
    PROVE  Dec!DecorInv'
  <1>1. DecorHas(net, own, pc, scene)
    BY DecorHasIs
  <1>2. own.kind = "bubble" /\ pc = "drawn" /\ net' = net /\ scene' = scene /\ pc' = pc
    BY DEF Dec!DrawBubbles
  <1>3. PICK id \in Ids : /\ own.pool.slots[id].active
                          /\ own' = [own EXCEPT !.pool.slots[id].active = FALSE, !.pool.active = own.pool.active - 1]
    BY DEF Dec!DrawBubbles
  <1>4. PICK w, o, u, s, a, y, d : /\ w = own /\ o = w.pool /\ u = o.slots[id] /\ s = [u EXCEPT !.active = FALSE]
                                   /\ a = o.active - 1 /\ y = [o.slots EXCEPT ![id] = s]
                                   /\ d = TextSet(o, id, a, s)
    OBVIOUS
  <1>5. w \in DecorOwns /\ o \in SanePools("bubble") /\ w.kind = "bubble"
    BY <1>1, <1>2, <1>4, DecorOwn DEF DecorHas, DecorTypes, SanePools
  <1>6. o \in Dec!Pools
    BY <1>5, RecordsFit
  <1>7. own' = [w EXCEPT !.pool = d]
    <2>1. PICK x : x = [w EXCEPT !.pool.slots[id].active = FALSE]
      OBVIOUS
    <2>2. PICK z : z = [o EXCEPT !.slots = y]
      OBVIOUS
    <2>3. x = [w EXCEPT !.pool = z]
      BY <1>4, <2>1, <2>2
    <2>4. x = [kind |-> w.kind, pool |-> z, handled |-> w.handled, gap |-> w.gap]
      BY <1>5, <2>3, OwnIsSet
    <2>5. own' = [x EXCEPT !.pool.active = a]
      BY <1>3, <1>4, <2>1
    <2>6. PICK v : v = [z EXCEPT !.active = a]
      OBVIOUS
    <2>7. own' = [kind |-> w.kind, pool |-> v, handled |-> w.handled, gap |-> w.gap]
      BY <2>4, <2>5, <2>6
    <2>8. z = [mark |-> o.mark, slots |-> y, active |-> o.active, pending |-> o.pending, gta |-> o.gta,
               refused |-> o.refused, peds |-> o.peds, records |-> o.records, standing |-> o.standing, scan |-> o.scan]
      BY <1>6, <2>2 DEF Dec!Pools
    <2>9. v = [mark |-> o.mark, slots |-> y, active |-> a, pending |-> o.pending, gta |-> o.gta,
               refused |-> o.refused, peds |-> o.peds, records |-> o.records, standing |-> o.standing, scan |-> o.scan]
      BY <2>6, <2>8
    <2>10. d = v
      <3>2. d = TextSet(o, id, a, s)
        BY <1>4
      <3>1. d = Put(o, id, s, o.gta, a, o.pending, o.refused, o.records, o.standing)
        BY <1>6, <3>2, TextPut DEF TextSet
      <3> QED
        BY <1>4, <2>9, <3>1 DEF Put
    <2>11. [w EXCEPT !.pool = d] = [kind |-> w.kind, pool |-> d, handled |-> w.handled, gap |-> w.gap]
      BY <1>5, OwnIsSet
    <2> QED
      BY <2>7, <2>10, <2>11
  <1>8. Alike("bubble", o, d)
    BY <1>3, <1>4, <1>5, BubbleEnds
  <1>9. PICK v : v = own'
    OBVIOUS
  <1>10. v = [kind |-> w.kind, pool |-> d, handled |-> w.handled, gap |-> w.gap]
    BY <1>5, <1>7, <1>9, OwnIsSet
  <1>11. DecorHas(net, v, "drawn", scene)
    <2>1. DecorHas(net, w, "drawn", scene)
      BY <1>1, <1>2, <1>4
    <2>2. Alike(w.kind, w.pool, d)
      BY <1>4, <1>5, <1>8
    <2>3. "drawn" \in {"pump", "drawn"} /\ w.kind # "building"
      BY <1>5
    <2> QED
      BY <1>10, <2>1, <2>2, <2>3, PoolIsAlike
  <1>12. DecorHas(net', own', pc', scene')
    BY <1>2, <1>9, <1>11
  <1> QED
    BY <1>12, DecorWillHave

\* A building stands again.
LEMMA BuildingStands ==
    ASSUME NEW o \in SanePools("building"), NEW t, t \subseteq Ids, NEW d, d = [o EXCEPT !.standing = t]
    PROVE  Alike("building", o, d)
  <1>1. PICK r : r = o.records
    OBVIOUS
  <1>2. o \in Dec!Pools /\ r \subseteq Ids /\ Cardinality(r) =< MaxRecords
    BY <1>1, RecordsFit, PoolFields
  <1>3. d = [mark |-> o.mark, slots |-> o.slots, active |-> o.active, pending |-> o.pending, gta |-> o.gta,
             refused |-> o.refused, peds |-> o.peds, records |-> r, standing |-> t, scan |-> o.scan]
    BY <1>1, <1>2 DEF Dec!Pools
  <1>4. d = RecordsSet(o, r, t)
    <2>1. PICK x, y : x = [o EXCEPT !.records = r] /\ y = RecordsSet(o, r, t)
      OBVIOUS
    <2>2. x = o
      BY <1>1, <1>2, <2>1 DEF Dec!Pools
    <2>3. y = [x EXCEPT !.standing = t]
      BY <2>1 DEF RecordsSet
    <2> QED
      BY <2>1, <2>2, <2>3
  <1>5. d \in SanePools("building") /\ d.slots = o.slots /\ d.records = o.records
    BY <1>1, <1>2, <1>4, RecordsAreSet
  <1>6. d.mark = o.mark
    BY <1>3
  <1> QED
    BY <1>5, <1>6 DEF Alike, Dec!Seen, Dec!Excused

\* Decor!Streams preserves the invariant.
LEMMA DecorStreams ==
    ASSUME Dec!DecorInv, Dec!Streams
    PROVE  Dec!DecorInv'
  <1>1. DecorHas(net, own, pc, scene)
    BY DecorHasIs
  <1>2. own.kind = "building" /\ net' = net /\ scene' = scene /\ pc' = "pump"
    BY DEF Dec!Streams
  <1>3. PICK id \in Ids \ own.pool.standing : own' = [own EXCEPT !.pool.standing = own.pool.standing \cup {id}]
    BY DEF Dec!Streams
  <1>4. PICK w, o, t, d : w = own /\ o = w.pool /\ t = o.standing \cup {id} /\ d = [o EXCEPT !.standing = t]
    OBVIOUS
  <1>5. w \in DecorOwns /\ o \in SanePools("building") /\ w.kind = "building"
    BY <1>1, <1>2, <1>4, DecorOwn DEF DecorHas, DecorTypes, SanePools
  <1>6. t \subseteq Ids
    BY <1>4, <1>5, RecordsFit, PoolFields
  <1>7. own' = [w EXCEPT !.pool = d]
    BY <1>3, <1>4
  <1>8. Alike("building", o, d)
    BY <1>4, <1>5, <1>6, BuildingStands
  <1>9. PICK v : v = own'
    OBVIOUS
  <1>10. v = [kind |-> w.kind, pool |-> d, handled |-> w.handled, gap |-> w.gap]
    BY <1>5, <1>7, <1>9, OwnIsSet
  <1>11. DecorHas(net, v, "pump", scene)
    <2>1. DecorHas(net, w, pc, scene)
      BY <1>1, <1>4
    <2>2. Alike(w.kind, w.pool, d)
      BY <1>4, <1>5, <1>8
    <2>3. "pump" \in {"pump", "drawn"}
      OBVIOUS
    <2> QED
      BY <1>10, <2>1, <2>2, <2>3, PoolIsAlike
  <1>12. DecorHas(net', own', pc', scene')
    BY <1>2, <1>9, <1>11
  <1> QED
    BY <1>12, DecorWillHave

-----------------------------------------------------------------------------
(* Whole frames of the attached objects. *)

Rehung(o, w, g, a, n, peds) ==
    [mark |-> o.mark, slots |-> w, active |-> a, pending |-> n, gta |-> g, refused |-> o.refused, peds |-> peds,
     records |-> o.records, standing |-> o.standing, scan |-> o.scan]

HangsWell(w, g, peds, i) ==
    /\ w[i].gta # 0 => g[w[i].gta] = i /\ i \in peds
    /\ w[i].pending => w[i].gta = 0

\* A pool of attached objects with other slots, handles, counts and peds.
LEMMA PoolIsRehung ==
    ASSUME NEW o \in SanePools("attached"), NEW w \in [Ids -> Dec!Slots], NEW g \in [Handles -> Ids \cup {0}],
           NEW a \in Int, NEW n \in Int, NEW peds \in SUBSET Ids,
           \A i \in Ids : HangsWell(w, g, peds, i), \A x \in Handles : g[x] # 0 => w[g[x]].gta = x,
           a = Cardinality({i \in Ids : w[i].gta # 0}), n = Cardinality({i \in Ids : w[i].pending}),
           NEW d, d = Rehung(o, w, g, a, n, peds)
    PROVE  d \in SanePools("attached") /\ d.mark = o.mark /\ d.slots = w /\ d.peds = peds
  <1>1. o \in Dec!Pools /\ Cardinality(o.records) =< MaxRecords
    BY RecordsFit
  <1>2. d \in Dec!Pools
    <2>1. /\ o.mark \in Nat /\ o.refused \subseteq Ids /\ o.records \subseteq Ids /\ o.standing \subseteq Ids
          /\ o.scan \in {"never", "now", "earlier"}
      BY <1>1, PoolFields
    <2> QED
      BY <2>1 DEF Rehung, Dec!Pools
  <1>3. d.mark = o.mark /\ d.slots = w /\ d.peds = peds
    BY DEF Rehung
  <1>4. d.gta = g /\ d.active = a /\ d.pending = n /\ d.records = o.records
    BY DEF Rehung
  <1>5. ASSUME NEW i \in Ids PROVE Dec!SlotOk("attached", d, i)
    <2>1. PICK s : s = w[i]
      OBVIOUS
    <2>2. (s.gta # 0 => g[s.gta] = i /\ i \in peds) /\ (s.pending => s.gta = 0)
      BY <2>1 DEF HangsWell
    <2>3. d.slots[i] = s /\ d.gta = g /\ d.peds = peds
      BY <1>3, <1>4, <2>1
    <2> QED
      BY <2>2, <2>3 DEF Dec!SlotOk
  <1>6. \A x \in Handles : Dec!HandleOk(d, x)
    BY <1>3, <1>4 DEF Dec!HandleOk
  <1>7. Dec!Numbered("attached", d)
    <2>1. PICK G, P : G = {i \in Ids : w[i].gta # 0} /\ P = {i \in Ids : w[i].pending}
      OBVIOUS
    <2>2. G = {i \in Ids : d.slots[i].gta # 0} /\ P = {i \in Ids : d.slots[i].pending}
      BY <1>3, <2>1
    <2>3. d.active = Cardinality(G) /\ d.pending = Cardinality(P)
      BY <1>4, <2>1
    <2> QED
      BY <2>2, <2>3 DEF Dec!Numbered, Dec!Cardinality, Cardinality
  <1>8. Dec!Cardinality(d.records) =< MaxRecords
    BY <1>1, <1>4 DEF Dec!Cardinality, Cardinality
  <1>9. Dec!Sane("attached", d)
    BY <1>5, <1>6, <1>7, <1>8 DEF Dec!Sane
  <1> QED
    BY <1>2, <1>3, <1>9 DEF SanePools

\* The counts of a pool of attached objects.
LEMMA AttachedCountsAre ==
    ASSUME NEW o \in SanePools("attached"), NEW G, G = {i \in Ids : o.slots[i].gta # 0},
           NEW P, P = {i \in Ids : o.slots[i].pending}
    PROVE  /\ o.active = Cardinality(G) /\ o.pending = Cardinality(P)
           /\ IsFiniteSet(G) /\ IsFiniteSet(P) /\ Cardinality(G) \in Nat /\ Cardinality(P) \in Nat
  <1>1. Dec!Numbered("attached", o)
    BY RecordsFit DEF Dec!Sane
  <1>2. o.active = Cardinality(G) /\ o.pending = Cardinality(P)
    BY <1>1 DEF Dec!Numbered, Dec!Cardinality, Cardinality
  <1>3. IsFiniteSet(Ids)
    BY IdsAre
  <1>4. G \in SUBSET Ids /\ P \in SUBSET Ids
    OBVIOUS
  <1>5. IsFiniteSet(G) /\ IsFiniteSet(P)
    BY <1>3, <1>4, FS_Subset
  <1>6. Cardinality(G) \in Nat /\ Cardinality(P) \in Nat
    BY <1>5, FS_CardinalityType
  <1> QED
    BY <1>2, <1>5, <1>6

MovedSet(o, w, g, a, n, peds) ==
    [o EXCEPT !.peds = peds, !.slots = w, !.gta = g, !.pending = n, !.active = a]

\* A pool whose peds, slots, handles and counts have changed.
LEMMA MovedPut ==
    ASSUME NEW o \in Dec!Pools, NEW w, NEW g, NEW a, NEW n, NEW peds, NEW d,
           d = MovedSet(o, w, g, a, n, peds)
    PROVE  d = Rehung(o, w, g, a, n, peds)
  <1>1. PICK x : x = [o EXCEPT !.peds = peds, !.slots = w, !.gta = g]
    OBVIOUS
  <1>2. x = [mark |-> o.mark, slots |-> w, active |-> o.active, pending |-> o.pending, gta |-> g,
             refused |-> o.refused, peds |-> peds, records |-> o.records, standing |-> o.standing, scan |-> o.scan]
    BY <1>1 DEF Dec!Pools
  <1>3. d = [x EXCEPT !.pending = n, !.active = a]
    BY <1>1 DEF MovedSet
  <1>4. d = [mark |-> o.mark, slots |-> w, active |-> a, pending |-> n, gta |-> g,
             refused |-> o.refused, peds |-> peds, records |-> o.records, standing |-> o.standing, scan |-> o.scan]
    BY <1>2, <1>3
  <1> QED
    BY <1>4 DEF Rehung

\* Decor!PlayersMoved: who has moved has nothing any more, and of the rest nothing changes.
LEMMA PlayersAreMoved ==
    ASSUME NEW o \in SanePools("attached"), NEW moved \in SUBSET Ids, moved = net.probe.moved,
           NEW made \in SUBSET Ids, NEW d, d = Dec!PlayersMoved(o, made)
    PROVE  /\ d \in SanePools("attached") /\ d.mark = o.mark
           /\ \A i \in Ids : d.slots[i] = IF i \in moved THEN Dec!NoSlot ELSE o.slots[i]
  <1>1. o \in Dec!Pools /\ o.slots \in [Ids -> Dec!Slots] /\ o.gta \in [Handles -> Ids \cup {0}] /\ o.peds \subseteq Ids
    BY RecordsFit, PoolFields
  <1>2. PICK w, g, peds, G, P, M, N : /\ w = [i \in Ids |-> IF i \in moved THEN Dec!NoSlot ELSE o.slots[i]]
            /\ g = [x \in Handles |-> IF \E i \in moved : o.slots[i].gta = x THEN 0 ELSE o.gta[x]]
            /\ peds = (o.peds \ moved) \cup made
            /\ G = {i \in Ids : o.slots[i].gta # 0} /\ P = {i \in Ids : o.slots[i].pending}
            /\ M = {i \in moved : o.slots[i].gta # 0} /\ N = {i \in moved : o.slots[i].pending}
    OBVIOUS
  <1>3. PICK a, n : a = o.active - Cardinality(M) /\ n = o.pending - Cardinality(N)
    OBVIOUS
  <1>4. d = Rehung(o, w, g, a, n, peds)
    <2>1. d = MovedSet(o, w, g, a, n, peds)
      BY <1>2, <1>3 DEF Dec!PlayersMoved, Dec!Cardinality, Cardinality, MovedSet
    <2> QED
      BY <1>1, <2>1, MovedPut
  <1>5. w \in [Ids -> Dec!Slots] /\ \A i \in Ids : w[i] = IF i \in moved THEN Dec!NoSlot ELSE o.slots[i]
    BY <1>1, <1>2, NoDecor
  <1>6. g \in [Handles -> Ids \cup {0}] /\ peds \in SUBSET Ids
    BY <1>1, <1>2
  <1>7. ASSUME NEW x \in Handles PROVE g[x] = IF o.gta[x] \in moved THEN 0 ELSE o.gta[x]
    <2>1. (\E i \in moved : o.slots[i].gta = x) <=> o.gta[x] \in moved
      BY HandlesAre
    <2> QED
      BY <1>2, <2>1
  <1>8. ASSUME NEW i \in Ids PROVE HangsWell(w, g, peds, i)
    <2>1. CASE i \in moved
      BY <1>5, <2>1, NoDecor DEF HangsWell
    <2>2. CASE i \notin moved
      <3>1. PICK s : s = o.slots[i]
        OBVIOUS
      <3>2. /\ w[i] = s /\ s.gta \in Handles \cup {0} /\ (s.pending => s.gta = 0)
            /\ s.gta # 0 => o.gta[s.gta] = i /\ i \in o.peds
        BY <1>5, <2>2, <3>1, SlotIs, DecorSlot
      <3>3. s.gta # 0 => g[s.gta] = i /\ i \in peds
        BY <1>2, <1>7, <2>2, <3>2
      <3> QED
        BY <3>2, <3>3 DEF HangsWell
    <2> QED
      BY <2>1, <2>2
  <1>9. ASSUME NEW x \in Handles, g[x] # 0 PROVE w[g[x]].gta = x
    <2>1. PICK j : j = o.gta[x]
      OBVIOUS
    <2>2. g[x] = j /\ j \in Ids /\ j \notin moved
      BY <1>1, <1>7, <1>9, <2>1
    <2>3. o.slots[j].gta = x
      BY <2>1, <2>2, HandlesAre
    <2> QED
      BY <1>5, <2>2, <2>3
  <1>10. /\ o.active = Cardinality(G) /\ o.pending = Cardinality(P)
         /\ IsFiniteSet(G) /\ IsFiniteSet(P) /\ Cardinality(G) \in Nat /\ Cardinality(P) \in Nat
    BY <1>2, AttachedCountsAre
  <1>11. {i \in Ids : w[i].gta # 0} = G \ M /\ G \cap M = M
    BY <1>2, <1>5, NoDecor
  <1>12. {i \in Ids : w[i].pending} = P \ N /\ P \cap N = N
    <2>1. PICK Q : Q = {i \in Ids : w[i].pending}
      OBVIOUS
    <2>2. ASSUME NEW i \in Ids PROVE i \in Q <=> (i \in P /\ i \notin N)
      <3>1. CASE i \in moved
        <4>1. ~w[i].pending
          BY <1>5, <3>1, NoDecor
        <4> QED
          BY <1>2, <2>1, <3>1, <4>1
      <3>2. CASE i \notin moved
        <4>1. w[i] = o.slots[i]
          BY <1>5, <3>2
        <4> QED
          BY <1>2, <2>1, <3>2, <4>1
      <3> QED
        BY <3>1, <3>2
    <2>3. Q \subseteq Ids /\ P \subseteq Ids /\ N \subseteq P
      BY <1>2, <2>1
    <2> QED
      BY <2>1, <2>2, <2>3
  <1>13. /\ a = Cardinality(G \ M) /\ n = Cardinality(P \ N)
         /\ IsFiniteSet(G \ M) /\ IsFiniteSet(P \ N)
    <2>1. /\ IsFiniteSet(G \ M) /\ Cardinality(G \ M) = Cardinality(G) - Cardinality(G \cap M)
          /\ IsFiniteSet(P \ N) /\ Cardinality(P \ N) = Cardinality(P) - Cardinality(P \cap N)
      BY <1>10, FS_Difference
    <2> QED
      BY <1>3, <1>10, <1>11, <1>12, <2>1
  <1>14. a \in Int /\ n \in Int
    BY <1>13, FS_CardinalityType
  <1>15. d \in SanePools("attached") /\ d.mark = o.mark /\ d.slots = w
    <2>1. a = Cardinality({i \in Ids : w[i].gta # 0}) /\ n = Cardinality({i \in Ids : w[i].pending})
      BY <1>11, <1>12, <1>13
    <2> QED
      BY <1>4, <1>5, <1>6, <1>8, <1>9, <1>14, <2>1, PoolIsRehung
  <1> QED
    BY <1>5, <1>15

CreatedSet(o, w, g, a, n) == [o EXCEPT !.active = a, !.pending = n, !.gta = g, !.slots = w]

\* A pool whose slots, handles and counts have changed.
LEMMA CreatedPut ==
    ASSUME NEW o \in Dec!Pools, NEW w, NEW g, NEW a, NEW n, NEW d, d = CreatedSet(o, w, g, a, n)
    PROVE  d = Rehung(o, w, g, a, n, o.peds)
  <1>1. PICK x : x = [o EXCEPT !.active = a, !.pending = n]
    OBVIOUS
  <1>2. x = [mark |-> o.mark, slots |-> o.slots, active |-> a, pending |-> n, gta |-> o.gta,
             refused |-> o.refused, peds |-> o.peds, records |-> o.records, standing |-> o.standing, scan |-> o.scan]
    BY <1>1 DEF Dec!Pools
  <1>3. d = [x EXCEPT !.gta = g, !.slots = w]
    BY <1>1 DEF CreatedSet
  <1>4. d = [mark |-> o.mark, slots |-> w, active |-> a, pending |-> n, gta |-> g,
             refused |-> o.refused, peds |-> o.peds, records |-> o.records, standing |-> o.standing, scan |-> o.scan]
    BY <1>2, <1>3
  <1> QED
    BY <1>4 DEF Rehung

\* A slot that has got its object.
Hung(s, x) == [s EXCEPT !.pending = FALSE, !.gta = x]

\* It shows the same.
LEMMA HungIs ==
    ASSUME NEW s \in Dec!Slots, NEW x \in Handles
    PROVE  /\ Hung(s, x) \in Dec!Slots /\ Hung(s, x).gta = x /\ Hung(s, x).pending = FALSE
           /\ Hung(s, x).seq = s.seq /\ Hung(s, x).shows = s.shows
  <1>1. PICK u : u = Hung(s, x)
    OBVIOUS
  <1>2. u = [active |-> s.active, seq |-> s.seq, shows |-> s.shows, pending |-> FALSE, gta |-> x]
    BY <1>1 DEF Hung, Dec!Slots
  <1>3. u \in Dec!Slots
    BY <1>2, DecorSlot DEF Dec!Slots
  <1> QED
    BY <1>1, <1>2, <1>3

\* A pool with the same numbers in its slots.
SameNumbers(o, d) ==
    /\ d \in SanePools("attached") /\ d.mark = o.mark
    /\ \A i \in Ids : d.slots[i].seq = o.slots[i].seq /\ d.slots[i].shows = o.slots[i].shows

\* Decor!CreateAttached: who is ready gets an object of his own.
LEMMA AttachedIsCreated ==
    ASSUME NEW o \in SanePools("attached"), NEW go, go \subseteq Dec!Ready(o), NEW h, h \in Dec!Given(o, go),
           NEW d, d = Dec!CreateAttached(o, go, h)
    PROVE  SameNumbers(o, d)
  <1>1. o \in Dec!Pools /\ o.slots \in [Ids -> Dec!Slots] /\ o.gta \in [Handles -> Ids \cup {0}] /\ o.peds \subseteq Ids
    BY RecordsFit, PoolFields
  <1>2. ASSUME NEW i \in go PROVE i \in Ids /\ o.slots[i].pending /\ o.slots[i].gta = 0 /\ i \in o.peds
    <2>1. i \in Ids /\ o.slots[i].pending /\ i \in o.peds
      BY DEF Dec!Ready
    <2>2. o.slots[i].gta = 0
      BY <2>1, SlotIs
    <2> QED
      BY <2>1, <2>2
  <1>3. go \in SUBSET Ids
    BY <1>2
  <1>4. /\ h \in [go -> {x \in Handles : o.gta[x] = 0}]
        /\ \A i \in go, j \in go : h[i] = h[j] => i = j
    BY DEF Dec!Given
  <1>5. \A i \in go : h[i] \in Handles /\ o.gta[h[i]] = 0
    BY <1>4
  <1>6. PICK w, g : /\ w = [i \in Ids |-> IF i \in go THEN Hung(o.slots[i], h[i]) ELSE o.slots[i]]
                    /\ g = [x \in Handles |-> IF \E i \in go : h[i] = x THEN CHOOSE i \in go : h[i] = x ELSE o.gta[x]]
    OBVIOUS
  <1>7. PICK a, n, G, P : /\ a = o.active + Cardinality(go) /\ n = o.pending - Cardinality(go)
                          /\ G = {i \in Ids : o.slots[i].gta # 0} /\ P = {i \in Ids : o.slots[i].pending}
    OBVIOUS
  <1>8. d = Rehung(o, w, g, a, n, o.peds)
    <2>1. d = CreatedSet(o, w, g, a, n)
      BY <1>6, <1>7 DEF Dec!CreateAttached, Dec!Cardinality, Cardinality, CreatedSet, Hung
    <2> QED
      BY <1>1, <2>1, CreatedPut
  <1>9. /\ \A i \in go : w[i] = Hung(o.slots[i], h[i])
        /\ \A i \in Ids : i \notin go => w[i] = o.slots[i]
    BY <1>3, <1>6
  <1>10. \A i \in go : w[i] \in Dec!Slots /\ w[i].gta = h[i] /\ w[i].pending = FALSE
                       /\ w[i].seq = o.slots[i].seq /\ w[i].shows = o.slots[i].shows
    <2> TAKE i \in go
    <2>1. PICK s, x : s = o.slots[i] /\ x = h[i]
      OBVIOUS
    <2>2. s \in Dec!Slots /\ x \in Handles /\ w[i] = Hung(s, x)
      BY <1>1, <1>2, <1>5, <1>9, <2>1
    <2>3. PICK u : u = Hung(s, x)
      OBVIOUS
    <2>4. u \in Dec!Slots /\ u.gta = x /\ u.pending = FALSE /\ u.seq = s.seq /\ u.shows = s.shows
      BY <2>2, <2>3, HungIs
    <2> QED
      BY <2>1, <2>2, <2>3, <2>4
  <1>11. w \in [Ids -> Dec!Slots]
    BY <1>1, <1>3, <1>6, <1>9, <1>10
  <1>12. ASSUME NEW i \in go PROVE g[h[i]] = i
    <2>1. (CHOOSE j \in go : h[j] = h[i]) = i
      BY <1>4
    <2> QED
      BY <1>5, <1>6, <2>1
  <1>13. ASSUME NEW x \in Handles, \A i \in go : h[i] # x PROVE g[x] = o.gta[x]
    BY <1>6, <1>13
  <1>14. g \in [Handles -> Ids \cup {0}]
    <2>1. ASSUME NEW x \in Handles PROVE g[x] \in Ids \cup {0}
      <3>1. CASE \A i \in go : h[i] # x
        BY <1>1, <1>13, <3>1
      <3>2. CASE \E i \in go : h[i] = x
        BY <1>3, <1>12, <3>2
      <3> QED
        BY <3>1, <3>2
    <2> QED
      BY <1>6, <2>1
  <1>15. ASSUME NEW i \in Ids PROVE HangsWell(w, g, o.peds, i)
    <2>1. CASE i \in go
      BY <1>2, <1>10, <1>12, <2>1 DEF HangsWell
    <2>2. CASE i \notin go
      <3>1. PICK s : s = o.slots[i]
        OBVIOUS
      <3>2. /\ w[i] = s /\ s.gta \in Handles \cup {0} /\ (s.pending => s.gta = 0)
            /\ s.gta # 0 => o.gta[s.gta] = i /\ i \in o.peds
        BY <1>9, <2>2, <3>1, SlotIs, DecorSlot
      <3>3. s.gta # 0 => g[s.gta] = i /\ i \in o.peds
        <4> SUFFICES ASSUME s.gta # 0 PROVE g[s.gta] = i /\ i \in o.peds
          OBVIOUS
        <4>1. i # 0
          BY IdsAre
        <4>2. \A j \in go : h[j] # s.gta
          BY <1>5, <3>2, <4>1
        <4> QED
          BY <1>13, <3>2, <4>2
      <3> QED
        BY <3>2, <3>3 DEF HangsWell
    <2> QED
      BY <2>1, <2>2
  <1>16. ASSUME NEW x \in Handles, g[x] # 0 PROVE w[g[x]].gta = x
    <2>1. CASE \A i \in go : h[i] # x
      <3>1. PICK j : j = o.gta[x]
        OBVIOUS
      <3>2. g[x] = j /\ j \in Ids
        BY <1>1, <1>13, <1>16, <2>1, <3>1
      <3>3. o.slots[j].gta = x /\ x # 0
        BY <3>1, <3>2, HandlesAre, IdsAre
      <3>4. j \notin go
        BY <1>2, <3>3
      <3> QED
        BY <1>9, <3>2, <3>3, <3>4
    <2>2. CASE \E i \in go : h[i] = x
      <3>1. PICK i \in go : h[i] = x
        BY <2>2
      <3> QED
        BY <1>10, <1>12, <3>1
    <2> QED
      BY <2>1, <2>2
  <1>17. /\ o.active = Cardinality(G) /\ o.pending = Cardinality(P)
         /\ IsFiniteSet(G) /\ IsFiniteSet(P) /\ Cardinality(G) \in Nat /\ Cardinality(P) \in Nat
    BY <1>7, AttachedCountsAre
  <1>18. IsFiniteSet(go) /\ Cardinality(go) \in Nat
    <2>1. IsFiniteSet(Ids)
      BY IdsAre
    <2>2. IsFiniteSet(go)
      BY <1>3, <2>1, FS_Subset
    <2> QED
      BY <2>2, FS_CardinalityType
  <1>19. {i \in Ids : w[i].gta # 0} = G \cup go /\ G \cap go = {}
    <2>1. PICK H : H = {i \in Ids : w[i].gta # 0}
      OBVIOUS
    <2>2. ASSUME NEW i \in Ids PROVE i \in H <=> (i \in G \/ i \in go)
      <3>1. CASE i \in go
        <4>1. w[i].gta # 0
          BY <1>5, <1>10, <3>1, IdsAre
        <4> QED
          BY <2>1, <3>1, <4>1
      <3>2. CASE i \notin go
        BY <1>7, <1>9, <2>1, <3>2
      <3> QED
        BY <3>1, <3>2
    <2>3. H \subseteq Ids /\ G \subseteq Ids /\ \A i \in go : i \notin G
      BY <1>2, <1>7, <2>1
    <2> QED
      BY <1>3, <2>1, <2>2, <2>3
  <1>20. {i \in Ids : w[i].pending} = P \ go /\ P \cap go = go
    <2>1. PICK Q : Q = {i \in Ids : w[i].pending}
      OBVIOUS
    <2>2. ASSUME NEW i \in Ids PROVE i \in Q <=> (i \in P /\ i \notin go)
      <3>1. CASE i \in go
        <4>1. ~w[i].pending
          BY <1>10, <3>1
        <4> QED
          BY <2>1, <3>1, <4>1
      <3>2. CASE i \notin go
        <4>1. w[i] = o.slots[i]
          BY <1>9, <3>2
        <4> QED
          BY <1>7, <2>1, <3>2, <4>1
      <3> QED
        BY <3>1, <3>2
    <2>3. Q \subseteq Ids /\ P \subseteq Ids /\ \A i \in go : i \in P
      BY <1>2, <1>7, <2>1
    <2> QED
      BY <1>3, <2>1, <2>2, <2>3
  <1>21. a = Cardinality(G \cup go) /\ n = Cardinality(P \ go) /\ a \in Int /\ n \in Int
    <2>1. Cardinality(G \cup go) = Cardinality(G) + Cardinality(go) - Cardinality(G \cap go)
      BY <1>17, <1>18, FS_Union
    <2>2. Cardinality(P \ go) = Cardinality(P) - Cardinality(P \cap go)
      BY <1>17, FS_Difference
    <2>3. Cardinality(G \cap go) = 0
      BY <1>19, FS_EmptySet
    <2>4. Cardinality(P \cap go) = Cardinality(go)
      BY <1>20
    <2>5. PICK x, y, z, u, v : /\ x = Cardinality(G) /\ y = Cardinality(P) /\ z = Cardinality(go)
                               /\ u = Cardinality(G \cup go) /\ v = Cardinality(P \ go)
      OBVIOUS
    <2>6. a = x + z /\ n = y - z /\ x \in Nat /\ y \in Nat /\ z \in Nat
      BY <1>7, <1>17, <1>18, <2>5
    <2>7. u = x + z - 0 /\ v = y - z
      BY <2>1, <2>2, <2>3, <2>4, <2>5
    <2>8. a = u /\ n = v /\ a \in Int /\ n \in Int
      BY <2>6, <2>7
    <2> QED
      BY <2>5, <2>8
  <1>22. d \in SanePools("attached") /\ d.mark = o.mark /\ d.slots = w
    <2>1. a = Cardinality({i \in Ids : w[i].gta # 0}) /\ n = Cardinality({i \in Ids : w[i].pending})
      BY <1>19, <1>20, <1>21
    <2>2. PICK peds \in SUBSET Ids : peds = o.peds
      BY <1>1
    <2>3. d = Rehung(o, w, g, a, n, peds) /\ \A i \in Ids : HangsWell(w, g, peds, i)
      BY <1>8, <1>15, <2>2
    <2>4. a \in Int /\ n \in Int
      BY <1>21
    <2>5. \A x \in Handles : g[x] # 0 => w[g[x]].gta = x
      BY <1>16
    <2> QED
      BY <1>11, <1>14, <2>1, <2>2, <2>3, <2>4, <2>5, PoolIsRehung
  <1> QED
    BY <1>9, <1>10, <1>22 DEF SameNumbers

\* Decor!FlushAttached.
LEMMA AttachedIsFlushed ==
    ASSUME NEW o \in SanePools("attached"), NEW d \in Dec!FlushAttached(o)
    PROVE  SameNumbers(o, d)
  <1>1. PICK go, h : go \subseteq Dec!Ready(o) /\ h \in Dec!Given(o, go) /\ d = Dec!CreateAttached(o, go, h)
    BY DEF Dec!FlushAttached
  <1> QED
    BY <1>1, AttachedIsCreated

-----------------------------------------------------------------------------
(* A frame. *)

\* What a frame makes of the pool o: it is sane, has seen everything, and shows what
\* the RPCs come to; no building stands after a scan that is to be away.
Drawn(kind, p, o, moved, d) ==
    /\ d \in SanePools(kind) /\ d.mark = p.seq
    /\ \A i \in Ids : Fit(kind, d, i, ViewReplayed(p.ring, o.mark, KnownOf(kind, o, moved)[i], i))
    /\ kind = "building" /\ d.scan = "now" => d.standing \cap d.records = {}

\* What fits is as right as what is heard.
LEMMA FitIsRight ==
    ASSUME NEW kind, NEW d, NEW i, NEW v, Fit(kind, d, i, v), NEW s, Dec!Right(v, s)
    PROVE  Dec!Right(Dec!Seen(kind, d, i), s)
  <1>1. PICK u : u = Dec!Seen(kind, d, i)
    OBVIOUS
  <1>2. u.seq = d.slots[i].seq /\ u.shows = d.slots[i].shows /\ u.excused = Dec!Excused(kind, d, i)
    BY <1>1, SeenSays
  <1>3. CASE Dec!Excused(kind, d, i)
    <2>1. u.excused
      BY <1>2, <1>3
    <2> QED
      BY <1>1, <2>1 DEF Dec!Right
  <1>4. CASE v.excused = FALSE /\ v.seq = d.slots[i].seq /\ v.shows = d.slots[i].shows
    BY <1>1, <1>2, <1>4 DEF Dec!Right
  <1> QED
    BY <1>3, <1>4 DEF Fit

\* The frame's part in the invariant.
LEMMA DecorDrawn ==
    ASSUME NEW n, NEW w, NEW c, NEW s, DecorHas(n, w, c, s), NEW o, o = DecorPool(n, w), NEW d,
           Drawn(w.kind, n.probe, o, n.probe.moved, d), NEW g \in BOOLEAN,
           ~g => ~Dec!Gap(n.probe.ring, o.mark) /\ (w.gap => n.restart # w.handled),
           NEW u, u = [kind |-> w.kind, pool |-> d, handled |-> n.restart, gap |-> g], NEW q,
           q = [seq |-> n.probe.seq, ring |-> n.probe.ring, server |-> n.probe.server, here |-> n.probe.here,
                moved |-> {}],
           NEW m, m = [probe |-> q, restart |-> n.restart, rpcs |-> n.rpcs], NEW t \in {"none", "spawned"}
    PROVE  DecorHas(m, u, "drawn", t)
  <1>1. DecorTypes(n, w, c, s) /\ DecorRings(n.probe) /\ DecorCounts(n, w, c) /\ DecorCatches(n, w)
    BY DEF DecorHas
  <1>2. PICK kind, p, known : kind = w.kind /\ p = n.probe /\ known = KnownOf(kind, o, p.moved)
    OBVIOUS
  <1>3. n \in DecorNets(kind) /\ w \in DecorOwns /\ kind \in Dec!Kinds
    BY <1>1, <1>2, DecorOwn DEF DecorTypes
  <1>4. p \in DecorProbes(kind) /\ n.restart \in Nat /\ n.rpcs \in Nat /\ DecorRings(p)
    BY <1>1, <1>2, <1>3, DecorNet
  <1>5. p.seq \in Nat
    BY <1>4, DecorProbe
  <1>6. q.seq = p.seq /\ q.ring = p.ring /\ q.server = p.server /\ q.moved = {}
    BY <1>2
  <1>7. q \in DecorProbes(kind)
    <2>1. PICK a, b, r, v, h : a = p.seq /\ b = {} /\ r = p.ring /\ v = p.server /\ h = p.here
      OBVIOUS
    <2>2. /\ a \in Nat /\ r \in Seq(Dec!Events(kind)) /\ v \in [Ids -> Dec!Views]
          /\ h \in SUBSET Ids /\ b \in SUBSET Ids
      BY <1>4, <2>1, DecorProbe
    <2>3. q = [seq |-> a, ring |-> r, server |-> v, here |-> h, moved |-> b]
      BY <1>2, <2>1
    <2> QED
      BY <2>2, <2>3 DEF DecorProbes
  <1>8. m.probe = q /\ m.restart = n.restart /\ m.rpcs = n.rpcs
    OBVIOUS
  <1>9. u.kind = kind /\ u.pool = d /\ u.handled = n.restart /\ u.gap = g
    BY <1>2
  <1>10. /\ d \in SanePools(kind) /\ d.mark = p.seq
         /\ \A i \in Ids : Fit(kind, d, i, ViewReplayed(p.ring, o.mark, known[i], i))
         /\ kind = "building" /\ d.scan = "now" => d.standing \cap d.records = {}
    BY <1>2 DEF Drawn
  <1>11. d \in Dec!Pools /\ Dec!Sane(kind, d)
    BY <1>10, RecordsFit
  <1>12. DecorTypes(m, u, "drawn", t)
    <2>1. m \in DecorNets(kind)
      BY <1>4, <1>7 DEF DecorNets
    <2>2. u \in DecorOwns
      <3>1. PICK h : h = n.restart
        OBVIOUS
      <3>2. u = [kind |-> kind, pool |-> d, handled |-> h, gap |-> g] /\ h \in Nat
        BY <1>2, <1>4, <3>1
      <3> QED
        BY <1>3, <1>11, <3>2 DEF DecorOwns
    <2> QED
      BY <1>9, <2>1, <2>2 DEF DecorTypes
  <1>13. DecorRings(q)
    BY <1>4, <1>6 DEF DecorRings
  <1>14. DecorCounts(m, u, "drawn")
    <2>1. MaxDecor \in Nat /\ n.probe.seq = p.seq
      BY <1>2, PoolsAssumption
    <2> QED
      BY <1>1, <1>4, <1>5, <1>6, <1>8, <1>9, <1>10, <2>1 DEF DecorCounts
  <1>15. DecorCleared(u, "drawn")
    BY <1>9, <1>10 DEF DecorCleared
  <1>16. DecorCatches(m, u)
    <2>1. DecorPool(m, u) = d
      BY <1>8, <1>9 DEF DecorPool
    <2>2. PICK l : l = KnownOf(kind, d, q.moved)
      OBVIOUS
    <2>3. SUFFICES ASSUME ~g PROVE Dec!CatchesUp(q, q.seq, l)
      BY <1>6, <1>8, <1>9, <1>10, <2>1, <2>2 DEF DecorCatches
    <2>4. Dec!CatchesUp(p, o.mark, known) /\ ~Dec!Gap(p.ring, o.mark)
      BY <1>1, <1>2, <2>3 DEF DecorCatches
    <2>5. ASSUME NEW i \in Ids PROVE Dec!Right(l[i], q.server[i])
      <3>1. PICK v, z : v = ViewReplayed(p.ring, o.mark, known[i], i) /\ z = p.server[i]
        OBVIOUS
      <3>2. Dec!Right(v, z)
        BY <2>4, <3>1, AfterIs DEF Dec!CatchesUp
      <3>3. Fit(kind, d, i, v)
        BY <1>10, <3>1
      <3>4. Dec!Right(Dec!Seen(kind, d, i), z)
        BY <3>2, <3>3, FitIsRight
      <3>5. l[i] = Dec!Seen(kind, d, i)
        BY <1>6, <1>10, <2>2, KnownOfIs
      <3> QED
        BY <1>6, <3>1, <3>4, <3>5
    <2> QED
      BY <1>7, <1>13, <2>5, DecorIsCaughtUp
  <1> QED
    BY <1>8, <1>9, <1>11, <1>12, <1>13, <1>14, <1>15, <1>16 DEF DecorHas

ReplayedPool(kind, p, k, refuses) == [PoolReplayed(kind, p.ring, k.mark, k, refuses) EXCEPT !.mark = p.seq]

\* A replay, and the mark is put after it.
LEMMA ReplayIsDrawn ==
    ASSUME NEW kind \in Dec!Kinds, NEW p \in DecorProbes(kind), DecorRings(p), NEW o \in SanePools(kind),
           NEW k \in SanePools(kind), k.mark = o.mark, NEW moved, NEW known, known = KnownOf(kind, o, moved),
           \A i \in Ids : Fit(kind, k, i, known[i]), NEW refuses, NEW d,
           d = ReplayedPool(kind, p, k, refuses)
    PROVE  /\ d \in SanePools(kind) /\ d.mark = p.seq
           /\ \A i \in Ids : Fit(kind, d, i, ViewReplayed(p.ring, o.mark, known[i], i))
  <1>1. PICK ring, mark, x : ring = p.ring /\ mark = o.mark /\ x = PoolReplayed(kind, ring, mark, k, refuses)
    OBVIOUS
  <1>2. PICK seq \in Nat : seq = p.seq
    BY DecorProbe
  <1>3. News(ring, mark, Rung(kind)) /\ Len(ring) \in Nat
    BY <1>1, DecorRingOk
  <1>4. x \in SanePools(kind)
    BY <1>1, <1>3, PoolIsReplayed
  <1>5. x \in Dec!Pools /\ Dec!Sane(kind, x)
    BY <1>4, RecordsFit
  <1>6. d = [x EXCEPT !.mark = seq]
    BY <1>1, <1>2 DEF ReplayedPool
  <1>7. d = [mark |-> seq, slots |-> x.slots, active |-> x.active, pending |-> x.pending, gta |-> x.gta,
             refused |-> x.refused, peds |-> x.peds, records |-> x.records, standing |-> x.standing, scan |-> x.scan]
    BY <1>5, <1>6 DEF Dec!Pools
  <1>8. d \in Dec!Pools
    BY <1>5, <1>7, PoolFields DEF Dec!Pools
  <1>9. /\ d.mark = seq /\ d.slots = x.slots /\ d.gta = x.gta /\ d.peds = x.peds /\ d.active = x.active
        /\ d.pending = x.pending /\ d.records = x.records /\ d.refused = x.refused
    BY <1>7
  <1>10. Dec!Sane(kind, d)
    <2>1. \A i \in Ids : Dec!SlotOk(kind, d, i)
      BY <1>5, <1>9 DEF Dec!Sane, Dec!SlotOk
    <2>2. \A h \in Handles : Dec!HandleOk(d, h)
      BY <1>5, <1>9 DEF Dec!Sane, Dec!HandleOk
    <2>3. Dec!Numbered(kind, d) /\ Dec!Cardinality(d.records) =< MaxRecords
      BY <1>5, <1>9 DEF Dec!Sane, Dec!Numbered
    <2> QED
      BY <2>1, <2>2, <2>3 DEF Dec!Sane
  <1>11. \A i : Dec!Excused(kind, d, i) <=> Dec!Excused(kind, x, i)
    BY <1>9 DEF Dec!Excused
  <1>12. ASSUME NEW i \in Ids PROVE Fit(kind, d, i, ViewReplayed(p.ring, o.mark, known[i], i))
    <2>1. PICK v : v = known[i]
      OBVIOUS
    <2>2. v \in Dec!Views /\ Fit(kind, k, i, v)
      BY <2>1, KnownOfIs
    <2>3. PICK y : y = ViewReplayed(ring, mark, v, i)
      OBVIOUS
    <2>4. Fit(kind, x, i, y)
      BY <1>1, <1>3, <2>2, <2>3, FitIsReplayed
    <2>5. Fit(kind, d, i, y)
      BY <1>9, <1>11, <2>4 DEF Fit
    <2> QED
      BY <1>1, <2>1, <2>3, <2>5
  <1> QED
    BY <1>2, <1>8, <1>9, <1>10, <1>12 DEF SanePools

Updated(w, d, h, g) == [w EXCEPT !.pool = d, !.handled = h, !.gap = g]

\* The bridge after an update.
LEMMA UpdatesIs ==
    ASSUME NEW w \in DecorOwns, NEW d, NEW h, NEW g, NEW v,
           v = Updated(w, d, h, g)
    PROVE  v = [kind |-> w.kind, pool |-> d, handled |-> h, gap |-> g]
  BY DEF DecorOwns, Updated

\* The adapter after a frame.
LEMMA NetDrawn ==
    ASSUME NEW kind, NEW n \in DecorNets(kind), NEW none, NEW m, m = [n EXCEPT !.probe.moved = none]
    PROVE  m = [probe |-> [seq |-> n.probe.seq, ring |-> n.probe.ring, server |-> n.probe.server,
                           here |-> n.probe.here, moved |-> none],
                restart |-> n.restart, rpcs |-> n.rpcs]
  <1>1. PICK p, q, r, k : p = n.probe /\ q = [p EXCEPT !.moved = none] /\ r = n.restart /\ k = n.rpcs
    OBVIOUS
  <1>2. n = [probe |-> p, restart |-> r, rpcs |-> k] /\ p \in DecorProbes(kind)
    BY <1>1, DecorNet
  <1>3. m = [n EXCEPT !.probe = q]
    BY <1>1
  <1>4. m = [probe |-> q, restart |-> r, rpcs |-> k]
    BY <1>2, <1>3
  <1>5. q = [seq |-> p.seq, ring |-> p.ring, server |-> p.server, here |-> p.here, moved |-> none]
    BY <1>1, <1>2, DecorProbe
  <1> QED
    BY <1>1, <1>4, <1>5

\* A frame whose pool is drawn well.
LEMMA DecorUpdates ==
    ASSUME Dec!DecorInv, NEW d, Drawn(own.kind, net.probe, Dec!Pool, net.probe.moved, d), Dec!Updates(d),
           net' = [net EXCEPT !.probe.moved = {}], scene' = (IF Dec!Restarted THEN "none" ELSE scene), pc' = "drawn"
    PROVE  Dec!DecorInv'
  <1>1. DecorHas(net, own, pc, scene)
    BY DecorHasIs
  <1>2. PICK n, w, o, p : n = net /\ w = own /\ o = Dec!Pool /\ p = net.probe
    OBVIOUS
  <1>3. o = DecorPool(n, w)
    BY <1>2 DEF Dec!Pool, Dec!Restarted, DecorPool
  <1>4. n \in DecorNets(w.kind) /\ w \in DecorOwns /\ scene' \in {"none", "spawned"} /\ w.gap \in BOOLEAN
    BY <1>1, <1>2, DecorOwn DEF DecorHas, DecorTypes
  <1>5. PICK g : g = (Dec!Gap(net.probe.ring, Dec!Pool.mark) \/ (own.gap /\ ~Dec!Restarted))
    OBVIOUS
  <1>6. g \in BOOLEAN
    BY <1>5, Zenon
  <1>7. PICK u, m : u = own' /\ m = net'
    OBVIOUS
  <1>8. u = [kind |-> w.kind, pool |-> d, handled |-> n.restart, gap |-> g]
    <2>1. PICK h : h = n.restart
      OBVIOUS
    <2>2. u = Updated(w, d, h, g)
      BY <1>2, <1>5, <1>7, <2>1 DEF Dec!Updates, Updated
    <2>3. u = [kind |-> w.kind, pool |-> d, handled |-> h, gap |-> g]
      BY <1>4, <2>2, UpdatesIs
    <2> QED
      BY <2>1, <2>3
  <1>9. PICK q : q = [seq |-> n.probe.seq, ring |-> n.probe.ring, server |-> n.probe.server,
                      here |-> n.probe.here, moved |-> {}]
    OBVIOUS
  <1>10. m = [probe |-> q, restart |-> n.restart, rpcs |-> n.rpcs]
    <2>1. PICK none : none = {}
      OBVIOUS
    <2>2. m = [n EXCEPT !.probe.moved = none]
      BY <1>2, <1>7, <2>1
    <2>3. m = [probe |-> [seq |-> n.probe.seq, ring |-> n.probe.ring, server |-> n.probe.server,
                          here |-> n.probe.here, moved |-> none],
               restart |-> n.restart, rpcs |-> n.rpcs]
      BY <1>4, <2>2, NetDrawn
    <2> QED
      BY <1>9, <2>1, <2>3
  <1>11. ~g => ~Dec!Gap(n.probe.ring, o.mark) /\ (w.gap => n.restart # w.handled)
    BY <1>2, <1>5 DEF Dec!Restarted
  <1>12. Drawn(w.kind, n.probe, o, n.probe.moved, d) /\ DecorHas(n, w, pc, scene)
    BY <1>1, <1>2
  <1>13. DecorHas(m, u, "drawn", scene')
    BY <1>3, <1>4, <1>6, <1>8, <1>9, <1>10, <1>11, <1>12, DecorDrawn
  <1>14. DecorHas(net', own', pc', scene')
    BY <1>7, <1>13
  <1> QED
    BY <1>14, DecorWillHave

\* What a frame finds.
LEMMA FrameFinds ==
    ASSUME Dec!DecorInv, NEW kind, kind = own.kind, NEW p, p = net.probe, NEW o, o = Dec!Pool
    PROVE  /\ kind \in Dec!Kinds /\ p \in DecorProbes(kind) /\ DecorRings(p) /\ o \in SanePools(kind)
           /\ o.mark \in Nat /\ o.mark =< p.seq /\ p.seq \in Nat /\ p.moved \in SUBSET Ids /\ p.here \in SUBSET Ids
           /\ kind # "attached" => p.moved = {}
  <1>1. DecorHas(net, own, pc, scene)
    BY DecorHasIs
  <1>2. DecorTypes(net, own, pc, scene) /\ DecorRings(net.probe) /\ DecorCounts(net, own, pc)
    BY <1>1 DEF DecorHas
  <1>3. own \in DecorOwns /\ net \in DecorNets(kind)
    BY <1>2 DEF DecorTypes
  <1>4. kind \in Dec!Kinds /\ p \in DecorProbes(kind) /\ DecorRings(p)
    BY <1>2, <1>3, DecorOwn, DecorNet
  <1>5. p.seq \in Nat /\ p.moved \subseteq Ids /\ p.here \subseteq Ids
    BY <1>4, DecorProbe
  <1>6. o = DecorPool(net, own)
    BY DEF Dec!Pool, Dec!Restarted, DecorPool
  <1>7. o \in SanePools(kind) /\ o.mark \in Nat /\ o.mark =< p.seq
    BY <1>1, <1>6, DecorPoolIs
  <1>8. kind # "attached" => p.moved = {}
    BY <1>2 DEF DecorCounts
  <1> QED
    BY <1>4, <1>5, <1>7, <1>8

\* The replay of a frame.
LEMMA DecorReplays ==
    ASSUME Dec!DecorInv, NEW kind, kind = own.kind, NEW p, p = net.probe, NEW o, o = Dec!Pool,
           NEW k \in SanePools(kind), k.mark = o.mark, NEW known, known = KnownOf(kind, o, p.moved),
           \A i \in Ids : Fit(kind, k, i, known[i]), NEW refuses, NEW d, d = Dec!Replay(k, refuses)
    PROVE  /\ d \in SanePools(kind) /\ d.mark = p.seq
           /\ \A i \in Ids : Fit(kind, d, i, ViewReplayed(p.ring, o.mark, known[i], i))
  <1>1. /\ kind \in Dec!Kinds /\ p \in DecorProbes(kind) /\ DecorRings(p) /\ o \in SanePools(kind)
        /\ o.mark \in Nat /\ o.mark =< p.seq
    BY FrameFinds
  <1>2. Dec!MarkAfter(p.ring, k.mark) = p.seq
    <2>1. PICK ring, seq, mark : ring = p.ring /\ seq = p.seq /\ mark = k.mark
      OBVIOUS
    <2>2. RingOk(ring, seq, DecorRing, Rung(kind)) /\ mark \in Nat /\ mark =< seq /\ DecorRing \in Nat \ {0}
      BY <1>1, <2>1, DecorRingOk, PoolsAssumption
    <2>3. MarkAfter(ring, mark) = seq
      BY <2>2, MarkAfterIs
    <2> QED
      BY <2>1, <2>3, DecorsRing
  <1>3. d = ReplayedPool(kind, p, k, refuses)
    <2>1. d = [PoolReplayed(own.kind, net.probe.ring, k.mark, k, refuses)
                 EXCEPT !.mark = Dec!MarkAfter(net.probe.ring, k.mark)]
      BY DEF Dec!Replay, PoolReplayed
    <2> QED
      BY <1>2, <2>1 DEF ReplayedPool
  <1>4. k \in SanePools(kind) /\ k.mark = o.mark /\ \A i \in Ids : Fit(kind, k, i, known[i])
    OBVIOUS
  <1> QED
    BY <1>1, <1>3, <1>4, ReplayIsDrawn

\* What the pool has is what a replay begins with, where nobody moves.
LEMMA PoolBegins ==
    ASSUME NEW kind, NEW o \in SanePools(kind), NEW known, known = KnownOf(kind, o, {}), NEW i \in Ids
    PROVE  Fit(kind, o, i, known[i])
  <1>1. known[i] = Dec!Seen(kind, o, i)
    BY KnownOfIs
  <1> QED
    BY <1>1, SeenIs

\* The frames of icons, texts and bubbles, which only replay.
LEMMA DecorPlainFrame ==
    ASSUME Dec!DecorInv, own.kind \in {"icon", "text", "bubble"}, NEW refuses, NEW d, d = Dec!Replay(Dec!Pool, refuses)
    PROVE  Drawn(own.kind, net.probe, Dec!Pool, net.probe.moved, d)
  <1>1. PICK kind, p, o, known : kind = own.kind /\ p = net.probe /\ o = Dec!Pool /\ known = KnownOf(kind, o, p.moved)
    OBVIOUS
  <1>2. o \in SanePools(kind) /\ p.moved = {}
    BY <1>1, FrameFinds
  <1>3. \A i \in Ids : Fit(kind, o, i, known[i])
    BY <1>1, <1>2, PoolBegins
  <1>4. d = Dec!Replay(o, refuses)
    BY <1>1
  <1>5. /\ d \in SanePools(kind) /\ d.mark = p.seq
        /\ \A i \in Ids : Fit(kind, d, i, ViewReplayed(p.ring, o.mark, known[i], i))
    <2>1. o \in SanePools(kind) /\ o.mark = o.mark /\ \A i \in Ids : Fit(kind, o, i, known[i])
      BY <1>2, <1>3
    <2> QED
      BY <1>1, <1>4, <2>1, DecorReplays
  <1> QED
    BY <1>1, <1>5 DEF Drawn

\* Decor!Rescan: what is on record does not stand.
LEMMA BuildingsAreScanned ==
    ASSUME NEW o \in SanePools("building"), NEW due \in BOOLEAN, NEW d, d = Dec!Rescan(o, due)
    PROVE  /\ d \in SanePools("building") /\ d.mark = o.mark /\ d.slots = o.slots /\ d.records = o.records
           /\ d.scan = "now" => d.standing \cap d.records = {}
  <1>1. o \in Dec!Pools /\ Dec!Sane("building", o)
    BY RecordsFit
  <1>2. PICK t, s : /\ t = (IF due \/ o.scan = "never" THEN o.standing \ o.records ELSE o.standing)
                    /\ s = IF due \/ o.scan = "never" THEN "now" ELSE "earlier"
    OBVIOUS
  <1>3. d = [mark |-> o.mark, slots |-> o.slots, active |-> o.active, pending |-> o.pending, gta |-> o.gta,
             refused |-> o.refused, peds |-> o.peds, records |-> o.records, standing |-> t, scan |-> s]
    <2>1. CASE due \/ o.scan = "never"
      <3>1. d = [o EXCEPT !.standing = t, !.scan = s]
        BY <1>2, <2>1 DEF Dec!Rescan
      <3> QED
        BY <1>1, <3>1 DEF Dec!Pools
    <2>2. CASE ~(due \/ o.scan = "never")
      <3>1. d = [o EXCEPT !.scan = s] /\ t = o.standing
        BY <1>2, <2>2 DEF Dec!Rescan
      <3> QED
        BY <1>1, <3>1 DEF Dec!Pools
    <2> QED
      BY <2>1, <2>2
  <1>4. t \subseteq Ids /\ s \in {"now", "earlier"} /\ (s = "now" => t \cap o.records = {})
    BY <1>1, <1>2, PoolFields
  <1>5. d \in Dec!Pools
    BY <1>1, <1>3, <1>4, PoolFields DEF Dec!Pools
  <1>6. /\ d.mark = o.mark /\ d.slots = o.slots /\ d.gta = o.gta /\ d.peds = o.peds /\ d.active = o.active
        /\ d.pending = o.pending /\ d.records = o.records /\ d.standing = t /\ d.scan = s
    BY <1>3
  <1>7. Dec!Sane("building", d)
    <2>1. \A i \in Ids : Dec!SlotOk("building", d, i)
      BY <1>1, <1>6 DEF Dec!Sane, Dec!SlotOk
    <2>2. \A h \in Handles : Dec!HandleOk(d, h)
      BY <1>1, <1>6 DEF Dec!Sane, Dec!HandleOk
    <2>3. Dec!Numbered("building", d) /\ Dec!Cardinality(d.records) =< MaxRecords
      BY <1>1, <1>6 DEF Dec!Sane, Dec!Numbered
    <2> QED
      BY <2>1, <2>2, <2>3 DEF Dec!Sane
  <1> QED
    BY <1>4, <1>5, <1>6, <1>7 DEF SanePools

\* The frames of the buildings.
LEMMA DecorBuildingFrame ==
    ASSUME Dec!DecorInv, own.kind = "building", NEW due \in BOOLEAN, NEW d,
           d = Dec!Rescan(Dec!Replay(Dec!Pool, {}), due)
    PROVE  Drawn(own.kind, net.probe, Dec!Pool, net.probe.moved, d)
  <1>1. PICK kind, p, o, known : kind = own.kind /\ p = net.probe /\ o = Dec!Pool /\ known = KnownOf(kind, o, p.moved)
    OBVIOUS
  <1>2. o \in SanePools(kind) /\ p.moved = {}
    BY <1>1, FrameFinds
  <1>3. \A i \in Ids : Fit(kind, o, i, known[i])
    BY <1>1, <1>2, PoolBegins
  <1>4. PICK none, y : none = {} /\ y = Dec!Replay(o, none)
    OBVIOUS
  <1>5. /\ y \in SanePools(kind) /\ y.mark = p.seq
        /\ \A i \in Ids : Fit(kind, y, i, ViewReplayed(p.ring, o.mark, known[i], i))
    <2>1. o \in SanePools(kind) /\ o.mark = o.mark /\ \A i \in Ids : Fit(kind, o, i, known[i])
      BY <1>2, <1>3
    <2> QED
      BY <1>1, <1>4, <2>1, DecorReplays
  <1>6. d = Dec!Rescan(y, due)
    BY <1>1, <1>4
  <1>7. /\ d \in SanePools("building") /\ d.mark = y.mark /\ d.slots = y.slots /\ d.records = y.records
        /\ d.scan = "now" => d.standing \cap d.records = {}
    BY <1>1, <1>5, <1>6, BuildingsAreScanned
  <1>8. \A i : Dec!Excused("building", d, i) <=> Dec!Excused("building", y, i)
    BY <1>7 DEF Dec!Excused
  <1>9. \A i \in Ids : Fit(kind, d, i, ViewReplayed(p.ring, o.mark, known[i], i))
    BY <1>1, <1>5, <1>7, <1>8 DEF Fit
  <1> QED
    BY <1>1, <1>5, <1>7, <1>9 DEF Drawn

\* The frames of the attached objects: the players' moves come first, and objects are made last.
LEMMA DecorAttachedFrame ==
    ASSUME Dec!DecorInv, own.kind = "attached", NEW made \in SUBSET net.probe.here,
           NEW d \in Dec!FlushAttached(Dec!Replay(Dec!PlayersMoved(Dec!Pool, made), {}))
    PROVE  Drawn(own.kind, net.probe, Dec!Pool, net.probe.moved, d)
  <1>1. PICK kind, p, o, known : kind = own.kind /\ p = net.probe /\ o = Dec!Pool /\ known = KnownOf(kind, o, p.moved)
    OBVIOUS
  <1>2. o \in SanePools("attached") /\ p.moved \in SUBSET Ids /\ p.here \in SUBSET Ids /\ kind = "attached"
    BY <1>1, FrameFinds
  <1>3. PICK k : k = Dec!PlayersMoved(o, made)
    OBVIOUS
  <1>4. /\ k \in SanePools("attached") /\ k.mark = o.mark
        /\ \A i \in Ids : k.slots[i] = IF i \in p.moved THEN Dec!NoSlot ELSE o.slots[i]
    <2>1. PICK moved \in SUBSET Ids : moved = p.moved
      BY <1>2
    <2>2. made \in SUBSET Ids /\ moved = net.probe.moved
      BY <1>1, <1>2, <2>1
    <2>3. /\ k \in SanePools("attached") /\ k.mark = o.mark
          /\ \A i \in Ids : k.slots[i] = IF i \in moved THEN Dec!NoSlot ELSE o.slots[i]
      BY <1>2, <1>3, <2>2, PlayersAreMoved
    <2> QED
      BY <2>1, <2>3
  <1>5. ASSUME NEW i \in Ids PROVE Fit(kind, k, i, known[i])
    <2>1. PICK v, s : v = known[i] /\ s = k.slots[i]
      OBVIOUS
    <2>2. CASE i \in p.moved
      <3>1. v.excused = FALSE /\ v.seq = 0 /\ v.shows = 0
        BY <1>1, <1>2, <2>1, <2>2, KnownOfIs, UntoldIs
      <3>2. s.seq = 0 /\ s.shows = 0
        BY <1>4, <2>1, <2>2, NoDecor
      <3> QED
        BY <2>1, <3>1, <3>2 DEF Fit
    <2>3. CASE i \notin p.moved
      <3>1. v = Dec!Seen("attached", o, i)
        BY <1>1, <1>2, <2>1, <2>3, KnownOfIs
      <3>2. s = o.slots[i]
        BY <1>4, <2>1, <2>3
      <3>3. Dec!Excused("attached", o, i) = FALSE
        BY DEF Dec!Excused
      <3>4. v.excused = FALSE /\ v.seq = s.seq /\ v.shows = s.shows
        BY <3>1, <3>2, <3>3, SeenSays
      <3> QED
        BY <2>1, <3>4 DEF Fit
    <2> QED
      BY <2>2, <2>3
  <1>6. PICK none, y : none = {} /\ y = Dec!Replay(k, none)
    OBVIOUS
  <1>7. /\ y \in SanePools(kind) /\ y.mark = p.seq
        /\ \A i \in Ids : Fit(kind, y, i, ViewReplayed(p.ring, o.mark, known[i], i))
    <2>1. k \in SanePools(kind) /\ k.mark = o.mark /\ \A i \in Ids : Fit(kind, k, i, known[i])
      BY <1>2, <1>4, <1>5
    <2> QED
      BY <1>1, <1>6, <2>1, DecorReplays
  <1>8. d \in Dec!FlushAttached(y)
    BY <1>1, <1>3, <1>6
  <1>9. SameNumbers(y, d)
    BY <1>2, <1>7, <1>8, AttachedIsFlushed
  <1>10. /\ d \in SanePools(kind) /\ d.mark = p.seq
         /\ \A i \in Ids : d.slots[i].seq = y.slots[i].seq /\ d.slots[i].shows = y.slots[i].shows
    BY <1>2, <1>7, <1>9 DEF SameNumbers
  <1>11. \A x, i : ~Dec!Excused("attached", x, i)
    BY DEF Dec!Excused
  <1>12. \A i \in Ids : Fit(kind, d, i, ViewReplayed(p.ring, o.mark, known[i], i))
    BY <1>2, <1>7, <1>10, <1>11 DEF Fit
  <1> QED
    BY <1>1, <1>2, <1>10, <1>12 DEF Drawn

\* Decor!Frame preserves the invariant.
LEMMA DecorFrame ==
    ASSUME Dec!DecorInv, Dec!Frame
    PROVE  Dec!DecorInv'
  <1>1. PICK d : Dec!Updates(d) /\ Drawn(own.kind, net.probe, Dec!Pool, net.probe.moved, d)
    <2>1. CASE own.kind = "icon"
      <3>1. \E refuses : Dec!Updates(Dec!Replay(Dec!Pool, refuses))
        BY <2>1 DEF Dec!Frame
      <3>2. PICK refuses : Dec!Updates(Dec!Replay(Dec!Pool, refuses))
        BY <3>1
      <3> QED
        BY <2>1, <3>2, DecorPlainFrame
    <2>2. CASE own.kind \in {"text", "bubble"}
      <3>1. Dec!Updates(Dec!Replay(Dec!Pool, {}))
        BY <2>2 DEF Dec!Frame
      <3> QED
        BY <2>2, <3>1, DecorPlainFrame
    <2>3. CASE own.kind = "attached"
      <3>1. PICK made \in SUBSET net.probe.here :
                \E o \in Dec!FlushAttached(Dec!Replay(Dec!PlayersMoved(Dec!Pool, made), {})) : Dec!Updates(o)
        BY <2>3 DEF Dec!Frame
      <3>2. PICK o \in Dec!FlushAttached(Dec!Replay(Dec!PlayersMoved(Dec!Pool, made), {})) : Dec!Updates(o)
        BY <3>1
      <3> QED
        BY <2>3, <3>2, DecorAttachedFrame
    <2>4. CASE own.kind = "building"
      <3>1. PICK due \in BOOLEAN : Dec!Updates(Dec!Rescan(Dec!Replay(Dec!Pool, {}), due))
        BY <2>4 DEF Dec!Frame
      <3> QED
        BY <2>4, <3>1, DecorBuildingFrame
    <2>5. own.kind \in {"icon", "text", "bubble", "attached", "building"}
      BY DEF Dec!Frame
    <2> QED
      BY <2>1, <2>2, <2>3, <2>4, <2>5
  <1>2. /\ net' = [net EXCEPT !.probe.moved = {}] /\ scene' = (IF Dec!Restarted THEN "none" ELSE scene)
        /\ pc' = "drawn"
    BY DEF Dec!Frame
  <1> QED
    BY <1>1, <1>2, DecorUpdates

-----------------------------------------------------------------------------
(* What the server tells is never excused, and what the bridge has still to hear of it  *)
(* is in the ring.                                                                      *)

\* It holds after a step if it does of what the step leaves.
LEMMA SurvivesWill ==
    ASSUME NEW q, q = net'.probe, NEW mark, mark = Dec!Mark',
           \A i \in Ids : /\ q.server[i].seq =< q.seq
                          /\ ~Dec!Gap(q.ring, mark)
                               => Dec!Right(Dec!After(q, mark, Dec!Untold, i), SinceOf(q.server[i], mark))
    PROVE  Dec!Survives'
  <1>1. ASSUME NEW i \in Ids PROVE Dec!Since(i)' = SinceOf(q.server[i], mark)
    BY DEF Dec!Since, Dec!Server, SinceOf
  <1>2. ASSUME NEW i \in Ids
        PROVE  /\ net'.probe.server[i].seq =< net'.probe.seq
               /\ ~Dec!Gap(net'.probe.ring, Dec!Mark')
                    => Dec!Right(Dec!After(net'.probe, Dec!Mark', Dec!Untold, i), Dec!Since(i)')
    BY <1>1
  <1> QED
    BY <1>2 DEF Dec!Survives, Dec!Server

\* The steps that leave the adapter and the mark alone.
LEMMA SurvivesIdle ==
    ASSUME Dec!Unexcused, Dec!Survives, net' = net, own'.pool.mark = own.pool.mark, own'.handled = own.handled
    PROVE  Dec!Unexcused' /\ Dec!Survives'
  <1>1. Dec!Mark' = Dec!Mark
    BY DEF Dec!Mark
  <1>2. \A i \in Ids : Dec!Since(i) = SinceOf(net.probe.server[i], Dec!Mark)
    BY DEF Dec!Since, Dec!Server, SinceOf
  <1>3. Dec!Survives'
    BY <1>1, <1>2, SurvivesWill DEF Dec!Survives, Dec!Server
  <1> QED
    BY <1>3 DEF Dec!Unexcused, Dec!Server

\* What an RPC of a ring leaves of the adapter.
LEMMA QueueMakes ==
    ASSUME Dec!DecorInv, NEW action, NEW id \in Ids, NEW v, Dec!Queue(action, id, v), NEW e,
           e = [seq |-> net.probe.seq + 1, action |-> action, id |-> id]
    PROVE  /\ net'.probe.seq = net.probe.seq + 1 /\ net'.probe.ring = Push(net.probe.ring, DecorRing, e)
           /\ net'.probe.server = [net.probe.server EXCEPT ![id] = v]
           /\ net'.restart = net.restart /\ own' = own
  <1>1. PICK n, p, m, now, r, k : /\ n = net /\ p = net.probe /\ m = net' /\ now = p.seq + 1
                                  /\ r = Push(p.ring, DecorRing, e) /\ k = n.rpcs + 1
    OBVIOUS
  <1>2. n \in DecorNets(own.kind) /\ p \in DecorProbes(own.kind)
    BY <1>1, DecorHasIs, DecorNet DEF DecorHas, DecorTypes
  <1>3. m = NetWith(n, n.rpcs + 1, now, id, v, r)
    BY <1>1, DecorsRing DEF Dec!Queue, Dec!Now, NetWith
  <1>4. m = NetWith(n, k, now, id, v, r)
    BY <1>1, <1>3
  <1>5. NetWith(n, k, now, id, v, r)
          = [probe |-> ProbeWith(n.probe, now, id, v, r), restart |-> n.restart, rpcs |-> k]
    BY <1>2, NetPushed
  <1>6. ProbeWith(p, now, id, v, r)
          = [seq |-> now, ring |-> r, server |-> [p.server EXCEPT ![id] = v], here |-> p.here, moved |-> p.moved]
    BY <1>2, ProbePushed
  <1>7. m.probe = ProbeWith(p, now, id, v, r) /\ m.restart = n.restart
    BY <1>1, <1>4, <1>5
  <1>8. m.probe.seq = now /\ m.probe.ring = r /\ m.probe.server = [p.server EXCEPT ![id] = v]
    BY <1>6, <1>7
  <1> QED
    BY <1>1, <1>7, <1>8 DEF Dec!Queue

\* An RPC of a ring that excuses nothing, and whose answer to what is newer than the
\* bridge's mark is right.
LEMMA QueueSurvives ==
    ASSUME Dec!DecorInv, Dec!Unexcused, Dec!Survives, NEW action \in Dec!Actions(own.kind), NEW id \in Ids,
           NEW v \in Dec!Views, v.excused = FALSE, v.seq =< net.probe.seq + 1, Dec!Queue(action, id, v), NEW e,
           e = [seq |-> net.probe.seq + 1, action |-> action, id |-> id],
           Answers(Dec!Since(id), SinceOf(v, Dec!Mark), e)
    PROVE  Dec!Unexcused' /\ Dec!Survives'
  <1>1. PICK n, w, kind, p, q, mark : /\ n = net /\ w = own /\ kind = own.kind /\ p = net.probe
                                      /\ q = net'.probe /\ mark = Dec!Mark
    OBVIOUS
  <1>2. DecorTypes(n, w, pc, scene) /\ DecorRings(p)
    BY <1>1, DecorHasIs DEF DecorHas
  <1>3. p \in DecorProbes(kind) /\ kind \in Dec!Kinds
    BY <1>1, <1>2, DecorNet, DecorOwn DEF DecorTypes
  <1>4. p.seq \in Nat /\ p.server \in [Ids -> Dec!Views] /\ RingOk(p.ring, p.seq, DecorRing, Rung(kind))
    BY <1>2, <1>3, DecorProbe, DecorRingOk
  <1>5. PICK seq : seq = p.seq
    OBVIOUS
  <1>6. e \in Rung(kind) /\ e.seq = seq + 1 /\ e.id = id
    <2>1. PICK now : now = seq + 1
      OBVIOUS
    <2>2. now \in Nat /\ now # 0 /\ e = [seq |-> now, action |-> action, id |-> id]
      BY <1>1, <1>4, <1>5, <2>1
    <2> QED
      BY <1>1, <2>1, <2>2 DEF Rung, Dec!Events
  <1>7. /\ q.seq = seq + 1 /\ q.ring = Push(p.ring, DecorRing, e) /\ q.server = [p.server EXCEPT ![id] = v]
        /\ net'.restart = net.restart /\ own' = own
    BY <1>1, <1>5, QueueMakes
  <1>8. q.server[id] = v /\ \A i \in Ids : i # id => q.server[i] = p.server[i]
    BY <1>4, <1>7
  <1>9. Dec!Unexcused'
    <2>1. \A i \in Ids : ~p.server[i].excused
      BY <1>1 DEF Dec!Unexcused, Dec!Server
    <2>2. \A i \in Ids : ~q.server[i].excused
      BY <1>8, <2>1
    <2> QED
      BY <1>1, <2>2 DEF Dec!Unexcused, Dec!Server
  <1>10. /\ mark \in Nat /\ mark =< seq /\ Dec!Mark' = mark
         /\ \A i \in Ids : Dec!Since(i) = SinceOf(p.server[i], mark)
         /\ \A i \in Ids : Dec!Since(i)' = SinceOf(q.server[i], mark)
    <2>1. Dec!Mark' = mark
      BY <1>1, <1>7 DEF Dec!Mark
    <2> QED
      BY <1>1, <1>5, <2>1, MarkIs DEF Dec!Since, Dec!Server, SinceOf
  <1>11. \A i \in Ids : p.server[i].seq =< seq
    BY <1>1, <1>5 DEF Dec!Survives, Dec!Server
  <1>12. ASSUME NEW i \in Ids PROVE q.server[i].seq =< q.seq
    <2>1. p.server[i] \in Dec!Views
      BY <1>4
    <2>2. p.server[i].seq \in Nat
      BY <2>1 DEF Dec!Views
    <2> QED
      BY <1>1, <1>4, <1>5, <1>7, <1>8, <1>11, <2>2
  <1>13. ASSUME NEW i \in Ids, ~Dec!Gap(q.ring, mark)
         PROVE  Dec!Right(Dec!After(q, mark, Dec!Untold, i), SinceOf(q.server[i], mark))
    <2>1. PICK ring, r, x, y, u : /\ ring = p.ring /\ r = q.ring /\ u = Dec!Untold
                                  /\ x = ViewReplayed(p.ring, mark, u, i) /\ y = ViewReplayed(q.ring, mark, u, i)
      OBVIOUS
    <2>2. DecorRing \in Nat \ {0} /\ RingOk(ring, seq, DecorRing, Rung(kind)) /\ r = Push(ring, DecorRing, e)
      BY <1>4, <1>5, <1>7, <2>1, PoolsAssumption
    <2>3. RingOk(r, seq + 1, DecorRing, Rung(kind))
      BY <1>6, <2>2, RingPushed
    <2>4. Whole(r, seq + 1, mark)
      <3>1. seq + 1 \in Nat /\ ~Gap(r, mark)
        BY <1>4, <1>5, <1>13, <2>1, DecorsRing
      <3> QED
        BY <1>10, <2>2, <2>3, <3>1, GapIs
    <2>5. Whole(ring, seq, mark) /\ x \in Dec!Views /\ y = Dec!HeardOf(i, x, e)
      BY <1>3, <1>6, <1>10, <2>1, <2>2, <2>4, UntoldIs, AfterPushed
    <2>6. ~Dec!Gap(p.ring, mark)
      BY <1>4, <1>5, <1>10, <2>1, <2>2, <2>5, GapIs, DecorsRing
    <2>7. Dec!Right(x, SinceOf(p.server[i], mark))
      <3>1. ~Dec!Gap(net.probe.ring, Dec!Mark) => Dec!Right(Dec!After(net.probe, Dec!Mark, Dec!Untold, i), Dec!Since(i))
        BY DEF Dec!Survives
      <3>2. Dec!After(p, mark, u, i) = x
        BY <2>1, AfterIs
      <3> QED
        BY <1>1, <1>10, <2>1, <2>6, <3>1, <3>2
    <2>8. Dec!Right(y, SinceOf(q.server[i], mark))
      <3>1. CASE i = id
        <4>1. Answers(SinceOf(p.server[id], mark), SinceOf(v, mark), e)
          BY <1>1, <1>10
        <4>2. y = Dec!Heard(x, e)
          BY <1>6, <2>5, <3>1 DEF Dec!HeardOf
        <4> QED
          BY <1>8, <2>5, <2>7, <3>1, <4>1, <4>2 DEF Answers
      <3>2. CASE i # id
        BY <1>6, <1>8, <2>5, <2>7, <3>2 DEF Dec!HeardOf
      <3> QED
        BY <3>1, <3>2
    <2> QED
      BY <2>1, <2>8, AfterIs
  <1>14. Dec!Survives'
    <2>1. SUFFICES ASSUME NEW i \in Ids
                   PROVE  /\ Dec!Server(i)'.seq =< net'.probe.seq
                          /\ ~Dec!Gap(net'.probe.ring, Dec!Mark')
                               => Dec!Right(Dec!After(net'.probe, Dec!Mark', Dec!Untold, i), Dec!Since(i)')
      BY DEF Dec!Survives, Dec!Server, Dec!Right, Dec!After, Dec!Replayed, Dec!Gap
    <2> QED
      BY <1>1, <1>10, <1>12, <1>13 DEF Dec!Server
  <1> QED
    BY <1>9, <1>14

\* Something is told of, taken back, or not taken by the bridge.
LEMMA RpcSurvives ==
    ASSUME Dec!DecorInv, Dec!Unexcused, Dec!Survives, NEW kind, Dec!Receives(kind), NEW id \in Ids,
           NEW action \in Dec!Actions(kind), NEW v, Dec!Queue(action, id, v),
           \/ action \in {"set", "show", "say", "take"} /\ v = Dec!Told
           \/ action \in {"remove", "hide", "silence"} /\ v = Dec!Untold
           \/ action = "off" /\ v = Dec!Server(id)
    PROVE  Dec!Unexcused' /\ Dec!Survives'
  <1>1. PICK now, mark, e, s : /\ now = net.probe.seq + 1 /\ mark = Dec!Mark /\ s = Dec!Server(id)
                               /\ e = [seq |-> net.probe.seq + 1, action |-> action, id |-> id]
    OBVIOUS
  <1>2. /\ now \in Nat /\ Dec!Now = now /\ s \in Dec!Views /\ s = net.probe.server[id]
        /\ mark \in Nat /\ mark < now /\ Dec!Since(id) = SinceOf(s, mark)
    <2>1. net \in DecorNets(own.kind)
      BY DecorHasIs DEF DecorHas, DecorTypes
    <2>2. net.probe.seq \in Nat
      BY <2>1, DecorNet, DecorProbe
    <2> QED
      BY <1>1, <2>2, DecorFinds, MarkIs
  <1>3. own.kind = kind /\ e.seq = now /\ e.action = action
    BY <1>1 DEF Dec!Receives
  <1>4. CASE action \in {"set", "show", "say", "take"} /\ v = Dec!Told
    <2>1. v = [seq |-> now, shows |-> now, excused |-> FALSE]
      BY <1>2, <1>4 DEF Dec!Told, Dec!Untold
    <2>2. v \in Dec!Views /\ v.seq = now /\ v.shows = now /\ v.excused = FALSE
      BY <1>2, <2>1 DEF Dec!Views
    <2>3. SinceOf(v, mark) = v
      BY <1>2, <2>2 DEF SinceOf
    <2>4. ASSUME NEW u \in Dec!Views PROVE Dec!Right(Dec!Heard(u, e), v)
      <3>1. PICK y : y = Dec!Heard(u, e)
        OBVIOUS
      <3>2. y = [seq |-> now, shows |-> now, excused |-> FALSE]
        BY <1>3, <1>4, <3>1, HeardSays
      <3>3. y = v
        BY <2>1, <3>2
      <3> QED
        BY <3>1, <3>3 DEF Dec!Right
    <2>5. Answers(Dec!Since(id), SinceOf(v, mark), e)
      BY <2>3, <2>4 DEF Answers
    <2>6. v.seq =< net.probe.seq + 1
      BY <1>1, <1>2, <2>2
    <2> QED
      BY <1>1, <1>3, <2>2, <2>5, <2>6, QueueSurvives
  <1>5. CASE action \in {"remove", "hide", "silence"} /\ v = Dec!Untold
    <2>1. v \in Dec!Views /\ v.seq = 0 /\ v.excused = FALSE
      BY <1>5, UntoldIs
    <2>2. SinceOf(v, mark) = v
      BY <1>5 DEF SinceOf
    <2>3. ASSUME NEW u \in Dec!Views PROVE Dec!Right(Dec!Heard(u, e), v)
      <3>1. Dec!Heard(u, e) = v
        BY <1>3, <1>5, HeardSays
      <3> QED
        BY <3>1 DEF Dec!Right
    <2>4. Answers(Dec!Since(id), SinceOf(v, mark), e)
      BY <2>2, <2>3 DEF Answers
    <2>5. v.seq =< net.probe.seq + 1
      BY <1>1, <1>2, <2>1
    <2> QED
      BY <1>1, <1>3, <2>1, <2>4, <2>5, QueueSurvives
  <1>6. CASE action = "off" /\ v = Dec!Server(id)
    <2>1. v \in Dec!Views /\ v = s
      BY <1>1, <1>2, <1>6
    <2>2. v.excused = FALSE /\ v.seq =< net.probe.seq + 1
      <3>1. ~s.excused /\ s.seq =< net.probe.seq
        BY <1>1 DEF Dec!Unexcused, Dec!Survives
      <3>2. net.probe.seq = now - 1 /\ s.seq \in Nat /\ s.excused \in BOOLEAN
        <4>1. net \in DecorNets(own.kind)
          BY DecorHasIs DEF DecorHas, DecorTypes
        <4>2. net.probe.seq \in Nat
          BY <4>1, DecorNet, DecorProbe
        <4> QED
          BY <1>1, <1>2, <4>2 DEF Dec!Views
      <3>3. s.seq =< now
        BY <1>2, <3>1, <3>2
      <3> QED
        BY <1>1, <2>1, <3>1, <3>2, <3>3
    <2>3. PICK x : x = SinceOf(s, mark)
      OBVIOUS
    <2>4. ASSUME NEW u \in Dec!Views, Dec!Right(u, x) PROVE Dec!Right(Dec!Heard(u, e), x)
      BY <1>3, <1>6, <2>4, HeardSays
    <2>5. Answers(Dec!Since(id), SinceOf(v, mark), e)
      BY <1>2, <2>1, <2>3, <2>4 DEF Answers
    <2> QED
      BY <1>1, <1>3, <2>1, <2>2, <2>5, QueueSurvives
  <1> QED
    BY <1>4, <1>5, <1>6

\* An edit says what it says of a text that is shown.
LEMMA EditSurvives ==
    ASSUME Dec!DecorInv, Dec!Unexcused, Dec!Survives, Dec!OnEditText
    PROVE  Dec!Unexcused' /\ Dec!Survives'
  <1>1. own.kind = "text" /\ "edit" \in Dec!Actions("text")
    BY DEF Dec!OnEditText, Dec!Receives, Dec!Actions
  <1>2. PICK id \in Ids : Dec!Queue("edit", id,
            IF Dec!Server(id).seq = 0 THEN Dec!Server(id) ELSE [Dec!Server(id) EXCEPT !.shows = Dec!Now])
    BY DEF Dec!OnEditText
  <1>3. PICK old, now, mark, w : /\ old = net.probe.server[id] /\ now = net.probe.seq + 1 /\ mark = Dec!Mark
                                 /\ w = SinceOf(old, mark)
    OBVIOUS
  <1>4. /\ old \in Dec!Views /\ now \in Nat /\ Dec!Server(id) = old /\ Dec!Now = now
        /\ mark \in Nat /\ Dec!Since(id) = w
    BY <1>3, DecorFinds, MarkIs
  <1>5. PICK v : v = IF old.seq = 0 THEN old ELSE [old EXCEPT !.shows = now]
    OBVIOUS
  <1>6. /\ v \in Dec!Views /\ v.seq = old.seq /\ v.excused = old.excused
        /\ v.shows = IF old.seq = 0 THEN old.shows ELSE now
    BY <1>4, <1>5 DEF Dec!Views
  <1>7. PICK e : e = [seq |-> net.probe.seq + 1, action |-> "edit", id |-> id]
    OBVIOUS
  <1>8. e.seq = now /\ e.action = "edit"
    BY <1>3, <1>7
  <1>9. PICK x : x = SinceOf(v, mark)
    OBVIOUS
  <1>10. \/ w.seq # 0 /\ x.seq = w.seq /\ x.shows = now /\ x.excused = w.excused
         \/ w.seq = 0 /\ x.seq = 0 /\ w.shows = 0 /\ x.shows = 0 /\ ~w.excused
    <2>1. PICK u : u = Dec!Untold
      OBVIOUS
    <2>2. u.seq = 0 /\ u.shows = 0 /\ ~u.excused
      BY <2>1, UntoldIs
    <2>3. old.seq \in Nat
      BY <1>4 DEF Dec!Views
    <2>4. CASE old.seq > mark
      <3>1. w = old /\ x = v /\ old.seq # 0
        BY <1>3, <1>4, <1>6, <1>9, <2>3, <2>4 DEF SinceOf
      <3> QED
        BY <1>6, <3>1
    <2>5. CASE ~(old.seq > mark)
      <3>1. w = u /\ x = u
        BY <1>3, <1>6, <1>9, <2>1, <2>5 DEF SinceOf
      <3> QED
        BY <2>2, <3>1
    <2> QED
      BY <2>4, <2>5
  <1>11. ASSUME NEW u \in Dec!Views, Dec!Right(u, w) PROVE Dec!Right(Dec!Heard(u, e), x)
    <2>1. PICK y : y = Dec!Heard(u, e)
      OBVIOUS
    <2>2. y = IF u.seq = 0 THEN u ELSE [u EXCEPT !.shows = now]
      BY <1>8, <2>1, HeardSays
    <2>3. y.seq = u.seq /\ y.excused = u.excused /\ y.shows = IF u.seq = 0 THEN u.shows ELSE now
      BY <2>2 DEF Dec!Views
    <2>4. u.excused \/ w.excused \/ (u.seq = w.seq /\ u.shows = w.shows)
      BY <1>11 DEF Dec!Right
    <2>5. y.excused \/ x.excused \/ (y.seq = x.seq /\ y.shows = x.shows)
      BY <1>10, <2>3, <2>4
    <2> QED
      BY <2>1, <2>5 DEF Dec!Right
  <1>12. Answers(Dec!Since(id), SinceOf(v, Dec!Mark), e)
    BY <1>3, <1>4, <1>9, <1>11 DEF Answers
  <1>13. Dec!Queue("edit", id, v)
    BY <1>2, <1>4, <1>5
  <1>14. v.excused = FALSE /\ v.seq =< net.probe.seq + 1
    <2>1. ~old.excused /\ old.seq =< net.probe.seq
      BY <1>4 DEF Dec!Unexcused, Dec!Survives
    <2>2. old.seq \in Nat /\ net.probe.seq = now - 1 /\ old.excused \in BOOLEAN
      <3>1. net \in DecorNets(own.kind)
        BY DecorHasIs DEF DecorHas, DecorTypes
      <3>2. net.probe.seq \in Nat
        BY <3>1, DecorNet, DecorProbe
      <3> QED
        BY <1>3, <1>4, <3>2 DEF Dec!Views
    <2>3. old.seq =< now
      BY <1>4, <2>1, <2>2
    <2> QED
      BY <1>3, <1>6, <2>1, <2>2, <2>3
  <1> QED
    BY <1>1, <1>6, <1>7, <1>12, <1>13, <1>14, QueueSurvives

\* A player's move leaves what the bridge has still to hear of.
LEMMA MoveSurvives ==
    ASSUME Dec!DecorInv, Dec!Unexcused, Dec!Survives, NEW id \in Ids, NEW here \in SUBSET Ids, Dec!Moves(id, here)
    PROVE  Dec!Unexcused' /\ Dec!Survives'
  <1>1. PICK n, p, q, mark, v : n = net /\ p = net.probe /\ q = net'.probe /\ mark = Dec!Mark /\ v = Dec!Since(id)
    OBVIOUS
  <1>2. n \in DecorNets(own.kind) /\ p \in DecorProbes(own.kind)
    BY <1>1, DecorHasIs, DecorNet DEF DecorHas, DecorTypes
  <1>3. p.seq \in Nat /\ p.server \in [Ids -> Dec!Views]
    BY <1>2, DecorProbe
  <1>4. mark \in Nat /\ v = SinceOf(p.server[id], mark) /\ \A i \in Ids : Dec!Since(i) = SinceOf(p.server[i], mark)
    BY <1>1, MarkIs
  <1>5. /\ q.seq = p.seq /\ q.ring = p.ring /\ q.server = [p.server EXCEPT ![id] = v]
        /\ net'.restart = n.restart /\ own' = own
    <2>1. PICK k, moved : k = n.rpcs + 1 /\ moved = n.probe.moved \cup {id}
      OBVIOUS
    <2>2. net' = NetMoved(n, n.rpcs + 1, here, moved, id, v)
      BY <1>1, <2>1, MovesIs
    <2>3. NetMoved(n, k, here, moved, id, v)
            = [probe |-> [seq |-> n.probe.seq, ring |-> n.probe.ring, server |-> [n.probe.server EXCEPT ![id] = v],
                          here |-> here, moved |-> moved],
               restart |-> n.restart, rpcs |-> k]
      BY <1>2, NetIsMoved
    <2>4. net'.restart = n.restart
      BY <2>1, <2>2, <2>3
    <2>5. q = [seq |-> n.probe.seq, ring |-> n.probe.ring, server |-> [n.probe.server EXCEPT ![id] = v],
               here |-> here, moved |-> moved]
      BY <1>1, <2>1, <2>2, <2>3
    <2>6. q.seq = n.probe.seq /\ q.ring = n.probe.ring /\ q.server = [n.probe.server EXCEPT ![id] = v]
      BY <2>5
    <2>7. own' = own
      BY DEF Dec!Moves
    <2> QED
      BY <1>1, <2>4, <2>6, <2>7
  <1>6. q.server[id] = v /\ \A i \in Ids : i # id => q.server[i] = p.server[i]
    BY <1>3, <1>5
  <1>7. ASSUME NEW i \in Ids
        PROVE  ~q.server[i].excused /\ q.server[i].seq =< q.seq /\ SinceOf(q.server[i], mark) = SinceOf(p.server[i], mark)
    <2>1. PICK x : x = p.server[i]
      OBVIOUS
    <2>2. x \in Dec!Views /\ ~x.excused /\ x.seq =< p.seq
      BY <1>1, <1>3, <2>1 DEF Dec!Unexcused, Dec!Survives, Dec!Server
    <2>3. CASE i # id
      BY <1>5, <1>6, <2>1, <2>2, <2>3
    <2>4. CASE i = id
      <3>1. q.server[i] = SinceOf(x, mark)
        BY <1>4, <1>6, <2>1, <2>4
      <3>2. SinceOf(SinceOf(x, mark), mark) = SinceOf(x, mark)
        BY <1>4, <2>2, SinceIs
      <3>3. ~q.server[i].excused /\ q.server[i].seq =< p.seq
        <4>1. PICK u : u = Dec!Untold
          OBVIOUS
        <4>2. u.seq =< p.seq /\ ~u.excused
          BY <1>3, <4>1, UntoldIs
        <4>3. q.server[i] = x \/ q.server[i] = u
          BY <3>1, <4>1 DEF SinceOf
        <4> QED
          BY <2>2, <4>2, <4>3
      <3> QED
        BY <1>5, <2>1, <3>1, <3>2, <3>3
    <2> QED
      BY <2>3, <2>4
  <1>8. Dec!Unexcused'
    BY <1>1, <1>7 DEF Dec!Unexcused, Dec!Server
  <1>9. Dec!Mark' = mark
    BY <1>1, <1>5 DEF Dec!Mark
  <1>10. ASSUME NEW i \in Ids, ~Dec!Gap(q.ring, mark)
         PROVE  Dec!Right(Dec!After(q, mark, Dec!Untold, i), SinceOf(q.server[i], mark))
    <2>1. ~Dec!Gap(net.probe.ring, Dec!Mark) => Dec!Right(Dec!After(net.probe, Dec!Mark, Dec!Untold, i), Dec!Since(i))
      BY DEF Dec!Survives
    <2>2. Dec!After(q, mark, Dec!Untold, i) = Dec!After(p, mark, Dec!Untold, i)
      BY <1>5, AfterIs
    <2> QED
      BY <1>1, <1>4, <1>5, <1>7, <1>10, <2>1, <2>2
  <1>11. Dec!Survives'
    BY <1>1, <1>7, <1>9, <1>10, SurvivesWill
  <1> QED
    BY <1>8, <1>11

\* There is nothing to hear of when the ring holds nothing new.
LEMMA NothingSurvives ==
    ASSUME NEW mark \in Nat, Dec!Mark' = mark, NEW q, q = net'.probe, Len(q.ring) \in Nat,
           \A k \in 1 .. Len(q.ring) : ~(q.ring[k].seq > mark),
           \A i \in Ids : /\ q.server[i].seq =< q.seq
                          /\ q.server[i] = Dec!Untold \/ (q.server[i] \in Dec!Views /\ q.server[i].seq =< mark)
    PROVE  Dec!Survives'
  <1>1. PICK u : u = Dec!Untold
    OBVIOUS
  <1>2. ASSUME NEW i \in Ids PROVE Dec!Right(Dec!After(q, mark, u, i), SinceOf(q.server[i], mark))
    <2>1. Dec!After(q, mark, u, i) = u
      <3>1. ViewReplayed(q.ring, mark, u, i) = u
        BY NothingIsHeard
      <3> QED
        BY <3>1, AfterIs
    <2>2. SinceOf(q.server[i], mark) = u
      <3>1. PICK x : x = q.server[i]
        OBVIOUS
      <3>2. CASE x = u
        BY <1>1, <3>1, <3>2 DEF SinceOf
      <3>3. CASE x \in Dec!Views /\ x.seq =< mark
        <4>1. x.seq \in Nat /\ ~(x.seq > mark)
          BY <3>3 DEF Dec!Views
        <4> QED
          BY <1>1, <3>1, <4>1 DEF SinceOf
      <3> QED
        BY <1>1, <3>1, <3>2, <3>3
    <2> QED
      BY <2>1, <2>2 DEF Dec!Right
  <1> QED
    BY <1>1, <1>2, SurvivesWill

\* Every step leaves it so.
LEMMA SurvivesStep ==
    ASSUME Dec!DecorInv, Dec!DecorInv', Dec!Unexcused, Dec!Survives, Dec!Next
    PROVE  Dec!Unexcused' /\ Dec!Survives'
  <1>1. net \in DecorNets(own.kind) /\ net.probe \in DecorProbes(own.kind) /\ own \in DecorOwns /\ DecorRings(net.probe)
    BY DecorHasIs, DecorNet DEF DecorHas, DecorTypes
  <1>2. net.probe.here \subseteq Ids /\ net.probe.seq \in Nat /\ net.probe.server \in [Ids -> Dec!Views]
    BY <1>1, DecorProbe
  <1>3. CASE Dec!OnSetMapIcon \/ Dec!OnRemoveMapIcon
    <2>1. Dec!Receives("icon") /\ {"set", "off", "remove"} \subseteq Dec!Actions("icon")
      BY <1>3 DEF Dec!OnSetMapIcon, Dec!OnRemoveMapIcon, Dec!Actions
    <2> QED
      BY <1>3, <2>1, RpcSurvives DEF Dec!OnSetMapIcon, Dec!OnRemoveMapIcon
  <1>4. CASE Dec!OnShowText \/ Dec!OnHideText
    <2>1. Dec!Receives("text") /\ {"show", "hide"} \subseteq Dec!Actions("text")
      BY <1>4 DEF Dec!OnShowText, Dec!OnHideText, Dec!Actions
    <2> QED
      BY <1>4, <2>1, RpcSurvives DEF Dec!OnShowText, Dec!OnHideText
  <1>5. CASE Dec!OnChatBubble
    <2>1. Dec!Receives("bubble") /\ {"say", "silence"} \subseteq Dec!Actions("bubble")
      BY <1>5 DEF Dec!OnChatBubble, Dec!Actions
    <2> QED
      BY <1>5, <2>1, RpcSurvives DEF Dec!OnChatBubble
  <1>6. CASE Dec!OnRemoveBuilding
    <2>1. Dec!Receives("building") /\ "take" \in Dec!Actions("building")
      BY <1>6 DEF Dec!OnRemoveBuilding, Dec!Actions
    <2> QED
      BY <1>6, <2>1, RpcSurvives DEF Dec!OnRemoveBuilding
  <1>7. CASE Dec!OnAttach
    <2>1. Dec!Receives("attached") /\ {"set", "remove", "off"} \subseteq Dec!Actions("attached")
      BY <1>7 DEF Dec!OnAttach, Dec!Actions
    <2>2. PICK id \in net.probe.here : \/ Dec!Queue("set", id, Dec!Told)
                                       \/ Dec!Queue("remove", id, Dec!Untold)
                                       \/ Dec!Queue("off", id, Dec!Server(id))
      BY <1>7 DEF Dec!OnAttach
    <2>3. id \in Ids
      BY <1>2
    <2> QED
      BY <2>1, <2>2, <2>3, RpcSurvives
  <1>8. CASE Dec!OnEnter \/ Dec!OnLeave
    <2>1. PICK id \in Ids, here \in SUBSET Ids : Dec!Moves(id, here)
      <3>1. CASE Dec!OnEnter
        <4>1. PICK id \in Ids : Dec!Moves(id, net.probe.here \cup {id})
          BY <3>1 DEF Dec!OnEnter
        <4>2. PICK here : here = net.probe.here \cup {id}
          OBVIOUS
        <4>3. here \in SUBSET Ids /\ Dec!Moves(id, here)
          BY <1>2, <4>1, <4>2
        <4> QED
          BY <4>3
      <3>2. CASE Dec!OnLeave
        <4>1. PICK id \in net.probe.here : Dec!Moves(id, net.probe.here \ {id})
          BY <3>2 DEF Dec!OnLeave
        <4>2. PICK here : here = net.probe.here \ {id}
          OBVIOUS
        <4>3. here \in SUBSET Ids /\ id \in Ids /\ Dec!Moves(id, here)
          BY <1>2, <4>1, <4>2
        <4> QED
          BY <4>3
      <3> QED
        BY <1>8, <3>1, <3>2
    <2> QED
      BY <2>1, MoveSurvives
  <1>9. CASE Dec!OnEditText
    BY <1>9, EditSurvives
  <1>10. CASE Dec!OnRestart
    <2>1. PICK q, k : q = Dec!ResetProbe /\ k = net.restart + 1
      OBVIOUS
    <2>2. q \in DecorProbes(own.kind) /\ DecorRings(q) /\ q.seq = 0 /\ \A i \in Ids : q.server[i] = Dec!Untold
      BY <2>1, ResetIs
    <2>3. net'.probe = q
      <3>1. net' = [net EXCEPT !.probe = q, !.restart = k]
        BY <1>10, <2>1 DEF Dec!OnRestart
      <3> QED
        BY <1>1, <3>1 DEF DecorNets
    <2>4. Dec!Unexcused'
      BY <2>2, <2>3, UntoldIs DEF Dec!Unexcused, Dec!Server
    <2>5. Dec!Mark' \in Nat
      BY MarkWill
    <2>6. q.ring = <<>>
      BY <2>1 DEF Dec!ResetProbe
    <2>7. Dec!Survives'
      <3>1. PICK mark \in Nat : mark = Dec!Mark'
        BY <2>5
      <3>2. Len(q.ring) = 0
        BY <2>6
      <3>3. \A i \in Ids : q.server[i].seq =< q.seq
        BY <2>2, UntoldIs
      <3> QED
        BY <2>2, <2>3, <3>1, <3>2, <3>3, NothingSurvives
    <2> QED
      BY <2>4, <2>7
  <1>11. CASE Dec!Frame
    <2>1. PICK p, q, mark : p = net.probe /\ q = net'.probe /\ mark = Dec!Mark'
      OBVIOUS
    <2>2. q.seq = p.seq /\ q.ring = p.ring /\ q.server = p.server
      <3>1. net' = [net EXCEPT !.probe.moved = {}]
        BY <1>11 DEF Dec!Frame
      <3> QED
        BY <1>1, <2>1, <3>1 DEF DecorNets, DecorProbes
    <2>3. mark = q.seq
      <3>1. pc' = "drawn" /\ DecorCounts(net', own', pc')
        BY <1>11, DecorWillHave DEF Dec!Frame, DecorHas
      <3> QED
        BY <2>1, <3>1 DEF DecorCounts, Dec!Mark
    <2>4. RingOk(p.ring, p.seq, DecorRing, Rung(own.kind)) /\ p.seq \in Nat /\ Len(p.ring) \in Nat
      BY <1>1, <1>2, <2>1, DecorRingOk
    <2>5. \A k \in 1 .. Len(q.ring) : ~(q.ring[k].seq > mark)
      <3>1. DecorRing \in Nat \ {0}
        BY PoolsAssumption
      <3>2. News(p.ring, p.seq, {})
        BY <2>4, <3>1, NoneUnseen
      <3> QED
        BY <2>2, <2>3, <3>2 DEF News
    <2>6. Dec!Unexcused'
      BY <2>1, <2>2 DEF Dec!Unexcused, Dec!Server
    <2>7. \A i \in Ids : q.server[i] \in Dec!Views /\ q.server[i].seq =< q.seq
      BY <1>2, <2>1, <2>2 DEF Dec!Survives, Dec!Server
    <2>8. mark \in Nat /\ Len(q.ring) \in Nat
      BY <2>2, <2>3, <2>4
    <2>9. Dec!Survives'
      BY <2>1, <2>3, <2>5, <2>7, <2>8, NothingSurvives
    <2> QED
      BY <2>6, <2>9
  <1>12. CASE Dec!DrawBubbles \/ Dec!Streams \/ Dec!NextScene
    <2>1. net' = net
      BY <1>12 DEF Dec!DrawBubbles, Dec!Streams, Dec!NextScene
    <2>2. own'.pool.mark = own.pool.mark /\ own'.handled = own.handled
      <3>1. CASE Dec!DrawBubbles
        <4>1. PICK id \in Ids : own' = [own EXCEPT !.pool.slots[id].active = FALSE, !.pool.active = @ - 1]
          BY <3>1 DEF Dec!DrawBubbles
        <4> QED
          BY <1>1, <4>1 DEF DecorOwns, Dec!Pools
      <3>2. CASE Dec!Streams
        <4>1. PICK t : own' = [own EXCEPT !.pool.standing = t]
          BY <3>2 DEF Dec!Streams
        <4> QED
          BY <1>1, <4>1 DEF DecorOwns, Dec!Pools
      <3>3. CASE Dec!NextScene
        BY <3>3 DEF Dec!NextScene
      <3> QED
        BY <1>12, <3>1, <3>2, <3>3
    <2> QED
      BY <2>1, <2>2, SurvivesIdle
  <1> QED
    BY <1>3, <1>4, <1>5, <1>6, <1>7, <1>8, <1>9, <1>10, <1>11, <1>12 DEF Dec!Next

-----------------------------------------------------------------------------
(* Decor as a whole. *)

\* It holds to begin with.
LEMMA DecorInit ==
    ASSUME Dec!Init
    PROVE  Dec!DecorInv /\ Dec!Unexcused /\ Dec!Survives
  <1>1. PICK q, kind, o : /\ q = Dec!ResetProbe /\ kind \in Dec!Kinds /\ o = Dec!FreshPool(Ids)
                          /\ own = [kind |-> kind, pool |-> o, handled |-> 0, gap |-> FALSE]
    BY DEF Dec!Init
  <1>2. q \in DecorProbes(kind) /\ DecorRings(q) /\ q.seq = 0 /\ q.moved = {} /\ \A i \in Ids : q.server[i] = Dec!Untold
    BY <1>1, ResetIs
  <1>3. /\ o \in SanePools(kind) /\ o.mark = 0 /\ \A i \in Ids : o.slots[i] = Dec!NoSlot
        /\ o.scan = "never"
    BY <1>1, FreshIs
  <1>4. o \in Dec!Pools /\ Dec!Sane(kind, o)
    BY <1>3 DEF SanePools
  <1>5. PICK n, w, z, f : n = net /\ w = own /\ z = 0 /\ f = FALSE
    OBVIOUS
  <1>6. n = [probe |-> q, restart |-> z, rpcs |-> z] /\ w = [kind |-> kind, pool |-> o, handled |-> z, gap |-> f]
    BY <1>1, <1>5 DEF Dec!Init
  <1>7. z \in Nat /\ f \in BOOLEAN /\ pc = "pump" /\ scene = "none"
    BY <1>5 DEF Dec!Init
  <1>8. /\ n.probe = q /\ n.restart = z /\ n.rpcs = z
        /\ w.kind = kind /\ w.pool = o /\ w.handled = z /\ w.gap = f
    BY <1>6
  <1>9. DecorTypes(n, w, "pump", "none")
    <2>1. n \in DecorNets(kind)
      BY <1>2, <1>6, <1>7 DEF DecorNets
    <2>2. w \in DecorOwns
      BY <1>1, <1>4, <1>6, <1>7 DEF DecorOwns
    <2> QED
      BY <1>8, <2>1, <2>2 DEF DecorTypes
  <1>10. DecorCounts(n, w, "pump")
    <2>1. MaxRestarts \in Nat /\ MaxDecor \in Nat
      BY PoolsAssumption
    <2> QED
      BY <1>2, <1>3, <1>5, <1>8, <2>1 DEF DecorCounts
  <1>11. DecorCleared(w, "pump")
    BY DEF DecorCleared
  <1>12. DecorCatches(n, w)
    <2>1. PICK known : known = KnownOf(kind, o, q.moved)
      OBVIOUS
    <2>2. ASSUME NEW i \in Ids PROVE Dec!Right(known[i], q.server[i])
      <3>1. known[i] = Dec!Seen(kind, o, i)
        BY <1>2, <1>3, <2>1, KnownOfIs
      <3>2. known[i].seq = 0 /\ known[i].shows = 0
        BY <1>3, <3>1, SeenSays, NoDecor
      <3>3. q.server[i].seq = 0 /\ q.server[i].shows = 0
        BY <1>2, UntoldIs
      <3> QED
        BY <3>2, <3>3 DEF Dec!Right
    <2>3. Dec!CatchesUp(q, q.seq, known)
      BY <1>2, <2>2, DecorIsCaughtUp
    <2>4. DecorPool(n, w) = o
      BY <1>8 DEF DecorPool
    <2> QED
      BY <1>2, <1>3, <1>8, <2>1, <2>3, <2>4 DEF DecorCatches
  <1>13. DecorHas(n, w, "pump", "none")
    BY <1>2, <1>4, <1>8, <1>9, <1>10, <1>11, <1>12 DEF DecorHas
  <1>14. Dec!DecorInv
    BY <1>5, <1>7, <1>13, DecorHasIs
  <1>15. Dec!Unexcused
    BY <1>2, <1>5, <1>8, UntoldIs DEF Dec!Unexcused, Dec!Server
  <1>16. Dec!Survives
    <2>1. PICK u, mark : u = Dec!Untold /\ mark = Dec!Mark
      OBVIOUS
    <2>2. net.probe = q /\ q.ring = <<>>
      BY <1>1, <1>5, <1>8 DEF Dec!ResetProbe
    <2>3. ASSUME NEW i \in Ids PROVE Dec!Since(i) = u /\ Dec!Server(i) = u
      BY <1>2, <2>1, <2>2 DEF Dec!Since, Dec!Server
    <2>4. ASSUME NEW i \in Ids PROVE Dec!After(q, mark, u, i) = u
      <3>1. PICK r : r = q.ring
        OBVIOUS
      <3>2. Len(r) = 0
        BY <2>2, <3>1
      <3>3. ViewReplayed(r, mark, u, i) = u
        BY <3>2, NothingIsHeard
      <3> QED
        BY <3>1, <3>3, AfterIs
    <2>5. u.seq = 0 /\ q.seq = 0
      BY <1>2, <2>1, UntoldIs
    <2>6. ASSUME NEW i \in Ids PROVE Dec!Right(Dec!After(net.probe, Dec!Mark, Dec!Untold, i), Dec!Since(i))
      BY <2>1, <2>2, <2>3, <2>4 DEF Dec!Right
    <2> QED
      BY <2>2, <2>3, <2>5, <2>6 DEF Dec!Survives
  <1> QED
    BY <1>14, <1>15, <1>16

\* Every step of Decor preserves the invariant.
LEMMA DecorStep ==
    ASSUME Dec!DecorInv, Dec!Survives, Dec!Next
    PROVE  Dec!DecorInv'
  <1>1. CASE Dec!NextScene
    BY <1>1, DecorIdle DEF Dec!NextScene
  <1>2. \/ Dec!OnSetMapIcon
        \/ Dec!OnRemoveMapIcon
        \/ Dec!OnShowText
        \/ Dec!OnEditText
        \/ Dec!OnHideText
        \/ Dec!OnChatBubble
        \/ Dec!OnRemoveBuilding
        \/ Dec!OnAttach
        \/ Dec!OnEnter
        \/ Dec!OnLeave
        \/ Dec!OnRestart
        \/ Dec!Frame
        \/ Dec!DrawBubbles
        \/ Dec!Streams
        \/ Dec!NextScene
    BY DEF Dec!Next
  <1> QED
    BY <1>1, <1>2, DecorSetMapIcon, DecorRemoveMapIcon, DecorShowText, DecorEditText, DecorHideText, DecorChatBubble,
       DecorRemoveBuilding, DecorAttach, DecorEnter, DecorLeave, DecorRestart, DecorFrame, DecorDraws, DecorStreams

\* The slots, GTA's handles and the counts hold together whatever the ring has lost, and
\* what the ring still holds brings the slots up to date unless it has lost something.
THEOREM DecorInvariant == Spec => []DecorInv
  <1>1. Init => DecorInv
    BY DecorInit DEF Init, DecorInv
  <1>2. DecorInv /\ [Next]_vars => DecorInv'
    <2> SUFFICES ASSUME DecorInv, [Next]_vars PROVE DecorInv'
      OBVIOUS
    <2>1. CASE part = "decor" /\ part' = "decor" /\ Dec!Next
      BY <2>1, DecorStep, SurvivesStep DEF DecorInv
    <2>2. CASE part' # "decor"
      BY <2>2 DEF DecorInv
    <2>3. CASE UNCHANGED vars
      <3>1. part' = part /\ net' = net /\ own' = own /\ scene' = scene /\ pc' = pc
        BY <2>3 DEF vars
      <3>2. Dec!DecorInv => Dec!DecorInv'
        BY <3>1, DecorIdle
      <3>3. Dec!Unexcused /\ Dec!Survives => Dec!Unexcused' /\ Dec!Survives'
        BY <3>1, SurvivesIdle
      <3> QED
        BY <3>1, <3>2, <3>3 DEF DecorInv
    <2>4. part' = "decor" /\ Next => part = "decor" /\ Dec!Next
      BY DEF Next
    <2> QED
      BY <2>1, <2>2, <2>3, <2>4
  <1> QED
    BY <1>1, <1>2, PTL DEF Spec

\* GTA has the icons and objects of the slots, and the counts are theirs.
LEMMA DecorHolds ==
    ASSUME Dec!DecorInv
    PROVE  Dec!HandlesAgree /\ Dec!CountsAgree
  <1>1. PICK kind, o : kind = own.kind /\ o = own.pool
    OBVIOUS
  <1>2. o \in SanePools(kind) /\ Dec!Sane(kind, o)
    BY <1>1, DecorHasIs, DecorOwn DEF DecorHas, DecorTypes, SanePools
  <1>3. o \in Dec!Pools /\ o.gta \in [Handles -> Ids \cup {0}]
    BY <1>2, PoolFields DEF SanePools
  <1>4. Dec!HandlesAgree
    <2>1. ASSUME NEW x \in Handles, o.gta[x] = 0, NEW i \in Ids PROVE o.slots[i].gta # x
      BY <1>2, <2>1, HandlesAre, IdsAre
    <2>2. ASSUME NEW x \in Handles, o.gta[x] # 0 PROVE o.slots[o.gta[x]].gta = x
      BY <1>2, <2>2 DEF Dec!Sane, Dec!HandleOk
    <2>3. ASSUME kind = "attached", NEW i \in Ids, o.slots[i].gta # 0 PROVE i \in o.peds
      BY <1>2, <2>3 DEF Dec!Sane, Dec!SlotOk
    <2> QED
      BY <1>1, <2>1, <2>2, <2>3 DEF Dec!HandlesAgree
  <1>5. Dec!CountsAgree
    <2>1. Dec!Numbered(kind, o)
      BY <1>2 DEF Dec!Sane
    <2> QED
      BY <1>1, <2>1 DEF Dec!Numbered, Dec!CountsAgree
  <1> QED
    BY <1>4, <1>5

\* After a frame, while the ring has lost nothing, what is seen of a slot is right.
LEMMA DecorIsRight ==
    ASSUME Dec!DecorInv, pc = "drawn", ~own.gap, NEW i \in Ids
    PROVE  Dec!Right(Dec!Seen(own.kind, own.pool, i), Dec!Server(i))
  <1>1. DecorHas(net, own, pc, scene)
    BY DecorHasIs
  <1>2. PICK n, w, kind, o, p : n = net /\ w = own /\ kind = own.kind /\ o = own.pool /\ p = net.probe
    OBVIOUS
  <1>3. DecorTypes(n, w, pc, scene) /\ DecorCounts(n, w, pc) /\ DecorRings(p) /\ DecorCatches(n, w) /\ Dec!Sane(kind, o)
    BY <1>1, <1>2 DEF DecorHas
  <1>4. p \in DecorProbes(kind) /\ o \in SanePools(kind)
    BY <1>2, <1>3, DecorNet, DecorOwn DEF DecorTypes, SanePools
  <1>5. w.handled = n.restart /\ o.mark = p.seq /\ p.moved = {}
    BY <1>2, <1>3 DEF DecorCounts
  <1>6. DecorPool(n, w) = o
    BY <1>2, <1>5 DEF DecorPool
  <1>7. PICK known : known = KnownOf(kind, o, p.moved)
    OBVIOUS
  <1>8. Dec!CatchesUp(p, p.seq, known)
    BY <1>2, <1>3, <1>5, <1>6, <1>7 DEF DecorCatches
  <1>9. Dec!Right(known[i], p.server[i])
    BY <1>3, <1>4, <1>8, DecorIsCaughtUp
  <1>10. known[i] = Dec!Seen(kind, o, i)
    BY <1>4, <1>5, <1>7, KnownOfIs
  <1> QED
    BY <1>2, <1>9, <1>10 DEF Dec!Server

\* Then the slots are the server's.
LEMMA DecorSlots ==
    ASSUME Dec!DecorInv, Dec!Unexcused, pc = "drawn", ~own.gap
    PROVE  Dec!SlotsAgree
  <1>1. PICK kind, o : kind = own.kind /\ o = own.pool
    OBVIOUS
  <1>2. o \in SanePools(kind) /\ Dec!Sane(kind, o) /\ kind \in Dec!Kinds
    BY <1>1, DecorHasIs, DecorOwn DEF DecorHas, DecorTypes, SanePools
  <1>3. ASSUME NEW i \in Ids
        PROVE  \/ Dec!Excused(kind, o, i)
               \/ Dec!Server(i).excused
               \/ o.slots[i].seq = Dec!Server(i).seq /\ o.slots[i].shows = Dec!Server(i).shows
    <2>1. PICK v, s : v = Dec!Seen(kind, o, i) /\ s = Dec!Server(i)
      OBVIOUS
    <2>2. Dec!Right(v, s)
      BY <1>1, <2>1, DecorIsRight
    <2>3. v.seq = o.slots[i].seq /\ v.shows = o.slots[i].shows /\ v.excused = Dec!Excused(kind, o, i)
      BY <2>1, SeenSays
    <2> QED
      BY <2>1, <2>2, <2>3 DEF Dec!Right
  <1>4. ASSUME NEW i \in Ids PROVE ~Dec!Server(i).excused
    BY DEF Dec!Unexcused
  <1>5. CASE kind = "icon"
    <2>1. ASSUME NEW i \in Ids \ o.refused PROVE ~Dec!Excused(kind, o, i)
      BY <1>5 DEF Dec!Excused
    <2> QED
      BY <1>1, <1>3, <1>4, <1>5, <2>1 DEF Dec!SlotsAgree
  <1>6. CASE kind \in {"text", "bubble", "attached"}
    <2>1. ASSUME NEW i \in Ids PROVE ~Dec!Excused(kind, o, i)
      BY <1>6 DEF Dec!Excused
    <2> QED
      BY <1>1, <1>3, <1>4, <1>6, <2>1 DEF Dec!SlotsAgree
  <1>7. CASE kind = "building"
    <2>1. ASSUME NEW i \in Ids, Dec!Server(i).seq # 0 PROVE i \in o.records \/ Dec!Cardinality(o.records) = MaxRecords
      <3>1. o.slots[i].seq = 0
        BY <1>2, <1>7 DEF Dec!Sane, Dec!SlotOk
      <3>2. Dec!Excused(kind, o, i)
        BY <1>3, <1>4, <1>7, <2>1, <3>1
      <3> QED
        BY <1>7, <3>2 DEF Dec!Excused
    <2>2. o.scan = "now" => o.standing \cap o.records = {}
      BY <1>1, <1>7 DEF Dec!DecorInv, Dec!Cleared
    <2> QED
      BY <1>1, <1>7, <2>1, <2>2 DEF Dec!SlotsAgree
  <1> QED
    BY <1>2, <1>5, <1>6, <1>7 DEF Dec!Kinds

\* Decor!DecorAgrees: GTA's icons and objects are the slots', the counts the overlay
\* relies on are right, and after a frame, while the ring has lost nothing, what the
\* client shows is what the server last said.
THEOREM DecorIsAgreed == Spec => []DecorAgrees
  <1>1. ASSUME Dec!DecorInv, Dec!Unexcused PROVE Dec!DecorAgrees
    BY <1>1, DecorHolds, DecorSlots DEF Dec!DecorAgrees
  <1>2. DecorInv => DecorAgrees
    BY <1>1 DEF DecorInv, DecorAgrees
  <1> QED
    BY <1>2, DecorInvariant, PTL

-----------------------------------------------------------------------------
(* The gang zones. *)

ZonesSteps(U, E) == [p \in U \X E |-> Zon!ApplyEvent(p[1], p[2])]

ZonesStay(U, E) == \A x \in U, e \in E : Zon!ApplyEvent(x, e) \in U

\* The loop over the snapshot is that of the function.
LEMMA ZonesLoop ==
    ASSUME NEW U, NEW E, ZonesStay(U, E), NEW ring, NEW mark, NEW o \in U, News(ring, mark, E),
           Len(ring) \in Nat
    PROVE  Zon!Replayed(ring, mark, o, Zon!ApplyEvent) = Value(ring, mark, o, ZonesSteps(U, E))
  <1>0. PICK F : F = ZonesSteps(U, E)
    OBVIOUS
  <1>1. \A x \in U, e \in E : F[<<x, e>>] = Zon!ApplyEvent(x, e)
    BY <1>0 DEF ZonesSteps
  <1>2. Closed(F, U, E)
    BY <1>1 DEF ZonesStay, Closed
  <1>3. PICK last \in Nat : last = Len(ring)
    OBVIOUS
  <1>4. PICK g : Loop(g, ring, mark, o, last, F) /\ Value(ring, mark, o, F) = g[last]
    BY <1>3, ValueIs
  <1>5. \A k \in 0 .. last : g[k] \in U
    <2>1. last =< Len(ring)
      BY <1>3
    <2> QED
      BY <1>2, <1>3, <1>4, <2>1, LoopStays
  <1>13. /\ g[0] = o
         /\ \A k \in 0 .. last : k # 0 => g[k] = IF ring[k].seq > mark THEN F[<<g[k - 1], ring[k]>>] ELSE g[k - 1]
    BY <1>4 DEF Loop
  <1> DEFINE Then(x, k) == IF ring[k].seq > mark THEN Zon!ApplyEvent(x, ring[k]) ELSE x
             Is(h) == h = [k \in 0 .. last |-> IF k = 0 THEN o ELSE Then(h[k - 1], k)]
             c == CHOOSE h : Is(h)
  <1>6. Is(g)
    <2>2. ASSUME NEW k \in 0 .. last, k # 0 PROVE g[k] = Then(g[k - 1], k)
      <3>1. g[k] = IF ring[k].seq > mark THEN F[<<g[k - 1], ring[k]>>] ELSE g[k - 1]
        BY <1>13, <2>2
      <3>2. k - 1 \in 0 .. last /\ k \in 1 .. Len(ring)
        BY <1>3, <2>2
      <3>3. g[k - 1] \in U /\ (ring[k].seq > mark => ring[k] \in E)
        BY <1>5, <3>2 DEF News
      <3> QED
        BY <1>1, <3>1, <3>3
    <2>3. g = [k \in 0 .. last |-> g[k]]
      BY <1>4 DEF Loop
    <2> HIDE DEF Then
    <2> QED
      BY <1>13, <2>2, <2>3
  <1>7. Is(c)
    <2> HIDE DEF Is
    <2> QED
      BY <1>6
  <1>8. Zon!Replayed(ring, mark, o, Zon!ApplyEvent) = c[last]
    BY <1>3 DEF Zon!Replayed
  <1> HIDE DEF c
  <1>9. c[0] = o /\ g[0] = o /\ \A k \in 0 .. last : k # 0 => c[k] = Then(c[k - 1], k) /\ g[k] = Then(g[k - 1], k)
    <2> HIDE DEF Then
    <2> QED
      BY <1>6, <1>7
  <1> HIDE DEF Is, Then
  <1> DEFINE S == {k \in Nat : k =< last => c[k] = g[k]}
  <1>10. 0 \in S
    BY <1>9
  <1>11. ASSUME NEW k \in Nat, k \in S PROVE k + 1 \in S
    <2> SUFFICES ASSUME k + 1 =< last PROVE c[k + 1] = g[k + 1]
      OBVIOUS
    <2>1. c[k] = g[k] /\ k + 1 \in 0 .. last /\ k + 1 # 0 /\ (k + 1) - 1 = k
      BY <1>11
    <2> QED
      BY <1>9, <2>1
  <1>12. Nat \subseteq S
    <2> HIDE DEF S
    <2> QED
      BY <1>10, <1>11, Steps
  <1> QED
    BY <1>0, <1>4, <1>8, <1>12

\* What the instance has of Ring.
LEMMA ZonesRing ==
    /\ \A r, m : Zon!Gap(r, m) = Gap(r, m) /\ Zon!MarkAfter(r, m) = MarkAfter(r, m)
    /\ \A r, n, e : Zon!Push(r, n, e) = Push(r, n, e)
  BY DEF Zon!Gap, Gap, Zon!MarkAfter, MarkAfter, Zon!Push, Push

\* What the bridge has of the zones, and how many it counts.
ZoneViews == [slots : Zon!Tables, count : Int]

\* The empty table.
LEMMA NoZonesAre ==
    /\ Zon!NoZone \in Zon!Zones /\ Zon!NoZones \in Zon!Tables
    /\ Zon!Active(Zon!NoZones) = 0
  <1>1. Zon!NoZone \in Zon!Zones
    BY DEF Zon!Zones
  <1>2. Zon!NoZones \in Zon!Tables /\ \A i \in Ids : Zon!NoZones[i] = Zon!NoZone
    BY <1>1 DEF Zon!NoZones, Zon!Tables
  <1>3. {i \in Ids : Zon!NoZones[i] # Zon!NoZone} = {}
    BY <1>2
  <1>4. Cardinality({}) = 0
    BY FS_EmptySet
  <1>5. Zon!Active(Zon!NoZones) = 0
    BY <1>3, <1>4 DEF Zon!Active, Zon!Cardinality, Cardinality
  <1> QED
    BY <1>1, <1>2, <1>5

\* A zone that has been said is a zone.
LEMMA ZoneIsThere ==
    ASSUME NEW c \in Nat \ {0}, NEW d \in Nat \ {0}
    PROVE  [base |-> c, alt |-> d] \in Zon!Zones /\ [base |-> c, alt |-> d] # Zon!NoZone
  BY DEF Zon!Zones, Zon!NoZone

\* The adapter's table and the bridge's slots take an event the same way.
LEMMA ZoneAfterIs ==
    ASSUME NEW s \in Zon!Zones, NEW e \in Zon!Events
    PROVE  /\ Zon!StateAfter(s, e) = Zon!SlotAfter(s, e) /\ Zon!SlotAfter(s, e) \in Zon!Zones
           /\ e.action = "create" => Zon!SlotAfter(s, e) # Zon!NoZone
           /\ e.action = "destroy" => Zon!SlotAfter(s, e) = Zon!NoZone
           /\ e.action \in {"flash", "stop"} => (Zon!SlotAfter(s, e) = Zon!NoZone <=> s = Zon!NoZone)
  <1>1. e.says \in Nat \ {0} /\ e.action \in {"create", "destroy", "flash", "stop"}
    BY DEF Zon!Events, Zon!Actions
  <1>2. PICK c \in Nat \ {0} : c = e.says
    BY <1>1
  <1>3. CASE e.action = "create"
    <2>1. Zon!StateAfter(s, e) = [base |-> c, alt |-> c] /\ Zon!SlotAfter(s, e) = [base |-> c, alt |-> c]
      BY <1>2, <1>3 DEF Zon!StateAfter, Zon!SlotAfter
    <2> QED
      BY <1>3, <2>1, ZoneIsThere
  <1>4. CASE e.action = "destroy"
    <2>1. Zon!StateAfter(s, e) = Zon!NoZone /\ Zon!SlotAfter(s, e) = Zon!NoZone
      BY <1>4 DEF Zon!StateAfter, Zon!SlotAfter
    <2> QED
      BY <1>4, <2>1, NoZonesAre
  <1>5. CASE e.action \in {"flash", "stop"} /\ s = Zon!NoZone
    <2>1. Zon!StateAfter(s, e) = Zon!NoZone /\ Zon!SlotAfter(s, e) = Zon!NoZone
      BY <1>5 DEF Zon!StateAfter, Zon!SlotAfter
    <2> QED
      BY <1>5, <2>1, NoZonesAre
  <1>6. CASE e.action \in {"flash", "stop"} /\ s # Zon!NoZone
    <2>1. s \in [base : Nat \ {0}, alt : Nat \ {0}]
      BY <1>6 DEF Zon!Zones
    <2>2. PICK b \in Nat \ {0}, a \in Nat \ {0} : s = [base |-> b, alt |-> a]
      BY <2>1
    <2>3. PICK d \in Nat \ {0} : d = IF e.action = "flash" THEN c ELSE b
      OBVIOUS
    <2>4. [s EXCEPT !.alt = d] = [base |-> b, alt |-> d] /\ s.base = b
      BY <2>2
    <2>5. Zon!SlotAfter(s, e) = [s EXCEPT !.alt = d]
      BY <1>2, <1>6, <2>3, <2>4 DEF Zon!SlotAfter
    <2>6. Zon!StateAfter(s, e) = [s EXCEPT !.alt = d]
      BY <1>2, <1>6, <2>3, <2>4 DEF Zon!StateAfter
    <2> QED
      BY <1>6, <2>4, <2>5, <2>6, ZoneIsThere
  <1> QED
    BY <1>1, <1>3, <1>4, <1>5, <1>6

\* A view of a table, after an event, is a view of the table after it.
ViewOf(t) == [slots |-> t, count |-> Zon!Active(t)]

\* The count after an event is the number of zones after it.
LEMMA ZonesCounted ==
    ASSUME NEW t \in Zon!Tables, NEW e \in Zon!Events, NEW u, u = [t EXCEPT ![e.id] = Zon!SlotAfter(t[e.id], e)]
    PROVE  /\ u \in Zon!Tables /\ Zon!Active(t) \in Nat /\ Zon!Active(u) \in Nat
           /\ Zon!CountAfter(Zon!Active(t), t[e.id], e) = Zon!Active(u)
  <1>1. PICK id \in Ids : id = e.id
    BY DEF Zon!Events
  <1>2. PICK s \in Zon!Zones : s = t[id]
    BY DEF Zon!Tables
  <1>3. PICK r \in Zon!Zones : r = Zon!SlotAfter(s, e)
    BY ZoneAfterIs
  <1>4. u \in Zon!Tables /\ u[id] = r /\ \A j \in Ids : j # id => u[j] = t[j]
    BY <1>1, <1>2, <1>3 DEF Zon!Tables
  <1>5. PICK A, B : A = {j \in Ids : t[j] # Zon!NoZone} /\ B = {j \in Ids : u[j] # Zon!NoZone}
    OBVIOUS
  <1>6. A \subseteq Ids /\ B \subseteq Ids /\ A \ {id} = B \ {id}
    BY <1>4, <1>5
  <1>7. PICK m \in Nat, n \in Nat : m = Cardinality(A) /\ n = Cardinality(B)
    <2>1. IsFiniteSet(Ids)
      BY IdsAre
    <2>2. Cardinality(A) \in Nat /\ Cardinality(B) \in Nat
      BY <1>6, <2>1, CountChanges
    <2> QED
      BY <2>2
  <1>8. n = m + (IF id \in B THEN 1 ELSE 0) - (IF id \in A THEN 1 ELSE 0)
    BY <1>6, <1>7, IdsAre, CountChanges
  <1>9. Zon!Active(t) = m /\ Zon!Active(u) = n
    BY <1>5, <1>7 DEF Zon!Active, Zon!Cardinality, Cardinality
  <1>10. (id \in A <=> s # Zon!NoZone) /\ (id \in B <=> r # Zon!NoZone)
    BY <1>2, <1>4, <1>5
  <1>11. /\ e.action \in {"create", "destroy", "flash", "stop"}
         /\ e.action = "create" => r # Zon!NoZone
         /\ e.action = "destroy" => r = Zon!NoZone
         /\ e.action \in {"flash", "stop"} => (r = Zon!NoZone <=> s = Zon!NoZone)
    BY <1>3, ZoneAfterIs DEF Zon!Events, Zon!Actions
  <1>12. Zon!CountAfter(m, s, e) = n
    <2>1. CASE e.action = "create" /\ s = Zon!NoZone
      <3>1. Zon!CountAfter(m, s, e) = m + 1
        BY <2>1 DEF Zon!CountAfter
      <3> QED
        BY <1>8, <1>10, <1>11, <2>1, <3>1
    <2>2. CASE e.action = "destroy" /\ s # Zon!NoZone
      <3>1. Zon!CountAfter(m, s, e) = m - 1
        BY <2>2 DEF Zon!CountAfter
      <3> QED
        BY <1>8, <1>10, <1>11, <2>2, <3>1
    <2>3. CASE ~(e.action = "create" /\ s = Zon!NoZone) /\ ~(e.action = "destroy" /\ s # Zon!NoZone)
      <3>1. Zon!CountAfter(m, s, e) = m
        BY <2>3 DEF Zon!CountAfter
      <3>2. id \in A <=> id \in B
        BY <1>10, <1>11, <2>3
      <3> QED
        BY <1>8, <3>1, <3>2
    <2> QED
      BY <2>1, <2>2, <2>3
  <1> QED
    BY <1>1, <1>2, <1>4, <1>9, <1>12

\* The view of a table takes an event as the table does.
LEMMA ViewIsApplied ==
    ASSUME NEW t \in Zon!Tables, NEW e \in Zon!Events,
           NEW u, u = [t EXCEPT ![e.id] = Zon!StateAfter(t[e.id], e)]
    PROVE  Zon!ApplyEvent(ViewOf(t), e) = ViewOf(u) /\ u \in Zon!Tables
  <1>1. e.id \in Ids /\ t[e.id] \in Zon!Zones
    BY DEF Zon!Events, Zon!Tables
  <1>2. Zon!StateAfter(t[e.id], e) = Zon!SlotAfter(t[e.id], e)
    BY <1>1, ZoneAfterIs
  <1>3. u = [t EXCEPT ![e.id] = Zon!SlotAfter(t[e.id], e)]
    BY <1>2
  <1>4. u \in Zon!Tables /\ Zon!CountAfter(Zon!Active(t), t[e.id], e) = Zon!Active(u)
    BY <1>3, ZonesCounted
  <1> QED
    BY <1>3, <1>4 DEF ViewOf, Zon!ApplyEvent

\* No event takes the view out of its type.
LEMMA ViewsOfZones == ZonesStay(ZoneViews, Zon!Events)
  <1>1. SUFFICES ASSUME NEW x \in ZoneViews, NEW e \in Zon!Events
                 PROVE  Zon!ApplyEvent(x, e) \in ZoneViews
    BY DEF ZonesStay
  <1>2. x.slots \in Zon!Tables /\ x.count \in Int
    BY DEF ZoneViews
  <1>3. e.id \in Ids /\ x.slots[e.id] \in Zon!Zones
    BY <1>2 DEF Zon!Events, Zon!Tables
  <1>4. PICK r \in Zon!Zones : r = Zon!SlotAfter(x.slots[e.id], e)
    BY <1>3, ZoneAfterIs
  <1>5. [x.slots EXCEPT ![e.id] = r] \in Zon!Tables
    BY <1>2, <1>4 DEF Zon!Tables
  <1>6. Zon!CountAfter(x.count, x.slots[e.id], e) \in Int
    BY <1>2 DEF Zon!CountAfter
  <1> QED
    BY <1>4, <1>5, <1>6 DEF Zon!ApplyEvent, ZoneViews

\* What a replay ends with is the value of the loop above.
LEMMA ZonesReplayed ==
    ASSUME NEW ring \in Seq(Zon!Events), NEW mark, NEW view \in ZoneViews
    PROVE  Zon!Replayed(ring, mark, view, Zon!ApplyEvent)
             = Value(ring, mark, view, ZonesSteps(ZoneViews, Zon!Events))
  <1>1. News(ring, mark, Zon!Events) /\ Len(ring) \in Nat
    BY DEF News
  <1> QED
    BY <1>1, ViewsOfZones, ZonesLoop

\* One event more, which the table and the view take alike.
LEMMA ZonesPushed ==
    ASSUME NEW p, NEW q, NEW k, RingOk(p.ring, p.seq, RingSize, Zon!Events), p.states \in Zon!Tables,
           k.mark \in Nat, Zon!View(k) \in ZoneViews, Zon!CatchesUp(p, k),
           NEW e \in Zon!Events, e.seq = p.seq + 1, q.seq = p.seq + 1, q.ring = Push(p.ring, RingSize, e),
           q.states = [p.states EXCEPT ![e.id] = Zon!StateAfter(p.states[e.id], e)]
    PROVE  Zon!CatchesUp(q, k)
  <1>0. k.mark =< p.seq /\ k.mark =< q.seq
    BY DEF Zon!CatchesUp, RingOk
  <1>1. SUFFICES ASSUME ~Zon!Gap(q.ring, k.mark)
                 PROVE  Zon!Replayed(q.ring, k.mark, Zon!View(k), Zon!ApplyEvent) = ViewOf(q.states)
    BY <1>0 DEF Zon!CatchesUp, ViewOf
  <1>2. PICK F : F = ZonesSteps(ZoneViews, Zon!Events)
    OBVIOUS
  <1>3. RingSize \in Nat \ {0}
    BY PoolsAssumption
  <1>4. RingOk(q.ring, q.seq, RingSize, Zon!Events)
    BY <1>3, RingPushed
  <1>5. Whole(q.ring, q.seq, k.mark)
    BY <1>1, <1>3, <1>4, GapIs, ZonesRing
  <1>6. PICK r, seq, mark, o, t :
          r = p.ring /\ seq = p.seq /\ mark = k.mark /\ o = Zon!View(k) /\ t = p.states
    OBVIOUS
  <1>7. /\ Whole(r, seq, mark)
        /\ Value(Push(r, RingSize, e), mark, o, F) = F[<<Value(r, mark, o, F), e>>]
    <2>1. /\ RingOk(r, seq, RingSize, Zon!Events) /\ e.seq = seq + 1 /\ mark \in Nat /\ mark =< seq
          /\ Whole(Push(r, RingSize, e), seq + 1, mark)
      BY <1>0, <1>5, <1>6
    <2> QED
      BY <1>3, <2>1, ValuePushed
  <1>8. ~Zon!Gap(r, mark) /\ r \in Seq(Zon!Events)
    BY <1>3, <1>6, <1>7, GapIs, ZonesRing DEF RingOk
  <1>9. Value(r, mark, o, F) = ViewOf(t)
    <2>1. Zon!Replayed(r, mark, o, Zon!ApplyEvent) = ViewOf(t)
      BY <1>6, <1>8 DEF Zon!CatchesUp, ViewOf
    <2> QED
      BY <1>2, <1>6, <1>8, <2>1, ZonesReplayed
  <1>10. ViewOf(t) \in ZoneViews
    <2>1. Zon!Active(t) \in Nat
      BY <1>6, ZonesCounted
    <2> QED
      BY <1>6, <2>1 DEF ViewOf, ZoneViews
  <1>11. F[<<ViewOf(t), e>>] = Zon!ApplyEvent(ViewOf(t), e)
    BY <1>2, <1>10 DEF ZonesSteps
  <1>12. Zon!ApplyEvent(ViewOf(t), e) = ViewOf(q.states)
    BY <1>6, ViewIsApplied
  <1>13. Zon!Replayed(q.ring, k.mark, Zon!View(k), Zon!ApplyEvent) = Value(q.ring, k.mark, Zon!View(k), F)
    BY <1>2, <1>4, ZonesReplayed DEF RingOk
  <1> QED
    BY <1>6, <1>7, <1>9, <1>11, <1>12, <1>13

\* A reader who has seen everything comes to what he knows.
LEMMA ZonesSeen ==
    ASSUME NEW r, NEW m, RingOk(r, m, RingSize, Zon!Events), NEW view
    PROVE  Zon!Replayed(r, m, view, Zon!ApplyEvent) = view
  <1>1. RingSize \in Nat \ {0}
    BY PoolsAssumption
  <1>2. News(r, m, {}) /\ Len(r) \in Nat
    BY <1>1, NoneUnseen DEF RingOk
  <1>3. ZonesStay({view}, {})
    BY DEF ZonesStay
  <1>4. Zon!Replayed(r, m, view, Zon!ApplyEvent) = Value(r, m, view, ZonesSteps({view}, {}))
    BY <1>2, <1>3, ZonesLoop
  <1>5. PICK l \in Nat : l = Len(r)
    BY <1>2
  <1>6. \A j \in 1 .. l : ~(r[j].seq > m)
    BY <1>2, <1>5 DEF News
  <1> QED
    BY <1>4, <1>5, <1>6, NothingNew

ZoneProbes == [seq : Nat, ring : Seq(Zon!Events), states : Zon!Tables]
ZoneNets == [probe : ZoneProbes, restart : Nat, generation : Nat, rpcs : Nat, link : {"up", "lost", "down"}]
ZoneOwns == [synced : BOOLEAN, mark : Nat, slots : Zon!Tables, count : Nat, handled : Nat]

\* The invariant, of a state.
ZonesHas(n, o, p, s) ==
    /\ n \in ZoneNets /\ o \in ZoneOwns /\ s = "none" /\ p \in {"pump", "drawn"}
    /\ RingOk(n.probe.ring, n.probe.seq, RingSize, Zon!Events)
    /\ o.handled =< n.generation /\ n.restart =< n.generation
    /\ o.synced /\ n.link = "up" /\ ~(n.restart # 0 /\ n.restart # o.handled) => Zon!CatchesUp(n.probe, o)
    /\ p = "drawn" => o.slots = n.probe.states
    /\ o.count = Zon!Active(o.slots)
    /\ n.link # "up" => n.probe = Zon!ResetZones
    /\ n.link = "down" => ~o.synced

\* It is the invariant of the module.
LEMMA ZonesHasIs == Zon!ZonesInv <=> ZonesHas(net, own, pc, scene)
  BY DEF ZonesHas, ZoneNets, ZoneProbes, ZoneOwns, RingOk, Zon!ZonesInv, Zon!TypeOK, Zon!RingEnds, Zon!Counts,
         Zon!OfSession, Zon!Restarted, Zon!ZonesMirrored

\* And so it is after a step.
LEMMA ZonesWillHave == Zon!ZonesInv' <=> ZonesHas(net', own', pc', scene')
  BY DEF ZonesHas, ZoneNets, ZoneProbes, ZoneOwns, RingOk, Zon!ZonesInv, Zon!TypeOK, Zon!RingEnds, Zon!Counts,
         Zon!OfSession, Zon!Restarted, Zon!ZonesMirrored

\* The adapter after a reset.
LEMMA ZonesReset ==
    /\ Zon!ResetZones \in ZoneProbes /\ Zon!ResetZones.states = Zon!NoZones
    /\ RingOk(Zon!ResetZones.ring, Zon!ResetZones.seq, RingSize, Zon!Events)
  <1>1. RingSize \in Nat \ {0}
    BY PoolsAssumption
  <1>2. RingOk(<< >>, 0, RingSize, Zon!Events)
    BY <1>1, RingEmpty
  <1> QED
    BY <1>2, NoZonesAre DEF Zon!ResetZones, ZoneProbes

\* The bridge after a reset.
LEMMA SlotsReset ==
    ASSUME NEW o \in ZoneOwns
    PROVE  /\ Zon!ResetSlots(o) \in ZoneOwns /\ Zon!ResetSlots(o).synced = FALSE
           /\ Zon!ResetSlots(o).slots = Zon!NoZones /\ Zon!ResetSlots(o).count = Zon!Active(Zon!NoZones)
           /\ Zon!ResetSlots(o).handled = o.handled /\ Zon!ResetSlots(o).mark = 0
  <1>1. PICK r : r = Zon!ResetSlots(o)
    OBVIOUS
  <1>2. r = [o EXCEPT !.slots = Zon!NoZones, !.count = 0, !.mark = 0, !.synced = FALSE]
    BY <1>1 DEF Zon!ResetSlots
  <1>3. r \in ZoneOwns
    BY <1>2, NoZonesAre DEF ZoneOwns
  <1>4. r.synced = FALSE /\ r.slots = Zon!NoZones /\ r.count = 0 /\ r.handled = o.handled /\ r.mark = 0
    BY <1>2 DEF ZoneOwns
  <1> QED
    BY <1>1, <1>3, <1>4, NoZonesAre

\* One event.
LEMMA ZonesOnZone ==
    ASSUME Zon!ZonesInv, Zon!OnZone
    PROVE  Zon!ZonesInv'
  <1>1. ZonesHas(net, own, pc, scene)
    BY ZonesHasIs
  <1>2. net \in ZoneNets /\ own \in ZoneOwns /\ RingSize \in Nat \ {0}
    BY <1>1, PoolsAssumption DEF ZonesHas
  <1>3. PICK p \in ZoneProbes : p = net.probe
    BY <1>2 DEF ZoneNets
  <1>4. PICK action \in Zon!Actions, id \in Ids :
          Zon!Queue([seq |-> net.probe.seq + 1, action |-> action, id |-> id, says |-> net.rpcs + 1])
    BY DEF Zon!OnZone
  <1>5. PICK e : e = [seq |-> net.probe.seq + 1, action |-> action, id |-> id, says |-> net.rpcs + 1]
    OBVIOUS
  <1>6. e \in Zon!Events /\ e.seq = p.seq + 1 /\ e.id \in Ids
    <2>1. p.seq \in Nat /\ net.rpcs \in Nat
      BY <1>2, <1>3 DEF ZoneNets, ZoneProbes
    <2> QED
      BY <1>3, <1>5, <2>1 DEF Zon!Events
  <1>7. PICK u : u = [p.states EXCEPT ![e.id] = Zon!StateAfter(p.states[e.id], e)]
    OBVIOUS
  <1>8. PICK q : q = [seq |-> e.seq, ring |-> Push(p.ring, RingSize, e), states |-> u]
    OBVIOUS
  <1>9. net' = [net EXCEPT !.rpcs = net.rpcs + 1, !.probe = q] /\ own' = own /\ scene' = scene /\ pc' = "pump"
    <2>1. Zon!Queue(e)
      BY <1>4, <1>5, Zenon
    <2>2. q = [seq |-> e.seq, ring |-> Zon!Push(net.probe.ring, RingSize, e),
               states |-> [net.probe.states EXCEPT ![e.id] = Zon!StateAfter(net.probe.states[e.id], e)]]
      BY <1>3, <1>7, <1>8, ZonesRing
    <2>3. own' = own /\ scene' = scene /\ pc' = "pump"
      BY <2>1 DEF Zon!Queue
    <2>4. net' = [net EXCEPT !.rpcs = net.rpcs + 1,
                    !.probe = [seq |-> e.seq, ring |-> Zon!Push(net.probe.ring, RingSize, e),
                               states |-> [net.probe.states EXCEPT ![e.id] = Zon!StateAfter(net.probe.states[e.id], e)]]]
      BY <2>1 DEF Zon!Queue
    <2> QED
      BY <2>2, <2>3, <2>4
  <1>10. /\ net'.probe = q /\ net'.restart = net.restart /\ net'.generation = net.generation
         /\ net'.link = "up" /\ net.link = "up" /\ net'.rpcs = net.rpcs + 1
    BY <1>2, <1>9 DEF ZoneNets, Zon!OnZone, Zon!Receives
  <1>11. u \in Zon!Tables
    BY <1>3, <1>6, <1>7, ViewIsApplied DEF ZoneProbes
  <1>12. RingOk(p.ring, p.seq, RingSize, Zon!Events)
    BY <1>1, <1>3 DEF ZonesHas
  <1>13. RingOk(q.ring, q.seq, RingSize, Zon!Events)
    <2>1. PICK r, n : r = p.ring /\ n = p.seq
      OBVIOUS
    <2>2. RingOk(Push(r, RingSize, e), n + 1, RingSize, Zon!Events)
      BY <1>2, <1>6, <1>12, <2>1, RingPushed
    <2> QED
      BY <1>6, <1>8, <2>1, <2>2
  <1>14. q \in ZoneProbes
    BY <1>8, <1>11, <1>13 DEF ZoneProbes, RingOk
  <1>15. net' \in ZoneNets
    <2>1. net.rpcs + 1 \in Nat
      BY <1>2 DEF ZoneNets
    <2>2. PICK n \in ZoneNets : n = net
      BY <1>2
    <2>3. [n EXCEPT !.rpcs = net.rpcs + 1] \in ZoneNets
      BY <2>1 DEF ZoneNets
    <2>4. [n EXCEPT !.rpcs = net.rpcs + 1, !.probe = q] \in ZoneNets
      BY <1>14, <2>3 DEF ZoneNets
    <2> QED
      BY <1>9, <2>2, <2>4
  <1>16. ASSUME own.synced, ~(net.restart # 0 /\ net.restart # own.handled)
         PROVE  Zon!CatchesUp(q, own)
    <2>1. Zon!CatchesUp(p, own)
      BY <1>1, <1>3, <1>10, <1>16 DEF ZonesHas
    <2>2. own.mark \in Nat /\ Zon!View(own) \in ZoneViews
      BY <1>2 DEF ZoneOwns, Zon!View, ZoneViews
    <2>3. PICK k : k = own
      OBVIOUS
    <2>4. /\ q.seq = p.seq + 1 /\ q.ring = Push(p.ring, RingSize, e) /\ p.states \in Zon!Tables
          /\ q.states = [p.states EXCEPT ![e.id] = Zon!StateAfter(p.states[e.id], e)]
      BY <1>6, <1>7, <1>8 DEF ZoneProbes
    <2> QED
      BY <1>6, <1>12, <2>1, <2>2, <2>3, <2>4, ZonesPushed
  <1>17. ZonesHas(net', own', pc', scene')
    BY <1>1, <1>9, <1>10, <1>13, <1>15, <1>16 DEF ZonesHas
  <1> QED
    BY <1>17, ZonesWillHave

\* The adapter begins again.
LEMMA ZonesForget ==
    ASSUME Zon!ZonesInv, Zon!OnRestart \/ Zon!OnConnectionLost
    PROVE  Zon!ZonesInv'
  <1>1. ZonesHas(net, own, pc, scene)
    BY ZonesHasIs
  <1>2. net \in ZoneNets /\ own \in ZoneOwns /\ own.handled \in Nat
    BY <1>1 DEF ZonesHas, ZoneOwns
  <1>3. PICK g \in Nat : g = net.generation
    BY <1>2 DEF ZoneNets
  <1>4. PICK q \in ZoneProbes : q = Zon!ResetZones
    BY ZonesReset
  <1>5. own' = own /\ scene' = scene /\ pc' = "pump" /\ net.link = "up"
    BY DEF Zon!OnRestart, Zon!OnConnectionLost, Zon!Receives
  <1>6. CASE Zon!OnRestart
    <2>1. net' = [net EXCEPT !.probe = q, !.generation = g + 1, !.restart = g + 1]
      BY <1>3, <1>4, <1>6 DEF Zon!OnRestart
    <2>2. net' \in ZoneNets /\ net'.probe = q /\ net'.generation = g + 1 /\ net'.restart = g + 1 /\ net'.link = "up"
      <3>1. g + 1 \in Nat
        OBVIOUS
      <3>2. PICK n \in ZoneNets : n = net
        BY <1>2
      <3>3. PICK i \in ZoneNets : i = [n EXCEPT !.probe = q]
        BY <1>4 DEF ZoneNets
      <3>4. PICK j \in ZoneNets : j = [i EXCEPT !.generation = g + 1]
        BY <3>1 DEF ZoneNets
      <3>5. PICK l \in ZoneNets : l = [j EXCEPT !.restart = g + 1]
        BY <3>1 DEF ZoneNets
      <3>6. net' = l
        BY <2>1, <3>2, <3>3, <3>4, <3>5
      <3> QED
        BY <1>5, <3>2, <3>3, <3>4, <3>5, <3>6 DEF ZoneNets
    <2>3. own.handled =< g
      BY <1>1, <1>3 DEF ZonesHas
    <2>4. net'.restart # 0 /\ net'.restart # own.handled /\ own.handled =< net'.generation
          /\ net'.restart =< net'.generation
      BY <1>2, <2>2, <2>3
    <2>5. ZonesHas(net', own', pc', scene')
      BY <1>1, <1>4, <1>5, <2>2, <2>4, ZonesReset DEF ZonesHas
    <2> QED
      BY <2>5, ZonesWillHave
  <1>7. CASE Zon!OnConnectionLost
    <2>1. net' = [net EXCEPT !.probe = q, !.restart = 0, !.link = "lost"]
      BY <1>4, <1>7 DEF Zon!OnConnectionLost
    <2>2. net' \in ZoneNets /\ net'.probe = q /\ net'.generation = g /\ net'.restart = 0 /\ net'.link = "lost"
      BY <1>2, <1>3, <1>4, <2>1 DEF ZoneNets
    <2>3. own.handled =< g
      BY <1>1, <1>3 DEF ZonesHas
    <2>4. ZonesHas(net', own', pc', scene')
      BY <1>1, <1>3, <1>4, <1>5, <2>2, <2>3, ZonesReset DEF ZonesHas
    <2> QED
      BY <2>4, ZonesWillHave
  <1> QED
    BY <1>6, <1>7

\* A new connection.
LEMMA ZonesConnect ==
    ASSUME Zon!ZonesInv, Zon!Connect
    PROVE  Zon!ZonesInv'
  <1>1. ZonesHas(net, own, pc, scene)
    BY ZonesHasIs
  <1>2. net \in ZoneNets /\ own \in ZoneOwns
    BY <1>1 DEF ZonesHas
  <1>3. PICK q \in ZoneProbes : q = Zon!ResetZones
    BY ZonesReset
  <1>4. net' = [net EXCEPT !.probe = q, !.restart = 0, !.link = "up"]
    BY <1>3 DEF Zon!Connect
  <1>5. net' \in ZoneNets /\ net'.probe = q /\ net'.generation = net.generation /\ net'.restart = 0 /\ net'.link = "up"
    BY <1>2, <1>3, <1>4 DEF ZoneNets
  <1>6. PICK r \in ZoneOwns :
          /\ r = Zon!ResetSlots(own) /\ r.synced = FALSE /\ r.slots = Zon!NoZones
          /\ r.count = Zon!Active(Zon!NoZones) /\ r.handled = own.handled
    BY <1>2, SlotsReset
  <1>7. r.count = Zon!Active(r.slots)
    BY <1>6
  <1>8. own' = r /\ pc' = "pump" /\ scene' = scene
    BY <1>6 DEF Zon!Connect
  <1>9. own.handled =< net.generation /\ 0 =< net.generation
    BY <1>1, <1>2 DEF ZonesHas, ZoneNets
  <1>10. ZonesHas(net', own', pc', scene')
    BY <1>1, <1>3, <1>5, <1>6, <1>7, <1>8, <1>9, ZonesReset DEF ZonesHas
  <1> QED
    BY <1>10, ZonesWillHave

\* What a frame starts from.
LEMMA ZonesKnown ==
    ASSUME ZonesHas(net, own, pc, scene), NEW k, k = Zon!Known
    PROVE  /\ k \in ZoneOwns /\ k.handled =< net.generation
           /\ ~(net.restart # 0 /\ net.restart # k.handled)
           /\ k.synced => k = own
  <1>1. own \in ZoneOwns /\ net \in ZoneNets /\ net.restart \in Nat
    BY DEF ZonesHas, ZoneNets
  <1>2. CASE Zon!Restarted
    <2>1. PICK r \in ZoneOwns : r = Zon!ResetSlots(own) /\ r.synced = FALSE
      BY <1>1, SlotsReset
    <2>2. r.synced = FALSE
      BY <2>1
    <2>3. k = [r EXCEPT !.handled = net.restart]
      BY <1>2, <2>1 DEF Zon!Known
    <2>4. k \in ZoneOwns /\ k.synced = FALSE /\ k.handled = net.restart
      BY <1>1, <2>2, <2>3 DEF ZoneOwns
    <2>5. net.restart =< net.generation
      BY DEF ZonesHas
    <2> QED
      BY <2>4, <2>5
  <1>3. CASE ~Zon!Restarted
    <2>1. k = own
      BY <1>3 DEF Zon!Known
    <2> QED
      BY <1>1, <1>3, <2>1 DEF ZonesHas, Zon!Restarted
  <1> QED
    BY <1>2, <1>3

\* The refresh ends with the server's zones, while the session lasts.
LEMMA ZonesRefreshed ==
    ASSUME ZonesHas(net, own, pc, scene), net.link = "up", NEW k, k = Zon!Known, NEW r, r = Zon!Refreshed(k)
    PROVE  /\ r \in ZoneOwns /\ r.mark = net.probe.seq /\ r.handled = k.handled
           /\ r.slots = net.probe.states /\ r.count = Zon!Active(r.slots)
  <1>1. k \in ZoneOwns /\ (k.synced => k = own) /\ ~(net.restart # 0 /\ net.restart # k.handled)
    BY ZonesKnown
  <1>2. PICK p \in ZoneProbes : p = net.probe
    BY DEF ZonesHas, ZoneNets
  <1>3. PICK seq \in Nat, t \in Zon!Tables, ring \in Seq(Zon!Events) : seq = p.seq /\ ring = p.ring /\ t = p.states
    BY DEF ZoneProbes
  <1>4. PICK n \in Nat : n = Zon!Active(t)
    <2>1. PICK S : S = {i \in Ids : t[i] # Zon!NoZone}
      OBVIOUS
    <2>2. IsFiniteSet(S) /\ S \subseteq Ids
      BY <2>1, IdsAre, FS_Subset
    <2>3. Cardinality(S) \in Nat
      BY <2>2, FS_CardinalityType
    <2> QED
      BY <2>1, <2>3 DEF Zon!Active, Zon!Cardinality, Cardinality
  <1>5. CASE Zon!Copies(k)
    <2>1. r = [k EXCEPT !.slots = t, !.count = n, !.mark = seq, !.synced = TRUE]
      BY <1>2, <1>3, <1>4, <1>5 DEF Zon!Refreshed, Zon!Resync
    <2> QED
      BY <1>1, <1>2, <1>3, <1>4, <2>1 DEF ZoneOwns
  <1>6. CASE ~Zon!Copies(k)
    <2>1. k.synced /\ k = own /\ ~Zon!Gap(ring, k.mark)
      BY <1>1, <1>2, <1>3, <1>6 DEF Zon!Copies
    <2>2. Zon!CatchesUp(p, own)
      BY <1>1, <1>2, <2>1 DEF ZonesHas
    <2>3. Zon!Replayed(ring, k.mark, Zon!View(k), Zon!ApplyEvent) = [slots |-> t, count |-> n]
      BY <1>3, <1>4, <2>1, <2>2 DEF Zon!CatchesUp
    <2>4. r = [k EXCEPT !.slots = t, !.count = n, !.mark = seq]
      BY <1>2, <1>3, <1>6, <2>3 DEF Zon!Refreshed, Zon!Replay
    <2> QED
      BY <1>1, <1>2, <1>3, <1>4, <2>4 DEF ZoneOwns
  <1> QED
    BY <1>5, <1>6

\* When the connection is lost there is nothing to replay.
LEMMA ZonesLeft ==
    ASSUME ZonesHas(net, own, pc, scene), net.link # "up", NEW k, k = Zon!Known, NEW r, r = Zon!Refreshed(k)
    PROVE  r \in ZoneOwns /\ r.handled = k.handled
  <1>1. k \in ZoneOwns /\ k.mark \in Nat /\ k.slots \in Zon!Tables /\ k.count \in Nat
    BY ZonesKnown DEF ZoneOwns
  <1>2. net.probe.seq = 0 /\ net.probe.ring = << >> /\ net.probe.states = Zon!NoZones
    BY DEF ZonesHas, Zon!ResetZones
  <1>3. Zon!Active(net.probe.states) = 0 /\ net.probe.states \in Zon!Tables
    BY <1>2, NoZonesAre
  <1>4. CASE Zon!Copies(k)
    <2>1. PICK t \in Zon!Tables, n \in Nat : t = net.probe.states /\ n = 0
      BY <1>3
    <2>2. r = [k EXCEPT !.slots = t, !.count = n, !.mark = n, !.synced = TRUE]
      BY <1>2, <1>3, <1>4, <2>1 DEF Zon!Refreshed, Zon!Resync
    <2> QED
      BY <1>1, <2>2 DEF ZoneOwns
  <1>5. CASE ~Zon!Copies(k)
    <2>1. k.mark = 0
      BY <1>1, <1>2, <1>5 DEF Zon!Copies
    <2>2. RingOk(<< >>, 0, RingSize, Zon!Events)
      BY PoolsAssumption, RingEmpty
    <2>3. Zon!Replayed(net.probe.ring, k.mark, Zon!View(k), Zon!ApplyEvent) = Zon!View(k)
      BY <1>2, <2>1, <2>2, ZonesSeen
    <2>4. PICK t \in Zon!Tables, c \in Nat : t = k.slots /\ c = k.count
      BY <1>1
    <2>5. Zon!Replayed(net.probe.ring, k.mark, Zon!View(k), Zon!ApplyEvent) = [slots |-> t, count |-> c]
      BY <2>3, <2>4 DEF Zon!View
    <2>6. PICK n \in Nat : n = net.probe.seq
      BY <1>2
    <2>7. r = [k EXCEPT !.slots = t, !.count = c, !.mark = n]
      BY <1>5, <2>5, <2>6 DEF Zon!Refreshed, Zon!Replay
    <2> QED
      BY <1>1, <2>7 DEF ZoneOwns
  <1> QED
    BY <1>4, <1>5

\* A frame.
LEMMA ZonesUpdate ==
    ASSUME Zon!ZonesInv, Zon!Update
    PROVE  Zon!ZonesInv'
  <1>1. ZonesHas(net, own, pc, scene)
    BY ZonesHasIs
  <1>2. net \in ZoneNets /\ net.link \in {"up", "lost"}
    BY <1>1 DEF ZonesHas, ZoneNets, Zon!Update
  <1>3. PICK k : k = Zon!Known
    OBVIOUS
  <1>4. /\ k \in ZoneOwns /\ k.handled =< net.generation
        /\ ~(net.restart # 0 /\ net.restart # k.handled)
    BY <1>1, <1>3, ZonesKnown
  <1>5. PICK r : r = Zon!Refreshed(k)
    OBVIOUS
  <1>6. scene' = scene /\ pc' = "drawn"
    BY DEF Zon!Update
  <1>7. CASE net.link = "up"
    <2>1. net' = net /\ own' = r
      BY <1>2, <1>3, <1>5, <1>7 DEF Zon!Update, ZoneNets
    <2>2. /\ r \in ZoneOwns /\ r.mark = net.probe.seq /\ r.handled = k.handled
          /\ r.slots = net.probe.states /\ r.count = Zon!Active(r.slots)
      BY <1>1, <1>3, <1>5, <1>7, ZonesRefreshed
    <2>3. Zon!CatchesUp(net.probe, r)
      <3>1. PICK p, seq : p = net.probe /\ seq = p.seq
        OBVIOUS
      <3>2. RingOk(p.ring, seq, RingSize, Zon!Events) /\ seq \in Nat
        BY <1>1, <3>1 DEF ZonesHas, RingOk
      <3>3. Zon!Replayed(p.ring, seq, Zon!View(r), Zon!ApplyEvent) = Zon!View(r)
        BY <3>2, ZonesSeen
      <3>4. Zon!View(r) = [slots |-> p.states, count |-> Zon!Active(p.states)]
        BY <2>2, <3>1 DEF Zon!View
      <3> QED
        BY <2>2, <3>1, <3>2, <3>3, <3>4 DEF Zon!CatchesUp
    <2>4. ZonesHas(net', own', pc', scene')
      BY <1>1, <1>4, <1>6, <1>7, <2>1, <2>2, <2>3 DEF ZonesHas
    <2> QED
      BY <2>4, ZonesWillHave
  <1>8. CASE net.link = "lost"
    <2>1. net' = [net EXCEPT !.link = "down"] /\ own' = Zon!ResetSlots(r)
      BY <1>3, <1>5, <1>8 DEF Zon!Update
    <2>2. net' \in ZoneNets /\ net'.probe = net.probe /\ net'.generation = net.generation
          /\ net'.restart = net.restart /\ net'.link = "down"
      BY <1>2, <2>1 DEF ZoneNets
    <2>3. net.probe = Zon!ResetZones /\ net.probe.states = Zon!NoZones
      BY <1>1, <1>8, ZonesReset DEF ZonesHas
    <2>4. r \in ZoneOwns /\ r.handled = k.handled
      BY <1>1, <1>3, <1>5, <1>8, ZonesLeft
    <2>6. PICK z \in ZoneOwns : /\ z = Zon!ResetSlots(r) /\ z.synced = FALSE /\ z.slots = Zon!NoZones
                                /\ z.count = Zon!Active(Zon!NoZones) /\ z.handled = k.handled
      BY <2>4, SlotsReset
    <2>7. ZonesHas(net', own', pc', scene')
      BY <1>1, <1>4, <1>6, <2>1, <2>2, <2>3, <2>6 DEF ZonesHas
    <2> QED
      BY <2>7, ZonesWillHave
  <1> QED
    BY <1>2, <1>7, <1>8

\* The first state.
LEMMA ZonesInit ==
    ASSUME Zon!Init
    PROVE  Zon!ZonesInv
  <1>1. PICK q \in ZoneProbes : q = Zon!ResetZones
    BY ZonesReset
  <1>2. net = [probe |-> q, restart |-> 0, generation |-> 0, rpcs |-> 0, link |-> "up"]
    BY <1>1 DEF Zon!Init
  <1>3. own = [synced |-> FALSE, mark |-> 0, slots |-> Zon!NoZones, count |-> 0, handled |-> 0]
    BY DEF Zon!Init
  <1>4. net \in ZoneNets /\ own \in ZoneOwns
    BY <1>1, <1>2, <1>3, NoZonesAre DEF ZoneNets, ZoneOwns
  <1>5. ZonesHas(net, own, pc, scene)
    BY <1>1, <1>2, <1>3, <1>4, NoZonesAre, ZonesReset DEF ZonesHas, Zon!Init
  <1> QED
    BY <1>5, ZonesHasIs

\* GangZones: a replay of what the ring still holds brings a copy of this session to the
\* server's table, and the count is that of the zones drawn; the inductive invariant.
THEOREM ZonesInvariant == Spec => []ZonesInv
  <1>1. Init => ZonesInv
    BY ZonesInit DEF Init, ZonesInv
  <1>2. ZonesInv /\ [Next]_vars => ZonesInv'
    <2> SUFFICES ASSUME ZonesInv, [Next]_vars PROVE ZonesInv'
      OBVIOUS
    <2>1. CASE part = "zones" /\ part' = "zones" /\ Zon!Next
      <3>1. Zon!ZonesInv
        BY <2>1 DEF ZonesInv
      <3>2. Zon!ZonesInv'
        BY <2>1, <3>1, ZonesOnZone, ZonesForget, ZonesUpdate, ZonesConnect DEF Zon!Next
      <3> QED
        BY <3>2 DEF ZonesInv
    <2>2. CASE part' # "zones"
      BY <2>2 DEF ZonesInv
    <2>3. CASE UNCHANGED vars
      <3>1. part' = part /\ net' = net /\ own' = own /\ scene' = scene /\ pc' = pc
        BY <2>3 DEF vars
      <3> QED
        BY <3>1, ZonesHasIs, ZonesWillHave DEF ZonesInv
    <2>4. part' = "zones" /\ Next => part = "zones" /\ Zon!Next
      BY DEF Next
    <2> QED
      BY <2>1, <2>2, <2>3, <2>4
  <1> QED
    BY <1>1, <1>2, PTL DEF Spec

\* However many events the ring loses between two frames, and whatever restarts and
\* lost connections fall between them, after a frame the zones drawn are the server's,
\* and at every moment as many as are counted.
THEOREM ZonesAreMirrored == Spec => []ZonesMirrored
  <1>1. ZonesInv => ZonesMirrored
    BY DEF ZonesInv, ZonesMirrored, Zon!ZonesInv
  <1> QED
    BY <1>1, ZonesInvariant, PTL

==============================================================================
