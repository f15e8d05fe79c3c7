------------------------- MODULE EventChannel_proofs -------------------------
(***************************************************************************)
(* That the event rings of EventChannel implement Feed, for rings of any    *)
(* size and any number of events and sessions.  The events of a session are *)
(* numbered from 1, so what is sent, pending or handed over is a run of     *)
(* them: a + 1 .. b.  First what the operators make of runs, then the       *)
(* invariant, then the steps of the two rings as steps of Feed.             *)
(***************************************************************************)
EXTENDS EventChannel, FiniteSetTheorems, TLAPS

-----------------------------------------------------------------------------
(* Runs, rings and snapshots. *)

\* The events a + 1 .. b of this session.
Run(a, b) == [i \in 1 .. b - a |-> Event(a + i)]
Entry(k) == [seq |-> k, event |-> Event(k)]
Latest(s, n) == IF Len(s) <= n THEN s ELSE SubSeq(s, Len(s) - n + 1, Len(s))
Later(a, b) == IF a >= b THEN a ELSE b

\* A run is a sequence, grows by one event, and keeps its newest ones as a run.
LEMMA RunIsSeq ==
    ASSUME NEW a \in Nat, NEW b \in Nat, a <= b, NEW S, \A k \in a + 1 .. b : Event(k) \in S
    PROVE  Run(a, b) \in Seq(S) /\ Len(Run(a, b)) = b - a
  <1>1. b - a \in Nat
    OBVIOUS
  <1>2. \A i \in 1 .. b - a : a + i \in a + 1 .. b
    OBVIOUS
  <1> QED
    BY <1>1, <1>2 DEF Run

LEMMA RunAppend ==
    ASSUME NEW a \in Nat, NEW b \in Nat, a <= b
    PROVE  Append(Run(a, b), Event(b + 1)) = Run(a, b + 1)
  <1>1. PICK S : S = {Event(k) : k \in Nat}
    OBVIOUS
  <1>2. Run(a, b) \in Seq(S) /\ Len(Run(a, b)) = b - a
    BY <1>1, RunIsSeq
  <1>3. b + 1 - a = (b - a) + 1 /\ a + ((b - a) + 1) = b + 1
    OBVIOUS
  <1> QED
    BY <1>2, <1>3 DEF Run

LEMMA RunLatest ==
    ASSUME NEW a \in Nat, NEW b \in Nat, a <= b, NEW n \in Nat
    PROVE  Latest(Run(a, b), n) = Run(Later(a, b - n), b)
  <1>1. PICK S : S = {Event(k) : k \in Nat}
    OBVIOUS
  <1>2. Run(a, b) \in Seq(S) /\ Len(Run(a, b)) = b - a
    BY <1>1, RunIsSeq
  <1>3. CASE b - a <= n
    BY <1>2, <1>3 DEF Latest, Later, Run
  <1>4. CASE b - a > n
    <2>1. Latest(Run(a, b), n) = SubSeq(Run(a, b), (b - a) - n + 1, b - a)
      BY <1>2, <1>4 DEF Latest
    <2>2. Later(a, b - n) = b - n
      BY <1>4 DEF Later
    <2>3. SubSeq(Run(a, b), (b - a) - n + 1, b - a)
            = [i \in 1 .. n |-> Run(a, b)[i + ((b - a) - n + 1) - 1]]
      BY <1>4
    <2>4. \A i \in 1 .. n : Run(a, b)[i + ((b - a) - n + 1) - 1] = Event(b - n + i)
      BY <1>4 DEF Run
    <2>5. b - (b - n) = n
      OBVIOUS
    <2> QED
      BY <2>1, <2>2, <2>3, <2>4, <2>5 DEF Run
  <1> QED
    BY <1>3, <1>4

Entries(a, b) == {Entry(k) : k \in a + 1 .. b}

\* Entries with successive numbers are as many as their numbers, and in their order
\* they are the run of their events.
LEMMA EntriesCounted ==
    ASSUME NEW a \in Nat, NEW b \in Nat, a <= b
    PROVE  Cardinality(Entries(a, b)) = b - a
  <1>1. PICK f : f = [i \in 1 .. b - a |-> Entry(a + i)]
    OBVIOUS
  <1>2. \A i \in 1 .. b - a : a + i \in a + 1 .. b /\ f[i] = Entry(a + i) /\ f[i].seq = a + i
    BY <1>1 DEF Entry
  <1>3. f \in [1 .. b - a -> Entries(a, b)]
    BY <1>1, <1>2 DEF Entries
  <1>4. IsInjective(f)
    <2>1. DOMAIN f = 1 .. b - a
      BY <1>1
    <2>2. \A i, j \in 1 .. b - a : f[i] = f[j] => a + i = a + j
      BY <1>2
    <2> QED
      BY <2>1, <2>2 DEF IsInjective
  <1>5. ASSUME NEW e \in Entries(a, b) PROVE \E i \in 1 .. b - a : f[i] = e
    <2>1. PICK k \in a + 1 .. b : e = Entry(k)
      BY DEF Entries
    <2>2. k - a \in 1 .. b - a /\ a + (k - a) = k
      BY <2>1
    <2> QED
      BY <1>2, <2>1, <2>2
  <1>6. f \in Bijection(1 .. b - a, Entries(a, b))
    BY <1>3, <1>4, <1>5 DEF Bijection, Injection, Surjection
  <1>7. b - a \in Nat /\ ExistsBijection(1 .. b - a, Entries(a, b))
    BY <1>6 DEF ExistsBijection
  <1> QED
    BY <1>7, FS_CountingElements

LEMMA EntriesInOrder ==
    ASSUME NEW a \in Nat, NEW b \in Nat, a <= b
    PROVE  InOrder(Entries(a, b)) = Run(a, b)
  <1>1. Cardinality(Entries(a, b)) = b - a
    BY EntriesCounted
  <1>2. \A k : Entry(k).seq = k /\ Entry(k).event = Event(k)
    BY DEF Entry
  <1>3. ASSUME NEW k \in a + 1 .. b
        PROVE  Cardinality({x \in Entries(a, b) : x.seq <= k}) = k - a
    <2>1. {x \in Entries(a, b) : x.seq <= k} = Entries(a, k)
      <3>1. \A x \in Entries(a, b) : x.seq <= k => x \in Entries(a, k)
        <4>1. ASSUME NEW j \in a + 1 .. b, j <= k PROVE j \in a + 1 .. k
          BY <4>1
        <4> QED
          BY <1>2, <4>1 DEF Entries
      <3>2. \A x \in Entries(a, k) : x \in Entries(a, b) /\ x.seq <= k
        <4>1. ASSUME NEW j \in a + 1 .. k PROVE j \in a + 1 .. b /\ j <= k
          OBVIOUS
        <4> QED
          BY <1>2, <4>1 DEF Entries
      <3> QED
        BY <3>1, <3>2
    <2>2. k \in Nat /\ a <= k
      OBVIOUS
    <2> QED
      BY <2>1, <2>2, EntriesCounted
  <1>4. ASSUME NEW i \in 1 .. b - a
        PROVE  (CHOOSE e \in Entries(a, b) : Cardinality({x \in Entries(a, b) : x.seq <= e.seq}) = i)
                 = Entry(a + i)
    <2>1. a + i \in a + 1 .. b /\ (a + i) - a = i
      OBVIOUS
    <2>2. Entry(a + i) \in Entries(a, b)
      BY <2>1 DEF Entries
    <2>3. Cardinality({x \in Entries(a, b) : x.seq <= Entry(a + i).seq}) = i
      BY <1>2, <1>3, <2>1
    <2>4. ASSUME NEW e \in Entries(a, b), Cardinality({x \in Entries(a, b) : x.seq <= e.seq}) = i
          PROVE  e = Entry(a + i)
      <3>1. PICK k \in a + 1 .. b : e = Entry(k)
        BY DEF Entries
      <3>2. k - a = i
        BY <1>2, <1>3, <2>4, <3>1
      <3>3. k = a + i
        BY <3>1, <3>2
      <3> QED
        BY <3>1, <3>3
    <2> QED
      BY <2>2, <2>3, <2>4
  <1> QED
    BY <1>1, <1>2, <1>4 DEF InOrder, Run

\* Two events less than the ring's size apart have different places in it.
LEMMA SlotsApart ==
    ASSUME NEW n \in Nat \ {0}, NEW i \in Nat \ {0}, NEW j \in Nat \ {0}, i < j, j - i < n
    PROVE  Slot(i, n) # Slot(j, n) /\ Slot(i, n) \in 0 .. n - 1
  <1>1. PICK p \in Int, q \in Int : i - 1 = n * p + Slot(i, n) /\ j - 1 = n * q + Slot(j, n)
    <2>1. ASSUME NEW x \in Nat PROVE x \div n \in Int /\ x = n * (x \div n) + (x % n)
      OBVIOUS
    <2>2. i - 1 \in Nat /\ j - 1 \in Nat
      OBVIOUS
    <2> QED
      BY <2>1, <2>2 DEF Slot
  <1>2. Slot(i, n) \in 0 .. n - 1 /\ Slot(j, n) \in 0 .. n - 1
    BY DEF Slot
  <1>3. ASSUME Slot(i, n) = Slot(j, n) PROVE FALSE
    <2>1. j - i = n * (q - p)
      BY <1>1, <1>2, <1>3
    <2>2. q - p <= 0 \/ q - p >= 1
      OBVIOUS
    <2>3. q - p <= 0 => n * (q - p) <= 0
      OBVIOUS
    <2>4. q - p >= 1 => n * (q - p) >= n
      OBVIOUS
    <2> QED
      BY <2>1, <2>2, <2>3, <2>4
  <1> QED
    BY <1>2, <1>3

\* So the next event overwrites none of the newest.
LEMMA PushKeeps ==
    ASSUME NEW size \in Nat \ {0}, NEW seq \in Nat, NEW ring, DOMAIN ring = 0 .. size - 1,
           Held(seq, ring, size)
    PROVE  Held(seq + 1,
                [ring EXCEPT ![Slot(seq + 1, size)] = [seq |-> seq + 1, event |-> Event(seq + 1)]],
                size)
  <1>1. PICK r : r = [ring EXCEPT ![Slot(seq + 1, size)] = [seq |-> seq + 1, event |-> Event(seq + 1)]]
    OBVIOUS
  <1>2. SUFFICES ASSUME NEW k \in 1 .. seq + 1, k > seq + 1 - size
                 PROVE  r[Slot(k, size)] = [seq |-> k, event |-> Event(k)]
    BY <1>1 DEF Held
  <1>3. Slot(k, size) \in 0 .. size - 1
    BY DEF Slot
  <1>4. CASE k = seq + 1
    BY <1>1, <1>3, <1>4
  <1>5. CASE k # seq + 1
    <2>1. k \in 1 .. seq /\ k > seq - size
      BY <1>2, <1>5
    <2>2. Slot(k, size) # Slot(seq + 1, size)
      <3>1. k \in Nat \ {0} /\ seq + 1 \in Nat \ {0} /\ k < seq + 1 /\ seq + 1 - k < size
        BY <1>2, <1>5
      <3> QED
        BY <3>1, SlotsApart
    <2> QED
      BY <1>1, <1>3, <2>1, <2>2 DEF Held
  <1> QED
    BY <1>4, <1>5

\* What a reader takes from a ring: the newest events above its mark, in order.
LEMMA ReadsNewest ==
    ASSUME NEW size \in Nat \ {0}, NEW seq \in Nat, NEW mark \in Nat, mark <= seq, NEW ring,
           Held(seq, ring, size)
    PROVE  Above(mark, Snapshot(seq, ring, size)) = Run(Later(mark, seq - size), seq)
  <1>1. PICK a : a = Later(mark, seq - size)
    OBVIOUS
  <1>2. a \in Nat /\ a <= seq
    BY <1>1 DEF Later
  <1>3. \A k \in 1 .. seq : k > seq - size => ring[Slot(k, size)] = Entry(k)
    BY DEF Held, Entry
  <1>4. \A k : Entry(k).seq = k
    BY DEF Entry
  <1>5. \A e \in Snapshot(seq, ring, size) : e.seq > mark => e \in Entries(a, seq)
    <2>1. SUFFICES ASSUME NEW k \in 1 .. seq, k > seq - size, Entry(k).seq > mark
                   PROVE  Entry(k) \in Entries(a, seq)
      BY <1>3 DEF Snapshot
    <2>2. k \in a + 1 .. seq
      BY <1>1, <1>4, <2>1 DEF Later
    <2> QED
      BY <2>2 DEF Entries
  <1>6. \A e \in Entries(a, seq) : e \in Snapshot(seq, ring, size) /\ e.seq > mark
    <2>1. SUFFICES ASSUME NEW k \in a + 1 .. seq
                   PROVE  Entry(k) \in Snapshot(seq, ring, size) /\ Entry(k).seq > mark
      BY DEF Entries
    <2>2. k \in 1 .. seq /\ k > seq - size /\ k > mark
      BY <1>1, <1>2 DEF Later
    <2> QED
      BY <1>3, <1>4, <2>2 DEF Snapshot
  <1>7. {e \in Snapshot(seq, ring, size) : e.seq > mark} = Entries(a, seq)
    BY <1>5, <1>6
  <1> QED
    BY <1>1, <1>2, <1>7, EntriesInOrder DEF Above

-----------------------------------------------------------------------------
(* Types, and what a refresh does. *)

LEMMA EmptyRun ==
    ASSUME NEW a \in Nat, NEW b \in Nat, a <= b PROVE Run(a, b) = <<>> <=> a = b
  <1>1. PICK S : S = {Event(k) : k \in Nat}
    OBVIOUS
  <1>2. Run(a, b) \in Seq(S) /\ Len(Run(a, b)) = b - a
    BY <1>1, RunIsSeq
  <1> QED
    BY <1>2

LEMMA EventTypes ==
    ASSUME session \in 1 .. MaxSessions
    PROVE  \A k \in SentInSession : Event(k) \in Events /\ NoEvent \in Events
  BY EventBoundsAssumption DEF Event, NoEvent, Events, SentInSession

LEMMA ResetType == ResetProbe \in Probe
  <1>1. 0 \in SentInSession /\ 0 \in 0 .. MaxSessions /\ 0 \in 0 .. MaxLatches
    BY EventBoundsAssumption DEF SentInSession
  <1>2. NoEvent \in Events
    BY <1>1 DEF NoEvent, Events
  <1>3. EmptyRing(ChatRing) \in Ring(ChatRing) /\ EmptyRing(MoneyRing) \in Ring(MoneyRing)
    BY <1>1, <1>2 DEF EmptyRing, Ring
  <1> QED
    BY <1>1, <1>2, <1>3 DEF ResetProbe, Probe

LEMMA FieldTypes ==
    ASSUME TypeOK
    PROVE  /\ probe.chatSeq \in Nat /\ probe.moneySeq \in Nat /\ probe.restartSeq \in Nat
           /\ bridge.chatMark \in Nat /\ bridge.moneyMark \in Nat /\ bridge.handled \in Nat
           /\ DOMAIN probe.chatRing = 0 .. ChatRing - 1 /\ DOMAIN probe.moneyRing = 0 .. MoneyRing - 1
           /\ generation \in Nat /\ session \in Nat
  <1>1. SentInSession \subseteq Nat /\ 0 .. MaxSessions \subseteq Nat /\ 1 .. MaxSessions \subseteq Nat
    BY EventBoundsAssumption DEF SentInSession
  <1>2. /\ probe.chatSeq \in Nat /\ probe.moneySeq \in Nat /\ probe.restartSeq \in Nat
    BY <1>1 DEF TypeOK, Probe
  <1>3. probe.chatRing \in Ring(ChatRing) /\ probe.moneyRing \in Ring(MoneyRing)
    BY DEF TypeOK, Probe
  <1>4. bridge.chatMark \in Nat /\ bridge.moneyMark \in Nat /\ bridge.handled \in Nat
    BY <1>1 DEF TypeOK, Bridge
  <1> QED
    BY <1>1, <1>2, <1>3, <1>4 DEF Ring, TypeOK

LEMMA ControlFacts ==
    ASSUME TypeOK, NEW b \in Bridge, NEW c, c = ControlUpdate(b)
    PROVE  /\ c \in Bridge /\ c.chatMark = b.chatMark /\ c.moneyMark = b.moneyMark
           /\ c.handled = b.handled
  <1>1. PICK d : d = IF probe.restartSeq # 0 /\ probe.restartSeq # b.controlSeq
                     THEN [b EXCEPT !.controlSeq = probe.restartSeq, !.boundsOn = FALSE] ELSE b
    OBVIOUS
  <1>2. /\ d \in Bridge /\ d.chatMark = b.chatMark /\ d.moneyMark = b.moneyMark
        /\ d.handled = b.handled
    BY <1>1 DEF TypeOK, Probe, Bridge
  <1>3. c = IF probe.boundsSeq # 0 /\ probe.boundsSeq # d.boundsMark
            THEN [d EXCEPT !.boundsMark = probe.boundsSeq, !.bounds = probe.bounds, !.boundsOn = TRUE]
            ELSE d
    BY <1>1 DEF ControlUpdate
  <1>4. probe.boundsSeq \in 0 .. MaxLatches /\ probe.bounds \in Events
    BY DEF TypeOK, Probe
  <1> QED
    BY <1>2, <1>3, <1>4 DEF Bridge

LEMMA ResetFacts ==
    ASSUME NEW b \in Bridge, NEW c, c = SessionReset(b)
    PROVE  c \in Bridge /\ c.chatMark = 0 /\ c.moneyMark = 0 /\ c.handled = b.handled
  <1>1. 0 \in SentInSession
    BY EventBoundsAssumption DEF SentInSession
  <1> QED
    BY <1>1 DEF SessionReset, Bridge

\* What the loops over the two rings find.
LEMMA NewFacts ==
    ASSUME TypeOK, RingsHold, NEW b \in Bridge, b.chatMark <= probe.chatSeq, b.moneyMark <= probe.moneySeq
    PROVE  /\ NewChat(b) = Run(Later(b.chatMark, probe.chatSeq - ChatRing), probe.chatSeq)
           /\ NewMoney(b) = Run(Later(b.moneyMark, probe.moneySeq - MoneyRing), probe.moneySeq)
           /\ NewChat(b) = <<>> => b.chatMark = probe.chatSeq
           /\ ~MoneyDue(b) => b.moneyMark = probe.moneySeq
  <1>1. /\ probe.chatSeq \in Nat /\ probe.moneySeq \in Nat
        /\ ChatRing \in Nat \ {0} /\ MoneyRing \in Nat \ {0}
    BY FieldTypes, RingAssumption
  <1>2. b.chatMark \in Nat /\ b.moneyMark \in Nat
    BY EventBoundsAssumption DEF Bridge, SentInSession
  <1>3. NewChat(b) = Run(Later(b.chatMark, probe.chatSeq - ChatRing), probe.chatSeq)
    BY <1>1, <1>2, ReadsNewest DEF NewChat, RingsHold
  <1>4. PICK m : m = Later(b.moneyMark, probe.moneySeq - MoneyRing)
    OBVIOUS
  <1>5. m \in Nat /\ m <= probe.moneySeq /\ (m = probe.moneySeq => b.moneyMark = probe.moneySeq)
    BY <1>1, <1>2, <1>4 DEF Later
  <1>6. Above(b.moneyMark, Snapshot(probe.moneySeq, probe.moneyRing, MoneyRing)) = Run(m, probe.moneySeq)
    BY <1>1, <1>2, <1>4, ReadsNewest DEF RingsHold
  <1>7. ~MoneyDue(b) => b.moneyMark = probe.moneySeq
    BY <1>1, <1>2 DEF MoneyDue
  <1>8. NewMoney(b) = Run(m, probe.moneySeq)
    <2>1. CASE MoneyDue(b)
      <3>1. b.moneyMark # probe.moneySeq
        BY <2>1 DEF MoneyDue
      <3>2. Run(m, probe.moneySeq) # <<>>
        BY <1>1, <1>5, <3>1, EmptyRun
      <3> QED
        BY <1>6, <2>1, <3>2 DEF NewMoney
    <2>2. CASE ~MoneyDue(b)
      <3>1. m = probe.moneySeq
        BY <1>1, <1>2, <1>4, <1>7, <2>2, RingAssumption DEF Later
      <3> QED
        BY <1>1, <2>2, <3>1, EmptyRun DEF NewMoney
    <2> QED
      BY <2>1, <2>2
  <1>9. NewChat(b) = <<>> => b.chatMark = probe.chatSeq
    <2>1. PICK a : a = Later(b.chatMark, probe.chatSeq - ChatRing)
      OBVIOUS
    <2>2. a \in Nat /\ a <= probe.chatSeq /\ (a = probe.chatSeq => b.chatMark = probe.chatSeq)
      BY <1>1, <1>2, <2>1 DEF Later
    <2> QED
      BY <1>1, <1>3, <2>1, <2>2, EmptyRun
  <1> QED
    BY <1>3, <1>4, <1>7, <1>8, <1>9

LEMMA MarkFacts ==
    ASSUME TypeOK, NEW b \in Bridge, NEW c, c = MarkMoney(MarkChat(b))
    PROVE  /\ c \in Bridge /\ c.handled = b.handled
           /\ c.chatMark = IF NewChat(b) = <<>> THEN b.chatMark ELSE probe.chatSeq
           /\ c.moneyMark = IF MoneyDue(b) THEN probe.moneySeq ELSE b.moneyMark
  <1>1. PICK d : d = MarkChat(b)
    OBVIOUS
  <1>2. probe.chatSeq \in SentInSession /\ probe.moneySeq \in SentInSession
    BY DEF TypeOK, Probe
  <1>3. /\ d \in Bridge /\ d.handled = b.handled /\ d.moneyMark = b.moneyMark
        /\ d.chatMark = IF NewChat(b) = <<>> THEN b.chatMark ELSE probe.chatSeq
    BY <1>1, <1>2 DEF MarkChat, Bridge
  <1>4. c = MarkMoney(d)
    BY <1>1
  <1>5. MoneyDue(d) <=> MoneyDue(b)
    BY <1>3 DEF MoneyDue
  <1> QED
    BY <1>2, <1>3, <1>4, <1>5 DEF MarkMoney, Bridge

\* A refresh, of a session that goes on, after a restart, and after a loss.
LEMMA RefreshFacts ==
    ASSUME IInv, Refresh
    PROVE  /\ bridge' \in Bridge
           /\ \/ /\ lost /\ bridge'.chatMark = 0 /\ bridge'.moneyMark = 0
                 /\ bridge'.handled = bridge.handled /\ chat' = <<>> /\ money' = <<>>
              \/ /\ ~lost /\ Restarted(bridge) /\ bridge'.handled = probe.restartSeq
                 /\ bridge'.chatMark = probe.chatSeq /\ bridge'.moneyMark = probe.moneySeq
                 /\ chat' = <<>> \o Run(Later(0, probe.chatSeq - ChatRing), probe.chatSeq)
                 /\ money' = <<>> \o Run(Later(0, probe.moneySeq - MoneyRing), probe.moneySeq)
              \/ /\ ~lost /\ ~Restarted(bridge) /\ bridge'.handled = bridge.handled
                 /\ bridge'.chatMark = probe.chatSeq /\ bridge'.moneyMark = probe.moneySeq
                 /\ chat' = chat \o Run(Later(bridge.chatMark, probe.chatSeq - ChatRing), probe.chatSeq)
                 /\ money' = money \o Run(Later(bridge.moneyMark, probe.moneySeq - MoneyRing), probe.moneySeq)
  <1>1. PICK r : r = HandleRestart(bridge)
    OBVIOUS
  <1>2. PICK c : c = ControlUpdate(r)
    OBVIOUS
  <1>3. PICK d : d = MarkMoney(MarkChat(c))
    OBVIOUS
  <1>4. /\ bridge' = IF lost THEN SessionReset(d) ELSE d
        /\ chat' = IF lost THEN <<>> ELSE (IF Restarted(bridge) THEN <<>> ELSE chat) \o NewChat(c)
        /\ money' = IF lost THEN <<>> ELSE (IF Restarted(bridge) THEN <<>> ELSE money) \o NewMoney(c)
    BY <1>1, <1>2, <1>3 DEF Refresh
  <1>5. TypeOK /\ RingsHold /\ bridge \in Bridge /\ probe.restartSeq \in 0 .. MaxSessions
    BY DEF IInv, TypeOK, Probe
  <1>6. /\ r \in Bridge
        /\ r.chatMark = IF Restarted(bridge) THEN 0 ELSE bridge.chatMark
        /\ r.moneyMark = IF Restarted(bridge) THEN 0 ELSE bridge.moneyMark
        /\ r.handled = IF Restarted(bridge) THEN probe.restartSeq ELSE bridge.handled
    <2>1. CASE Restarted(bridge)
      <3>1. PICK s : s = SessionReset(bridge)
        OBVIOUS
      <3>2. s \in Bridge /\ s.chatMark = 0 /\ s.moneyMark = 0
        BY <1>5, <3>1, ResetFacts
      <3>3. r = [s EXCEPT !.handled = probe.restartSeq]
        BY <1>1, <2>1, <3>1 DEF HandleRestart
      <3> QED
        BY <1>5, <2>1, <3>2, <3>3 DEF Bridge
    <2>2. CASE ~Restarted(bridge)
      BY <1>1, <1>5, <2>2 DEF HandleRestart
    <2> QED
      BY <2>1, <2>2
  <1>7. c \in Bridge /\ c.chatMark = r.chatMark /\ c.moneyMark = r.moneyMark /\ c.handled = r.handled
    BY <1>2, <1>5, <1>6, ControlFacts
  <1>8. /\ d \in Bridge /\ d.handled = c.handled
        /\ d.chatMark = IF NewChat(c) = <<>> THEN c.chatMark ELSE probe.chatSeq
        /\ d.moneyMark = IF MoneyDue(c) THEN probe.moneySeq ELSE c.moneyMark
    BY <1>3, <1>5, <1>7, MarkFacts
  <1>9. CASE lost
    <2>1. bridge' \in Bridge /\ bridge'.chatMark = 0 /\ bridge'.moneyMark = 0 /\ bridge'.handled = d.handled
      BY <1>4, <1>8, <1>9, ResetFacts
    <2>2. ~Restarted(bridge)
      BY <1>9 DEF IInv, LinkEnds, ResetProbe, Restarted
    <2> QED
      BY <1>4, <1>6, <1>7, <1>8, <1>9, <2>1, <2>2
  <1>10. CASE ~lost
    <2>1. c.chatMark <= probe.chatSeq /\ c.moneyMark <= probe.moneySeq
      <3>1. probe.chatSeq \in Nat /\ probe.moneySeq \in Nat
        BY <1>5, FieldTypes
      <3> QED
        BY <1>6, <1>7, <1>10, <3>1 DEF IInv, MarksFollow, Forgotten
    <2>2. /\ NewChat(c) = Run(Later(c.chatMark, probe.chatSeq - ChatRing), probe.chatSeq)
          /\ NewMoney(c) = Run(Later(c.moneyMark, probe.moneySeq - MoneyRing), probe.moneySeq)
          /\ d.chatMark = probe.chatSeq /\ d.moneyMark = probe.moneySeq
      BY <1>5, <1>7, <1>8, <2>1, NewFacts
    <2> QED
      BY <1>4, <1>6, <1>7, <1>8, <1>10, <2>2
  <1> QED
    BY <1>9, <1>10

-----------------------------------------------------------------------------
(* The invariant. *)

LEMMA TypeStep ==
    ASSUME IInv, Next PROVE TypeOK'
  <1>0. TypeOK /\ RestartsCounted
    BY DEF IInv
  <1>1. /\ probe \in Probe /\ bridge \in Bridge /\ generation \in 0 .. MaxSessions
        /\ chat \in Seq(Events) /\ money \in Seq(Events) /\ session \in 1 .. MaxSessions
        /\ link \in BOOLEAN /\ lost \in BOOLEAN /\ settled \in BOOLEAN
    BY <1>0 DEF TypeOK
  <1>2. \A k \in SentInSession : Event(k) \in Events
    BY <1>1, EventTypes
  <1>3. CASE OnClientMessage
    <2>1. PICK seq : seq = probe.chatSeq + 1
      OBVIOUS
    <2>2. seq \in SentInSession
      BY <1>1, <1>3, <2>1, EventBoundsAssumption DEF OnClientMessage, Probe, SentInSession
    <2>3. PICK ring : ring = [probe.chatRing EXCEPT ![Slot(seq, ChatRing)] = [seq |-> seq, event |-> Event(seq)]]
      OBVIOUS
    <2>4. ring \in Ring(ChatRing)
      BY <1>1, <1>2, <2>2, <2>3 DEF Probe, Ring
    <2>5. probe' = [probe EXCEPT !.chatSeq = seq, !.chatRing = ring]
      BY <1>1, <1>3, <2>1, <2>3 DEF OnClientMessage, Probe
    <2>6. probe' \in Probe
      BY <1>1, <2>2, <2>4, <2>5 DEF Probe
    <2> QED
      BY <1>1, <1>3, <2>6 DEF OnClientMessage, Handled, TypeOK
  <1>4. CASE OnGiveMoney
    <2>1. PICK seq : seq = probe.moneySeq + 1
      OBVIOUS
    <2>2. seq \in SentInSession
      BY <1>1, <1>4, <2>1, EventBoundsAssumption DEF OnGiveMoney, Probe, SentInSession
    <2>3. PICK ring : ring = [probe.moneyRing EXCEPT ![Slot(seq, MoneyRing)] = [seq |-> seq, event |-> Event(seq)]]
      OBVIOUS
    <2>4. ring \in Ring(MoneyRing)
      BY <1>1, <1>2, <2>2, <2>3 DEF Probe, Ring
    <2>5. probe' = [probe EXCEPT !.moneySeq = seq, !.lastMoney = Event(seq), !.moneyRing = ring]
      BY <1>1, <1>4, <2>1, <2>3 DEF OnGiveMoney, Probe
    <2>6. probe' \in Probe
      BY <1>1, <1>2, <2>2, <2>4, <2>5 DEF Probe
    <2> QED
      BY <1>1, <1>4, <2>6 DEF OnGiveMoney, Handled, TypeOK
  <1>5. CASE OnWorldBounds
    <2>1. probe.boundsSeq + 1 \in 0 .. MaxLatches /\ probe.boundsSeq + 1 \in SentInSession
      BY <1>1, <1>5, EventBoundsAssumption DEF OnWorldBounds, Probe, SentInSession
    <2>2. probe' = [probe EXCEPT !.boundsSeq = @ + 1, !.bounds = Event(probe.boundsSeq + 1)]
      BY <1>5 DEF OnWorldBounds
    <2>3. probe' \in Probe
      BY <1>1, <1>2, <2>1, <2>2 DEF Probe
    <2> QED
      BY <1>1, <1>5, <2>3 DEF OnWorldBounds, Handled, TypeOK
  <1>6. CASE OnRestart
    <2>1. session' = session + 1 /\ generation' = generation + 1 /\ session < MaxSessions
      BY <1>6 DEF OnRestart
    <2>2. session' \in 1 .. MaxSessions /\ generation' \in 0 .. MaxSessions
      BY <1>0, <1>1, <2>1, EventBoundsAssumption DEF RestartsCounted
    <2>3. probe' = [ResetProbe EXCEPT !.restartSeq = generation']
      BY <1>6, <2>1 DEF OnRestart
    <2>4. probe' \in Probe
      BY <2>2, <2>3, ResetType DEF Probe
    <2> QED
      BY <1>1, <1>6, <2>2, <2>4 DEF OnRestart, TypeOK
  <1>7. CASE OnConnectionLost
    <2>1. session' = session + 1 /\ session < MaxSessions
      BY <1>7 DEF OnConnectionLost
    <2>2. session' \in 1 .. MaxSessions
      BY <1>1, <2>1, EventBoundsAssumption
    <2> QED
      BY <1>1, <1>7, <2>2, ResetType DEF OnConnectionLost, TypeOK
  <1>8. CASE Refresh
    <2>1. /\ probe.chatSeq \in Nat /\ probe.moneySeq \in Nat
          /\ bridge.chatMark \in Nat /\ bridge.moneyMark \in Nat
      BY <1>0, FieldTypes
    <2>2. ASSUME NEW m \in Nat, m <= probe.chatSeq
          PROVE  Run(Later(m, probe.chatSeq - ChatRing), probe.chatSeq) \in Seq(Events)
      <3>1. PICK a : a = Later(m, probe.chatSeq - ChatRing)
        OBVIOUS
      <3>2. a \in Nat /\ a <= probe.chatSeq
        BY <2>1, <2>2, <3>1, RingAssumption DEF Later
      <3>3. \A k \in a + 1 .. probe.chatSeq : k \in SentInSession
        BY <1>1, <3>2, EventBoundsAssumption DEF Probe, SentInSession
      <3> QED
        BY <1>2, <2>1, <3>1, <3>2, <3>3, RunIsSeq
    <2>3. ASSUME NEW m \in Nat, m <= probe.moneySeq
          PROVE  Run(Later(m, probe.moneySeq - MoneyRing), probe.moneySeq) \in Seq(Events)
      <3>1. PICK a : a = Later(m, probe.moneySeq - MoneyRing)
        OBVIOUS
      <3>2. a \in Nat /\ a <= probe.moneySeq
        BY <2>1, <2>3, <3>1, RingAssumption DEF Later
      <3>3. \A k \in a + 1 .. probe.moneySeq : k \in SentInSession
        BY <1>1, <3>2, EventBoundsAssumption DEF Probe, SentInSession
      <3> QED
        BY <1>2, <2>1, <3>1, <3>2, <3>3, RunIsSeq
    <2>4. 0 \in Nat /\ 0 <= probe.chatSeq /\ 0 <= probe.moneySeq /\ <<>> \in Seq(Events)
      BY <2>1
    <2>5. ~lost /\ ~Restarted(bridge) => bridge.chatMark <= probe.chatSeq /\ bridge.moneyMark <= probe.moneySeq
      BY DEF IInv, MarksFollow, Forgotten
    <2>6. chat' \in Seq(Events)
      <3>1. \/ chat' = <<>>
            \/ chat' = <<>> \o Run(Later(0, probe.chatSeq - ChatRing), probe.chatSeq)
            \/ /\ ~lost /\ ~Restarted(bridge)
               /\ chat' = chat \o Run(Later(bridge.chatMark, probe.chatSeq - ChatRing), probe.chatSeq)
        BY <1>8, RefreshFacts
      <3>2. CASE chat' = <<>>
        BY <2>4, <3>2
      <3>3. CASE chat' = <<>> \o Run(Later(0, probe.chatSeq - ChatRing), probe.chatSeq)
        <4>1. Run(Later(0, probe.chatSeq - ChatRing), probe.chatSeq) \in Seq(Events)
          BY <2>2, <2>4
        <4> QED
          BY <2>4, <3>3, <4>1
      <3>4. CASE /\ ~lost /\ ~Restarted(bridge)
                 /\ chat' = chat \o Run(Later(bridge.chatMark, probe.chatSeq - ChatRing), probe.chatSeq)
        <4>1. Run(Later(bridge.chatMark, probe.chatSeq - ChatRing), probe.chatSeq) \in Seq(Events)
          BY <2>1, <2>2, <2>5, <3>4
        <4> QED
          BY <1>1, <3>4, <4>1
      <3> QED
        BY <3>1, <3>2, <3>3, <3>4
    <2>7. money' \in Seq(Events)
      <3>1. \/ money' = <<>>
            \/ money' = <<>> \o Run(Later(0, probe.moneySeq - MoneyRing), probe.moneySeq)
            \/ /\ ~lost /\ ~Restarted(bridge)
               /\ money' = money \o Run(Later(bridge.moneyMark, probe.moneySeq - MoneyRing), probe.moneySeq)
        BY <1>8, RefreshFacts
      <3>2. CASE money' = <<>>
        BY <2>4, <3>2
      <3>3. CASE money' = <<>> \o Run(Later(0, probe.moneySeq - MoneyRing), probe.moneySeq)
        <4>1. Run(Later(0, probe.moneySeq - MoneyRing), probe.moneySeq) \in Seq(Events)
          BY <2>3, <2>4
        <4> QED
          BY <2>4, <3>3, <4>1
      <3>4. CASE /\ ~lost /\ ~Restarted(bridge)
                 /\ money' = money \o Run(Later(bridge.moneyMark, probe.moneySeq - MoneyRing), probe.moneySeq)
        <4>1. Run(Later(bridge.moneyMark, probe.moneySeq - MoneyRing), probe.moneySeq) \in Seq(Events)
          BY <2>1, <2>3, <2>5, <3>4
        <4> QED
          BY <1>1, <3>4, <4>1
      <3> QED
        BY <3>1, <3>2, <3>3, <3>4
    <2>8. /\ UNCHANGED <<probe, generation, session>>
          /\ link' \in BOOLEAN /\ lost' \in BOOLEAN /\ settled' \in BOOLEAN
      BY <1>8 DEF Refresh
    <2> QED
      BY <1>1, <1>8, <2>6, <2>7, <2>8, RefreshFacts DEF TypeOK
  <1>9. CASE Connect
    <2>1. bridge' \in Bridge
      BY <1>1, <1>9, ResetFacts DEF Connect
    <2> QED
      BY <1>1, <1>9, <2>1, ResetType DEF Connect, TypeOK
  <1> QED
    BY <1>3, <1>4, <1>5, <1>6, <1>7, <1>8, <1>9 DEF Next

LEMMA InitInv == ASSUME Init PROVE IInv
  <1>1. FirstBridge \in Bridge
    <2>1. 0 \in SentInSession /\ 0 \in 0 .. MaxSessions /\ 0 \in 0 .. MaxLatches
      BY EventBoundsAssumption DEF SentInSession
    <2>2. NoEvent \in Events
      BY <2>1 DEF NoEvent, Events
    <2> QED
      BY <2>1, <2>2 DEF FirstBridge, Bridge
  <1>2. TypeOK
    <2>1. \A n \in Nat \ {0} : 0 \in 0 .. n /\ 1 \in 1 .. n
      OBVIOUS
    <2>2. 0 \in 0 .. MaxSessions /\ 1 \in 1 .. MaxSessions
      BY <2>1, EventBoundsAssumption
    <2>3. <<>> \in Seq(Events)
      OBVIOUS
    <2> QED
      BY <1>1, <2>2, <2>3, ResetType DEF Init, TypeOK
  <1>3. RingsHold /\ MarksFollow /\ LinkEnds /\ RestartsCounted
    BY DEF Init, ResetProbe, FirstBridge, RingsHold, Held, MarksFollow, LinkEnds, RestartsCounted
  <1> QED
    BY <1>2, <1>3 DEF IInv

LEMMA ResetHeld ==
    ASSUME probe'.chatSeq = 0, probe'.moneySeq = 0 PROVE RingsHold'
  BY DEF RingsHold, Held

LEMMA NextInv == ASSUME IInv, [Next]_vars PROVE IInv'
  <1>0. TypeOK /\ TypeOK'
    <2>1. UNCHANGED vars => TypeOK'
      BY DEF IInv, TypeOK, vars
    <2> QED
      BY <2>1, TypeStep DEF IInv
  <1>1. /\ probe.chatSeq \in Nat /\ probe.moneySeq \in Nat /\ probe.restartSeq \in Nat
        /\ bridge.chatMark \in Nat /\ bridge.moneyMark \in Nat /\ bridge.handled \in Nat
        /\ DOMAIN probe.chatRing = 0 .. ChatRing - 1 /\ DOMAIN probe.moneyRing = 0 .. MoneyRing - 1
        /\ generation \in Nat /\ session \in Nat /\ probe \in Probe
    BY <1>0, FieldTypes DEF TypeOK
  <1>2. RingsHold /\ MarksFollow /\ LinkEnds /\ RestartsCounted
    BY DEF IInv
  <1>3. CASE OnClientMessage
    <2>1. PICK seq : seq = probe.chatSeq + 1
      OBVIOUS
    <2>2. PICK ring : ring = [probe.chatRing EXCEPT ![Slot(seq, ChatRing)] = [seq |-> seq, event |-> Event(seq)]]
      OBVIOUS
    <2>3. /\ probe'.chatSeq = seq /\ probe'.chatRing = ring
          /\ probe'.moneySeq = probe.moneySeq /\ probe'.moneyRing = probe.moneyRing
          /\ probe'.restartSeq = probe.restartSeq
          /\ UNCHANGED <<generation, bridge, chat, money, session, link, lost>> /\ link /\ ~lost
      BY <1>1, <1>3, <2>1, <2>2 DEF OnClientMessage, Handled, Receives, Probe
    <2>4. Held(seq, ring, ChatRing)
      BY <1>1, <1>2, <2>1, <2>2, PushKeeps, RingAssumption DEF RingsHold
    <2>5. RingsHold'
      BY <1>2, <2>3, <2>4 DEF RingsHold, Held, Event
    <2>6. MarksFollow' /\ LinkEnds' /\ RestartsCounted'
      BY <1>1, <1>2, <2>1, <2>3 DEF MarksFollow, Forgotten, Restarted, LinkEnds, RestartsCounted
    <2> QED
      BY <1>0, <2>5, <2>6 DEF IInv
  <1>4. CASE OnGiveMoney
    <2>1. PICK seq : seq = probe.moneySeq + 1
      OBVIOUS
    <2>2. PICK ring : ring = [probe.moneyRing EXCEPT ![Slot(seq, MoneyRing)] = [seq |-> seq, event |-> Event(seq)]]
      OBVIOUS
    <2>3. /\ probe'.moneySeq = seq /\ probe'.moneyRing = ring
          /\ probe'.chatSeq = probe.chatSeq /\ probe'.chatRing = probe.chatRing
          /\ probe'.restartSeq = probe.restartSeq
          /\ UNCHANGED <<generation, bridge, chat, money, session, link, lost>> /\ link /\ ~lost
      BY <1>1, <1>4, <2>1, <2>2 DEF OnGiveMoney, Handled, Receives, Probe
    <2>4. Held(seq, ring, MoneyRing)
      BY <1>1, <1>2, <2>1, <2>2, PushKeeps, RingAssumption DEF RingsHold
    <2>5. RingsHold'
      BY <1>2, <2>3, <2>4 DEF RingsHold, Held, Event
    <2>6. MarksFollow' /\ LinkEnds' /\ RestartsCounted'
      BY <1>1, <1>2, <2>1, <2>3 DEF MarksFollow, Forgotten, Restarted, LinkEnds, RestartsCounted
    <2> QED
      BY <1>0, <2>5, <2>6 DEF IInv
  <1>5. CASE OnWorldBounds
    <2>1. /\ probe'.moneySeq = probe.moneySeq /\ probe'.moneyRing = probe.moneyRing
          /\ probe'.chatSeq = probe.chatSeq /\ probe'.chatRing = probe.chatRing
          /\ probe'.restartSeq = probe.restartSeq
          /\ UNCHANGED <<generation, bridge, chat, money, session, link, lost>> /\ link /\ ~lost
      BY <1>1, <1>5 DEF OnWorldBounds, Handled, Receives, Probe
    <2>2. RingsHold' /\ MarksFollow'
      BY <1>2, <2>1 DEF RingsHold, Held, Event, MarksFollow, Forgotten, Restarted
    <2>3. LinkEnds' /\ RestartsCounted'
      BY <1>2, <2>1 DEF LinkEnds, RestartsCounted
    <2> QED
      BY <1>0, <2>2, <2>3 DEF IInv
  <1>6. CASE OnRestart
    <2>1. /\ probe'.chatSeq = 0 /\ probe'.moneySeq = 0 /\ probe'.restartSeq = generation + 1
          /\ generation' = generation + 1 /\ session' = session + 1
          /\ UNCHANGED <<bridge, chat, money, link, lost>> /\ link /\ ~lost
      BY <1>6 DEF OnRestart, Receives, ResetProbe
    <2>2. MarksFollow' /\ LinkEnds' /\ RestartsCounted'
      BY <1>1, <1>2, <2>1 DEF MarksFollow, Forgotten, Restarted, LinkEnds, RestartsCounted
    <2> QED
      BY <1>0, <2>1, <2>2, ResetHeld DEF IInv
  <1>7. CASE OnConnectionLost
    <2>1. /\ probe' = ResetProbe /\ session' = session + 1 /\ lost'
          /\ UNCHANGED <<generation, bridge, chat, money, link>> /\ link
          /\ probe'.chatSeq = 0 /\ probe'.moneySeq = 0 /\ probe'.restartSeq = 0
      BY <1>7 DEF OnConnectionLost, Receives, ResetProbe
    <2>2. MarksFollow' /\ LinkEnds' /\ RestartsCounted'
      BY <1>1, <1>2, <2>1 DEF MarksFollow, Forgotten, LinkEnds, RestartsCounted
    <2> QED
      BY <1>0, <2>1, <2>2, ResetHeld DEF IInv
  <1>8. CASE Refresh
    <2>1. /\ UNCHANGED <<probe, generation, session>> /\ link' = ~lost /\ lost' = FALSE /\ link
      BY <1>8 DEF Refresh
    <2>2. \/ /\ lost /\ bridge'.chatMark = 0 /\ bridge'.moneyMark = 0
             /\ bridge'.handled = bridge.handled /\ chat' = <<>> /\ money' = <<>>
          \/ /\ ~lost /\ Restarted(bridge) /\ bridge'.handled = probe.restartSeq
             /\ bridge'.chatMark = probe.chatSeq /\ bridge'.moneyMark = probe.moneySeq
          \/ /\ ~lost /\ ~Restarted(bridge) /\ bridge'.handled = bridge.handled
             /\ bridge'.chatMark = probe.chatSeq /\ bridge'.moneyMark = probe.moneySeq
      BY <1>8, RefreshFacts
    <2>3. RingsHold'
      BY <1>2, <2>1 DEF RingsHold, Held, Event
    <2>4. MarksFollow'
      BY <1>1, <2>1, <2>2 DEF MarksFollow
    <2>5. LinkEnds'
      BY <1>2, <2>1, <2>2 DEF LinkEnds
    <2>6. RestartsCounted'
      BY <1>2, <2>1, <2>2 DEF RestartsCounted
    <2> QED
      BY <1>0, <2>3, <2>4, <2>5, <2>6 DEF IInv
  <1>9. CASE Connect
    <2>1. /\ probe' = ResetProbe /\ chat' = <<>> /\ money' = <<>> /\ link' = TRUE /\ ~link
          /\ UNCHANGED <<generation, session, lost, settled>> /\ bridge' = SessionReset(bridge)
      BY <1>9 DEF Connect
    <2>2. bridge'.chatMark = 0 /\ bridge'.moneyMark = 0 /\ bridge'.handled = bridge.handled
      BY <1>0, <2>1, ResetFacts DEF TypeOK
    <2>3. probe'.chatSeq = 0 /\ probe'.moneySeq = 0 /\ probe'.restartSeq = 0
      BY <2>1 DEF ResetProbe
    <2>4. MarksFollow' /\ LinkEnds' /\ RestartsCounted'
      BY <1>1, <1>2, <2>1, <2>2, <2>3 DEF MarksFollow, LinkEnds, RestartsCounted
    <2> QED
      BY <1>0, <2>3, <2>4, ResetHeld DEF IInv
  <1>10. CASE UNCHANGED vars
    <2>1. UNCHANGED <<probe, generation, bridge, chat, money, session, link, lost, settled>>
      BY <1>10 DEF vars
    <2> QED
      BY <1>0, <1>2, <2>1 DEF IInv, RingsHold, Held, Event, MarksFollow, Forgotten, Restarted, LinkEnds, RestartsCounted
  <1> QED
    BY <1>3, <1>4, <1>5, <1>6, <1>7, <1>8, <1>9, <1>10 DEF Next

\* The newest events are in the rings, no watermark is ahead, and nothing is left of
\* a session that packet 33 has ended.
THEOREM ChannelInvariant == Spec => []IInv
  <1>1. Init => IInv
    BY InitInv
  <1>2. IInv /\ [Next]_vars => IInv'
    BY NextInv
  <1> QED
    BY <1>1, <1>2, PTL DEF Spec

\* The rings, the snapshots' marks and the latches keep their types.
THEOREM TypeCorrect == Spec => []TypeOK
  <1>1. IInv => TypeOK
    BY DEF IInv
  <1> QED
    BY <1>1, ChannelInvariant, PTL

-----------------------------------------------------------------------------
(* The refinement. *)

Base(mark) == IF Forgotten THEN 0 ELSE mark
Given(applied) == IF Forgotten THEN <<>> ELSE applied

\* What is pending is the run above the watermark in force.
LEMMA PendingIsRun ==
    ASSUME NEW seq, NEW mark
    PROVE  Pending(seq, mark) = Run(Base(mark), seq)
  BY DEF Pending, Run, Base

\* The bridge notices a new session by the restart's number or by packet 33.
LEMMA SessionsForgotten ==
    ASSUME IInv, OnRestart \/ OnConnectionLost PROVE Forgotten'
  <1>1. generation \in Nat /\ bridge.handled \in Nat /\ bridge.handled <= generation
    BY FieldTypes DEF IInv, RestartsCounted
  <1>2. CASE OnRestart
    <2>1. probe'.restartSeq = generation + 1 /\ bridge' = bridge
      BY <1>2 DEF OnRestart, ResetProbe
    <2> QED
      BY <1>1, <2>1 DEF Forgotten, Restarted
  <1>3. CASE OnConnectionLost
    BY <1>3 DEF OnConnectionLost, Forgotten
  <1> QED
    BY <1>2, <1>3

\* Every step is one of Feed's to the chat ring: an event sent, a delivery, a new
\* session, or nothing.
LEMMA ChatSteps ==
    ASSUME IInv, [Next]_vars
    PROVE  \/ /\ session' = session /\ probe'.chatSeq = probe.chatSeq + 1
              /\ Base(bridge.chatMark)' = Base(bridge.chatMark) /\ Given(chat)' = Given(chat)
           \/ /\ session' = session /\ probe'.chatSeq = probe.chatSeq
              /\ Base(bridge.chatMark)' = probe.chatSeq
              /\ Given(chat)' = Given(chat) \o Run(Later(Base(bridge.chatMark), probe.chatSeq - ChatRing), probe.chatSeq)
           \/ /\ session' = session + 1 /\ probe'.chatSeq = 0
              /\ Base(bridge.chatMark)' = 0 /\ Given(chat)' = <<>>
           \/ /\ session' = session /\ probe'.chatSeq = probe.chatSeq
              /\ Base(bridge.chatMark)' = Base(bridge.chatMark) /\ Given(chat)' = Given(chat)
  <1>1. probe \in Probe /\ bridge \in Bridge
    BY DEF IInv, TypeOK
  <1>2. CASE OnClientMessage
    <2>1. probe'.chatSeq = probe.chatSeq + 1 /\ probe'.restartSeq = probe.restartSeq
      BY <1>1, <1>2 DEF OnClientMessage, Probe
    <2>2. UNCHANGED <<bridge, chat, session, lost>>
      BY <1>2 DEF OnClientMessage, Handled
    <2> QED
      BY <2>1, <2>2 DEF Base, Given, Forgotten, Restarted
  <1>3. CASE OnGiveMoney \/ OnWorldBounds
    <2>1. probe'.chatSeq = probe.chatSeq /\ probe'.restartSeq = probe.restartSeq
      BY <1>1, <1>3 DEF OnGiveMoney, OnWorldBounds, Probe
    <2>2. UNCHANGED <<bridge, chat, session, lost>>
      BY <1>3 DEF OnGiveMoney, OnWorldBounds, Handled
    <2> QED
      BY <2>1, <2>2 DEF Base, Given, Forgotten, Restarted
  <1>4. CASE OnRestart \/ OnConnectionLost
    <2>1. Forgotten'
      BY <1>4, SessionsForgotten
    <2>2. session' = session + 1 /\ probe'.chatSeq = 0
      BY <1>4 DEF OnRestart, OnConnectionLost, ResetProbe
    <2> QED
      BY <2>1, <2>2 DEF Base, Given
  <1>5. CASE Refresh
    <2>1. UNCHANGED <<probe, session>> /\ lost' = FALSE
      BY <1>5 DEF Refresh
    <2>2. CASE lost
      <3>1. bridge'.chatMark = 0 /\ chat' = <<>>
        BY <1>5, <2>2, RefreshFacts
      <3> QED
        BY <2>1, <2>2, <3>1 DEF Base, Given, Forgotten
    <2>3. CASE ~lost /\ Restarted(bridge)
      <3>1. bridge'.handled = probe.restartSeq /\ bridge'.chatMark = probe.chatSeq
        BY <1>5, <2>3, RefreshFacts
      <3>2. chat' = <<>> \o Run(Later(0, probe.chatSeq - ChatRing), probe.chatSeq)
        BY <1>5, <2>3, RefreshFacts
      <3>3. ~Forgotten' /\ Forgotten
        BY <2>1, <2>3, <3>1 DEF Forgotten, Restarted
      <3> QED
        BY <2>1, <3>1, <3>2, <3>3 DEF Base, Given
    <2>4. CASE ~lost /\ ~Restarted(bridge)
      <3>1. bridge'.handled = bridge.handled /\ bridge'.chatMark = probe.chatSeq
        BY <1>5, <2>4, RefreshFacts
      <3>2. chat' = chat \o Run(Later(bridge.chatMark, probe.chatSeq - ChatRing), probe.chatSeq)
        BY <1>5, <2>4, RefreshFacts
      <3>3. ~Forgotten' /\ ~Forgotten
        BY <2>1, <2>4, <3>1 DEF Forgotten, Restarted
      <3> QED
        BY <2>1, <3>1, <3>2, <3>3 DEF Base, Given
    <2> QED
      BY <2>2, <2>3, <2>4
  <1>6. CASE Connect
    <2>1. /\ probe = ResetProbe /\ probe' = ResetProbe /\ bridge.chatMark = 0 /\ chat = <<>> /\ chat' = <<>>
          /\ session' = session /\ lost' = lost /\ bridge'.chatMark = 0
      BY <1>1, <1>6, ResetFacts DEF Connect, IInv, LinkEnds
    <2> QED
      BY <2>1 DEF Base, Given
  <1>7. CASE UNCHANGED vars
    BY <1>7 DEF vars, Base, Given, Forgotten, Restarted
  <1> QED
    BY <1>2, <1>3, <1>4, <1>5, <1>6, <1>7 DEF Next

\* The same of the money ring.
LEMMA MoneySteps ==
    ASSUME IInv, [Next]_vars
    PROVE  \/ /\ session' = session /\ probe'.moneySeq = probe.moneySeq + 1
              /\ Base(bridge.moneyMark)' = Base(bridge.moneyMark) /\ Given(money)' = Given(money)
           \/ /\ session' = session /\ probe'.moneySeq = probe.moneySeq
              /\ Base(bridge.moneyMark)' = probe.moneySeq
              /\ Given(money)' = Given(money) \o Run(Later(Base(bridge.moneyMark), probe.moneySeq - MoneyRing), probe.moneySeq)
           \/ /\ session' = session + 1 /\ probe'.moneySeq = 0
              /\ Base(bridge.moneyMark)' = 0 /\ Given(money)' = <<>>
           \/ /\ session' = session /\ probe'.moneySeq = probe.moneySeq
              /\ Base(bridge.moneyMark)' = Base(bridge.moneyMark) /\ Given(money)' = Given(money)
  <1>1. probe \in Probe /\ bridge \in Bridge
    BY DEF IInv, TypeOK
  <1>2. CASE OnGiveMoney
    <2>1. probe'.moneySeq = probe.moneySeq + 1 /\ probe'.restartSeq = probe.restartSeq
      BY <1>1, <1>2 DEF OnGiveMoney, Probe
    <2>2. UNCHANGED <<bridge, money, session, lost>>
      BY <1>2 DEF OnGiveMoney, Handled
    <2> QED
      BY <2>1, <2>2 DEF Base, Given, Forgotten, Restarted
  <1>3. CASE OnClientMessage \/ OnWorldBounds
    <2>1. probe'.moneySeq = probe.moneySeq /\ probe'.restartSeq = probe.restartSeq
      BY <1>1, <1>3 DEF OnClientMessage, OnWorldBounds, Probe
    <2>2. UNCHANGED <<bridge, money, session, lost>>
      BY <1>3 DEF OnClientMessage, OnWorldBounds, Handled
    <2> QED
      BY <2>1, <2>2 DEF Base, Given, Forgotten, Restarted
  <1>4. CASE OnRestart \/ OnConnectionLost
    <2>1. Forgotten'
      BY <1>4, SessionsForgotten
    <2>2. session' = session + 1 /\ probe'.moneySeq = 0
      BY <1>4 DEF OnRestart, OnConnectionLost, ResetProbe
    <2> QED
      BY <2>1, <2>2 DEF Base, Given
  <1>5. CASE Refresh
    <2>1. UNCHANGED <<probe, session>> /\ lost' = FALSE
      BY <1>5 DEF Refresh
    <2>2. CASE lost
      <3>1. bridge'.moneyMark = 0 /\ money' = <<>>
        BY <1>5, <2>2, RefreshFacts
      <3> QED
        BY <2>1, <2>2, <3>1 DEF Base, Given, Forgotten
    <2>3. CASE ~lost /\ Restarted(bridge)
      <3>1. bridge'.handled = probe.restartSeq /\ bridge'.moneyMark = probe.moneySeq
        BY <1>5, <2>3, RefreshFacts
      <3>2. money' = <<>> \o Run(Later(0, probe.moneySeq - MoneyRing), probe.moneySeq)
        BY <1>5, <2>3, RefreshFacts
      <3>3. ~Forgotten' /\ Forgotten
        BY <2>1, <2>3, <3>1 DEF Forgotten, Restarted
      <3> QED
        BY <2>1, <3>1, <3>2, <3>3 DEF Base, Given
    <2>4. CASE ~lost /\ ~Restarted(bridge)
      <3>1. bridge'.handled = bridge.handled /\ bridge'.moneyMark = probe.moneySeq
        BY <1>5, <2>4, RefreshFacts
      <3>2. money' = money \o Run(Later(bridge.moneyMark, probe.moneySeq - MoneyRing), probe.moneySeq)
        BY <1>5, <2>4, RefreshFacts
      <3>3. ~Forgotten' /\ ~Forgotten
        BY <2>1, <2>4, <3>1 DEF Forgotten, Restarted
      <3> QED
        BY <2>1, <3>1, <3>2, <3>3 DEF Base, Given
    <2> QED
      BY <2>2, <2>3, <2>4
  <1>6. CASE Connect
    <2>1. /\ probe = ResetProbe /\ probe' = ResetProbe /\ bridge.moneyMark = 0 /\ money = <<>> /\ money' = <<>>
          /\ session' = session /\ lost' = lost /\ bridge'.moneyMark = 0
      BY <1>1, <1>6, ResetFacts DEF Connect, IInv, LinkEnds
    <2> QED
      BY <2>1 DEF Base, Given
  <1>7. CASE UNCHANGED vars
    BY <1>7 DEF vars, Base, Given, Forgotten, Restarted
  <1> QED
    BY <1>2, <1>3, <1>4, <1>5, <1>6, <1>7 DEF Next

\* The ring of chat lines implements Feed: each line reaches the window once and in
\* order, or is one of those the ring had to drop for newer ones between two frames,
\* and no line of a session that is over follows a restart, a loss or a new connection.
THEOREM ChatImplementsFeed == Spec => ChatIsFeed
  <1>1. Init => ChatFeed!Init
    <2>1. SUFFICES ASSUME Init PROVE ChatFeed!Init
      OBVIOUS
    <2>2. /\ probe.chatSeq = 0 /\ probe.restartSeq = 0 /\ session = 1 /\ ~lost /\ chat = <<>>
          /\ bridge.chatMark = 0
      BY <2>1 DEF Init, ResetProbe, FirstBridge
    <2>3. Pending(probe.chatSeq, bridge.chatMark) = <<>>
      BY <2>2, EmptyRun, PendingIsRun DEF Base
    <2> QED
      BY <2>2, <2>3 DEF ChatFeed!Init
  <1>2. IInv /\ [Next]_vars => [ChatFeed!Next]_(ChatFeed!fvars)
    <2>1. SUFFICES ASSUME IInv, [Next]_vars PROVE [ChatFeed!Next]_(ChatFeed!fvars)
      OBVIOUS
    <2>2. PICK b : b = Base(bridge.chatMark)
      OBVIOUS
    <2>3. PICK g : g = Given(chat)
      OBVIOUS
    <2>4. PICK n : n = probe.chatSeq
      OBVIOUS
    <2>5. b \in Nat /\ n \in Nat /\ b <= n
      <3>1. TypeOK /\ MarksFollow
        BY <2>1 DEF IInv
      <3>2. bridge.chatMark \in Nat /\ probe.chatSeq \in Nat
        BY <3>1, FieldTypes
      <3> QED
        BY <2>2, <2>4, <3>1, <3>2 DEF MarksFollow, Base
    <2>6. Pending(probe.chatSeq, bridge.chatMark) = Run(b, n) /\ (IF Forgotten THEN <<>> ELSE chat) = g
      BY <2>2, <2>3, <2>4, PendingIsRun DEF Given
    <2>7. /\ Pending(probe.chatSeq, bridge.chatMark)' = Run(Base(bridge.chatMark), probe.chatSeq)'
          /\ (IF Forgotten THEN <<>> ELSE chat)' = Given(chat)'
      BY PendingIsRun DEF Pending, Run, Base, Given, Event
    <2>8. CASE /\ session' = session /\ probe'.chatSeq = n + 1
               /\ Base(bridge.chatMark)' = b /\ Given(chat)' = g
      <3>1. Run(Base(bridge.chatMark), probe.chatSeq)' = Run(b, n + 1)
        BY <2>8 DEF Run, Event
      <3>2. Run(b, n + 1) = Append(Run(b, n), Event(n + 1))
        BY <2>5, RunAppend
      <3>3. ChatFeed!Send
        BY <2>4, <2>6, <2>7, <2>8, <3>1, <3>2 DEF ChatFeed!Send, Event
      <3> QED
        BY <3>3 DEF ChatFeed!Next
    <2>9. CASE /\ session' = session /\ probe'.chatSeq = n /\ Base(bridge.chatMark)' = n
               /\ Given(chat)' = g \o Run(Later(b, n - ChatRing), n)
      <3>1. Run(Base(bridge.chatMark), probe.chatSeq)' = <<>>
        BY <2>5, <2>9, EmptyRun DEF Run, Event
      <3>2. ChatFeed!Newest(Run(b, n)) = Run(Later(b, n - ChatRing), n)
        BY <2>5, RunLatest, RingAssumption DEF ChatFeed!Newest, Latest
      <3>3. ChatFeed!Deliver
        BY <2>4, <2>6, <2>7, <2>9, <3>1, <3>2 DEF ChatFeed!Deliver
      <3> QED
        BY <3>3 DEF ChatFeed!Next
    <2>10. CASE /\ session' = session + 1 /\ probe'.chatSeq = 0
                /\ Base(bridge.chatMark)' = 0 /\ Given(chat)' = <<>>
      <3>1. Run(Base(bridge.chatMark), probe.chatSeq)' = <<>>
        BY <2>10 DEF Run
      <3>2. ChatFeed!NewSession
        BY <2>7, <2>10, <3>1 DEF ChatFeed!NewSession
      <3> QED
        BY <3>2 DEF ChatFeed!Next
    <2>11. CASE /\ session' = session /\ probe'.chatSeq = n
                /\ Base(bridge.chatMark)' = b /\ Given(chat)' = g
      <3>1. Run(Base(bridge.chatMark), probe.chatSeq)' = Run(b, n)
        BY <2>11 DEF Run, Event
      <3> QED
        BY <2>4, <2>6, <2>7, <2>11, <3>1 DEF ChatFeed!fvars
    <2> QED
      BY <2>1, <2>2, <2>3, <2>4, <2>8, <2>9, <2>10, <2>11, ChatSteps
  <1> QED
    BY <1>1, <1>2, ChannelInvariant, PTL DEF Spec, ChatIsFeed, ChatFeed!Spec

\* The ring of payments implements Feed too: no amount is paid twice, and the fallback
\* that pays the latest amount never pays what the ring has.
THEOREM MoneyImplementsFeed == Spec => MoneyIsFeed
  <1>1. Init => MoneyFeed!Init
    <2>1. SUFFICES ASSUME Init PROVE MoneyFeed!Init
      OBVIOUS
    <2>2. /\ probe.moneySeq = 0 /\ probe.restartSeq = 0 /\ session = 1 /\ ~lost /\ money = <<>>
          /\ bridge.moneyMark = 0
      BY <2>1 DEF Init, ResetProbe, FirstBridge
    <2>3. Pending(probe.moneySeq, bridge.moneyMark) = <<>>
      BY <2>2, EmptyRun, PendingIsRun DEF Base
    <2> QED
      BY <2>2, <2>3 DEF MoneyFeed!Init
  <1>2. IInv /\ [Next]_vars => [MoneyFeed!Next]_(MoneyFeed!fvars)
    <2>1. SUFFICES ASSUME IInv, [Next]_vars PROVE [MoneyFeed!Next]_(MoneyFeed!fvars)
      OBVIOUS
    <2>2. PICK b : b = Base(bridge.moneyMark)
      OBVIOUS
    <2>3. PICK g : g = Given(money)
      OBVIOUS
    <2>4. PICK n : n = probe.moneySeq
      OBVIOUS
    <2>5. b \in Nat /\ n \in Nat /\ b <= n
      <3>1. TypeOK /\ MarksFollow
        BY <2>1 DEF IInv
      <3>2. bridge.moneyMark \in Nat /\ probe.moneySeq \in Nat
        BY <3>1, FieldTypes
      <3> QED
        BY <2>2, <2>4, <3>1, <3>2 DEF MarksFollow, Base
    <2>6. Pending(probe.moneySeq, bridge.moneyMark) = Run(b, n) /\ (IF Forgotten THEN <<>> ELSE money) = g
      BY <2>2, <2>3, <2>4, PendingIsRun DEF Given
    <2>7. /\ Pending(probe.moneySeq, bridge.moneyMark)' = Run(Base(bridge.moneyMark), probe.moneySeq)'
          /\ (IF Forgotten THEN <<>> ELSE money)' = Given(money)'
      BY PendingIsRun DEF Pending, Run, Base, Given, Event
    <2>8. CASE /\ session' = session /\ probe'.moneySeq = n + 1
               /\ Base(bridge.moneyMark)' = b /\ Given(money)' = g
      <3>1. Run(Base(bridge.moneyMark), probe.moneySeq)' = Run(b, n + 1)
        BY <2>8 DEF Run, Event
      <3>2. Run(b, n + 1) = Append(Run(b, n), Event(n + 1))
        BY <2>5, RunAppend
      <3>3. MoneyFeed!Send
        BY <2>4, <2>6, <2>7, <2>8, <3>1, <3>2 DEF MoneyFeed!Send, Event
      <3> QED
        BY <3>3 DEF MoneyFeed!Next
    <2>9. CASE /\ session' = session /\ probe'.moneySeq = n /\ Base(bridge.moneyMark)' = n
               /\ Given(money)' = g \o Run(Later(b, n - MoneyRing), n)
      <3>1. Run(Base(bridge.moneyMark), probe.moneySeq)' = <<>>
        BY <2>5, <2>9, EmptyRun DEF Run, Event
      <3>2. MoneyFeed!Newest(Run(b, n)) = Run(Later(b, n - MoneyRing), n)
        BY <2>5, RunLatest, RingAssumption DEF MoneyFeed!Newest, Latest
      <3>3. MoneyFeed!Deliver
        BY <2>4, <2>6, <2>7, <2>9, <3>1, <3>2 DEF MoneyFeed!Deliver
      <3> QED
        BY <3>3 DEF MoneyFeed!Next
    <2>10. CASE /\ session' = session + 1 /\ probe'.moneySeq = 0
                /\ Base(bridge.moneyMark)' = 0 /\ Given(money)' = <<>>
      <3>1. Run(Base(bridge.moneyMark), probe.moneySeq)' = <<>>
        BY <2>10 DEF Run
      <3>2. MoneyFeed!NewSession
        BY <2>7, <2>10, <3>1 DEF MoneyFeed!NewSession
      <3> QED
        BY <3>2 DEF MoneyFeed!Next
    <2>11. CASE /\ session' = session /\ probe'.moneySeq = n
                /\ Base(bridge.moneyMark)' = b /\ Given(money)' = g
      <3>1. Run(Base(bridge.moneyMark), probe.moneySeq)' = Run(b, n)
        BY <2>11 DEF Run, Event
      <3> QED
        BY <2>4, <2>6, <2>7, <2>11, <3>1 DEF MoneyFeed!fvars
    <2> QED
      BY <2>1, <2>2, <2>3, <2>4, <2>8, <2>9, <2>10, <2>11, MoneySteps
  <1> QED
    BY <1>1, <1>2, ChannelInvariant, PTL DEF Spec, MoneyIsFeed, MoneyFeed!Spec
=============================================================================
