----------------------------- MODULE Pools_proofs -----------------------------
(***************************************************************************)
(* What Pools promises of its mirrors, for any ids, rings and sessions.     *)
(***************************************************************************)
EXTENDS Pools, Ring, FiniteSetTheorems, WellFoundedInduction, TLAPS

-----------------------------------------------------------------------------
(* Numbers. *)

\* A set of numbers has a least one.
LEMMA Smallest ==
    ASSUME NEW T, T \subseteq Nat, T # {}
    PROVE  \E x \in T : \A y \in T : x =< y
  <1>1. IsWellFoundedOn(OpToRel(<, Nat), Nat)
    BY NatLessThanWellFounded
  <1>2. PICK x \in T : \A y \in T : <<y, x>> \notin OpToRel(<, Nat)
    BY <1>1, WFMin
  <1>3. \A y \in T : ~(y < x)
    BY <1>2 DEF OpToRel
  <1> QED
    BY <1>3

\* Induction, about a set.
LEMMA Steps ==
    ASSUME NEW S, 0 \in S, \A n \in Nat : n \in S => n + 1 \in S
    PROVE  Nat \subseteq S
  <1> SUFFICES ASSUME Nat \ S # {} PROVE FALSE
    OBVIOUS
  <1>1. PICK x \in Nat \ S : \A y \in Nat \ S : x =< y
    BY Smallest
  <1>2. x # 0 /\ x - 1 \in Nat
    OBVIOUS
  <1>3. x - 1 \in S
    BY <1>1, <1>2
  <1> QED
    BY <1>2, <1>3

-----------------------------------------------------------------------------
(* The rings, and the loop of their readers.  The provers take no operator  *)
(* as an argument, so the lemmas are about a function F of an entity's state *)
(* and an event; for each mirror one lemma more says that Ring!Replayed with *)
(* its operator is the same.                                                *)

\* n entries, the newest of which is event seq.
RingOk(ring, seq, n, E) ==
    /\ ring \in Seq(E) /\ seq \in Nat /\ Len(ring) = IF seq < n THEN seq ELSE n
    /\ \A k \in 1 .. Len(ring) : ring[k].seq = seq - Len(ring) + k

\* What is new to a reader comes without a gap.
Whole(ring, seq, mark) == seq - Len(ring) =< mark

\* The reader's loop, up to entry n.
Loop(g, ring, mark, o, n, F) ==
    g = [k \in 0 .. n |-> IF k = 0 THEN o
                          ELSE IF ring[k].seq > mark THEN F[<<g[k - 1], ring[k]>>] ELSE g[k - 1]]

Value(ring, mark, o, F) == (CHOOSE g : Loop(g, ring, mark, o, Len(ring), F))[Len(ring)]

\* What is new to the reader is of E.
News(ring, mark, E) == \A k \in 1 .. Len(ring) : ring[k].seq > mark => ring[k] \in E

\* The steps about events of E stay in U.
Closed(F, U, E) == \A x \in U, e \in E : F[<<x, e>>] \in U

\* There is such a function for every n.
LEMMA LoopExists ==
    ASSUME NEW ring, NEW mark, NEW o, NEW F, NEW last \in Nat
    PROVE  \E g : Loop(g, ring, mark, o, last, F)
  <1> DEFINE S == {n \in Nat : \E g : Loop(g, ring, mark, o, n, F)}
  <1>1. 0 \in S
    <2>1. Loop([i \in 0 .. 0 |-> o], ring, mark, o, 0, F)
      BY DEF Loop
    <2> QED
      BY <2>1
  <1>2. ASSUME NEW n \in Nat, n \in S PROVE n + 1 \in S
    <2>1. PICK g : Loop(g, ring, mark, o, n, F)
      BY <1>2
    <2> DEFINE One(x, k) == IF ring[k].seq > mark THEN F[<<x, ring[k]>>] ELSE x
               h == [k \in 0 .. n + 1 |-> IF k = n + 1 THEN One(g[n], n + 1) ELSE g[k]]
    <2>2. g = [k \in 0 .. n |-> IF k = 0 THEN o ELSE One(g[k - 1], k)]
      BY <2>1 DEF Loop
    <2>3. ASSUME NEW k \in 0 .. n + 1 PROVE h[k] = IF k = 0 THEN o ELSE One(h[k - 1], k)
      <3> HIDE DEF One
      <3>1. CASE k = 0
        BY <3>1, <2>2
      <3>2. CASE k # 0 /\ k # n + 1
        <4>1. k \in 0 .. n /\ k - 1 \in 0 .. n /\ k - 1 \in 0 .. n + 1 /\ k - 1 # n + 1
          BY <3>2
        <4> QED
          BY <3>2, <4>1, <2>2
      <3>3. CASE k = n + 1
        BY <3>3
      <3> QED
        BY <3>1, <3>2, <3>3
    <2>4. Loop(h, ring, mark, o, n + 1, F)
      BY <2>3 DEF Loop
    <2>5. \E x : Loop(x, ring, mark, o, n + 1, F)
      <3> HIDE DEF h
      <3> QED
        BY <2>4
    <2> QED
      BY <2>5
  <1>3. Nat \subseteq S
    <2> HIDE DEF S
    <2> QED
      BY <1>1, <1>2, Steps
  <1> QED
    BY <1>3

\* Each place of the loop is in a set the steps do not leave.
LEMMA LoopStays ==
    ASSUME NEW U, NEW E, NEW F, Closed(F, U, E), NEW ring, NEW mark, NEW o \in U,
           News(ring, mark, E), NEW last \in Nat, last =< Len(ring), NEW g, Loop(g, ring, mark, o, last, F)
    PROVE  \A k \in 0 .. last : g[k] \in U
  <1> DEFINE S == {n \in Nat : n =< last => g[n] \in U}
  <1>1. /\ g[0] = o
        /\ \A k \in 0 .. last : k # 0 => g[k] = IF ring[k].seq > mark THEN F[<<g[k - 1], ring[k]>>] ELSE g[k - 1]
    BY DEF Loop
  <1>2. 0 \in S
    BY <1>1
  <1>3. ASSUME NEW n \in Nat, n \in S PROVE n + 1 \in S
    <2> SUFFICES ASSUME n + 1 =< last PROVE g[n + 1] \in U
      OBVIOUS
    <2>1. g[n] \in U /\ n + 1 \in 0 .. last /\ n + 1 # 0 /\ (n + 1) - 1 = n /\ n + 1 \in 1 .. Len(ring)
      BY <1>3
    <2>2. g[n + 1] = IF ring[n + 1].seq > mark THEN F[<<g[n], ring[n + 1]>>] ELSE g[n]
      BY <1>1, <2>1
    <2>3. ring[n + 1].seq > mark => ring[n + 1] \in E
      BY <2>1 DEF News
    <2> QED
      BY <2>1, <2>2, <2>3 DEF Closed
  <1>4. Nat \subseteq S
    <2> HIDE DEF S
    <2> QED
      BY <1>2, <1>3, Steps
  <1> QED
    BY <1>4

\* The places of s after d are those of r, up to place n of r.
Shifted(s, r, d, n) == \A k \in 1 .. n : s[k + d] = r[k]

\* So are their values.
Same(h, g, d, n) == \A k \in 0 .. n : h[k + d] = g[k]

\* Loops over rings that agree up to a shift agree up to that shift.
LEMMA LoopsAgree ==
    ASSUME NEW F, NEW mark, NEW r, NEW s, NEW last \in Nat, NEW d \in Nat,
           NEW g, NEW h, NEW o, NEW p, NEW m \in Nat, NEW n \in Nat,
           Loop(g, r, mark, o, m, F), Loop(h, s, mark, p, n, F),
           last =< m, last + d =< n, h[d] = g[0], Shifted(s, r, d, last)
    PROVE  Same(h, g, d, last)
  <1> DEFINE S == {i \in Nat : i =< last => h[i + d] = g[i]}
  <1>1. \A k \in 0 .. m : k # 0 => g[k] = IF r[k].seq > mark THEN F[<<g[k - 1], r[k]>>] ELSE g[k - 1]
    BY DEF Loop
  <1>2. \A k \in 0 .. n : k # 0 => h[k] = IF s[k].seq > mark THEN F[<<h[k - 1], s[k]>>] ELSE h[k - 1]
    BY DEF Loop
  <1>3. 0 \in S
    OBVIOUS
  <1>4. ASSUME NEW i \in Nat, i \in S PROVE i + 1 \in S
    <2> SUFFICES ASSUME i + 1 =< last PROVE h[(i + 1) + d] = g[i + 1]
      OBVIOUS
    <2>1. PICK k : k = i + 1 + d
      OBVIOUS
    <2>2. /\ h[i + d] = g[i] /\ i + 1 \in 0 .. m /\ i + 1 # 0 /\ (i + 1) - 1 = i
          /\ k \in 0 .. n /\ k # 0 /\ k - 1 = i + d /\ i + 1 \in 1 .. last /\ (i + 1) + d = k
      BY <1>4, <2>1
    <2>3. s[k] = r[i + 1]
      BY <2>2 DEF Shifted
    <2>4. g[i + 1] = IF r[i + 1].seq > mark THEN F[<<g[i], r[i + 1]>>] ELSE g[i]
      BY <1>1, <2>2
    <2>5. h[k] = IF s[k].seq > mark THEN F[<<h[i + d], s[k]>>] ELSE h[i + d]
      BY <1>2, <2>2
    <2> QED
      BY <2>2, <2>3, <2>4, <2>5
  <1>5. Nat \subseteq S
    <2> HIDE DEF S
    <2> QED
      BY <1>3, <1>4, Steps
  <1> QED
    BY <1>5 DEF Same

\* Skipped entries change nothing.
LEMMA NothingNew ==
    ASSUME NEW F, NEW mark, NEW ring, NEW o, NEW last \in Nat, last = Len(ring),
           \A k \in 1 .. last : ~(ring[k].seq > mark)
    PROVE  Value(ring, mark, o, F) = o
  <1>1. Closed(F, {o}, {})
    BY DEF Closed
  <1>2. News(ring, mark, {})
    BY DEF News
  <1> DEFINE g == CHOOSE g : Loop(g, ring, mark, o, Len(ring), F)
  <1>3. Loop(g, ring, mark, o, last, F)
    BY LoopExists
  <1> HIDE DEF g
  <1>4. \A k \in 0 .. last : g[k] \in {o}
    BY <1>1, <1>2, <1>3, LoopStays
  <1>5. g[last] = o
    BY <1>4
  <1> QED
    BY <1>5 DEF Value, g

\* What the loop ends with.
LEMMA ValueIs ==
    ASSUME NEW F, NEW mark, NEW ring, NEW o, NEW last \in Nat, last = Len(ring)
    PROVE  \E g : Loop(g, ring, mark, o, last, F) /\ Value(ring, mark, o, F) = g[last]
  <1> DEFINE g == CHOOSE g : Loop(g, ring, mark, o, Len(ring), F)
  <1>3. Loop(g, ring, mark, o, last, F)
    BY LoopExists
  <1>4. Value(ring, mark, o, F) = g[last]
    BY DEF Value
  <1> HIDE DEF g
  <1> QED
    BY <1>3, <1>4

\* What the loop ends with is in a set the steps do not leave.
LEMMA ValueStays ==
    ASSUME NEW U, NEW E, NEW F, Closed(F, U, E), NEW ring, NEW mark, NEW o \in U,
           News(ring, mark, E), Len(ring) \in Nat
    PROVE  Value(ring, mark, o, F) \in U
  <1>1. PICK last \in Nat : last = Len(ring)
    OBVIOUS
  <1>2. PICK g : Loop(g, ring, mark, o, last, F) /\ Value(ring, mark, o, F) = g[last]
    BY <1>1, ValueIs
  <1>3. \A k \in 0 .. last : g[k] \in U
    BY <1>1, <1>2, LoopStays
  <1> QED
    BY <1>1, <1>2, <1>3

\* The ring afterwards.
LEMMA RingPushed ==
    ASSUME NEW E, NEW ring, NEW seq, NEW n \in Nat \ {0}, RingOk(ring, seq, n, E), NEW e \in E, e.seq = seq + 1
    PROVE  /\ RingOk(Push(ring, n, e), seq + 1, n, E)
           /\ Push(ring, n, e)[Len(Push(ring, n, e))] = e
           /\ seq < n => Push(ring, n, e) = Append(ring, e)
           /\ ~(seq < n) => Push(ring, n, e) = Append(Tail(ring), e)
  <1>1. ring \in Seq(E) /\ seq \in Nat /\ Len(ring) = IF seq < n THEN seq ELSE n
    BY DEF RingOk
  <1>2. \A k \in 1 .. Len(ring) : ring[k].seq = seq - Len(ring) + k
    BY DEF RingOk
  <1>3. CASE seq < n
    <2>1. Push(ring, n, e) = Append(ring, e)
      BY <1>1, <1>3 DEF Push
    <2>2. PICK r : r = Append(ring, e)
      OBVIOUS
    <2>3. r \in Seq(E) /\ Len(r) = seq + 1 /\ r[seq + 1] = e /\ \A k \in 1 .. seq : r[k] = ring[k]
      BY <1>1, <1>3, <2>2
    <2>4. \A k \in 1 .. seq + 1 : r[k].seq = k
      BY <1>1, <1>2, <1>3, <2>3
    <2>5. Len(r) = IF seq + 1 < n THEN seq + 1 ELSE n
      BY <1>1, <1>3, <2>3
    <2>6. \A k \in 1 .. Len(r) : r[k].seq = (seq + 1) - Len(r) + k
      BY <1>1, <2>3, <2>4
    <2>7. RingOk(r, seq + 1, n, E)
      BY <1>1, <2>3, <2>5, <2>6 DEF RingOk
    <2> QED
      BY <1>3, <2>1, <2>2, <2>3, <2>7
  <1>4. CASE ~(seq < n)
    <2>1. Push(ring, n, e) = Append(Tail(ring), e)
      BY <1>1, <1>4 DEF Push
    <2>2. PICK t : t = Tail(ring)
      OBVIOUS
    <2>3. t \in Seq(E) /\ Len(t) = n - 1 /\ \A k \in 1 .. n - 1 : t[k] = ring[k + 1]
      BY <1>1, <1>4, <2>2
    <2>4. PICK r : r = Append(t, e)
      OBVIOUS
    <2>5. r \in Seq(E) /\ Len(r) = n /\ r[n] = e /\ \A k \in 1 .. n - 1 : r[k] = t[k]
      BY <2>3, <2>4
    <2>6. \A k \in 1 .. n : r[k].seq = (seq + 1) - n + k
      <3> TAKE k \in 1 .. n
      <3>1. CASE k = n
        BY <1>1, <2>5, <3>1
      <3>2. CASE k # n
        <4>1. k \in 1 .. n - 1 /\ k + 1 \in 1 .. Len(ring)
          BY <1>1, <1>4, <3>2
        <4>2. r[k] = ring[k + 1] /\ ring[k + 1].seq = seq - Len(ring) + (k + 1)
          BY <1>2, <2>3, <2>5, <4>1
        <4> QED
          BY <1>1, <1>4, <4>2
      <3> QED
        BY <3>1, <3>2
    <2>7. Len(r) = IF seq + 1 < n THEN seq + 1 ELSE n
      BY <1>1, <1>4, <2>5
    <2>8. RingOk(r, seq + 1, n, E)
      BY <1>1, <2>5, <2>6, <2>7 DEF RingOk
    <2>9. r[Len(r)] = e
      BY <2>5
    <2> QED
      BY <1>4, <2>1, <2>2, <2>4, <2>8, <2>9
  <1> QED
    BY <1>3, <1>4

\* To a reader who has missed nothing a push is one step more.
LEMMA ValuePushed ==
    ASSUME NEW E, NEW ring, NEW seq, NEW n \in Nat \ {0}, RingOk(ring, seq, n, E), NEW e \in E, e.seq = seq + 1,
           NEW mark \in Nat, mark =< seq, Whole(Push(ring, n, e), seq + 1, mark), NEW o, NEW F
    PROVE  /\ Whole(ring, seq, mark)
           /\ Value(Push(ring, n, e), mark, o, F) = F[<<Value(ring, mark, o, F), e>>]
  <1>1. ring \in Seq(E) /\ seq \in Nat /\ Len(ring) = IF seq < n THEN seq ELSE n
    BY DEF RingOk
  <1>2. \A k \in 1 .. Len(ring) : ring[k].seq = seq - Len(ring) + k
    BY DEF RingOk
  <1>3. PICK m \in Nat : m = Len(ring)
    BY <1>1
  <1>4. PICK r : r = Push(ring, n, e)
    OBVIOUS
  <1>5. PICK l \in Nat : l = Len(r)
    <2>1. RingOk(r, seq + 1, n, E)
      BY <1>4, RingPushed
    <2> QED
      BY <2>1 DEF RingOk
  <1>12. seq + 1 - l =< mark
    BY <1>1, <1>4, <1>5 DEF Whole
  <1>6. PICK g : Loop(g, ring, mark, o, m, F) /\ Value(ring, mark, o, F) = g[m]
    BY <1>3, ValueIs
  <1>7. PICK h : Loop(h, r, mark, o, l, F) /\ Value(r, mark, o, F) = h[l]
    BY <1>5, ValueIs
  <1>8. g[0] = o /\ \A k \in 0 .. m : k # 0 => g[k] = IF ring[k].seq > mark THEN F[<<g[k - 1], ring[k]>>] ELSE g[k - 1]
    <2>1. g = [k \in 0 .. m |-> IF k = 0 THEN o ELSE IF ring[k].seq > mark THEN F[<<g[k - 1], ring[k]>>] ELSE g[k - 1]]
      BY <1>6 DEF Loop
    <2> QED
      BY <2>1
  <1>9. h[0] = o /\ \A k \in 0 .. l : k # 0 => h[k] = IF r[k].seq > mark THEN F[<<h[k - 1], r[k]>>] ELSE h[k - 1]
    <2>1. h = [k \in 0 .. l |-> IF k = 0 THEN o ELSE IF r[k].seq > mark THEN F[<<h[k - 1], r[k]>>] ELSE h[k - 1]]
      BY <1>7 DEF Loop
    <2> QED
      BY <2>1
  <1>10. CASE seq < n
    <2>1. r = Append(ring, e) /\ l = m + 1 /\ r[l] = e /\ \A k \in 1 .. m : r[k] = ring[k]
      <3>1. r = Append(ring, e)
        BY <1>4, <1>10, RingPushed
      <3> QED
        BY <1>1, <1>3, <1>5, <3>1
    <2>2. PICK d \in Nat : d = 0
      OBVIOUS
    <2>3. h[m] = g[m]
      <3>1. h[d] = g[0] /\ m =< m /\ m + d =< l
        BY <1>8, <1>9, <2>1, <2>2
      <3>2. Shifted(r, ring, d, m)
        <4> SUFFICES ASSUME NEW k \in 1 .. m PROVE r[k + d] = ring[k]
          BY DEF Shifted
        <4>1. k + d = k
          BY <2>2
        <4> QED
          BY <2>1, <4>1
      <3>3. Same(h, g, d, m)
        BY <1>3, <1>5, <1>6, <1>7, <2>2, <3>1, <3>2, LoopsAgree
      <3>4. m \in 0 .. m /\ m + d = m
        BY <2>2
      <3> QED
        BY <3>3, <3>4 DEF Same
    <2>4. l \in 0 .. l /\ l # 0 /\ l - 1 = m
      BY <2>1
    <2>7. r[l].seq > mark
      BY <1>1, <2>1
    <2>5. h[l] = F[<<h[m], e>>]
      BY <1>9, <2>1, <2>4, <2>7
    <2>6. Whole(ring, seq, mark)
      BY <1>1, <1>10 DEF Whole
    <2> QED
      BY <1>4, <1>6, <1>7, <2>3, <2>5, <2>6
  <1>11. CASE ~(seq < n)
    <2>1. r = Append(Tail(ring), e)
      BY <1>4, <1>11, RingPushed
    <2>2. m = n /\ l = n /\ r[n] = e /\ \A k \in 1 .. n - 1 : ring[k + 1] = r[k]
      <3>1. PICK t : t = Tail(ring)
        OBVIOUS
      <3>2. t \in Seq(E) /\ Len(t) = n - 1 /\ \A k \in 1 .. n - 1 : t[k] = ring[k + 1]
        BY <1>1, <1>11, <3>1
      <3>3. r = Append(t, e)
        BY <2>1, <3>1
      <3>4. Len(r) = n /\ r[n] = e /\ \A k \in 1 .. n - 1 : r[k] = t[k]
        BY <3>2, <3>3
      <3> QED
        BY <1>1, <1>3, <1>5, <1>11, <3>2, <3>4
    <2>3. seq + 1 - n =< mark
      BY <1>12, <2>2
    <2>4. g[1] = h[0]
      <3>1. 1 \in 0 .. m /\ 1 # 0 /\ 1 - 1 = 0 /\ 1 \in 1 .. Len(ring)
        BY <1>3, <2>2
      <3>2. ring[1].seq = seq - n + 1
        BY <1>2, <1>3, <2>2, <3>1
      <3>3. ~(ring[1].seq > mark)
        BY <1>1, <2>3, <3>2
      <3> QED
        BY <1>8, <1>9, <3>1, <3>3
    <2>5. \A k \in 0 .. n - 1 : g[k + 1] = h[k]
      <3>1. PICK i \in Nat : i = n - 1
        OBVIOUS
      <3>2. i =< l /\ i + 1 =< m /\ \A k \in 1 .. i : ring[k + 1] = r[k]
        BY <2>2, <3>1
      <3>3. \A k \in 1 .. i : ring[k + 1] = r[k]
        BY <3>2
      <3>4. PICK d \in Nat : d = 1
        OBVIOUS
      <3>5. i =< l /\ i + d =< m /\ g[d] = h[0] /\ Shifted(ring, r, d, i)
        BY <2>4, <3>2, <3>3, <3>4 DEF Shifted
      <3>6. Same(g, h, d, i)
        BY <1>3, <1>5, <1>6, <1>7, <3>1, <3>4, <3>5, LoopsAgree
      <3> QED
        BY <3>1, <3>4, <3>6 DEF Same
    <2>6. g[n] = h[n - 1]
      <3>1. n - 1 \in 0 .. n - 1 /\ (n - 1) + 1 = n
        OBVIOUS
      <3> QED
        BY <2>5, <3>1
    <2>7. n \in 0 .. l /\ n # 0 /\ r[n].seq > mark
      BY <1>1, <2>2
    <2>8. h[n] = F[<<h[n - 1], e>>]
      BY <1>9, <2>2, <2>7
    <2>9. Whole(ring, seq, mark)
      BY <1>1, <1>3, <2>2, <2>3 DEF Whole
    <2> QED
      BY <1>4, <1>6, <1>7, <2>2, <2>6, <2>8, <2>9
  <1> QED
    BY <1>10, <1>11

\* A gap shows in the numbers of the ring, and a reader ends at the newest event.
LEMMA GapIs ==
    ASSUME NEW E, NEW ring, NEW seq, NEW n \in Nat \ {0}, RingOk(ring, seq, n, E), NEW mark \in Nat
    PROVE  Gap(ring, mark) <=> ~Whole(ring, seq, mark)
  <1>1. ring \in Seq(E) /\ seq \in Nat /\ Len(ring) = IF seq < n THEN seq ELSE n
    BY DEF RingOk
  <1>2. \A k \in 1 .. Len(ring) : ring[k].seq = seq - Len(ring) + k
    BY DEF RingOk
  <1>3. PICK l \in Nat : l = Len(ring)
    BY <1>1
  <1>4. CASE Whole(ring, seq, mark)
    <2>1. seq - l =< mark
      BY <1>3, <1>4 DEF Whole
    <2>2. SUFFICES ASSUME Gap(ring, mark) PROVE FALSE
      BY <1>4
    <2>3. PICK k \in 1 .. l : ring[k].seq > mark
      BY <1>3, <2>2 DEF Gap
    <2>4. mark + 1 - (seq - l) \in 1 .. l
      BY <1>1, <1>2, <1>3, <2>1, <2>3
    <2>5. PICK j \in 1 .. l : j = mark + 1 - (seq - l)
      BY <2>4
    <2>6. ring[j].seq = mark + 1
      BY <1>1, <1>2, <1>3, <2>5
    <2> QED
      BY <1>3, <2>2, <2>5, <2>6 DEF Gap
  <1>5. CASE ~Whole(ring, seq, mark)
    <2>1. seq - l > mark
      BY <1>1, <1>3, <1>5 DEF Whole
    <2>2. l > 0
      BY <1>1, <1>3, <2>1
    <2>3. \A k \in 1 .. l : ring[k].seq > mark + 1
      BY <1>1, <1>2, <1>3, <2>1
    <2>4. 1 \in 1 .. l
      BY <2>2
    <2>5. \E k \in 1 .. l : ring[k].seq > mark
      <3>1. ring[1].seq = seq - l + 1
        BY <1>2, <1>3, <2>4
      <3>2. ring[1].seq > mark
        BY <1>1, <2>1, <3>1
      <3> QED
        BY <2>4, <3>2
    <2> QED
      BY <1>3, <1>5, <2>3, <2>5 DEF Gap
  <1> QED
    BY <1>4, <1>5

\* A reader's mark after it has read everything is the newest event of the ring.
LEMMA MarkAfterIs ==
    ASSUME NEW E, NEW ring, NEW seq, NEW n \in Nat \ {0}, RingOk(ring, seq, n, E), NEW mark \in Nat, mark =< seq
    PROVE  MarkAfter(ring, mark) = seq
  <1>1. ring \in Seq(E) /\ seq \in Nat /\ Len(ring) = IF seq < n THEN seq ELSE n
    BY DEF RingOk
  <1>2. \A k \in 1 .. Len(ring) : ring[k].seq = seq - Len(ring) + k
    BY DEF RingOk
  <1>3. PICK l \in Nat : l = Len(ring)
    BY <1>1
  <1>4. CASE l = 0
    <2>1. ring = << >> /\ seq = 0 /\ mark = 0
      BY <1>1, <1>3, <1>4
    <2> QED
      BY <2>1 DEF MarkAfter
  <1>5. CASE l # 0
    <2>2. ring # << >>
      BY <1>1, <1>3, <1>5
    <2>3. l \in 1 .. l
      BY <1>5
    <2>4. ring[l].seq = seq - l + l
      BY <1>2, <1>3, <2>3
    <2>1. ring # << >> /\ ring[Len(ring)].seq = seq
      BY <1>1, <1>3, <2>2, <2>4
    <2> QED
      BY <1>1, <2>1 DEF MarkAfter
  <1> QED
    BY <1>4, <1>5

\* A reader at the newest event has nothing to apply.
LEMMA NoneUnseen ==
    ASSUME NEW E, NEW ring, NEW seq, NEW n \in Nat \ {0}, RingOk(ring, seq, n, E)
    PROVE  Whole(ring, seq, seq) /\ News(ring, seq, {})
  <1>1. ring \in Seq(E) /\ seq \in Nat /\ Len(ring) \in Nat
    BY DEF RingOk
  <1>2. \A k \in 1 .. Len(ring) : ring[k].seq = seq - Len(ring) + k
    BY DEF RingOk
  <1>3. PICK l \in Nat : l = Len(ring)
    BY <1>1
  <1>4. \A k \in 1 .. l : ~(ring[k].seq > seq)
    BY <1>1, <1>2, <1>3
  <1>5. Whole(ring, seq, seq)
    BY <1>1 DEF Whole
  <1> QED
    BY <1>3, <1>4, <1>5 DEF News

-----------------------------------------------------------------------------
(* The actors. *)

ActorsSteps(U, E) == [p \in U \X E |-> Act!ApplyEvent(p[1], p[2])]

ActorsStay(U, E) == \A x \in U, e \in E : Act!ApplyEvent(x, e) \in U

\* The loop over the snapshot is that of the function.
LEMMA ActorsLoop ==
    ASSUME NEW U, NEW E, ActorsStay(U, E), NEW ring, NEW mark, NEW o \in U, News(ring, mark, E),
           Len(ring) \in Nat
    PROVE  Act!Replayed(ring, mark, o, Act!ApplyEvent) = Value(ring, mark, o, ActorsSteps(U, E))
  <1>0. PICK F : F = ActorsSteps(U, E)
    OBVIOUS
  <1>1. \A x \in U, e \in E : F[<<x, e>>] = Act!ApplyEvent(x, e)
    BY <1>0 DEF ActorsSteps
  <1>2. Closed(F, U, E)
    BY <1>1 DEF ActorsStay, Closed
  <1>3. PICK last \in Nat : last = Len(ring)
    OBVIOUS
  <1>4. PICK g : Loop(g, ring, mark, o, last, F) /\ Value(ring, mark, o, F) = g[last]
    BY <1>3, ValueIs
  <1>5. \A k \in 0 .. last : g[k] \in U
    <2>1. last =< Len(ring)
      BY <1>3
    <2> QED
      BY <1>2, <1>3, <1>4, <2>1, LoopStays
  <1>13. /\ g[0] = o
         /\ \A k \in 0 .. last : k # 0 => g[k] = IF ring[k].seq > mark THEN F[<<g[k - 1], ring[k]>>] ELSE g[k - 1]
    BY <1>4 DEF Loop
  <1> DEFINE Then(x, k) == IF ring[k].seq > mark THEN Act!ApplyEvent(x, ring[k]) ELSE x
             Is(h) == h = [k \in 0 .. last |-> IF k = 0 THEN o ELSE Then(h[k - 1], k)]
             c == CHOOSE h : Is(h)
  <1>6. Is(g)
    <2>2. ASSUME NEW k \in 0 .. last, k # 0 PROVE g[k] = Then(g[k - 1], k)
      <3>1. g[k] = IF ring[k].seq > mark THEN F[<<g[k - 1], ring[k]>>] ELSE g[k - 1]
        BY <1>13, <2>2
      <3>2. k - 1 \in 0 .. last /\ k \in 1 .. Len(ring)
        BY <1>3, <2>2
      <3>3. g[k - 1] \in U /\ (ring[k].seq > mark => ring[k] \in E)
        BY <1>5, <3>2 DEF News
      <3> QED
        BY <1>1, <3>1, <3>3
    <2>3. g = [k \in 0 .. last |-> g[k]]
      BY <1>4 DEF Loop
    <2> HIDE DEF Then
    <2> QED
      BY <1>13, <2>2, <2>3
  <1>7. Is(c)
    <2> HIDE DEF Is
    <2> QED
      BY <1>6
  <1>8. Act!Replayed(ring, mark, o, Act!ApplyEvent) = c[last]
    BY <1>3 DEF Act!Replayed
  <1> HIDE DEF c
  <1>9. c[0] = o /\ g[0] = o /\ \A k \in 0 .. last : k # 0 => c[k] = Then(c[k - 1], k) /\ g[k] = Then(g[k - 1], k)
    <2> HIDE DEF Then
    <2> QED
      BY <1>6, <1>7
  <1> HIDE DEF Is, Then
  <1> DEFINE S == {k \in Nat : k =< last => c[k] = g[k]}
  <1>10. 0 \in S
    BY <1>9
  <1>11. ASSUME NEW k \in Nat, k \in S PROVE k + 1 \in S
    <2> SUFFICES ASSUME k + 1 =< last PROVE c[k + 1] = g[k + 1]
      OBVIOUS
    <2>1. c[k] = g[k] /\ k + 1 \in 0 .. last /\ k + 1 # 0 /\ (k + 1) - 1 = k
      BY <1>11
    <2> QED
      BY <1>9, <2>1
  <1>12. Nat \subseteq S
    <2> HIDE DEF S
    <2> QED
      BY <1>10, <1>11, Steps
  <1> QED
    BY <1>0, <1>4, <1>8, <1>12

\* What the instance has of Ring.
LEMMA ActorsRing ==
    /\ \A r, m : Act!Gap(r, m) = Gap(r, m) /\ Act!MarkAfter(r, m) = MarkAfter(r, m)
    /\ \A r, n, e : Act!Push(r, n, e) = Push(r, n, e)
  BY DEF Act!Gap, Gap, Act!MarkAfter, MarkAfter, Act!Push, Push

\* One event and one wish.
LEMMA HeardIs ==
    ASSUME NEW w \in Act!Wishes, NEW e \in Act!Events
    PROVE  Act!Heard(w, e) \in Act!Wishes
  <1>1. e.seq \in Nat /\ e.says \in Act!Tellings /\ Act!Nothing \in Act!Tellings
    BY DEF Act!Events, Act!Tellings, Act!Nothing
  <1>2. CASE e.action = "create"
    <2>1. PICK x : x = e.seq
      OBVIOUS
    <2>2. PICK y : y = e.says
      OBVIOUS
    <2>3. [active |-> TRUE, create |-> x, place |-> x, anim |-> x, made |-> y, at |-> y, plays |-> Act!Nothing]
             \in Act!Wishes
      BY <1>1, <2>1, <2>2 DEF Act!Wishes
    <2> QED
      BY <1>2, <2>1, <2>2, <2>3 DEF Act!Heard
  <1>3. CASE e.action = "destroy"
    <2>1. [w EXCEPT !.active = FALSE, !.plays = Act!Nothing] \in Act!Wishes
      BY <1>1 DEF Act!Wishes
    <2> QED
      BY <1>3, <2>1 DEF Act!Heard
  <1>4. CASE e.action = "animate"
    <2>1. [w EXCEPT !.anim = e.seq, !.plays = e.says] \in Act!Wishes
      BY <1>1 DEF Act!Wishes
    <2> QED
      BY <1>4, <2>1 DEF Act!Heard
  <1>5. CASE e.action = "clear"
    <2>1. [w EXCEPT !.anim = e.seq, !.plays = Act!Nothing] \in Act!Wishes
      BY <1>1 DEF Act!Wishes
    <2> QED
      BY <1>5, <2>1 DEF Act!Heard
  <1>6. CASE e.action = "place"
    <2>1. [w EXCEPT !.place = e.seq, !.at = e.says] \in Act!Wishes
      BY <1>1 DEF Act!Wishes
    <2> QED
      BY <1>6, <2>1 DEF Act!Heard
  <1> QED
    BY <1>2, <1>3, <1>4, <1>5, <1>6 DEF Act!Events

\* One event and all wishes.
LEMMA ApplyEventIs ==
    ASSUME NEW wish \in [Ids -> Act!Wishes], NEW e \in Act!Events
    PROVE  /\ Act!ApplyEvent(wish, e) \in [Ids -> Act!Wishes] /\ e.id \in Ids
           /\ Act!ApplyEvent(wish, e)[e.id] = Act!Heard(wish[e.id], e)
           /\ \A i \in Ids : i # e.id => Act!ApplyEvent(wish, e)[i] = wish[i]
  <1>1. e.id \in Ids
    BY DEF Act!Events
  <1>2. Act!Heard(wish[e.id], e) \in Act!Wishes
    BY <1>1, HeardIs
  <1>3. PICK h : h = Act!Heard(wish[e.id], e)
    OBVIOUS
  <1>4. Act!ApplyEvent(wish, e) = [wish EXCEPT ![e.id] = h]
    BY <1>3 DEF Act!ApplyEvent
  <1> QED
    BY <1>1, <1>2, <1>3, <1>4

\* Actors: no event takes the wishes out of their type.
LEMMA WishesStay == ActorsStay([Ids -> Act!Wishes], Act!Events)
  BY ApplyEventIs DEF ActorsStay

\* The ring and what a replay of it comes to.
LEMMA ActorsRingOk ==
    ASSUME Act!Fields, Act!RingEnds
    PROVE  RingOk(net.probe.ring, net.probe.seq, RingSize, Act!Events)
  BY DEF Act!Fields, Act!RingEnds, RingOk

\* Actors: what a replay ends with is the value of the loop above.
LEMMA ReplayedIs ==
    ASSUME NEW ring \in Seq(Act!Events), NEW mark, NEW wish \in [Ids -> Act!Wishes]
    PROVE  Act!Replayed(ring, mark, wish, Act!ApplyEvent)
             = Value(ring, mark, wish, ActorsSteps([Ids -> Act!Wishes], Act!Events))
  <1>1. News(ring, mark, Act!Events) /\ Len(ring) \in Nat
    BY DEF News
  <1> QED
    BY <1>1, WishesStay, ActorsLoop

\* What the reader knows before an update.
LEMMA KnownIs ==
    ASSUME Act!Fields, Act!Counts
    PROVE  /\ Act!Known.mark \in Nat /\ Act!Known.mark =< net.probe.seq
           /\ Act!Known.wish \in [Ids -> Act!Wishes]
           /\ Act!Known \in [mark : Nat, wish : [Ids -> Act!Wishes], peds : [Ids -> Act!Peds], handled : Nat]
           /\ Act!Known.handled = net.restart /\ Act!Known.peds = own.peds
           /\ own.handled = net.restart => Act!Known = own
           /\ own.handled # net.restart => Act!Known.mark = 0 /\ Act!Known.wish = [i \in Ids |-> Act!NoWish]
  <1>1. /\ own \in [mark : Nat, wish : [Ids -> Act!Wishes], peds : [Ids -> Act!Peds], handled : Nat]
        /\ net.restart \in Nat /\ net.probe.seq \in Nat
    BY DEF Act!Fields
  <1>2. CASE own.handled = net.restart
    <2>1. Act!Known = own
      BY <1>2 DEF Act!Known, Act!Restarted
    <2>2. own.mark =< net.probe.seq
      BY <1>2 DEF Act!Counts
    <2> QED
      BY <1>1, <1>2, <2>1, <2>2
  <1>3. CASE own.handled # net.restart
    <2>1. [i \in Ids |-> Act!NoWish] \in [Ids -> Act!Wishes]
      BY DEF Act!NoWish, Act!Nothing, Act!Wishes, Act!Tellings
    <2>2. PICK w : w = [i \in Ids |-> Act!NoWish]
      OBVIOUS
    <2>3. Act!Known = [[own EXCEPT !.mark = 0, !.wish = w] EXCEPT !.handled = net.restart]
      BY <1>3, <2>2 DEF Act!Known, Act!Restarted, Act!ResetPool
    <2>4. Act!Known = [mark |-> 0, wish |-> w, peds |-> own.peds, handled |-> net.restart]
      BY <1>1, <2>3
    <2> QED
      BY <1>1, <1>3, <2>1, <2>2, <2>4
  <1> QED
    BY <1>2, <1>3

\* One event more, which the server's actor and the wish take alike.
LEMMA CatchesUpPushed ==
    ASSUME NEW p, NEW q, NEW k, p.ring \in Seq(Act!Events), RingOk(p.ring, p.seq, RingSize, Act!Events),
           k.mark \in Nat, k.mark =< p.seq, k.wish \in [Ids -> Act!Wishes], Act!CatchesUp(p, k),
           NEW e \in Act!Events, e.seq = p.seq + 1, q.seq = p.seq + 1, q.ring = Push(p.ring, RingSize, e),
           \A i \in Ids : i # e.id => q.states[i] = p.states[i],
           \A w \in Act!Wishes : Act!Right(w, p.states[e.id]) => Act!Right(Act!Heard(w, e), q.states[e.id])
    PROVE  Act!CatchesUp(q, k)
  <1>1. SUFFICES ASSUME ~Act!Gap(q.ring, k.mark)
                 PROVE  Act!Caught(Act!Replayed(q.ring, k.mark, k.wish, Act!ApplyEvent), q.states)
    BY DEF Act!CatchesUp
  <1>2. PICK F : F = ActorsSteps([Ids -> Act!Wishes], Act!Events)
    OBVIOUS
  <1>3. RingSize \in Nat \ {0}
    BY PoolsAssumption
  <1>4. RingOk(q.ring, q.seq, RingSize, Act!Events)
    BY <1>3, RingPushed
  <1>5. Whole(q.ring, q.seq, k.mark)
    BY <1>1, <1>3, <1>4, GapIs, ActorsRing
  <1>6. /\ Whole(p.ring, p.seq, k.mark)
        /\ Value(q.ring, k.mark, k.wish, F) = F[<<Value(p.ring, k.mark, k.wish, F), e>>]
    <2>1. PICK r, seq, mark, o : r = p.ring /\ seq = p.seq /\ mark = k.mark /\ o = k.wish
      OBVIOUS
    <2>2. /\ RingOk(r, seq, RingSize, Act!Events) /\ e.seq = seq + 1 /\ mark \in Nat /\ mark =< seq
          /\ Whole(Push(r, RingSize, e), seq + 1, mark)
      BY <1>5, <2>1
    <2>3. Whole(r, seq, mark) /\ Value(Push(r, RingSize, e), mark, o, F) = F[<<Value(r, mark, o, F), e>>]
      BY <1>3, <2>2, ValuePushed
    <2> QED
      BY <2>1, <2>3
  <1>7. ~Act!Gap(p.ring, k.mark)
    BY <1>3, <1>6, GapIs, ActorsRing
  <1>8. PICK x : x = Value(p.ring, k.mark, k.wish, F)
    OBVIOUS
  <1>9. x = Act!Replayed(p.ring, k.mark, k.wish, Act!ApplyEvent)
    BY <1>2, <1>8, ReplayedIs
  <1>10. x \in [Ids -> Act!Wishes]
    <2>1. Closed(F, [Ids -> Act!Wishes], Act!Events)
      BY <1>2, WishesStay DEF Closed, ActorsStay, ActorsSteps
    <2>2. News(p.ring, k.mark, Act!Events) /\ Len(p.ring) \in Nat
      BY DEF News
    <2> QED
      BY <1>8, <2>1, <2>2, ValueStays
  <1>11. Act!Replayed(q.ring, k.mark, k.wish, Act!ApplyEvent) = Act!ApplyEvent(x, e)
    <2>1. q.ring \in Seq(Act!Events)
      BY <1>4 DEF RingOk
    <2>2. Act!Replayed(q.ring, k.mark, k.wish, Act!ApplyEvent) = Value(q.ring, k.mark, k.wish, F)
      BY <1>2, <2>1, ReplayedIs
    <2>3. F[<<x, e>>] = Act!ApplyEvent(x, e)
      BY <1>2, <1>10 DEF ActorsSteps
    <2> QED
      BY <1>6, <1>8, <2>2, <2>3
  <1>12. \A i \in Ids : Act!Right(x[i], p.states[i])
    BY <1>7, <1>9 DEF Act!CatchesUp, Act!Caught
  <1>13. PICK y : y = Act!ApplyEvent(x, e)
    OBVIOUS
  <1>14. e.id \in Ids /\ y[e.id] = Act!Heard(x[e.id], e) /\ \A i \in Ids : i # e.id => y[i] = x[i]
    BY <1>10, <1>13, ApplyEventIs
  <1>15. ASSUME NEW i \in Ids PROVE Act!Right(y[i], q.states[i])
    <2>1. CASE i = e.id
      BY <1>10, <1>12, <1>14, <2>1
    <2>2. CASE i # e.id
      BY <1>12, <1>14, <2>2
    <2> QED
      BY <2>1, <2>2
  <1> QED
    BY <1>11, <1>13, <1>15 DEF Act!Caught

\* An RPC about one actor.
LEMMA ActorsQueue ==
    ASSUME Act!ActorsInv, Act!Receives, NEW action \in {"create", "destroy", "animate", "clear", "place"},
           NEW id \in Ids, NEW state \in Act!States, state.active => state.made[1] = net.restart,
           NEW seq, seq = net.probe.seq + 1,
           NEW e, e = [seq |-> seq, action |-> action, id |-> id, says |-> Act!Says],
           NEW s, s = [state EXCEPT !.revision = seq],
           \A w \in Act!Wishes : Act!Right(w, net.probe.states[id]) => Act!Right(Act!Heard(w, e), s),
           Act!Queue(action, id, state)
    PROVE  Act!ActorsInv'
  <1>1. /\ Act!Fields /\ Act!RingEnds /\ Act!Counts /\ Act!CatchesUp(net.probe, Act!Known)
        /\ \A i \in Ids : Act!ActorOk(i)
    BY DEF Act!ActorsInv
  <1>2. RingSize \in Nat \ {0} /\ MaxEvents \in Nat
    BY PoolsAssumption
  <1>3. /\ net \in [probe : [seq : Nat, ring : Seq(Act!Events), states : [Ids -> Act!States]],
                    restart : Nat, rpcs : Nat]
        /\ own \in [mark : Nat, wish : [Ids -> Act!Wishes], peds : [Ids -> Act!Peds], handled : Nat]
        /\ scene \in {"none", "spawned"}
    BY <1>1 DEF Act!Fields
  <1>4. seq \in Nat /\ seq > 0 /\ e \in Act!Events /\ e.seq = net.probe.seq + 1 /\ e.id = id
    <2>1. Act!Says \in Act!Tellings
      BY <1>3 DEF Act!Says, Act!Tellings
    <2> QED
      BY <1>3, <2>1 DEF Act!Events
  <1>5. s \in Act!States /\ s.revision = seq /\ (s.active => s.made[1] = net.restart)
    BY <1>4 DEF Act!States
  <1>6. PICK r : r = Push(net.probe.ring, RingSize, e)
    OBVIOUS
  <1>7. PICK t : t = [net.probe.states EXCEPT ![id] = s]
    OBVIOUS
  <1>8. PICK q : q = [seq |-> seq, ring |-> r, states |-> t]
    OBVIOUS
  <1>9. net' = [net EXCEPT !.rpcs = net.rpcs + 1, !.probe = q] /\ pc' = "pump" /\ own' = own /\ scene' = scene
    BY <1>6, <1>7, <1>8, ActorsRing DEF Act!Queue
  <1>10. net'.probe = q /\ net'.restart = net.restart /\ net'.rpcs = net.rpcs + 1
    BY <1>3, <1>9
  <1>11. RingOk(net.probe.ring, net.probe.seq, RingSize, Act!Events)
    BY <1>1, ActorsRingOk
  <1>12. RingOk(r, seq, RingSize, Act!Events)
    BY <1>2, <1>3, <1>4, <1>6, <1>11, RingPushed
  <1>13. r \in Seq(Act!Events) /\ Len(r) = (IF seq < RingSize THEN seq ELSE RingSize)
            /\ \A k \in 1 .. Len(r) : r[k].seq = seq - Len(r) + k
    BY <1>12 DEF RingOk
  <1>14. t \in [Ids -> Act!States] /\ t[id] = s /\ \A i \in Ids : i # id => t[i] = net.probe.states[i]
    BY <1>3, <1>5, <1>7
  <1>15. Act!Fields'
    <2>1. q \in [seq : Nat, ring : Seq(Act!Events), states : [Ids -> Act!States]]
      BY <1>4, <1>8, <1>13, <1>14
    <2>2. net' \in [probe : [seq : Nat, ring : Seq(Act!Events), states : [Ids -> Act!States]],
                    restart : Nat, rpcs : Nat]
      <3>1. PICK n \in Nat : n = net.rpcs + 1
        BY <1>3
      <3>2. net' = [net EXCEPT !.rpcs = n, !.probe = q]
        BY <1>9, <3>1
      <3> QED
        BY <1>3, <2>1, <3>2
    <2> QED
      BY <1>3, <1>9, <2>2 DEF Act!Fields
  <1>16. Act!RingEnds'
    BY <1>8, <1>10, <1>13 DEF Act!RingEnds
  <1>17. Act!Counts'
    BY <1>1, <1>2, <1>3, <1>8, <1>9, <1>10 DEF Act!Counts, Act!Receives
  <1>18. Act!CatchesUp(net.probe, Act!Known)'
    <2>1. Act!Known' = Act!Known
      BY <1>9, <1>10 DEF Act!Known, Act!Restarted, Act!ResetPool
    <2>2. PICK k : k = Act!Known
      OBVIOUS
    <2>3. PICK p : p = net.probe
      OBVIOUS
    <2>4. k.mark \in Nat /\ k.mark =< p.seq /\ k.wish \in [Ids -> Act!Wishes] /\ Act!CatchesUp(p, k)
      BY <1>1, <2>2, <2>3, KnownIs
    <2>5. /\ p.ring \in Seq(Act!Events) /\ RingOk(p.ring, p.seq, RingSize, Act!Events)
          /\ e.seq = p.seq + 1 /\ q.seq = p.seq + 1 /\ q.ring = Push(p.ring, RingSize, e)
      BY <1>3, <1>4, <1>6, <1>8, <1>11, <2>3
    <2>6. \A i \in Ids : i # e.id => q.states[i] = p.states[i]
      BY <1>4, <1>8, <1>14, <2>3
    <2>7. \A w \in Act!Wishes : Act!Right(w, p.states[e.id]) => Act!Right(Act!Heard(w, e), q.states[e.id])
      BY <1>4, <1>8, <1>14, <2>3
    <2>8. Act!CatchesUp(q, k)
      BY <1>4, <2>4, <2>5, <2>6, <2>7, CatchesUpPushed
    <2> QED
      BY <1>10, <2>1, <2>2, <2>8
  <1>19. ASSUME NEW i \in Ids PROVE Act!ActorOk(i)'
    <2>1. Act!ActorOk(i)
      BY <1>1
    <2>2. PICK w : w = own.wish[i]
      OBVIOUS
    <2>3. PICK p : p = own.peds[i]
      OBVIOUS
    <2>4. PICK v : v = net.probe.states[i]
      OBVIOUS
    <2>5. PICK z : z = t[i]
      OBVIOUS
    <2>6. /\ Act!StateOk(v) /\ Act!WishOk(w) /\ Act!PedOk(p) /\ Act!WishFits(w, v) /\ Act!PedFits(p, v)
          /\ Act!PedFollows(p, w)
      BY <2>1, <2>2, <2>3, <2>4 DEF Act!ActorOk
    <2>7. w \in Act!Wishes /\ p \in Act!Peds /\ v \in Act!States /\ z \in Act!States
      BY <1>3, <1>14, <2>2, <2>3, <2>4, <2>5
    <2>8. Act!WishOk(w)' /\ Act!PedOk(p)' /\ Act!PedFollows(p, w)'
      BY <1>9, <2>6 DEF Act!WishOk, Act!PedOk, Act!PedFollows
    <2>9. Act!StateOk(z)'
      <3>1. CASE i = id
        <4>1. z = s /\ net'.probe.seq = seq
          BY <1>8, <1>10, <1>14, <2>5, <3>1
        <4>2. z.revision =< seq /\ (z.active => z.revision > 0 /\ z.made[1] = net.restart)
          BY <1>4, <1>5, <4>1
        <4> QED
          BY <1>10, <4>1, <4>2 DEF Act!StateOk
      <3>2. CASE i # id
        <4>1. z = v
          BY <1>14, <2>4, <2>5, <3>2
        <4>2. v.revision \in Nat /\ net.probe.seq \in Nat
          BY <1>3, <2>7 DEF Act!States
        <4> QED
          BY <1>8, <1>10, <2>6, <4>1, <4>2 DEF Act!StateOk
      <3> QED
        BY <3>1, <3>2
    <2>10. Act!WishFits(w, z)' /\ Act!PedFits(p, z)'
      <3>1. CASE i = id
        <4>1. z.revision = seq
          BY <1>5, <1>14, <2>5, <3>1
        <4>2. own.mark \in Nat /\ net.probe.seq \in Nat
          BY <1>3
        <4>3. own.handled = net.restart => own.mark < seq
          BY <1>1, <4>2 DEF Act!Counts
        <4>4. own.handled = net.restart => w.create # seq /\ w.place # seq /\ w.anim # seq
          BY <2>6, <2>7, <4>2, <4>3 DEF Act!WishOk, Act!Wishes
        <4>5. own.handled = net.restart /\ p.made[1] = own.handled => p.create # seq /\ p.place # seq /\ p.anim # seq
          BY <2>6, <2>7, <4>2, <4>3 DEF Act!PedOk, Act!Peds
        <4> QED
          BY <1>9, <1>10, <4>1, <4>4, <4>5 DEF Act!WishFits, Act!PedFits
      <3>2. CASE i # id
        <4>1. z = v
          BY <1>14, <2>4, <2>5, <3>2
        <4> QED
          BY <1>9, <1>10, <2>6, <4>1 DEF Act!WishFits, Act!PedFits
      <3> QED
        BY <3>1, <3>2
    <2>11. own'.wish[i] = w /\ own'.peds[i] = p /\ net'.probe.states[i] = z
      BY <1>8, <1>9, <1>10, <2>2, <2>3, <2>5
    <2> QED
      BY <2>8, <2>9, <2>10, <2>11 DEF Act!ActorOk
  <1> QED
    BY <1>15, <1>16, <1>17, <1>18, <1>19 DEF Act!ActorsInv

\* Each RPC.
LEMMA ActorsSays ==
    ASSUME Act!Fields
    PROVE  /\ Act!Says \in Act!Tellings /\ Act!Says[1] = net.restart /\ Act!Nothing \in Act!Tellings
           /\ net.probe.seq + 1 \in Nat /\ \A i \in Ids : net.probe.states[i] \in Act!States
  BY DEF Act!Fields, Act!Says, Act!Tellings, Act!Nothing

\* Actors!OnCreate preserves the invariant.
LEMMA ActorsCreate ==
    ASSUME Act!ActorsInv, Act!OnCreate
    PROVE  Act!ActorsInv'
  <1>1. Act!Fields /\ \A i \in Ids : Act!ActorOk(i)
    BY DEF Act!ActorsInv
  <1>2. PICK id \in Ids : Act!Queue("create", id,
                                   [Act!NoActor EXCEPT !.active = TRUE, !.made = Act!Says, !.at = Act!Says])
    BY DEF Act!OnCreate
  <1>3. PICK seq, says : seq = net.probe.seq + 1 /\ says = Act!Says
    OBVIOUS
  <1>4. PICK old : old = net.probe.states[id]
    OBVIOUS
  <1>5. old \in Act!States /\ says \in Act!Tellings /\ says[1] = net.restart /\ Act!Nothing \in Act!Tellings /\ seq \in Nat
    BY <1>1, <1>3, <1>4, ActorsSays
  <1>6. old.active => old.made[1] = net.restart
    BY <1>1, <1>4 DEF Act!ActorOk, Act!StateOk
  <1>7. PICK state : state = [Act!NoActor EXCEPT !.active = TRUE, !.made = says, !.at = says]
    OBVIOUS
  <1>8. state \in Act!States /\ (state.active => state.made[1] = net.restart)
    BY <1>5, <1>6, <1>7 DEF Act!States, Act!NoActor
  <1>9. PICK e : e = [seq |-> seq, action |-> "create", id |-> id, says |-> says]
    OBVIOUS
  <1>10. PICK s : s = [state EXCEPT !.revision = seq]
    OBVIOUS
  <1>11. ASSUME NEW w \in Act!Wishes, Act!Right(w, old) PROVE Act!Right(Act!Heard(w, e), s)
    <2>1. e.action = "create" /\ e.seq = seq /\ e.says = says
      BY <1>9
    <2>2. PICK h : h = Act!Heard(w, e)
      OBVIOUS
    <2>3. h.active = TRUE /\ h.made = says /\ h.at = says /\ h.plays = Act!Nothing
      BY <2>1, <2>2 DEF Act!Heard
    <2>4. s.active = state.active /\ s.made = state.made /\ s.at = state.at /\ s.plays = state.plays
      BY <1>8, <1>10 DEF Act!States
    <2>5. state.active = TRUE /\ state.made = says /\ state.at = says /\ state.plays = Act!Nothing
      BY <1>8, <1>7 DEF Act!NoActor
    <2> QED
      BY <1>11, <2>2, <2>3, <2>4, <2>5 DEF Act!Right
  <1>12. Act!Receives /\ Act!Queue("create", id, state)
    BY <1>2, <1>3, <1>4, <1>7 DEF Act!OnCreate
  <1> QED
    BY <1>3, <1>4, <1>8, <1>9, <1>10, <1>11, <1>12, ActorsQueue

\* Actors!OnDestroy preserves the invariant.
LEMMA ActorsDestroy ==
    ASSUME Act!ActorsInv, Act!OnDestroy
    PROVE  Act!ActorsInv'
  <1>1. Act!Fields /\ \A i \in Ids : Act!ActorOk(i)
    BY DEF Act!ActorsInv
  <1>2. PICK id \in Ids : Act!Present(id) /\ Act!Queue("destroy", id, Act!NoActor)
    BY DEF Act!OnDestroy
  <1>3. PICK seq, says : seq = net.probe.seq + 1 /\ says = Act!Says
    OBVIOUS
  <1>4. PICK old : old = net.probe.states[id]
    OBVIOUS
  <1>5. old \in Act!States /\ says \in Act!Tellings /\ says[1] = net.restart /\ Act!Nothing \in Act!Tellings /\ seq \in Nat
    BY <1>1, <1>3, <1>4, ActorsSays
  <1>6. old.active => old.made[1] = net.restart
    BY <1>1, <1>4 DEF Act!ActorOk, Act!StateOk
  <1>7. PICK state : state = Act!NoActor
    OBVIOUS
  <1>8. state \in Act!States /\ (state.active => state.made[1] = net.restart)
    BY <1>5, <1>6, <1>7 DEF Act!States, Act!NoActor
  <1>9. PICK e : e = [seq |-> seq, action |-> "destroy", id |-> id, says |-> says]
    OBVIOUS
  <1>10. PICK s : s = [state EXCEPT !.revision = seq]
    OBVIOUS
  <1>11. ASSUME NEW w \in Act!Wishes, Act!Right(w, old) PROVE Act!Right(Act!Heard(w, e), s)
    <2>1. e.action = "destroy" /\ e.seq = seq /\ e.says = says
      BY <1>9
    <2>2. PICK h : h = Act!Heard(w, e)
      OBVIOUS
    <2>3. h.active = FALSE
      BY <2>1, <2>2 DEF Act!Heard, Act!Wishes
    <2>4. s.active = state.active /\ s.made = state.made /\ s.at = state.at /\ s.plays = state.plays
      BY <1>8, <1>10 DEF Act!States
    <2>5. state.active = FALSE
      BY <1>8, <1>7 DEF Act!NoActor
    <2> QED
      BY <1>11, <2>2, <2>3, <2>4, <2>5 DEF Act!Right
  <1>12. Act!Receives /\ Act!Queue("destroy", id, state)
    BY <1>2, <1>3, <1>4, <1>7 DEF Act!OnDestroy
  <1> QED
    BY <1>3, <1>4, <1>8, <1>9, <1>10, <1>11, <1>12, ActorsQueue

\* Actors!OnAnimate preserves the invariant.
LEMMA ActorsAnimate ==
    ASSUME Act!ActorsInv, Act!OnAnimate
    PROVE  Act!ActorsInv'
  <1>1. Act!Fields /\ \A i \in Ids : Act!ActorOk(i)
    BY DEF Act!ActorsInv
  <1>2. PICK id \in Ids : Act!Present(id) /\ Act!Queue("animate", id, [net.probe.states[id] EXCEPT !.plays = Act!Says])
    BY DEF Act!OnAnimate
  <1>3. PICK seq, says : seq = net.probe.seq + 1 /\ says = Act!Says
    OBVIOUS
  <1>4. PICK old : old = net.probe.states[id]
    OBVIOUS
  <1>5. old \in Act!States /\ says \in Act!Tellings /\ says[1] = net.restart /\ Act!Nothing \in Act!Tellings /\ seq \in Nat
    BY <1>1, <1>3, <1>4, ActorsSays
  <1>6. old.active => old.made[1] = net.restart
    BY <1>1, <1>4 DEF Act!ActorOk, Act!StateOk
  <1>7. PICK state : state = [old EXCEPT !.plays = says]
    OBVIOUS
  <1>8. state \in Act!States /\ (state.active => state.made[1] = net.restart)
    BY <1>5, <1>6, <1>7 DEF Act!States
  <1>9. PICK e : e = [seq |-> seq, action |-> "animate", id |-> id, says |-> says]
    OBVIOUS
  <1>10. PICK s : s = [state EXCEPT !.revision = seq]
    OBVIOUS
  <1>11. ASSUME NEW w \in Act!Wishes, Act!Right(w, old) PROVE Act!Right(Act!Heard(w, e), s)
    <2>0. w.active = TRUE /\ old.active
      BY <1>2, <1>4, <1>11 DEF Act!Present, Act!Right, Act!Wishes
    <2>1. e.action = "animate" /\ e.seq = seq /\ e.says = says
      BY <1>9
    <2>2. PICK h : h = Act!Heard(w, e)
      OBVIOUS
    <2>3. h.active = TRUE /\ h.made = w.made /\ h.at = w.at /\ h.plays = says
      BY <2>0, <2>1, <2>2 DEF Act!Heard, Act!Wishes
    <2>4. s.active = state.active /\ s.made = state.made /\ s.at = state.at /\ s.plays = state.plays
      BY <1>8, <1>10 DEF Act!States
    <2>5. state.active = old.active /\ state.made = old.made /\ state.at = old.at /\ state.plays = says
      BY <1>5, <1>7 DEF Act!States
    <2> QED
      BY <1>11, <2>0, <2>2, <2>3, <2>4, <2>5 DEF Act!Right
  <1>12. Act!Receives /\ Act!Queue("animate", id, state)
    BY <1>2, <1>3, <1>4, <1>7 DEF Act!OnAnimate
  <1> QED
    BY <1>3, <1>4, <1>8, <1>9, <1>10, <1>11, <1>12, ActorsQueue

\* Actors!OnClear preserves the invariant.
LEMMA ActorsClear ==
    ASSUME Act!ActorsInv, Act!OnClear
    PROVE  Act!ActorsInv'
  <1>1. Act!Fields /\ \A i \in Ids : Act!ActorOk(i)
    BY DEF Act!ActorsInv
  <1>2. PICK id \in Ids : Act!Present(id) /\ Act!Queue("clear", id, [net.probe.states[id] EXCEPT !.plays = Act!Nothing])
    BY DEF Act!OnClear
  <1>3. PICK seq, says : seq = net.probe.seq + 1 /\ says = Act!Says
    OBVIOUS
  <1>4. PICK old : old = net.probe.states[id]
    OBVIOUS
  <1>5. old \in Act!States /\ says \in Act!Tellings /\ says[1] = net.restart /\ Act!Nothing \in Act!Tellings /\ seq \in Nat
    BY <1>1, <1>3, <1>4, ActorsSays
  <1>6. old.active => old.made[1] = net.restart
    BY <1>1, <1>4 DEF Act!ActorOk, Act!StateOk
  <1>7. PICK state : state = [old EXCEPT !.plays = Act!Nothing]
    OBVIOUS
  <1>8. state \in Act!States /\ (state.active => state.made[1] = net.restart)
    BY <1>5, <1>6, <1>7 DEF Act!States
  <1>9. PICK e : e = [seq |-> seq, action |-> "clear", id |-> id, says |-> says]
    OBVIOUS
  <1>10. PICK s : s = [state EXCEPT !.revision = seq]
    OBVIOUS
  <1>11. ASSUME NEW w \in Act!Wishes, Act!Right(w, old) PROVE Act!Right(Act!Heard(w, e), s)
    <2>0. w.active = TRUE /\ old.active
      BY <1>2, <1>4, <1>11 DEF Act!Present, Act!Right, Act!Wishes
    <2>1. e.action = "clear" /\ e.seq = seq /\ e.says = says
      BY <1>9
    <2>2. PICK h : h = Act!Heard(w, e)
      OBVIOUS
    <2>3. h.active = TRUE /\ h.made = w.made /\ h.at = w.at /\ h.plays = Act!Nothing
      BY <2>0, <2>1, <2>2 DEF Act!Heard, Act!Wishes
    <2>4. s.active = state.active /\ s.made = state.made /\ s.at = state.at /\ s.plays = state.plays
      BY <1>8, <1>10 DEF Act!States
    <2>5. state.active = old.active /\ state.made = old.made /\ state.at = old.at /\ state.plays = Act!Nothing
      BY <1>5, <1>7 DEF Act!States
    <2> QED
      BY <1>11, <2>0, <2>2, <2>3, <2>4, <2>5 DEF Act!Right
  <1>12. Act!Receives /\ Act!Queue("clear", id, state)
    BY <1>2, <1>3, <1>4, <1>7 DEF Act!OnClear
  <1> QED
    BY <1>3, <1>4, <1>8, <1>9, <1>10, <1>11, <1>12, ActorsQueue

\* Actors!OnPlace preserves the invariant.
LEMMA ActorsPlace ==
    ASSUME Act!ActorsInv, Act!OnPlace
    PROVE  Act!ActorsInv'
  <1>1. Act!Fields /\ \A i \in Ids : Act!ActorOk(i)
    BY DEF Act!ActorsInv
  <1>2. PICK id \in Ids : Act!Present(id) /\ Act!Queue("place", id, [net.probe.states[id] EXCEPT !.at = Act!Says])
    BY DEF Act!OnPlace
  <1>3. PICK seq, says : seq = net.probe.seq + 1 /\ says = Act!Says
    OBVIOUS
  <1>4. PICK old : old = net.probe.states[id]
    OBVIOUS
  <1>5. old \in Act!States /\ says \in Act!Tellings /\ says[1] = net.restart /\ Act!Nothing \in Act!Tellings /\ seq \in Nat
    BY <1>1, <1>3, <1>4, ActorsSays
  <1>6. old.active => old.made[1] = net.restart
    BY <1>1, <1>4 DEF Act!ActorOk, Act!StateOk
  <1>7. PICK state : state = [old EXCEPT !.at = says]
    OBVIOUS
  <1>8. state \in Act!States /\ (state.active => state.made[1] = net.restart)
    BY <1>5, <1>6, <1>7 DEF Act!States
  <1>9. PICK e : e = [seq |-> seq, action |-> "place", id |-> id, says |-> says]
    OBVIOUS
  <1>10. PICK s : s = [state EXCEPT !.revision = seq]
    OBVIOUS
  <1>11. ASSUME NEW w \in Act!Wishes, Act!Right(w, old) PROVE Act!Right(Act!Heard(w, e), s)
    <2>0. w.active = TRUE /\ old.active
      BY <1>2, <1>4, <1>11 DEF Act!Present, Act!Right, Act!Wishes
    <2>1. e.action = "place" /\ e.seq = seq /\ e.says = says
      BY <1>9
    <2>2. PICK h : h = Act!Heard(w, e)
      OBVIOUS
    <2>3. h.active = TRUE /\ h.made = w.made /\ h.at = says /\ h.plays = w.plays
      BY <2>0, <2>1, <2>2 DEF Act!Heard, Act!Wishes
    <2>4. s.active = state.active /\ s.made = state.made /\ s.at = state.at /\ s.plays = state.plays
      BY <1>8, <1>10 DEF Act!States
    <2>5. state.active = old.active /\ state.made = old.made /\ state.at = says /\ state.plays = old.plays
      BY <1>5, <1>7 DEF Act!States
    <2> QED
      BY <1>11, <2>0, <2>2, <2>3, <2>4, <2>5 DEF Act!Right
  <1>12. Act!Receives /\ Act!Queue("place", id, state)
    BY <1>2, <1>3, <1>4, <1>7 DEF Act!OnPlace
  <1> QED
    BY <1>3, <1>4, <1>8, <1>9, <1>10, <1>11, <1>12, ActorsQueue

\* Nobody is there yet.
LEMMA NobodyThere ==
    /\ Act!NoActor \in Act!States /\ Act!NoActor.active = FALSE /\ Act!NoActor.revision = 0
    /\ Act!NoWish \in Act!Wishes /\ Act!NoWish.active = FALSE
    /\ Act!NoWish.create = 0 /\ Act!NoWish.place = 0 /\ Act!NoWish.anim = 0
    /\ Act!NoPed \in Act!Peds /\ Act!NoPed.spawned = FALSE /\ Act!NoPed.made = Act!Nothing
    /\ Act!NoPed.create = 0 /\ Act!NoPed.place = 0 /\ Act!NoPed.anim = 0
    /\ Act!Nothing \in Act!Tellings /\ Act!Nothing[1] = 0
  <1>1. Act!Nothing \in Act!Tellings /\ Act!Nothing[1] = 0
    BY DEF Act!Nothing, Act!Tellings
  <1>2. Act!NoActor \in Act!States /\ Act!NoActor.active = FALSE /\ Act!NoActor.revision = 0
    BY <1>1 DEF Act!NoActor, Act!States
  <1>3. /\ Act!NoWish \in Act!Wishes /\ Act!NoWish.active = FALSE
        /\ Act!NoWish.create = 0 /\ Act!NoWish.place = 0 /\ Act!NoWish.anim = 0
    BY <1>1 DEF Act!NoWish, Act!Wishes
  <1>4. /\ Act!NoPed \in Act!Peds /\ Act!NoPed.spawned = FALSE /\ Act!NoPed.made = Act!Nothing
        /\ Act!NoPed.create = 0 /\ Act!NoPed.place = 0 /\ Act!NoPed.anim = 0
    BY <1>1 DEF Act!NoPed, Act!Peds
  <1> QED
    BY <1>1, <1>2, <1>3, <1>4

\* An empty ring.
LEMMA RingEmpty ==
    ASSUME NEW E, NEW n \in Nat \ {0}
    PROVE  RingOk(<< >>, 0, n, E)
  BY DEF RingOk

\* A reader who has seen everything comes to what he knows.
LEMMA ReplayOfNothing ==
    ASSUME NEW p, NEW k, RingOk(p.ring, p.seq, RingSize, Act!Events), k.mark = p.seq,
           k.wish \in [Ids -> Act!Wishes]
    PROVE  Act!Replayed(p.ring, k.mark, k.wish, Act!ApplyEvent) = k.wish /\ ~Act!Gap(p.ring, k.mark)
  <1>1. RingSize \in Nat \ {0}
    BY PoolsAssumption
  <1>2. PICK r, m, w : r = p.ring /\ m = k.mark /\ w = k.wish
    OBVIOUS
  <1>3. News(r, m, {}) /\ r \in Seq(Act!Events) /\ Len(r) \in Nat
    BY <1>1, <1>2, NoneUnseen DEF RingOk
  <1>4. ActorsStay({w}, {})
    BY DEF ActorsStay
  <1>5. Act!Replayed(r, m, w, Act!ApplyEvent) = Value(r, m, w, ActorsSteps({w}, {}))
    BY <1>3, <1>4, ActorsLoop
  <1>6. PICK l \in Nat : l = Len(r)
    BY <1>3
  <1>7. \A j \in 1 .. l : ~(r[j].seq > m)
    BY <1>3, <1>6 DEF News
  <1>8. Value(r, m, w, ActorsSteps({w}, {})) = w
    BY <1>6, <1>7, NothingNew
  <1>9. ~Act!Gap(r, m)
    BY <1>6, <1>7 DEF Act!Gap
  <1> QED
    BY <1>2, <1>5, <1>8, <1>9

\* He has nothing to catch up with, and has caught up.
LEMMA NothingToCatch ==
    ASSUME NEW p, NEW k, RingOk(p.ring, p.seq, RingSize, Act!Events), k.mark = p.seq,
           k.wish \in [Ids -> Act!Wishes], Act!Caught(k.wish, p.states)
    PROVE  Act!CatchesUp(p, k)
  BY ReplayOfNothing DEF Act!CatchesUp

\* A reader at the ring's end has lost nothing and has nothing to replay: it is caught up.
LEMMA CaughtUp ==
    ASSUME NEW p, NEW k, RingOk(p.ring, p.seq, RingSize, Act!Events), k.mark = p.seq,
           k.wish \in [Ids -> Act!Wishes], Act!CatchesUp(p, k)
    PROVE  Act!Caught(k.wish, p.states)
  BY ReplayOfNothing DEF Act!CatchesUp

\* A reset of the adapter.
LEMMA ActorsRestart ==
    ASSUME Act!ActorsInv, Act!OnRestart
    PROVE  Act!ActorsInv'
  <1>1. /\ Act!Fields /\ Act!RingEnds /\ Act!Counts /\ Act!CatchesUp(net.probe, Act!Known)
        /\ \A i \in Ids : Act!ActorOk(i)
    BY DEF Act!ActorsInv
  <1>2. RingSize \in Nat \ {0} /\ MaxEvents \in Nat /\ MaxRestarts \in Nat
    BY PoolsAssumption
  <1>3. /\ net \in [probe : [seq : Nat, ring : Seq(Act!Events), states : [Ids -> Act!States]],
                    restart : Nat, rpcs : Nat]
        /\ own \in [mark : Nat, wish : [Ids -> Act!Wishes], peds : [Ids -> Act!Peds], handled : Nat]
        /\ scene \in {"none", "spawned"}
    BY <1>1 DEF Act!Fields
  <1>4. PICK t : t = [i \in Ids |-> Act!NoActor]
    OBVIOUS
  <1>5. PICK q : q = [seq |-> 0, ring |-> << >>, states |-> t]
    OBVIOUS
  <1>6. PICK n \in Nat : n = net.restart + 1
    BY <1>3
  <1>7. net' = [net EXCEPT !.probe = q, !.restart = n] /\ pc' = "pump" /\ own' = own /\ scene' = scene
    BY <1>4, <1>5, <1>6 DEF Act!OnRestart, Act!ResetActors
  <1>8. net'.probe = q /\ net'.restart = n /\ net'.rpcs = net.rpcs
    BY <1>3, <1>7
  <1>9. t \in [Ids -> Act!States] /\ \A i \in Ids : t[i] = Act!NoActor
    BY <1>4, NobodyThere
  <1>10. RingOk(q.ring, q.seq, RingSize, Act!Events)
    BY <1>2, <1>5, RingEmpty
  <1>11. Act!Fields'
    <2>1. q \in [seq : Nat, ring : Seq(Act!Events), states : [Ids -> Act!States]]
      BY <1>5, <1>9
    <2>2. net' \in [probe : [seq : Nat, ring : Seq(Act!Events), states : [Ids -> Act!States]],
                    restart : Nat, rpcs : Nat]
      BY <1>3, <1>7, <2>1
    <2> QED
      BY <1>3, <1>7, <2>2 DEF Act!Fields
  <1>12. Act!RingEnds'
    BY <1>8, <1>10 DEF Act!RingEnds, RingOk
  <1>13. own.handled < n
    BY <1>1, <1>3, <1>6 DEF Act!Counts
  <1>14. Act!Counts'
    <2>1. net.restart < MaxRestarts /\ net.rpcs =< MaxEvents /\ own.mark =< MaxEvents
      BY <1>1 DEF Act!OnRestart, Act!Counts
    <2>2. q.seq = 0 /\ n =< MaxRestarts /\ own.handled # n /\ own.handled =< n
      BY <1>2, <1>3, <1>5, <1>6, <1>13, <2>1
    <2> QED
      BY <1>3, <1>7, <1>8, <2>1, <2>2 DEF Act!Counts
  <1>15. Act!CatchesUp(net.probe, Act!Known)'
    <2>1. PICK w : w = [i \in Ids |-> Act!NoWish]
      OBVIOUS
    <2>2. Act!Known' = [[own EXCEPT !.mark = 0, !.wish = w] EXCEPT !.handled = n]
      BY <1>3, <1>7, <1>8, <1>13, <2>1 DEF Act!Known, Act!Restarted, Act!ResetPool
    <2>3. PICK k : k = Act!Known'
      OBVIOUS
    <2>4. k.mark = 0 /\ k.wish = w
      BY <1>3, <2>2, <2>3
    <2>5. w \in [Ids -> Act!Wishes] /\ Act!Caught(w, t)
      BY <1>9, <2>1, NobodyThere DEF Act!Caught, Act!Right
    <2>6. Act!CatchesUp(q, k)
      <3>1. k.mark = q.seq /\ q.states = t
        BY <1>5, <2>4
      <3> QED
        BY <1>10, <2>4, <2>5, <3>1, NothingToCatch
    <2> QED
      BY <1>8, <2>3, <2>6
  <1>16. ASSUME NEW i \in Ids PROVE Act!ActorOk(i)'
    <2>1. Act!ActorOk(i)
      BY <1>1
    <2>2. PICK w : w = own.wish[i]
      OBVIOUS
    <2>3. PICK p : p = own.peds[i]
      OBVIOUS
    <2>4. Act!WishOk(w) /\ Act!PedOk(p) /\ Act!PedFollows(p, w)
      BY <2>1, <2>2, <2>3 DEF Act!ActorOk
    <2>5. PICK z : z = Act!NoActor
      OBVIOUS
    <2>6. Act!WishOk(w)' /\ Act!PedOk(p)' /\ Act!PedFollows(p, w)'
      BY <1>7, <2>4 DEF Act!WishOk, Act!PedOk, Act!PedFollows
    <2>7. z.active = FALSE /\ z.revision = 0
      BY <2>5, NobodyThere
    <2>8. Act!StateOk(z)' /\ Act!WishFits(w, z)' /\ Act!PedFits(p, z)'
      BY <1>5, <1>8, <2>7 DEF Act!StateOk, Act!WishFits, Act!PedFits
    <2>9. own'.wish[i] = w /\ own'.peds[i] = p /\ net'.probe.states[i] = z
      BY <1>5, <1>7, <1>8, <1>9, <2>2, <2>3, <2>5
    <2> QED
      BY <2>6, <2>8, <2>9 DEF Act!ActorOk
  <1> QED
    BY <1>11, <1>12, <1>14, <1>15, <1>16 DEF Act!ActorsInv

\* The scene is no part of it.
LEMMA ActorsScene ==
    ASSUME Act!ActorsInv, Act!NextScene
    PROVE  Act!ActorsInv'
  <1>1. net' = net /\ own' = own /\ pc' = pc /\ scene' = "spawned"
    BY DEF Act!NextScene
  <1>2. Act!Fields'
    BY <1>1 DEF Act!ActorsInv, Act!Fields
  <1>3. Act!RingEnds' /\ Act!Counts'
    BY <1>1 DEF Act!ActorsInv, Act!RingEnds, Act!Counts
  <1>4. Act!CatchesUp(net.probe, Act!Known)'
    <2>1. Act!Known' = Act!Known
      BY <1>1 DEF Act!Known, Act!Restarted, Act!ResetPool
    <2> QED
      BY <1>1, <2>1 DEF Act!ActorsInv
  <1>5. ASSUME NEW i \in Ids PROVE Act!ActorOk(i)'
    <2>1. PICK s, w, p : s = net.probe.states[i] /\ w = own.wish[i] /\ p = own.peds[i]
      OBVIOUS
    <2>2. /\ Act!StateOk(s) /\ Act!WishOk(w) /\ Act!PedOk(p)
          /\ Act!WishFits(w, s) /\ Act!PedFits(p, s) /\ Act!PedFollows(p, w)
      BY <2>1 DEF Act!ActorsInv, Act!ActorOk
    <2>3. Act!StateOk(s)' /\ Act!WishOk(w)' /\ Act!PedOk(p)'
      BY <1>1, <2>2 DEF Act!StateOk, Act!WishOk, Act!PedOk
    <2>4. Act!WishFits(w, s)' /\ Act!PedFits(p, s)' /\ Act!PedFollows(p, w)'
      BY <1>1, <2>2 DEF Act!WishFits, Act!PedFits, Act!PedFollows
    <2>5. (net.probe.states[i])' = s /\ (own.wish[i])' = w /\ (own.peds[i])' = p
      BY <1>1, <2>1
    <2> QED
      BY <2>3, <2>4, <2>5 DEF Act!ActorOk
  <1> QED
    BY <1>2, <1>3, <1>4, <1>5 DEF Act!ActorsInv

\* What is to be known of a ped.
GoodPed(p, w, s) == p \in Act!Peds /\ Act!PedOk(p) /\ Act!PedFits(p, s) /\ Act!PedFollows(p, w)

\* What is known of the wish and the server's actor.
GoodWish(w, s) ==
    /\ w \in Act!Wishes /\ s \in Act!States /\ own.mark \in Nat /\ own.handled \in Nat /\ own.mark =< MaxEvents
    /\ Act!StateOk(s) /\ Act!WishOk(w) /\ Act!WishFits(w, s)

\* No ped is always in order.
LEMMA NoPedGood ==
    ASSUME NEW w, NEW s, GoodWish(w, s)
    PROVE  GoodPed(Act!NoPed, w, s)
  <1>1. PICK p : p = Act!NoPed
    OBVIOUS
  <1>2. p \in Act!Peds /\ p.spawned = FALSE /\ p.create = 0 /\ p.place = 0 /\ p.anim = 0 /\ p.made[1] = 0
    BY <1>1, NobodyThere
  <1>3. own.mark \in Nat /\ own.handled \in Nat /\ MaxEvents \in Nat
    BY PoolsAssumption DEF GoodWish
  <1>4. Act!PedOk(p)
    BY <1>1, <1>2, <1>3 DEF Act!PedOk
  <1>5. Act!PedFits(p, s) /\ Act!PedFollows(p, w)
    BY <1>2 DEF Act!PedFits, Act!PedFollows
  <1> QED
    BY <1>1, <1>2, <1>4, <1>5 DEF GoodPed

\* Actors!DestroyPed leaves a ped in order.
LEMMA DestroyPedGood ==
    ASSUME NEW w, NEW s, GoodWish(w, s), NEW p, GoodPed(p, w, s), NEW works
    PROVE  GoodPed(Act!DestroyPed(p, works), w, s)
  BY NoPedGood DEF Act!DestroyPed

\* A ped that is made is made of the wish.
LEMMA CreatePedGood ==
    ASSUME NEW w, NEW s, GoodWish(w, s), w.active, NEW p, GoodPed(p, w, s), ~p.spawned, NEW works,
           NEW r, r = Act!CreatePed(p, w, works)
    PROVE  GoodPed(r, w, s) /\ r.spawned = TRUE /\ r.create = w.create
  <1>1. /\ p \in Act!Peds /\ p.create = 0 /\ p.place = 0 /\ p.anim = 0
    BY NobodyThere DEF GoodPed, Act!PedOk
  <1>2. w \in Act!Wishes /\ s \in Act!States /\ own.mark \in Nat /\ own.handled \in Nat /\ own.mark =< MaxEvents
    BY DEF GoodWish
  <1>3. /\ w.create \in Nat /\ w.place \in Nat /\ w.anim \in Nat
        /\ w.made \in Act!Tellings /\ w.at \in Act!Tellings /\ w.plays \in Act!Tellings /\ Act!Nothing \in Act!Tellings
    BY <1>2, NobodyThere DEF Act!Wishes
  <1>4. /\ w.create =< own.mark /\ w.place =< own.mark /\ w.anim =< own.mark
        /\ w.place > 0 /\ w.made[1] = own.handled
    BY DEF GoodWish, Act!WishOk
  <1>5. PICK at : at = IF "place" \in works THEN w.at ELSE Act!Nothing
    OBVIOUS
  <1>6. PICK place : place = IF "place" \in works THEN w.place ELSE 0
    OBVIOUS
  <1>7. PICK anim : anim = IF w.anim = w.create /\ w.plays = Act!Nothing THEN w.anim ELSE 0
    OBVIOUS
  <1>8. at \in Act!Tellings /\ place \in Nat /\ anim \in Nat /\ place =< own.mark /\ anim =< own.mark
    BY <1>2, <1>3, <1>4, <1>5, <1>6, <1>7
  <1>9. PICK h : h = [p EXCEPT !.spawned = TRUE, !.create = w.create, !.made = w.made, !.plays = Act!Nothing]
    OBVIOUS
  <1>10. h \in Act!Peds /\ h.spawned = TRUE /\ h.create = w.create /\ h.made = w.made /\ h.plays = Act!Nothing
    BY <1>1, <1>3, <1>9 DEF Act!Peds
  <1>11. r = [h EXCEPT !.at = at, !.place = place, !.anim = anim]
    <2>1. r = [p EXCEPT !.spawned = TRUE, !.create = w.create, !.made = w.made, !.plays = Act!Nothing,
                        !.at = at, !.place = place, !.anim = anim]
      <3>1. r = [p EXCEPT !.spawned = TRUE, !.create = w.create, !.made = w.made, !.plays = Act!Nothing,
                          !.at = IF "place" \in works THEN w.at ELSE Act!Nothing,
                          !.place = IF "place" \in works THEN w.place ELSE p.place,
                          !.anim = IF w.anim = w.create /\ w.plays = Act!Nothing THEN w.anim ELSE p.anim]
        BY DEF Act!CreatePed
      <3> QED
        BY <1>1, <1>5, <1>6, <1>7, <3>1
    <2> QED
      BY <1>9, <2>1
  <1>12. r \in Act!Peds
    BY <1>8, <1>10, <1>11 DEF Act!Peds
  <1>13. /\ r.spawned = TRUE /\ r.create = w.create /\ r.made = w.made /\ r.plays = Act!Nothing
         /\ r.at = at /\ r.place = place /\ r.anim = anim
    BY <1>10, <1>11 DEF Act!Peds
  <1>14. Act!PedOk(r)
    <2>1. MaxEvents \in Nat
      BY PoolsAssumption
    <2> QED
      BY <1>2, <1>3, <1>4, <1>8, <1>13, <2>1 DEF Act!PedOk
  <1>15. Act!PedFollows(r, w)
    BY <1>4, <1>5, <1>6, <1>13 DEF Act!PedFollows
  <1>16. Act!PedFits(r, s)
    <2> SUFFICES ASSUME own.handled = net.restart, s.active
                 PROVE  /\ r.create = s.revision => r.made = s.made
                        /\ r.place = s.revision => r.at = s.at
                        /\ r.plays = Act!Nothing
      BY DEF Act!PedFits
    <2>1. /\ s.revision > 0
          /\ w.create = s.revision => w.made = s.made
          /\ w.place = s.revision => w.at = s.at
      BY DEF GoodWish, Act!StateOk, Act!WishFits
    <2> QED
      BY <1>5, <1>6, <1>13, <2>1
  <1> QED
    BY <1>12, <1>13, <1>14, <1>15, <1>16 DEF GoodPed

\* An animation that is tried is that of the wish; a cleared one is.
LEMMA AnimatePedGood ==
    ASSUME NEW w, NEW s, GoodWish(w, s), w.active, NEW p, GoodPed(p, w, s), p.spawned, NEW works,
           NEW r, r = Act!AnimatePed(p, w, works)
    PROVE  GoodPed(r, w, s) /\ r.spawned
  <1>1. CASE p.anim = w.anim \/ (w.plays = Act!Nothing /\ "animate" \notin works)
    BY <1>1 DEF Act!AnimatePed
  <1>2. CASE ~(p.anim = w.anim \/ (w.plays = Act!Nothing /\ "animate" \notin works))
    <2>1. PICK plays : plays = IF "animate" \in works THEN w.plays ELSE p.plays
      OBVIOUS
    <2>2. r = [p EXCEPT !.anim = w.anim, !.plays = plays]
      BY <1>2, <2>1 DEF Act!AnimatePed
    <2>3. /\ p \in Act!Peds /\ w \in Act!Wishes /\ own.mark \in Nat /\ own.handled \in Nat /\ own.mark =< MaxEvents
          /\ Act!PedOk(p) /\ Act!PedFits(p, s) /\ Act!PedFollows(p, w) /\ w.anim =< own.mark
      BY DEF GoodPed, GoodWish, Act!WishOk
    <2>4. plays \in Act!Tellings /\ w.anim \in Nat
      BY <2>1, <2>3 DEF Act!Peds, Act!Wishes
    <2>5. /\ r \in Act!Peds /\ r.anim = w.anim /\ r.plays = plays /\ r.create = p.create /\ r.place = p.place
          /\ r.made = p.made /\ r.at = p.at /\ r.spawned = p.spawned
      BY <2>2, <2>3, <2>4 DEF Act!Peds
    <2>6. w.plays = Act!Nothing => plays = Act!Nothing
      BY <1>2, <2>1
    <2>7. Act!PedOk(r)
      BY <2>3, <2>5 DEF Act!PedOk
    <2>8. Act!PedFollows(r, w)
      BY <2>3, <2>5, <2>6 DEF Act!PedFollows
    <2>9. Act!PedFits(r, s)
      <3>1. Act!WishFits(w, s)
        BY DEF GoodWish
      <3> QED
        BY <2>3, <2>5, <2>6, <3>1 DEF Act!PedFits, Act!WishFits
    <2> QED
      BY <2>5, <2>7, <2>8, <2>9 DEF GoodPed
  <1> QED
    BY <1>1, <1>2

\* Actors!PlacePed leaves a ped in order.
LEMMA PlacePedGood ==
    ASSUME NEW w, NEW s, GoodWish(w, s), w.active, NEW p, GoodPed(p, w, s), p.spawned, NEW works,
           NEW r, r = Act!PlacePed(p, w, works)
    PROVE  GoodPed(r, w, s)
  <1>1. CASE p.place = w.place \/ "place" \notin works
    BY <1>1 DEF Act!PlacePed
  <1>2. CASE ~(p.place = w.place \/ "place" \notin works)
    <2>2. r = [p EXCEPT !.place = w.place, !.at = w.at]
      BY <1>2 DEF Act!PlacePed
    <2>3. /\ p \in Act!Peds /\ w \in Act!Wishes /\ own.mark \in Nat /\ own.handled \in Nat /\ own.mark =< MaxEvents
          /\ Act!PedOk(p) /\ Act!PedFits(p, s) /\ Act!PedFollows(p, w) /\ w.place =< own.mark
      BY DEF GoodPed, GoodWish, Act!WishOk
    <2>4. w.at \in Act!Tellings /\ w.place \in Nat
      BY <2>3 DEF Act!Wishes
    <2>5. /\ r \in Act!Peds /\ r.anim = p.anim /\ r.plays = p.plays /\ r.create = p.create /\ r.place = w.place
          /\ r.made = p.made /\ r.at = w.at /\ r.spawned = p.spawned
      BY <2>2, <2>3, <2>4 DEF Act!Peds
    <2>7. Act!PedOk(r)
      BY <2>3, <2>5 DEF Act!PedOk
    <2>8. Act!PedFollows(r, w)
      BY <2>3, <2>5 DEF Act!PedFollows
    <2>9. Act!PedFits(r, s)
      <3>1. Act!WishFits(w, s)
        BY DEF GoodWish
      <3> QED
        BY <2>3, <2>5, <3>1 DEF Act!PedFits, Act!WishFits
    <2> QED
      BY <2>5, <2>7, <2>8, <2>9 DEF GoodPed
  <1> QED
    BY <1>1, <1>2

\* One actor in the graphics callback.
LEMMA ProcessPedGood ==
    ASSUME NEW w, NEW s, GoodWish(w, s), NEW p, GoodPed(p, w, s), NEW works, NEW b
    PROVE  GoodPed(Act!ProcessPed(p, w, works, b), w, s)
  <1>1. PICK stale : stale = (p.spawned /\ (~w.active \/ p.create # w.create))
    OBVIOUS
  <1>2. PICK kept : kept = IF stale THEN Act!DestroyPed(p, works) ELSE p
    OBVIOUS
  <1>3. PICK made : made = IF w.active /\ ~kept.spawned /\ b THEN Act!CreatePed(kept, w, works) ELSE kept
    OBVIOUS
  <1>4. PICK r : r = Act!ProcessPed(p, w, works, b)
    OBVIOUS
  <1>5. r = IF ~w.active \/ ~made.spawned \/ (stale /\ kept.spawned) THEN made
            ELSE Act!PlacePed(Act!AnimatePed(made, w, works), w, works)
    BY <1>1, <1>2, <1>3, <1>4 DEF Act!ProcessPed
  <1>6. GoodPed(kept, w, s)
    BY <1>2, DestroyPedGood
  <1>7. GoodPed(made, w, s)
    BY <1>3, <1>6, CreatePedGood
  <1>8. CASE ~w.active \/ ~made.spawned \/ (stale /\ kept.spawned)
    BY <1>4, <1>5, <1>7, <1>8
  <1>9. CASE ~(~w.active \/ ~made.spawned \/ (stale /\ kept.spawned))
    <2>1. PICK a : a = Act!AnimatePed(made, w, works)
      OBVIOUS
    <2>2. GoodPed(a, w, s) /\ a.spawned
      BY <1>7, <1>9, <2>1, AnimatePedGood
    <2>3. r = Act!PlacePed(a, w, works)
      BY <1>5, <1>9, <2>1
    <2> QED
      BY <1>4, <1>9, <2>2, <2>3, PlacePedGood
  <1> QED
    BY <1>8, <1>9

\* Actors!Process preserves the invariant.
LEMMA ActorsProcess ==
    ASSUME Act!ActorsInv, Act!Process
    PROVE  Act!ActorsInv'
  <1>1. /\ Act!Fields /\ Act!RingEnds /\ Act!Counts /\ Act!CatchesUp(net.probe, Act!Known)
        /\ \A i \in Ids : Act!ActorOk(i)
    BY DEF Act!ActorsInv
  <1>2. /\ net \in [probe : [seq : Nat, ring : Seq(Act!Events), states : [Ids -> Act!States]],
                    restart : Nat, rpcs : Nat]
        /\ own \in [mark : Nat, wish : [Ids -> Act!Wishes], peds : [Ids -> Act!Peds], handled : Nat]
    BY <1>1 DEF Act!Fields
  <1>3. PICK works \in SUBSET {"destroy", "place", "animate"}, read \in SUBSET Ids, able \in SUBSET Ids :
            /\ own' = [own EXCEPT !.peds = [i \in Ids |->
                          IF i \in read THEN Act!ProcessPed(@[i], own.wish[i], works, i \in able) ELSE @[i]]]
            /\ UNCHANGED <<net, scene, pc>>
    BY Zenon DEF Act!Process
  <1>4. PICK t : t = [i \in Ids |-> IF i \in read THEN Act!ProcessPed(own.peds[i], own.wish[i], works, i \in able)
                                    ELSE own.peds[i]]
    OBVIOUS
  <1>5. own' = [own EXCEPT !.peds = t] /\ net' = net /\ scene' = scene /\ pc' = pc
    BY <1>3, <1>4
  <1>6. own'.mark = own.mark /\ own'.wish = own.wish /\ own'.handled = own.handled /\ own'.peds = t
    BY <1>2, <1>5
  <1>7. ASSUME NEW i \in Ids
        PROVE  GoodWish(own.wish[i], net.probe.states[i]) /\ GoodPed(t[i], own.wish[i], net.probe.states[i])
    <2>1. PICK w, s, p : w = own.wish[i] /\ s = net.probe.states[i] /\ p = own.peds[i]
      OBVIOUS
    <2>2. w \in Act!Wishes /\ s \in Act!States /\ p \in Act!Peds
      BY <1>2, <2>1
    <2>3. own.mark \in Nat /\ own.handled \in Nat /\ own.mark =< MaxEvents
      BY <1>1, <1>2 DEF Act!Counts
    <2>4. GoodWish(w, s) /\ GoodPed(p, w, s)
      BY <1>1, <2>1, <2>2, <2>3 DEF Act!ActorOk, GoodWish, GoodPed
    <2>5. \A b : GoodPed(Act!ProcessPed(p, w, works, b), w, s)
      BY <2>4, ProcessPedGood
    <2>6. CASE i \in read
      <3>1. PICK b : b = (i \in able)
        OBVIOUS
      <3>2. t[i] = Act!ProcessPed(p, w, works, b)
        BY <1>4, <2>1, <2>6, <3>1
      <3> QED
        BY <2>1, <2>4, <2>5, <3>2
    <2>7. CASE i \notin read
      BY <1>4, <2>1, <2>4, <2>7
    <2> QED
      BY <2>6, <2>7
  <1>8. Act!Fields'
    <2>1. t \in [Ids -> Act!Peds]
      <3>1. \A i \in Ids : t[i] \in Act!Peds
        BY <1>7 DEF GoodPed
      <3> QED
        BY <1>4, <3>1
    <2>2. own' \in [mark : Nat, wish : [Ids -> Act!Wishes], peds : [Ids -> Act!Peds], handled : Nat]
      BY <1>2, <1>5, <2>1
    <2> QED
      BY <1>1, <1>5, <2>2 DEF Act!Fields
  <1>9. Act!RingEnds' /\ Act!Counts'
    BY <1>1, <1>5, <1>6 DEF Act!RingEnds, Act!Counts
  <1>10. Act!CatchesUp(net.probe, Act!Known)'
    <2>1. PICK k : k = Act!Known
      OBVIOUS
    <2>2. PICK l : l = Act!Known'
      OBVIOUS
    <2>3. k.mark = l.mark /\ k.wish = l.wish
      <3>1. CASE own.handled = net.restart
        <4>1. k = own /\ l = own'
          BY <1>5, <1>6, <2>1, <2>2, <3>1 DEF Act!Known, Act!Restarted
        <4> QED
          BY <1>6, <4>1
      <3>2. CASE own.handled # net.restart
        <4>1. PICK w : w = [i \in Ids |-> Act!NoWish]
          OBVIOUS
        <4>2. /\ k = [[own EXCEPT !.mark = 0, !.wish = w] EXCEPT !.handled = net.restart]
              /\ l = [[own' EXCEPT !.mark = 0, !.wish = w] EXCEPT !.handled = net.restart]
          BY <1>5, <1>6, <2>1, <2>2, <3>2, <4>1 DEF Act!Known, Act!Restarted, Act!ResetPool
        <4> QED
          BY <1>2, <1>5, <4>2
      <3> QED
        BY <3>1, <3>2
    <2>4. Act!CatchesUp(net.probe, k)
      BY <1>1, <2>1
    <2>5. Act!CatchesUp(net.probe, l)
      BY <2>3, <2>4 DEF Act!CatchesUp
    <2> QED
      BY <1>5, <2>2, <2>5
  <1>11. ASSUME NEW i \in Ids PROVE Act!ActorOk(i)'
    <2>1. PICK w, s, p : w = own.wish[i] /\ s = net.probe.states[i] /\ p = t[i]
      OBVIOUS
    <2>2. GoodWish(w, s) /\ GoodPed(p, w, s)
      BY <1>7, <2>1
    <2>3. /\ Act!StateOk(s)' /\ Act!WishOk(w)' /\ Act!PedOk(p)' /\ Act!WishFits(w, s)' /\ Act!PedFits(p, s)'
          /\ Act!PedFollows(p, w)'
      BY <1>5, <1>6, <2>2 DEF GoodWish, GoodPed, Act!StateOk, Act!WishOk, Act!PedOk, Act!WishFits, Act!PedFits,
                              Act!PedFollows
    <2>4. own'.wish[i] = w /\ own'.peds[i] = p /\ net'.probe.states[i] = s
      BY <1>5, <1>6, <2>1
    <2> QED
      BY <2>3, <2>4 DEF Act!ActorOk
  <1> QED
    BY <1>8, <1>9, <1>10, <1>11 DEF Act!ActorsInv

\* What an update may have made of a wish v that was known at mark m.
Newer(v, w, m) ==
    w.active =>
        /\ w.create > m \/ (v.active /\ w.create = v.create /\ w.made = v.made)
        /\ w.place > m \/ (v.active /\ w.place = v.place /\ w.at = v.at)
        /\ w.anim > m \/ (v.active /\ w.anim = v.anim /\ w.plays = v.plays)

UpTo(w, n) == w.create =< n /\ w.place =< n /\ w.anim =< n

\* The wishes a replay may come to.
LaterWishes(wish, m, n) ==
    {x \in [Ids -> Act!Wishes] : \A i \in Ids : Newer(wish[i], x[i], m) /\ UpTo(x[i], n)}

\* An event newer than the mark changes a wish's counters only upwards, and never beyond the event.
LEMMA HeardIsNewer ==
    ASSUME NEW v \in Act!Wishes, NEW w \in Act!Wishes, NEW m \in Nat, NEW n \in Nat, NEW e \in Act!Events,
           e.seq > m, e.seq =< n, Newer(v, w, m), UpTo(w, n), NEW h, h = Act!Heard(w, e)
    PROVE  Newer(v, h, m) /\ UpTo(h, n)
  <1>1. /\ e.seq \in Nat /\ e.action \in {"create", "destroy", "animate", "clear", "place"}
        /\ w.create \in Nat /\ w.place \in Nat /\ w.anim \in Nat
    BY DEF Act!Events, Act!Wishes
  <1>2. CASE e.action = "create"
    <2>1. h.active = TRUE /\ h.create = e.seq /\ h.place = e.seq /\ h.anim = e.seq
      BY <1>2 DEF Act!Heard
    <2> QED
      BY <1>1, <2>1 DEF Newer, UpTo
  <1>3. CASE e.action = "destroy"
    <2>1. h.active = FALSE /\ h.create = w.create /\ h.place = w.place /\ h.anim = w.anim
      BY <1>3 DEF Act!Heard, Act!Wishes
    <2> QED
      BY <1>1, <2>1 DEF Newer, UpTo
  <1>4. CASE e.action \in {"animate", "clear", "place"} /\ ~w.active
    <2>1. h = w
      BY <1>4 DEF Act!Heard
    <2> QED
      BY <2>1
  <1>5. CASE e.action = "animate" /\ w.active
    <2>1. h.active = w.active /\ h.create = w.create /\ h.place = w.place /\ h.anim = e.seq
             /\ h.made = w.made /\ h.at = w.at
      BY <1>5 DEF Act!Heard, Act!Wishes
    <2> QED
      BY <1>1, <2>1 DEF Newer, UpTo
  <1>6. CASE e.action = "clear" /\ w.active
    <2>1. h.active = w.active /\ h.create = w.create /\ h.place = w.place /\ h.anim = e.seq
             /\ h.made = w.made /\ h.at = w.at
      BY <1>6 DEF Act!Heard, Act!Wishes
    <2> QED
      BY <1>1, <2>1 DEF Newer, UpTo
  <1>7. CASE e.action = "place" /\ w.active
    <2>1. h.active = w.active /\ h.create = w.create /\ h.place = e.seq /\ h.anim = w.anim
             /\ h.made = w.made /\ h.plays = w.plays
      BY <1>7 DEF Act!Heard, Act!Wishes
    <2> QED
      BY <1>1, <2>1 DEF Newer, UpTo
  <1> QED
    BY <1>1, <1>2, <1>3, <1>4, <1>5, <1>6, <1>7

\* A replay comes to such wishes.
LEMMA ReplayedIsNewer ==
    ASSUME NEW ring, NEW seq, RingOk(ring, seq, RingSize, Act!Events), NEW m \in Nat, m =< seq,
           NEW wish \in [Ids -> Act!Wishes], \A i \in Ids : UpTo(wish[i], m)
    PROVE  Act!Replayed(ring, m, wish, Act!ApplyEvent) \in LaterWishes(wish, m, seq)
  <1>1. ring \in Seq(Act!Events) /\ seq \in Nat /\ Len(ring) \in Nat
        /\ \A k \in 1 .. Len(ring) : ring[k].seq = seq - Len(ring) + k
    BY DEF RingOk
  <1>2. PICK U : U = LaterWishes(wish, m, seq)
    OBVIOUS
  <1>3. PICK E : E = {e \in Act!Events : e.seq > m /\ e.seq =< seq}
    OBVIOUS
  <1>4. PICK l \in Nat : l = Len(ring)
    BY <1>1
  <1>5. News(ring, m, E)
    <2>1. ASSUME NEW k \in 1 .. l, ring[k].seq > m PROVE ring[k] \in E
      <3>1. ring[k] \in Act!Events /\ ring[k].seq = seq - l + k
        BY <1>1, <1>4
      <3> QED
        BY <1>1, <1>3, <2>1, <3>1
    <2> QED
      BY <1>4, <2>1 DEF News
  <1>6. wish \in U
    <2>1. ASSUME NEW i \in Ids PROVE Newer(wish[i], wish[i], m) /\ UpTo(wish[i], seq)
      <3>1. UpTo(wish[i], m) /\ wish[i] \in Act!Wishes
        OBVIOUS
      <3> QED
        BY <1>1, <3>1 DEF Newer, UpTo, Act!Wishes
    <2> QED
      BY <1>2, <2>1 DEF LaterWishes
  <1>7. ActorsStay(U, E)
    <2>1. ASSUME NEW x \in U, NEW e \in E PROVE Act!ApplyEvent(x, e) \in U
      <3>1. /\ x \in [Ids -> Act!Wishes] /\ \A i \in Ids : Newer(wish[i], x[i], m) /\ UpTo(x[i], seq)
            /\ e \in Act!Events /\ e.seq > m /\ e.seq =< seq
        BY <1>2, <1>3 DEF LaterWishes
      <3>2. PICK y : y = Act!ApplyEvent(x, e)
        OBVIOUS
      <3>3. /\ y \in [Ids -> Act!Wishes] /\ e.id \in Ids /\ y[e.id] = Act!Heard(x[e.id], e)
            /\ \A i \in Ids : i # e.id => y[i] = x[i]
        BY <3>1, <3>2, ApplyEventIs
      <3>4. ASSUME NEW i \in Ids PROVE Newer(wish[i], y[i], m) /\ UpTo(y[i], seq)
        <4>1. CASE i = e.id
          <5>1. wish[i] \in Act!Wishes /\ x[i] \in Act!Wishes /\ Newer(wish[i], x[i], m) /\ UpTo(x[i], seq)
            BY <3>1
          <5> QED
            BY <1>1, <3>1, <3>3, <4>1, <5>1, HeardIsNewer
        <4>2. CASE i # e.id
          BY <3>1, <3>3, <4>2
        <4> QED
          BY <4>1, <4>2
      <3> QED
        BY <1>2, <3>2, <3>3, <3>4 DEF LaterWishes
    <2> QED
      BY <2>1 DEF ActorsStay
  <1>8. PICK F : F = ActorsSteps(U, E)
    OBVIOUS
  <1>9. Act!Replayed(ring, m, wish, Act!ApplyEvent) = Value(ring, m, wish, F)
    BY <1>1, <1>5, <1>6, <1>7, <1>8, ActorsLoop
  <1>10. Closed(F, U, E)
    BY <1>7, <1>8 DEF Closed, ActorsStay, ActorsSteps
  <1>11. Value(ring, m, wish, F) \in U
    BY <1>1, <1>5, <1>6, <1>10, ValueStays
  <1> QED
    BY <1>2, <1>9, <1>11

\* The wishes an update may leave.
Brought(x, i) ==
    LET s == net.probe.states[i]
    IN  /\ Act!Right(x[i], s) /\ UpTo(x[i], net.probe.seq) /\ (x[i].active => x[i].place > 0)
        /\ own.handled = net.restart => \/ Newer(own.wish[i], x[i], own.mark)
                                        \/ x[i] = Act!Authoritative(s)

\* The wish of a resync is the server's actor, with his revision in every counter.
LEMMA AuthoritativeIs ==
    ASSUME NEW s \in Act!States, Act!StateOk(s), NEW w, w = Act!Authoritative(s), net.probe.seq \in Nat
    PROVE  /\ w \in Act!Wishes /\ Act!Right(w, s) /\ UpTo(w, net.probe.seq) /\ (w.active => w.place > 0)
           /\ w.active => w.create = s.revision /\ w.place = s.revision /\ w.anim = s.revision
  <1>1. CASE s.active
    <2>1. w = [active |-> TRUE, create |-> s.revision, place |-> s.revision, anim |-> s.revision,
               made |-> s.made, at |-> s.at, plays |-> s.plays]
      BY <1>1 DEF Act!Authoritative
    <2>2. s.active = TRUE /\ s.revision \in Nat /\ s.revision =< net.probe.seq /\ s.revision > 0
      BY <1>1 DEF Act!States, Act!StateOk
    <2>3. w \in Act!Wishes
      BY <2>1 DEF Act!States, Act!Wishes
    <2>4. /\ w.active = TRUE /\ w.create = s.revision /\ w.place = s.revision /\ w.anim = s.revision
          /\ w.made = s.made /\ w.at = s.at /\ w.plays = s.plays
      BY <2>1
    <2> QED
      BY <2>2, <2>3, <2>4 DEF Act!Right, UpTo
  <1>2. CASE ~s.active
    <2>1. w = Act!NoWish
      BY <1>2 DEF Act!Authoritative
    <2>2. w \in Act!Wishes /\ w.active = FALSE /\ w.create = 0 /\ w.place = 0 /\ w.anim = 0
      BY <2>1, NobodyThere
    <2>3. s.active = FALSE
      BY <1>2 DEF Act!States
    <2>4. Act!Right(w, s)
      BY <2>2, <2>3 DEF Act!Right
    <2>5. UpTo(w, net.probe.seq)
      BY <2>2 DEF UpTo
    <2> QED
      BY <2>2, <2>4, <2>5
  <1> QED
    BY <1>1, <1>2

\* What an update does, whether it replays or not.
LEMMA UpdateIs ==
    ASSUME Act!ActorsInv, Act!Update
    PROVE  \E x \in [Ids -> Act!Wishes] :
              /\ own' = [mark |-> net.probe.seq, wish |-> x, peds |-> own.peds, handled |-> net.restart]
              /\ \A i \in Ids : Brought(x, i)
  <1>1. /\ Act!Fields /\ Act!RingEnds /\ Act!Counts /\ Act!CatchesUp(net.probe, Act!Known)
        /\ \A i \in Ids : Act!ActorOk(i)
    BY DEF Act!ActorsInv
  <1>2. /\ net \in [probe : [seq : Nat, ring : Seq(Act!Events), states : [Ids -> Act!States]],
                    restart : Nat, rpcs : Nat]
        /\ own \in [mark : Nat, wish : [Ids -> Act!Wishes], peds : [Ids -> Act!Peds], handled : Nat]
    BY <1>1 DEF Act!Fields
  <1>3. PICK k : k = Act!Known
    OBVIOUS
  <1>4. /\ k.mark \in Nat /\ k.mark =< net.probe.seq /\ k.wish \in [Ids -> Act!Wishes]
        /\ k \in [mark : Nat, wish : [Ids -> Act!Wishes], peds : [Ids -> Act!Peds], handled : Nat]
        /\ k.handled = net.restart /\ k.peds = own.peds
        /\ own.handled = net.restart => k = own
        /\ own.handled # net.restart => k.mark = 0 /\ k.wish = [i \in Ids |-> Act!NoWish]
    BY <1>1, <1>3, KnownIs
  <1>5. PICK seq, ring : seq \in Nat /\ seq = net.probe.seq /\ ring = net.probe.ring
    BY <1>2
  <1>6. RingSize \in Nat \ {0} /\ RingOk(ring, seq, RingSize, Act!Events)
    BY <1>1, <1>5, ActorsRingOk, PoolsAssumption
  <1>7. CASE Act!Gap(ring, k.mark)
    <2>1. PICK x : x = [i \in Ids |-> Act!Authoritative(net.probe.states[i])]
      OBVIOUS
    <2>2. own' = [k EXCEPT !.mark = seq, !.wish = x]
      BY <1>3, <1>5, <1>7, <2>1 DEF Act!Update, Act!Resync
    <2>3. own' = [mark |-> seq, wish |-> x, peds |-> own.peds, handled |-> net.restart]
      BY <1>4, <2>2
    <2>4. ASSUME NEW i \in Ids PROVE x[i] \in Act!Wishes /\ Brought(x, i)
      <3>1. PICK s, w : s = net.probe.states[i] /\ w = x[i]
        OBVIOUS
      <3>2. s \in Act!States /\ Act!StateOk(s) /\ w = Act!Authoritative(s) /\ net.probe.seq \in Nat
        BY <1>1, <1>2, <2>1, <3>1 DEF Act!ActorOk
      <3>3. w \in Act!Wishes /\ Act!Right(w, s) /\ UpTo(w, net.probe.seq) /\ (w.active => w.place > 0)
        BY <3>2, AuthoritativeIs
      <3> QED
        BY <3>1, <3>2, <3>3 DEF Brought
    <2>5. x \in [Ids -> Act!Wishes]
      BY <2>1, <2>4
    <2> QED
      BY <1>5, <2>3, <2>4, <2>5
  <1>8. CASE ~Act!Gap(ring, k.mark)
    <2>1. PICK x : x = Act!Replayed(ring, k.mark, k.wish, Act!ApplyEvent)
      OBVIOUS
    <2>2. Act!MarkAfter(ring, k.mark) = seq
      BY <1>4, <1>5, <1>6, MarkAfterIs, ActorsRing
    <2>3. own' = [k EXCEPT !.wish = x, !.mark = seq]
      BY <1>3, <1>5, <1>8, <2>1, <2>2 DEF Act!Update, Act!Replay
    <2>4. own' = [mark |-> seq, wish |-> x, peds |-> own.peds, handled |-> net.restart]
      BY <1>4, <2>3
    <2>5. PICK m \in Nat, v \in [Ids -> Act!Wishes] : m = k.mark /\ v = k.wish
      BY <1>4
    <2>6. ASSUME NEW i \in Ids PROVE UpTo(v[i], m) /\ (v[i].active => v[i].place > 0)
      <3>1. CASE own.handled = net.restart
        <4>1. v[i] = own.wish[i] /\ m = own.mark
          BY <1>4, <2>5, <3>1
        <4>2. PICK w : w = own.wish[i]
          OBVIOUS
        <4>3. Act!WishOk(w)
          BY <1>1, <4>2 DEF Act!ActorOk
        <4> QED
          BY <4>1, <4>2, <4>3 DEF Act!WishOk, UpTo
      <3>2. CASE own.handled # net.restart
        <4>1. v[i] = Act!NoWish /\ m = 0
          BY <1>4, <2>5, <3>2
        <4> QED
          BY <4>1, NobodyThere DEF UpTo
      <3> QED
        BY <3>1, <3>2
    <2>7. x \in LaterWishes(v, m, seq)
      BY <1>4, <1>5, <1>6, <2>1, <2>5, <2>6, ReplayedIsNewer
    <2>8. x \in [Ids -> Act!Wishes] /\ \A i \in Ids : Newer(v[i], x[i], m) /\ UpTo(x[i], seq)
      BY <2>7 DEF LaterWishes
    <2>9. ASSUME NEW i \in Ids PROVE Act!Right(x[i], net.probe.states[i])
      BY <1>1, <1>3, <1>5, <1>8, <2>1 DEF Act!CatchesUp, Act!Caught
    <2>10. ASSUME NEW i \in Ids PROVE Brought(x, i)
      <3>1. x[i].active => x[i].place > 0
        <4>1. Newer(v[i], x[i], m) /\ (v[i].active => v[i].place > 0) /\ x[i] \in Act!Wishes /\ v[i] \in Act!Wishes
          BY <2>6, <2>8
        <4> QED
          BY <4>1 DEF Newer, Act!Wishes
      <3>2. own.handled = net.restart => Newer(own.wish[i], x[i], own.mark)
        BY <1>4, <2>5, <2>8
      <3> QED
        BY <1>5, <2>8, <2>9, <3>1, <3>2 DEF Brought
    <2> QED
      BY <1>5, <2>4, <2>8, <2>10
  <1> QED
    BY <1>7, <1>8

\* The peds an update leaves alone still follow.
LEMMA PedsFollowOn ==
    ASSUME NEW p \in Act!Peds, NEW w \in Act!Wishes, NEW v \in Act!Wishes, NEW s \in Act!States,
           own.handled = net.restart, own.mark \in Nat, net.probe.seq \in Nat,
           Act!PedOk(p), Act!PedFits(p, s), Act!PedFollows(p, v), Act!StateOk(s), Act!Right(w, s),
           Newer(v, w, own.mark) \/ w = Act!Authoritative(s)
    PROVE  Act!PedFollows(p, w)
  <1> SUFFICES ASSUME p.spawned, p.made[1] = own.handled, w.active
               PROVE  /\ p.create = w.create => p.made = w.made
                      /\ p.place = w.place => p.at = w.at
                      /\ p.anim = w.anim /\ w.plays = Act!Nothing => p.plays = Act!Nothing
    BY DEF Act!PedFollows
  <1>1. /\ p.create =< own.mark /\ p.place =< own.mark /\ p.anim =< own.mark
        /\ p.create \in Nat /\ p.place \in Nat /\ p.anim \in Nat
        /\ w.create \in Nat /\ w.place \in Nat /\ w.anim \in Nat
    BY DEF Act!PedOk, Act!Peds, Act!Wishes
  <1>2. CASE Newer(v, w, own.mark)
    BY <1>1, <1>2 DEF Newer, Act!PedFollows
  <1>3. CASE w = Act!Authoritative(s)
    <2>1. w.create = s.revision /\ w.place = s.revision /\ w.anim = s.revision
      BY <1>3, AuthoritativeIs
    <2>2. s.active /\ w.made = s.made /\ w.at = s.at /\ w.plays = s.plays
      BY DEF Act!Right
    <2> QED
      BY <2>1, <2>2 DEF Act!PedFits
  <1> QED
    BY <1>2, <1>3

\* Actors!Update preserves the invariant, whether it replays or resyncs.
LEMMA ActorsUpdate ==
    ASSUME Act!ActorsInv, Act!Update
    PROVE  Act!ActorsInv'
  <1>1. /\ Act!Fields /\ Act!RingEnds /\ Act!Counts /\ \A i \in Ids : Act!ActorOk(i)
    BY DEF Act!ActorsInv
  <1>2. /\ net \in [probe : [seq : Nat, ring : Seq(Act!Events), states : [Ids -> Act!States]],
                    restart : Nat, rpcs : Nat]
        /\ own \in [mark : Nat, wish : [Ids -> Act!Wishes], peds : [Ids -> Act!Peds], handled : Nat]
        /\ scene \in {"none", "spawned"}
    BY <1>1 DEF Act!Fields
  <1>3. PICK x \in [Ids -> Act!Wishes] :
              /\ own' = [mark |-> net.probe.seq, wish |-> x, peds |-> own.peds, handled |-> net.restart]
              /\ \A i \in Ids : Brought(x, i)
    BY UpdateIs
  <1>4. net' = net /\ pc' = "drawn" /\ scene' \in {"none", "spawned"}
    BY <1>2 DEF Act!Update
  <1>5. own'.mark = net.probe.seq /\ own'.wish = x /\ own'.peds = own.peds /\ own'.handled = net.restart
    BY <1>3
  <1>6. Act!Fields'
    <2>1. own' \in [mark : Nat, wish : [Ids -> Act!Wishes], peds : [Ids -> Act!Peds], handled : Nat]
      BY <1>2, <1>3
    <2> QED
      BY <1>1, <1>4, <2>1 DEF Act!Fields
  <1>7. Act!RingEnds'
    BY <1>1, <1>4 DEF Act!RingEnds
  <1>8. Act!Counts'
    <2>1. net.probe.seq =< MaxEvents /\ MaxEvents \in Nat
      BY <1>1, <1>2, PoolsAssumption DEF Act!Counts
    <2> QED
      BY <1>1, <1>2, <1>4, <1>5, <2>1 DEF Act!Counts
  <1>9. Act!CatchesUp(net.probe, Act!Known)'
    <2>1. PICK k : k = own'
      OBVIOUS
    <2>2. PICK p : p = net.probe
      OBVIOUS
    <2>3. RingOk(p.ring, p.seq, RingSize, Act!Events)
      BY <1>1, <2>2, ActorsRingOk
    <2>4. k.mark = p.seq /\ k.wish = x
      BY <1>5, <2>1, <2>2
    <2>5. Act!Caught(k.wish, p.states)
      BY <1>3, <2>2, <2>4 DEF Act!Caught, Brought
    <2>6. Act!CatchesUp(p, k)
      BY <2>3, <2>4, <2>5, NothingToCatch
    <2>7. Act!Known' = k
      BY <1>4, <1>5, <2>1 DEF Act!Known, Act!Restarted
    <2> QED
      BY <1>4, <2>2, <2>6, <2>7
  <1>10. ASSUME NEW i \in Ids PROVE Act!ActorOk(i)'
    <2>1. PICK v, w, s, p : v = own.wish[i] /\ w = x[i] /\ s = net.probe.states[i] /\ p = own.peds[i]
      OBVIOUS
    <2>2. v \in Act!Wishes /\ w \in Act!Wishes /\ s \in Act!States /\ p \in Act!Peds
      BY <1>2, <1>3, <2>1
    <2>3. Act!ActorOk(i) /\ Brought(x, i)
      BY <1>1, <1>3
    <2>4. Act!StateOk(s) /\ Act!PedOk(p) /\ Act!PedFits(p, s) /\ Act!PedFollows(p, v)
      BY <2>1, <2>3 DEF Act!ActorOk
    <2>5. /\ Act!Right(w, s) /\ UpTo(w, net.probe.seq) /\ (w.active => w.place > 0)
          /\ own.handled = net.restart => Newer(v, w, own.mark) \/ w = Act!Authoritative(s)
      BY <2>1, <2>3 DEF Brought
    <2>6. /\ own.mark \in Nat /\ own.handled \in Nat /\ net.restart \in Nat /\ net.probe.seq \in Nat
          /\ own.handled =< net.restart /\ (own.handled = net.restart => own.mark =< net.probe.seq)
      BY <1>1, <1>2 DEF Act!Counts
    <2>7. Act!StateOk(s)'
      BY <1>4, <2>4 DEF Act!StateOk
    <2>8. Act!WishOk(w)'
      <3>1. w.active => w.made[1] = net.restart
        BY <2>4, <2>5 DEF Act!Right, Act!StateOk
      <3> QED
        BY <1>5, <2>5, <3>1 DEF Act!WishOk, UpTo
    <2>9. Act!PedOk(p)'
      <3>1. p.create \in Nat /\ p.place \in Nat /\ p.anim \in Nat /\ p.made[1] \in Nat
        BY <2>2 DEF Act!Peds, Act!Tellings
      <3>2. p.create =< MaxEvents /\ p.made[1] =< net.restart /\ (~p.spawned => p = Act!NoPed)
        BY <2>4, <2>6, <3>1 DEF Act!PedOk
      <3>3. p.made[1] = net.restart => /\ p.create =< net.probe.seq /\ p.place =< net.probe.seq
                                       /\ p.anim =< net.probe.seq
        BY <2>4, <2>6, <3>1 DEF Act!PedOk
      <3> QED
        BY <1>5, <3>2, <3>3 DEF Act!PedOk
    <2>10. Act!WishFits(w, s)'
      BY <2>5 DEF Act!WishFits, Act!Right
    <2>11. CASE own.handled = net.restart
      <3>1. Act!PedFits(p, s)'
        BY <1>4, <1>5, <2>4, <2>11 DEF Act!PedFits
      <3>2. Act!PedFollows(p, w)
        BY <2>2, <2>4, <2>5, <2>6, <2>11, PedsFollowOn
      <3>3. Act!PedFollows(p, w)'
        BY <1>5, <2>11, <3>2 DEF Act!PedFollows
      <3> QED
        BY <1>4, <1>5, <2>1, <2>7, <2>8, <2>9, <2>10, <3>1, <3>3 DEF Act!ActorOk
    <2>12. CASE own.handled # net.restart
      <3>1. p.made[1] # net.restart
        <4>1. p.made[1] =< own.handled /\ p.made[1] \in Nat
          BY <2>2, <2>4 DEF Act!PedOk, Act!Peds, Act!Tellings
        <4> QED
          BY <2>6, <2>12, <4>1
      <3>2. Act!PedFits(p, s)' /\ Act!PedFollows(p, w)'
        BY <1>4, <1>5, <3>1 DEF Act!PedFits, Act!PedFollows
      <3> QED
        BY <1>4, <1>5, <2>1, <2>7, <2>8, <2>9, <2>10, <3>2 DEF Act!ActorOk
    <2> QED
      BY <2>11, <2>12
  <1> QED
    BY <1>6, <1>7, <1>8, <1>9, <1>10 DEF Act!ActorsInv

\* The invariant holds at first.
LEMMA ActorsInit ==
    ASSUME Act!Init
    PROVE  Act!ActorsInv
  <1>1. RingSize \in Nat \ {0} /\ MaxEvents \in Nat /\ MaxRestarts \in Nat
    BY PoolsAssumption
  <1>2. PICK t, x, z : /\ t = [i \in Ids |-> Act!NoActor] /\ x = [i \in Ids |-> Act!NoWish]
                       /\ z = [i \in Ids |-> Act!NoPed]
    OBVIOUS
  <1>3. PICK q : q = [seq |-> 0, ring |-> << >>, states |-> t]
    OBVIOUS
  <1>4. /\ net = [probe |-> q, restart |-> 0, rpcs |-> 0]
        /\ own = [mark |-> 0, wish |-> x, peds |-> z, handled |-> 0]
        /\ scene = "none" /\ pc = "pump"
    BY <1>2, <1>3 DEF Act!Init, Act!ResetActors
  <1>5. t \in [Ids -> Act!States] /\ x \in [Ids -> Act!Wishes] /\ z \in [Ids -> Act!Peds]
    BY <1>2, NobodyThere
  <1>6. RingOk(q.ring, q.seq, RingSize, Act!Events)
    BY <1>1, <1>3, RingEmpty
  <1>7. Act!Fields
    <2>1. q \in [seq : Nat, ring : Seq(Act!Events), states : [Ids -> Act!States]]
      BY <1>3, <1>5
    <2> QED
      BY <1>4, <1>5, <2>1 DEF Act!Fields
  <1>8. Act!RingEnds
    BY <1>4, <1>6 DEF Act!RingEnds, RingOk
  <1>9. Act!Counts
    BY <1>1, <1>3, <1>4 DEF Act!Counts
  <1>10. Act!CatchesUp(net.probe, Act!Known)
    <2>1. Act!Known = own
      BY <1>4 DEF Act!Known, Act!Restarted
    <2>2. PICK k : k = own
      OBVIOUS
    <2>3. k.mark = q.seq /\ k.wish = x /\ q.states = t
      BY <1>3, <1>4, <2>2
    <2>4. Act!Caught(x, t)
      BY <1>2, NobodyThere DEF Act!Caught, Act!Right
    <2>5. Act!CatchesUp(q, k)
      BY <1>5, <1>6, <2>3, <2>4, NothingToCatch
    <2> QED
      BY <1>4, <2>1, <2>2, <2>5
  <1>11. ASSUME NEW i \in Ids PROVE Act!ActorOk(i)
    <2>1. PICK s, w, p : s = Act!NoActor /\ w = Act!NoWish /\ p = Act!NoPed
      OBVIOUS
    <2>2. /\ s.active = FALSE /\ s.revision = 0 /\ w.active = FALSE /\ w.create = 0 /\ w.place = 0 /\ w.anim = 0
          /\ p.spawned = FALSE /\ p.create = 0 /\ p.place = 0 /\ p.anim = 0 /\ p.made[1] = 0
      BY <2>1, NobodyThere
    <2>3. net.probe.seq = 0 /\ own.mark = 0 /\ own.handled = 0
      BY <1>3, <1>4
    <2>4. Act!StateOk(s) /\ Act!WishOk(w) /\ Act!WishFits(w, s) /\ Act!PedFits(p, s) /\ Act!PedFollows(p, w)
      BY <2>2, <2>3 DEF Act!StateOk, Act!WishOk, Act!WishFits, Act!PedFits, Act!PedFollows
    <2>5. Act!PedOk(p)
      BY <1>1, <2>1, <2>2, <2>3 DEF Act!PedOk
    <2>6. net.probe.states[i] = s /\ own.wish[i] = w /\ own.peds[i] = p
      BY <1>2, <1>3, <1>4, <2>1
    <2> QED
      BY <2>4, <2>5, <2>6 DEF Act!ActorOk
  <1> QED
    BY <1>7, <1>8, <1>9, <1>10, <1>11 DEF Act!ActorsInv

\* Every step of Actors preserves the invariant.
LEMMA ActorsStep ==
    ASSUME Act!ActorsInv, Act!Next
    PROVE  Act!ActorsInv'
  <1>1. \/ Act!OnCreate
        \/ Act!OnDestroy
        \/ Act!OnAnimate
        \/ Act!OnClear
        \/ Act!OnPlace
        \/ Act!OnRestart
        \/ Act!Update
        \/ Act!Process
        \/ Act!NextScene
    BY DEF Act!Next
  <1> QED
    BY <1>1, ActorsCreate, ActorsDestroy, ActorsAnimate, ActorsClear, ActorsPlace, ActorsRestart, ActorsUpdate,
       ActorsProcess, ActorsScene

\* So does a step that changes nothing of Actors.
LEMMA ActorsUnchanged ==
    ASSUME Act!ActorsInv, UNCHANGED <<net, own, scene, pc>>
    PROVE  Act!ActorsInv'
  <1>1. net' = net /\ own' = own /\ pc' = pc /\ scene' = scene
    OBVIOUS
  <1>2. Act!Fields'
    BY <1>1 DEF Act!ActorsInv, Act!Fields
  <1>3. Act!RingEnds' /\ Act!Counts'
    BY <1>1 DEF Act!ActorsInv, Act!RingEnds, Act!Counts
  <1>4. Act!CatchesUp(net.probe, Act!Known)'
    <2>1. Act!Known' = Act!Known
      BY <1>1 DEF Act!Known, Act!Restarted, Act!ResetPool
    <2> QED
      BY <1>1, <2>1 DEF Act!ActorsInv
  <1>5. ASSUME NEW i \in Ids PROVE Act!ActorOk(i)'
    <2>1. Act!ActorOk(i)
      BY DEF Act!ActorsInv
    <2> QED
      BY <1>1, <2>1 DEF Act!ActorOk, Act!StateOk, Act!WishOk, Act!PedOk, Act!WishFits, Act!PedFits, Act!PedFollows
  <1> QED
    BY <1>2, <1>3, <1>4, <1>5 DEF Act!ActorsInv

\* The wishes and the peds hold together, and what the ring still holds brings the
\* wishes up to date: the invariant of the desired states and the graphics callback.
THEOREM ActorsInvariant == Spec => []ActorsInv
  <1>1. Init => ActorsInv
    BY ActorsInit DEF Init, ActorsInv
  <1>2. ActorsInv /\ [Next]_vars => ActorsInv'
    <2> SUFFICES ASSUME ActorsInv, [Next]_vars PROVE ActorsInv'
      OBVIOUS
    <2>1. CASE part = "actors" /\ part' = "actors" /\ Act!Next
      BY <2>1, ActorsStep DEF ActorsInv
    <2>2. CASE part' # "actors"
      BY <2>2 DEF ActorsInv
    <2>3. CASE UNCHANGED vars
      BY <2>3, ActorsUnchanged DEF ActorsInv, vars
    <2>4. part' = "actors" /\ Next => part = "actors" /\ Act!Next
      BY DEF Next
    <2> QED
      BY <2>1, <2>2, <2>3, <2>4
  <1> QED
    BY <1>1, <1>2, PTL DEF Spec

\* Actors!ActorsAgree: after an update the wishes are the server's actors, however many
\* events the ring has lost; and a ped with nothing left to do is its actor, in his place.
THEOREM ActorsAreAgreed == Spec => []ActorsAgree
  <1>1. ASSUME Act!ActorsInv, pc = "drawn", NEW i \in Ids
        PROVE  LET s == net.probe.states[i]  w == own.wish[i]  p == own.peds[i]
               IN  /\ w.active = s.active
                   /\ s.active => w.made = s.made /\ w.at = s.at /\ w.plays = s.plays
                   /\ Act!Settled(i) /\ p.made[1] = net.restart =>
                        p.made = s.made /\ p.at = s.at /\ (s.plays = Act!Nothing => p.plays = Act!Nothing)
    <2>0. PICK s, w, p : s = net.probe.states[i] /\ w = own.wish[i] /\ p = own.peds[i]
      OBVIOUS
    <2>1. /\ Act!Fields /\ Act!RingEnds /\ Act!Counts /\ Act!CatchesUp(net.probe, Act!Known)
          /\ Act!ActorOk(i)
      BY <1>1 DEF Act!ActorsInv
    <2>2. own.handled = net.restart /\ own.mark = net.probe.seq
      BY <1>1, <2>1 DEF Act!Counts
    <2>3. PICK k : k = own
      OBVIOUS
    <2>4. PICK q : q = net.probe
      OBVIOUS
    <2>5. Act!CatchesUp(q, k) /\ k.mark = q.seq
      BY <2>1, <2>2, <2>3, <2>4 DEF Act!Known, Act!Restarted
    <2>6. RingOk(q.ring, q.seq, RingSize, Act!Events) /\ k.wish \in [Ids -> Act!Wishes] /\ k.mark \in Nat
      BY <2>1, <2>3, <2>4, ActorsRingOk DEF Act!Fields
    <2>7. RingSize \in Nat \ {0}
      BY PoolsAssumption
    <2>8. Act!Caught(k.wish, q.states)
      BY <2>5, <2>6, <2>7, CaughtUp
    <2>9. Act!Right(w, s)
      BY <2>0, <2>3, <2>4, <2>8 DEF Act!Caught
    <2>10. Act!PedFollows(p, w)
      BY <2>0, <2>1 DEF Act!ActorOk
    <2>11. w.active = s.active /\ (s.active => w.made = s.made /\ w.at = s.at /\ w.plays = s.plays)
      BY <2>9 DEF Act!Right
    <2>12. ASSUME Act!Settled(i), p.made[1] = net.restart
           PROVE  p.made = s.made /\ p.at = s.at /\ (s.plays = Act!Nothing => p.plays = Act!Nothing)
      BY <2>0, <2>2, <2>10, <2>11, <2>12 DEF Act!PedFollows, Act!Settled
    <2> QED
      BY <2>0, <2>11, <2>12
  <1>2. Act!ActorsInv => Act!ActorsAgree
    BY <1>1 DEF Act!ActorsAgree
  <1>3. ActorsInv => ActorsAgree
    BY <1>2 DEF ActorsInv, ActorsAgree
  <1> QED
    BY <1>3, ActorsInvariant, PTL

-----------------------------------------------------------------------------
(* Counts of slots, and free handles. *)

\* Two sets of numbers that differ at most in i.
LEMMA CountChanges ==
    ASSUME NEW S, IsFiniteSet(S), NEW A, A \subseteq S, NEW B, B \subseteq S, NEW i,
           A \ {i} = B \ {i}
    PROVE  /\ Cardinality(A) \in Nat /\ Cardinality(B) \in Nat
           /\ Cardinality(B) = Cardinality(A) + (IF i \in B THEN 1 ELSE 0) - (IF i \in A THEN 1 ELSE 0)
  <1>1. IsFiniteSet(A) /\ IsFiniteSet(B)
    BY FS_Subset
  <1>2. Cardinality(A) \in Nat /\ Cardinality(B) \in Nat
    BY <1>1, FS_CardinalityType
  <1>3. /\ Cardinality(A \ {i}) = IF i \in A THEN Cardinality(A) - 1 ELSE Cardinality(A)
        /\ Cardinality(B \ {i}) = IF i \in B THEN Cardinality(B) - 1 ELSE Cardinality(B)
    BY <1>1, FS_RemoveElement
  <1>4. PICK m, n : m = Cardinality(A) /\ n = Cardinality(B)
    OBVIOUS
  <1>5. (IF i \in A THEN m - 1 ELSE m) = (IF i \in B THEN n - 1 ELSE n)
    BY <1>3, <1>4
  <1>6. n = m + (IF i \in B THEN 1 ELSE 0) - (IF i \in A THEN 1 ELSE 0)
    BY <1>2, <1>4, <1>5
  <1> QED
    BY <1>2, <1>4, <1>6

\* Where one of S uses no handle, one handle is not in use.
LEMMA OneIsFree ==
    ASSUME NEW S, IsFiniteSet(S), NEW H, IsFiniteSet(H), Cardinality(S) =< Cardinality(H),
           NEW A, A \subseteq S, A # S, NEW f
    PROVE  \E h \in H : \A i \in A : f[i] # h
  <1> DEFINE g == [i \in A |-> f[i]]
             T == {g[i] : i \in A}
  <1>1. g \in Surjection(A, T)
    BY DEF Surjection
  <1>2. IsFiniteSet(A) /\ Cardinality(A) =< Cardinality(S) /\ Cardinality(A) # Cardinality(S)
    BY FS_Subset
  <1>3. IsFiniteSet(T) /\ Cardinality(T) =< Cardinality(A)
    <2> HIDE DEF g, T
    <2> QED
      BY <1>1, <1>2, FS_Surjection
  <1>4. ~(H \subseteq T)
    <2> HIDE DEF T
    <2> SUFFICES ASSUME H \subseteq T PROVE FALSE
      OBVIOUS
    <2>1. Cardinality(H) =< Cardinality(T)
      BY <1>3, FS_Subset
    <2>2. /\ Cardinality(T) \in Nat /\ Cardinality(H) \in Nat /\ Cardinality(A) \in Nat
          /\ Cardinality(S) \in Nat
      BY <1>2, <1>3, FS_CardinalityType
    <2> QED
      BY <1>2, <1>3, <2>1, <2>2
  <1> QED
    BY <1>4

-----------------------------------------------------------------------------
(* The vehicles. *)

SaneTables == {o \in Veh!Tables : Veh!Sane(o)}

\* What d leaves of o, but for the slot id.
OthersKept(o, d, id) ==
    /\ \A j \in Ids : j # id => d.slots[j] = o.slots[j] /\ d.blips[j] = o.blips[j]
    /\ \A x \in Handles : o.cars[x].id # id /\ o.cars[x].id # 0 => d.cars[x] = o.cars[x]

CarsKept(o, d, id) ==
    \A x \in Handles : \/ d.cars[x] = o.cars[x] /\ o.cars[x].id # id
                       \/ Veh!CarOk(d, x)

One(slots, id, state) == IF slots[id].state = state THEN 1 ELSE 0

Counted(o, d, id) ==
    /\ d.active = o.active + One(d.slots, id, "active") - One(o.slots, id, "active")
    /\ d.pending = o.pending + One(d.slots, id, "pending") - One(o.slots, id, "pending")

\* Finitely many numbers; 0 is none of them.
LEMMA IdsAre ==
    /\ Ids \subseteq Nat /\ IsFiniteSet(Ids) /\ IsFiniteSet(Handles) /\ Cardinality(Ids) =< Cardinality(Handles)
    /\ 0 \notin Ids /\ 0 \notin Handles /\ 0 \notin Addresses
  BY PoolsAssumption

\* Vehicles!Number after one slot has changed.
LEMMA NumberIs ==
    ASSUME NEW r, NEW s, NEW id \in Ids, \A j \in Ids : j # id => s[j] = r[j], NEW state
    PROVE  Veh!Number(s, state) = Veh!Number(r, state) + One(s, id, state) - One(r, id, state)
  <1>1. PICK A, B : A = {j \in Ids : r[j].state = state} /\ B = {j \in Ids : s[j].state = state}
    OBVIOUS
  <1>2. A \subseteq Ids /\ B \subseteq Ids /\ A \ {id} = B \ {id}
    BY <1>1
  <1>3. Cardinality(B) = Cardinality(A) + (IF id \in B THEN 1 ELSE 0) - (IF id \in A THEN 1 ELSE 0)
    BY <1>2, IdsAre, CountChanges
  <1>4. Veh!Number(r, state) = Cardinality(A) /\ Veh!Number(s, state) = Cardinality(B)
    BY <1>1 DEF Veh!Number, Veh!Cardinality, Cardinality
  <1>5. (id \in A <=> r[id].state = state) /\ (id \in B <=> s[id].state = state)
    BY <1>1
  <1> QED
    BY <1>3, <1>4, <1>5 DEF One

\* A table that has changed at one slot is sane if that slot and its car are.
LEMMA SaneAfter ==
    ASSUME NEW o \in SaneTables, NEW d \in Veh!Tables, NEW id \in Ids,
           OthersKept(o, d, id), CarsKept(o, d, id), Counted(o, d, id), Veh!SlotOk(d, id)
    PROVE  d \in SaneTables
  <1>1. o \in Veh!Tables /\ Veh!Sane(o)
    BY DEF SaneTables
  <1>2. ASSUME NEW i \in Ids PROVE Veh!SlotOk(d, i)
    <2>1. CASE i = id
      BY <2>1
    <2>2. CASE i # id
      <3>1. d.slots[i] = o.slots[i] /\ d.blips[i] = o.blips[i]
        BY <2>2 DEF OthersKept
      <3>2. PICK s : s = o.slots[i]
        OBVIOUS
      <3>3. /\ o.blips[i] = IF s.marker THEN 1 ELSE 0
            /\ s.state # "active" => ~s.marker
            /\ s.state = "active" => /\ s.car \in Handles /\ o.cars[s.car].id = i
                                     /\ o.cars[s.car].place = s.place /\ o.cars[s.car].health = s.health
        BY <1>1, <3>2 DEF Veh!Sane, Veh!SlotOk
      <3>4. s.state = "active" => d.cars[s.car] = o.cars[s.car]
        BY <2>2, <3>3, IdsAre DEF OthersKept
      <3> QED
        BY <3>1, <3>2, <3>3, <3>4 DEF Veh!SlotOk
    <2> QED
      BY <2>1, <2>2
  <1>3. ASSUME NEW x \in Handles PROVE Veh!CarOk(d, x)
    <2>1. CASE d.cars[x] = o.cars[x] /\ o.cars[x].id # id
      <3>1. Veh!CarOk(o, x)
        BY <1>1 DEF Veh!Sane
      <3>2. PICK c, i : c = o.cars[x] /\ i = o.cars[x].id
        OBVIOUS
      <3>3. i \in Ids \cup {0}
        BY <1>1, <3>2 DEF Veh!Tables, Veh!Cars
      <3>4. CASE i = 0
        BY <2>1, <3>1, <3>2, <3>4 DEF Veh!CarOk
      <3>5. CASE i # 0
        <4>1. d.slots[i] = o.slots[i]
          BY <2>1, <3>2, <3>3, <3>5 DEF OthersKept
        <4>2. o.slots[i].state = "active" /\ o.slots[i].car = x
          BY <3>1, <3>2, <3>5 DEF Veh!CarOk
        <4> QED
          BY <2>1, <3>2, <3>5, <4>1, <4>2 DEF Veh!CarOk
      <3> QED
        BY <3>4, <3>5
    <2> QED
      BY <2>1 DEF CarsKept
  <1>4. d.active = Veh!Number(d.slots, "active") /\ d.pending = Veh!Number(d.slots, "pending")
    <2>1. PICK r, s : r = o.slots /\ s = d.slots
      OBVIOUS
    <2>2. \A j \in Ids : j # id => s[j] = r[j]
      BY <2>1 DEF OthersKept
    <2>3. /\ Veh!Number(s, "active") = Veh!Number(r, "active") + One(s, id, "active") - One(r, id, "active")
          /\ Veh!Number(s, "pending") = Veh!Number(r, "pending") + One(s, id, "pending") - One(r, id, "pending")
      BY <2>2, NumberIs
    <2>4. o.active = Veh!Number(r, "active") /\ o.pending = Veh!Number(r, "pending")
      BY <1>1, <2>1 DEF Veh!Sane
    <2> QED
      BY <2>1, <2>3, <2>4 DEF Counted
  <1> QED
    BY <1>2, <1>3, <1>4 DEF Veh!Sane, SaneTables

\* The table o with another slot id, other cars and other counts.
WithSlot(o, id, s, b, c, a, n, seat) ==
    [mark |-> o.mark, active |-> a, pending |-> n, slots |-> [o.slots EXCEPT ![id] = s], seat |-> seat,
     cars |-> c, blips |-> [o.blips EXCEPT ![id] = b]]

\* One slot and one car more or less.
LEMMA SlotSet ==
    ASSUME NEW o \in Veh!Tables, NEW id \in Ids, NEW s, NEW b, NEW c, NEW a, NEW n, NEW seat, NEW d,
           d = WithSlot(o, id, s, b, c, a, n, seat)
    PROVE  /\ d.slots[id] = s /\ d.blips[id] = b /\ d.cars = c
           /\ \A j \in Ids : j # id => d.slots[j] = o.slots[j] /\ d.blips[j] = o.blips[j]
  <1>1. o.slots \in [Ids -> Veh!Slots] /\ o.blips \in [Ids -> Veh!Blips]
    BY DEF Veh!Tables
  <1>2. PICK t, k : t = [o.slots EXCEPT ![id] = s] /\ k = [o.blips EXCEPT ![id] = b]
    OBVIOUS
  <1>3. t[id] = s /\ k[id] = b
    BY <1>1, <1>2
  <1>4. \A j \in Ids : j # id => t[j] = o.slots[j] /\ k[j] = o.blips[j]
    BY <1>1, <1>2
  <1>5. d.slots = t /\ d.blips = k /\ d.cars = c
    BY <1>2 DEF WithSlot
  <1> QED
    BY <1>3, <1>4, <1>5

\* The type of what it makes.
LEMMA SlotSetType ==
    ASSUME NEW o \in Veh!Tables, NEW id \in Ids, NEW s \in Veh!Slots, NEW b \in Veh!Blips,
           NEW c \in [Handles -> Veh!Cars], NEW a \in Nat, NEW n \in Nat, NEW seat \in Ids \cup {0}
    PROVE  WithSlot(o, id, s, b, c, a, n, seat) \in Veh!Tables
  <1>1. o.slots \in [Ids -> Veh!Slots] /\ o.blips \in [Ids -> Veh!Blips] /\ o.mark \in Nat
    BY DEF Veh!Tables
  <1>2. PICK t, k : t = [o.slots EXCEPT ![id] = s] /\ k = [o.blips EXCEPT ![id] = b]
    OBVIOUS
  <1>3. t \in [Ids -> Veh!Slots] /\ k \in [Ids -> Veh!Blips]
    BY <1>1, <1>2
  <1> QED
    BY <1>1, <1>2, <1>3 DEF Veh!Tables, WithSlot

\* The fields of a table.
LEMMA TableIs ==
    ASSUME NEW o \in Veh!Tables
    PROVE  /\ o = [mark |-> o.mark, active |-> o.active, pending |-> o.pending, slots |-> o.slots, seat |-> o.seat,
                   cars |-> o.cars, blips |-> o.blips]
           /\ o.mark \in Nat /\ o.active \in Nat /\ o.pending \in Nat /\ o.slots \in [Ids -> Veh!Slots]
           /\ o.seat \in Ids \cup {0} /\ o.cars \in [Handles -> Veh!Cars] /\ o.blips \in [Ids -> Veh!Blips]
  BY DEF Veh!Tables

\* The counts say how many there are: one that is there has been counted.
LEMMA CountedOnes ==
    ASSUME NEW o \in SaneTables, NEW id \in Ids
    PROVE  /\ o.slots[id].state = "active" => o.active - 1 \in Nat
           /\ o.slots[id].state = "pending" => o.pending - 1 \in Nat
  <1>1. o \in Veh!Tables /\ Veh!Sane(o)
    BY DEF SaneTables
  <1>2. ASSUME NEW state, o.slots[id].state = state PROVE Veh!Number(o.slots, state) - 1 \in Nat
    <2>1. PICK A : A = {j \in Ids : o.slots[j].state = state}
      OBVIOUS
    <2>2. id \in A /\ A \subseteq Ids
      BY <1>2, <2>1
    <2>3. IsFiniteSet(A)
      BY <2>2, IdsAre, FS_Subset
    <2>4. Cardinality(A) \in Nat /\ Cardinality(A \ {id}) = Cardinality(A) - 1
      BY <2>2, <2>3, FS_CardinalityType, FS_RemoveElement
    <2>5. Cardinality(A \ {id}) \in Nat
      <3>1. IsFiniteSet(A \ {id})
        BY <2>3, FS_RemoveElement
      <3> QED
        BY <3>1, FS_CardinalityType
    <2> QED
      BY <2>1, <2>4, <2>5 DEF Veh!Number, Veh!Cardinality, Cardinality
  <1> QED
    BY <1>1, <1>2 DEF Veh!Sane

\* Whose car is whose.
LEMMA CarsAre ==
    ASSUME NEW o \in SaneTables, NEW id \in Ids
    PROVE  /\ o.slots[id].state = "active" =>
                 /\ o.slots[id].car \in Handles /\ o.cars[o.slots[id].car].id = id
                 /\ o.cars[o.slots[id].car].place = o.slots[id].place
                 /\ o.cars[o.slots[id].car].health = o.slots[id].health
                 /\ \A x \in Handles : x # o.slots[id].car => o.cars[x].id # id
           /\ o.slots[id].state # "active" => \A x \in Handles : o.cars[x].id # id
  <1>1. o \in Veh!Tables /\ Veh!Sane(o)
    BY DEF SaneTables
  <1>2. PICK s : s = o.slots[id]
    OBVIOUS
  <1>3. s.state = "active" => /\ s.car \in Handles /\ o.cars[s.car].id = id
                              /\ o.cars[s.car].place = s.place /\ o.cars[s.car].health = s.health
    BY <1>1, <1>2 DEF Veh!Sane, Veh!SlotOk
  <1>4. ASSUME NEW x \in Handles, o.cars[x].id = id PROVE s.state = "active" /\ s.car = x
    <2>1. Veh!CarOk(o, x) /\ id # 0
      BY <1>1, IdsAre DEF Veh!Sane
    <2> QED
      BY <1>2, <1>4, <2>1 DEF Veh!CarOk
  <1> QED
    BY <1>2, <1>3, <1>4

\* Whose marker is whose.
LEMMA MarkersAre ==
    ASSUME NEW o \in SaneTables, NEW id \in Ids, NEW s, s = o.slots[id]
    PROVE  /\ s.marker \in BOOLEAN
           /\ s.state # "active" => ~s.marker
           /\ o.blips[id] = IF s.marker THEN 1 ELSE 0
  <1>1. o \in Veh!Tables /\ Veh!Sane(o)
    BY DEF SaneTables
  <1>2. Veh!SlotOk(o, id)
    BY <1>1 DEF Veh!Sane
  <1>3. s \in Veh!Slots
    BY <1>1, TableIs
  <1>4. s.marker \in BOOLEAN
    BY <1>3 DEF Veh!Slots
  <1>5. /\ s.state # "active" => ~s.marker
        /\ o.blips[id] = IF s.marker THEN 1 ELSE 0
    BY <1>2 DEF Veh!SlotOk
  <1> QED
    BY <1>4, <1>5

\* The car of the slot id in a table where it is s: its own, and no other.
CarsFit(o, c, id, s) ==
    /\ s.state = "active" => s.car \in Handles /\ o.cars[s.car].id \in {0, id}
    /\ \A x \in Handles :
         c[x] = IF s.state = "active" /\ x = s.car THEN [id |-> id, place |-> s.place, health |-> s.health]
                ELSE IF o.cars[x].id = id THEN Veh!NoCar ELSE o.cars[x]

\* The counts and the marker of a table where the slot id is s.
SlotFits(o, id, s, b, a, n) ==
    /\ b = IF s.marker THEN 1 ELSE 0
    /\ s.state # "active" => ~s.marker
    /\ a = o.active + (IF s.state = "active" THEN 1 ELSE 0) - One(o.slots, id, "active")
    /\ n = o.pending + (IF s.state = "pending" THEN 1 ELSE 0) - One(o.slots, id, "pending")

\* A slot that keeps its car as it is.
SameCar(r, s) ==
    /\ s.state = "active" <=> r.state = "active"
    /\ s.state = "active" => s.car = r.car /\ s.place = r.place /\ s.health = r.health

\* No slot but id has changed.
OthersStay(o, d, id) == \A j \in Ids : j # id => d.slots[j] = o.slots[j]

\* The slot id of a sane table becomes s, its car and its marker with it.
LEMMA SlotStep ==
    ASSUME NEW o \in SaneTables, NEW id \in Ids, NEW s \in Veh!Slots, NEW b \in Veh!Blips,
           NEW c \in [Handles -> Veh!Cars], NEW a \in Nat, NEW n \in Nat, NEW seat \in Ids \cup {0}, NEW d,
           d = WithSlot(o, id, s, b, c, a, n, seat),
           CarsFit(o, c, id, s), SlotFits(o, id, s, b, a, n)
    PROVE  d \in SaneTables /\ d.slots[id] = s /\ OthersStay(o, d, id)
  <1>1. o \in Veh!Tables /\ Veh!Sane(o)
    BY DEF SaneTables
  <1>2. /\ d \in Veh!Tables
        /\ d.slots[id] = s /\ d.blips[id] = b /\ d.cars = c
        /\ \A j \in Ids : j # id => d.slots[j] = o.slots[j] /\ d.blips[j] = o.blips[j]
    <2>1. d \in Veh!Tables
      BY <1>1, SlotSetType
    <2>2. d.slots[id] = s /\ d.blips[id] = b /\ d.cars = c
      BY <1>1, SlotSet
    <2>3. \A j \in Ids : j # id => d.slots[j] = o.slots[j] /\ d.blips[j] = o.blips[j]
      BY <1>1, SlotSet
    <2> QED
      BY <2>1, <2>2, <2>3
  <1>3. id # 0
    BY IdsAre
  <1>4. OthersKept(o, d, id)
    <2>1. ASSUME NEW x \in Handles, o.cars[x].id # id, o.cars[x].id # 0 PROVE c[x] = o.cars[x]
      BY <2>1 DEF CarsFit
    <2> QED
      BY <1>2, <2>1 DEF OthersKept
  <1>5. CarsKept(o, d, id)
    <2>1. ASSUME NEW x \in Handles PROVE \/ c[x] = o.cars[x] /\ o.cars[x].id # id
                                         \/ Veh!CarOk(d, x)
      <3>1. CASE s.state = "active" /\ x = s.car
        <4>1. c[x] = [id |-> id, place |-> s.place, health |-> s.health]
          BY <3>1 DEF CarsFit
        <4>2. d.cars[x].id = id
          BY <1>2, <4>1
        <4> QED
          BY <1>2, <1>3, <3>1, <4>2 DEF Veh!CarOk
      <3>2. CASE ~(s.state = "active" /\ x = s.car) /\ o.cars[x].id = id
        <4>1. c[x] = Veh!NoCar
          BY <3>2 DEF CarsFit
        <4>2. d.cars[x] = Veh!NoCar /\ d.cars[x].id = 0
          BY <1>2, <4>1 DEF Veh!NoCar
        <4> QED
          BY <4>2 DEF Veh!CarOk
      <3>3. CASE ~(s.state = "active" /\ x = s.car) /\ o.cars[x].id # id
        BY <3>3 DEF CarsFit
      <3> QED
        BY <3>1, <3>2, <3>3
    <2> QED
      BY <1>2, <2>1 DEF CarsKept
  <1>6. Counted(o, d, id)
    <2>1. PICK r : r = d.slots[id]
      OBVIOUS
    <2>2. r = s
      BY <1>2, <2>1
    <2>3. d.active = a /\ d.pending = n
      BY DEF WithSlot
    <2>4. /\ One(d.slots, id, "active") = IF s.state = "active" THEN 1 ELSE 0
          /\ One(d.slots, id, "pending") = IF s.state = "pending" THEN 1 ELSE 0
      BY <2>1, <2>2 DEF One
    <2> QED
      BY <2>3, <2>4 DEF Counted, SlotFits
  <1>7. Veh!SlotOk(d, id)
    <2>1. s.state = "active" =>
            s.car \in Handles /\ c[s.car] = [id |-> id, place |-> s.place, health |-> s.health]
      BY DEF CarsFit
    <2>2. s.state = "active" =>
            c[s.car].id = id /\ c[s.car].place = s.place /\ c[s.car].health = s.health
      BY <2>1
    <2> QED
      BY <1>2, <2>1, <2>2 DEF Veh!SlotOk, SlotFits
  <1> QED
    <2>1. d \in SaneTables
      BY <1>2, <1>4, <1>5, <1>6, <1>7, SaneAfter
    <2> QED
      BY <1>2, <2>1 DEF OthersStay

\* The cars where a slot keeps its own.
LEMMA CarsFitSame ==
    ASSUME NEW o \in SaneTables, NEW id \in Ids, NEW s \in Veh!Slots,
           SameCar(o.slots[id], s)
    PROVE  CarsFit(o, o.cars, id, s)
  <1>1. o.cars \in [Handles -> Veh!Cars]
    BY TableIs DEF SaneTables
  <1>2. CASE s.state # "active"
    <2>1. \A x \in Handles : o.cars[x].id # id
      BY <1>2, CarsAre DEF SameCar
    <2> QED
      BY <1>2, <2>1 DEF CarsFit
  <1>3. CASE s.state = "active"
    <2>1. /\ s.car \in Handles /\ o.cars[s.car].id = id
          /\ o.cars[s.car].place = s.place /\ o.cars[s.car].health = s.health
          /\ \A x \in Handles : x # s.car => o.cars[x].id # id
      <3>1. PICK r : r = o.slots[id]
        OBVIOUS
      <3>2. r.state = "active" /\ s.car = r.car /\ s.place = r.place /\ s.health = r.health
        BY <1>3, <3>1 DEF SameCar
      <3>3. /\ r.car \in Handles /\ o.cars[r.car].id = id
            /\ o.cars[r.car].place = r.place /\ o.cars[r.car].health = r.health
            /\ \A x \in Handles : x # r.car => o.cars[x].id # id
        BY <3>1, <3>2, CarsAre
      <3> QED
        BY <3>2, <3>3
    <2>2. o.cars[s.car] \in Veh!Cars
      BY <1>1, <2>1
    <2>3. o.cars[s.car] = [id |-> id, place |-> s.place, health |-> s.health]
      BY <2>1, <2>2 DEF Veh!Cars
    <2> QED
      BY <1>3, <2>1, <2>3 DEF CarsFit
  <1> QED
    BY <1>2, <1>3

\* Vehicles!DisableMarker.
LEMMA MarkerOff ==
    ASSUME NEW o \in SaneTables, NEW id \in Ids, NEW d, d = Veh!DisableMarker(o, id)
    PROVE  /\ d \in SaneTables /\ OthersStay(o, d, id)
           /\ d.slots[id] = [o.slots[id] EXCEPT !.marker = FALSE]
  <1>1. o \in Veh!Tables
    BY DEF SaneTables
  <1>2. o.slots[id] \in Veh!Slots
    BY <1>1, TableIs
  <1>3. CASE ~o.slots[id].marker
    <2>1. d = o
      BY <1>3 DEF Veh!DisableMarker
    <2>2. o.slots[id] = [o.slots[id] EXCEPT !.marker = FALSE]
      BY <1>2, <1>3 DEF Veh!Slots
    <2> QED
      BY <2>1, <2>2 DEF OthersStay
  <1>4. CASE o.slots[id].marker
    <2>1. PICK r : r = o.slots[id]
      OBVIOUS
    <2>2. PICK s : s = [r EXCEPT !.marker = FALSE]
      OBVIOUS
    <2>3. s \in Veh!Slots /\ s.marker = FALSE /\ s.state = r.state /\ s.car = r.car /\ s.place = r.place
          /\ s.health = r.health
      BY <1>2, <2>1, <2>2 DEF Veh!Slots
    <2>4. o.blips[id] = 1 /\ r.state = "active"
      BY <1>4, <2>1, MarkersAre
    <2>5. d = [o EXCEPT !.blips = [o.blips EXCEPT ![id] = 0], !.slots = [o.slots EXCEPT ![id] = s]]
      <3>1. o.blips[id] - 1 = 0
        BY <2>4
      <3>2. d = [o EXCEPT !.blips[id] = o.blips[id] - 1, !.slots[id] = s]
        BY <1>4, <2>1, <2>2 DEF Veh!DisableMarker
      <3> QED
        BY <3>1, <3>2
    <2>6. d = WithSlot(o, id, s, 0, o.cars, o.active, o.pending, o.seat)
      BY <1>1, <2>5, TableIs DEF WithSlot
    <2>7. /\ o.active \in Nat /\ o.pending \in Nat /\ o.seat \in Ids \cup {0} /\ o.cars \in [Handles -> Veh!Cars]
      BY <1>1, TableIs
    <2>8. CarsFit(o, o.cars, id, s)
      BY <2>1, <2>3, CarsFitSame DEF SameCar
    <2>9. SlotFits(o, id, s, 0, o.active, o.pending)
      BY <2>1, <2>3, <2>4, <2>7 DEF SlotFits, One
    <2>10. 0 \in Veh!Blips
      BY DEF Veh!Blips
    <2>11. d \in SaneTables /\ d.slots[id] = s /\ OthersStay(o, d, id)
      BY <2>3, <2>6, <2>7, <2>8, <2>9, <2>10, SlotStep
    <2> QED
      BY <2>1, <2>2, <2>11
  <1> QED
    BY <1>3, <1>4

\* A slot that changes and keeps its marker as it is.
LEMMA BlipStays ==
    ASSUME NEW o \in Veh!Tables, NEW id \in Ids, NEW b, b = o.blips[id]
    PROVE  [o.blips EXCEPT ![id] = b] = o.blips
  BY TableIs

\* Vehicles!NoSlot is a slot, without marker and car.
LEMMA NoSlotIs ==
    Veh!NoSlot \in Veh!Slots /\ Veh!NoSlot.state = "none" /\ ~Veh!NoSlot.marker
  BY DEF Veh!NoSlot, Veh!Slots

\* Vehicles!NoCar is a car of nobody.
LEMMA NoCarIs == Veh!NoCar \in Veh!Cars /\ Veh!NoCar.id = 0
  BY DEF Veh!NoCar, Veh!Cars

\* Vehicles!WithoutCar, of a car that has no marker any more.
LEMMA CarIsGone ==
    ASSUME NEW o \in SaneTables, NEW id \in Ids, o.slots[id].state = "active", ~o.slots[id].marker
    PROVE  LET d == Veh!WithoutCar(o, id)
           IN  d \in SaneTables /\ OthersStay(o, d, id) /\ d.slots[id] = Veh!NoSlot
  <1>1. o \in Veh!Tables
    BY DEF SaneTables
  <1>2. PICK d : d = Veh!WithoutCar(o, id)
    OBVIOUS
  <1>3. PICK r, x, c, seat : /\ r = o.slots[id] /\ x = r.car /\ c = [o.cars EXCEPT ![x] = Veh!NoCar]
                             /\ seat = IF o.seat = id THEN 0 ELSE o.seat
    OBVIOUS
  <1>4. o.cars \in [Handles -> Veh!Cars] /\ o.active \in Nat /\ o.pending \in Nat /\ seat \in Ids \cup {0}
    BY <1>1, <1>3, TableIs
  <1>5. o.blips[id] = 0
    BY <1>3, MarkersAre
  <1>6. d = WithSlot(o, id, Veh!NoSlot, 0, c, o.active - 1, o.pending, seat)
    <2>1. d = [o EXCEPT !.cars = c, !.slots = [o.slots EXCEPT ![id] = Veh!NoSlot], !.active = o.active - 1,
                        !.seat = seat]
      BY <1>2, <1>3 DEF Veh!WithoutCar
    <2>2. [o.blips EXCEPT ![id] = 0] = o.blips
      BY <1>1, <1>5, BlipStays
    <2>3. PICK t : t = [o.slots EXCEPT ![id] = Veh!NoSlot]
      OBVIOUS
    <2>4. d = [o EXCEPT !.cars = c, !.slots = t, !.active = o.active - 1, !.seat = seat]
      BY <2>1, <2>3
    <2>5. d = [mark |-> o.mark, active |-> o.active - 1, pending |-> o.pending, slots |-> t, seat |-> seat,
               cars |-> c, blips |-> o.blips]
      BY <1>1, <2>4 DEF Veh!Tables
    <2> QED
      BY <2>2, <2>3, <2>5 DEF WithSlot
  <1>7. r.state = "active"
    BY <1>3
  <1>8. x \in Handles /\ \A y \in Handles : y # x => o.cars[y].id # id
    BY <1>3, <1>7, CarsAre
  <1>9. o.cars[x].id = id
    BY <1>3, <1>7, CarsAre
  <1>10. c \in [Handles -> Veh!Cars]
    BY <1>3, <1>4, <1>8, NoCarIs
  <1>11. CarsFit(o, c, id, Veh!NoSlot)
    BY <1>3, <1>4, <1>8, <1>9, NoSlotIs DEF CarsFit
  <1>12. o.active - 1 \in Nat
    BY CountedOnes
  <1>13. PICK a : a = o.active - 1
    OBVIOUS
  <1>14. SlotFits(o, id, Veh!NoSlot, 0, a, o.pending)
    <2>1. PICK m, k : m = o.active /\ k = o.pending
      OBVIOUS
    <2>2. m \in Nat /\ k \in Nat /\ a = m - 1
      BY <1>4, <1>13, <2>1
    <2>3. One(o.slots, id, "active") = 1 /\ One(o.slots, id, "pending") = 0
      BY <1>3, <1>7 DEF One
    <2>4. Veh!NoSlot.state = "none"
      BY NoSlotIs
    <2> QED
      BY <2>1, <2>2, <2>3, <2>4, NoSlotIs DEF SlotFits
  <1>15. d = WithSlot(o, id, Veh!NoSlot, 0, c, a, o.pending, seat) /\ a \in Nat /\ 0 \in Veh!Blips
    BY <1>6, <1>12, <1>13 DEF Veh!Blips
  <1>16. d \in SaneTables /\ d.slots[id] = Veh!NoSlot /\ OthersStay(o, d, id)
    BY <1>4, <1>10, <1>11, <1>14, <1>15, NoSlotIs, SlotStep
  <1> QED
    BY <1>2, <1>16

\* Vehicles!DestroySlot.
LEMMA SlotIsGone ==
    ASSUME NEW o \in SaneTables, NEW id \in Ids
    PROVE  LET d == Veh!DestroySlot(o, id)
           IN  d \in SaneTables /\ OthersStay(o, d, id) /\ d.slots[id].state = "none"
  <1>1. o \in Veh!Tables
    BY DEF SaneTables
  <1>2. PICK d, r : d = Veh!DestroySlot(o, id) /\ r = o.slots[id]
    OBVIOUS
  <1>3. CASE r.state = "pending"
    <2>1. PICK n : n = o.pending - 1
      OBVIOUS
    <2>2. n \in Nat
      BY <1>2, <1>3, <2>1, CountedOnes
    <2>3. ~r.marker /\ o.blips[id] = 0
      BY <1>2, <1>3, MarkersAre
    <2>4. o.cars \in [Handles -> Veh!Cars] /\ o.active \in Nat /\ o.pending \in Nat /\ o.seat \in Ids \cup {0}
      BY <1>1, TableIs
    <2>5. d = WithSlot(o, id, Veh!NoSlot, 0, o.cars, o.active, n, o.seat)
      <3>1. d = [o EXCEPT !.slots = [o.slots EXCEPT ![id] = Veh!NoSlot], !.pending = n]
        BY <1>2, <1>3, <2>1 DEF Veh!DestroySlot
      <3>2. [o.blips EXCEPT ![id] = 0] = o.blips
        BY <1>1, <2>3, BlipStays
      <3>3. PICK t : t = [o.slots EXCEPT ![id] = Veh!NoSlot]
        OBVIOUS
      <3>4. d = [o EXCEPT !.slots = t, !.pending = n]
        BY <3>1, <3>3
      <3>5. d = [mark |-> o.mark, active |-> o.active, pending |-> n, slots |-> t, seat |-> o.seat,
                 cars |-> o.cars, blips |-> o.blips]
        BY <1>1, <3>4 DEF Veh!Tables
      <3> QED
        BY <3>2, <3>3, <3>5 DEF WithSlot
    <2>6. CarsFit(o, o.cars, id, Veh!NoSlot)
      BY <1>2, <1>3, NoSlotIs, CarsFitSame DEF SameCar
    <2>7. SlotFits(o, id, Veh!NoSlot, 0, o.active, n)
      <3>1. PICK m, k : m = o.active /\ k = o.pending
        OBVIOUS
      <3>2. m \in Nat /\ k \in Nat /\ n = k - 1
        BY <2>1, <2>4, <3>1
      <3>3. One(o.slots, id, "active") = 0 /\ One(o.slots, id, "pending") = 1
        BY <1>2, <1>3 DEF One
      <3> QED
        BY <3>1, <3>2, <3>3, NoSlotIs DEF SlotFits
    <2>8. 0 \in Veh!Blips
      BY DEF Veh!Blips
    <2>9. d \in SaneTables /\ d.slots[id] = Veh!NoSlot /\ OthersStay(o, d, id)
      BY <2>2, <2>4, <2>5, <2>6, <2>7, <2>8, NoSlotIs, SlotStep
    <2> QED
      BY <1>2, <2>9, NoSlotIs
  <1>4. CASE r.state = "active"
    <2>1. PICK p : p = Veh!DisableMarker(o, id)
      OBVIOUS
    <2>2. p \in SaneTables /\ OthersStay(o, p, id) /\ p.slots[id] = [r EXCEPT !.marker = FALSE]
      BY <1>2, <2>1, MarkerOff
    <2>3. r \in Veh!Slots
      BY <1>1, <1>2, TableIs
    <2>4. p.slots[id].state = "active" /\ ~p.slots[id].marker
      BY <1>4, <2>2, <2>3 DEF Veh!Slots
    <2>5. d = Veh!WithoutCar(p, id)
      BY <1>2, <1>4, <2>1 DEF Veh!DestroySlot
    <2>6. d \in SaneTables /\ OthersStay(p, d, id) /\ d.slots[id] = Veh!NoSlot
      BY <2>2, <2>4, <2>5, CarIsGone
    <2> QED
      BY <1>2, <2>2, <2>6, NoSlotIs DEF OthersStay
  <1>5. CASE r.state # "pending" /\ r.state # "active"
    <2>1. d = o
      BY <1>2, <1>5 DEF Veh!DestroySlot
    <2>2. r \in Veh!Slots
      BY <1>1, <1>2, TableIs
    <2> QED
      BY <1>2, <1>5, <2>1, <2>2 DEF OthersStay, Veh!Slots
  <1> QED
    BY <1>3, <1>4, <1>5

\* A new slot in the place of none.
NewSlot(e) ==
    [state |-> "pending", seq |-> e.seq, place |-> e.seq, health |-> e.seq,
     objective |-> FALSE, marker |-> FALSE, car |-> 0]

\* Vehicles!CreateSlot, of a model that is not refused.
LEMMA SlotIsNew ==
    ASSUME NEW o \in SaneTables, NEW e \in Veh!Events, e.model # "refused"
    PROVE  LET d == Veh!CreateSlot(o, e)
           IN  d \in SaneTables /\ OthersStay(o, d, e.id) /\ d.slots[e.id] = NewSlot(e)
  <1>1. PICK id, s : id = e.id /\ s = NewSlot(e)
    OBVIOUS
  <1>2. id \in Ids /\ e.seq \in Nat
    BY <1>1 DEF Veh!Events
  <1>3. s \in Veh!Slots /\ s.state = "pending" /\ s.marker = FALSE
    BY <1>1, <1>2 DEF NewSlot, Veh!Slots
  <1>4. PICK p : p = Veh!DestroySlot(o, id)
    OBVIOUS
  <1>5. p \in SaneTables /\ OthersStay(o, p, id) /\ p.slots[id].state = "none"
    BY <1>2, <1>4, SlotIsGone
  <1>6. p \in Veh!Tables
    BY <1>5 DEF SaneTables
  <1>7. PICK r, n : r = p.slots[id] /\ n = p.pending + 1
    OBVIOUS
  <1>8. r.state = "none"
    BY <1>5, <1>7
  <1>9. ~r.marker /\ p.blips[id] = 0
    BY <1>2, <1>5, <1>7, <1>8, MarkersAre
  <1>10. p.cars \in [Handles -> Veh!Cars] /\ p.active \in Nat /\ p.pending \in Nat /\ p.seat \in Ids \cup {0}
    BY <1>6, TableIs
  <1>11. PICK d : d = Veh!CreateSlot(o, e)
    OBVIOUS
  <1>12. d = WithSlot(p, id, s, 0, p.cars, p.active, n, p.seat)
    <2>1. d = [p EXCEPT !.pending = n, !.slots = [p.slots EXCEPT ![id] = s]]
      BY <1>1, <1>4, <1>7, <1>11 DEF Veh!CreateSlot, NewSlot
    <2>2. [p.blips EXCEPT ![id] = 0] = p.blips
      BY <1>2, <1>6, <1>9, BlipStays
    <2>3. PICK t : t = [p.slots EXCEPT ![id] = s]
      OBVIOUS
    <2>4. d = [p EXCEPT !.pending = n, !.slots = t]
      BY <2>1, <2>3
    <2>5. d = [mark |-> p.mark, active |-> p.active, pending |-> n, slots |-> t, seat |-> p.seat,
               cars |-> p.cars, blips |-> p.blips]
      BY <1>6, <2>4 DEF Veh!Tables
    <2> QED
      BY <2>2, <2>3, <2>5 DEF WithSlot
  <1>13. CarsFit(p, p.cars, id, s)
    BY <1>2, <1>3, <1>5, <1>7, <1>8, CarsFitSame DEF SameCar
  <1>14. SlotFits(p, id, s, 0, p.active, n)
    <2>1. PICK m, k : m = p.active /\ k = p.pending
      OBVIOUS
    <2>2. m \in Nat /\ k \in Nat /\ n = k + 1
      BY <1>7, <1>10, <2>1
    <2>3. One(p.slots, id, "active") = 0 /\ One(p.slots, id, "pending") = 0
      BY <1>7, <1>8 DEF One
    <2> QED
      BY <1>3, <2>1, <2>2, <2>3 DEF SlotFits
  <1>15. 0 \in Veh!Blips /\ n \in Nat
    BY <1>7, <1>10 DEF Veh!Blips
  <1>16. d \in SaneTables /\ d.slots[id] = s /\ OthersStay(p, d, id)
    BY <1>2, <1>3, <1>5, <1>10, <1>12, <1>13, <1>14, <1>15, SlotStep
  <1> QED
    BY <1>1, <1>5, <1>11, <1>16 DEF OthersStay

\* GTA has a handle for a car whose slot waits: it is the CHOICE of ApplyPending.
LEMMA HandleIsFree ==
    ASSUME NEW o \in SaneTables, NEW id \in Ids, o.slots[id].state = "pending"
    PROVE  \E h \in Handles : o.cars[h] = Veh!NoCar
  <1>1. o \in Veh!Tables /\ Veh!Sane(o)
    BY DEF SaneTables
  <1>2. PICK A, f : A = {i \in Ids : o.slots[i].state = "active"} /\ f = [i \in Ids |-> o.slots[i].car]
    OBVIOUS
  <1>3. A \subseteq Ids /\ A # Ids
    BY <1>2
  <1>4. PICK h \in Handles : \A i \in A : f[i] # h
    <2>1. IsFiniteSet(Ids) /\ IsFiniteSet(Handles) /\ Cardinality(Ids) =< Cardinality(Handles)
      BY IdsAre
    <2>2. \E h \in Handles : \A i \in A : f[i] # h
      BY <1>3, <2>1, OneIsFree
    <2> QED
      BY <2>2
  <1>5. PICK j : j = o.cars[h].id
    OBVIOUS
  <1>6. Veh!CarOk(o, h)
    BY <1>1 DEF Veh!Sane
  <1>7. CASE j = 0
    BY <1>5, <1>6, <1>7 DEF Veh!CarOk
  <1>8. CASE j # 0
    <2>1. j \in Ids
      BY <1>1, <1>5, <1>8, TableIs DEF Veh!Cars
    <2>2. o.slots[j].state = "active" /\ o.slots[j].car = h
      BY <1>5, <1>6, <1>8 DEF Veh!CarOk
    <2>3. j \in A /\ f[j] = h
      BY <1>2, <2>1, <2>2
    <2> QED
      BY <1>4, <2>3
  <1> QED
    BY <1>7, <1>8

\* What ApplyPending makes of a slot that waits: the same vehicle, with a car.
Shown(r, s) ==
    /\ s.state = "active" /\ s.seq = r.seq /\ s.place = r.place /\ s.health = r.health
    /\ s.objective = r.objective /\ s.marker = r.marker

\* Vehicles!ApplyPending, of a slot that waits.
LEMMA CarIsMade ==
    ASSUME NEW o \in SaneTables, NEW id \in Ids, o.slots[id].state = "pending"
    PROVE  LET d == Veh!ApplyPending(o, id)
           IN  d \in SaneTables /\ OthersStay(o, d, id) /\ Shown(o.slots[id], d.slots[id])
  <1>1. o \in Veh!Tables
    BY DEF SaneTables
  <1>2. PICK x : x = CHOOSE h \in Handles : o.cars[h] = Veh!NoCar
    OBVIOUS
  <1>3. x \in Handles /\ o.cars[x] = Veh!NoCar
    BY <1>2, HandleIsFree
  <1>4. PICK d, r : d = Veh!ApplyPending(o, id) /\ r = o.slots[id]
    OBVIOUS
  <1>5. r \in Veh!Slots /\ r.state = "pending"
    BY <1>1, <1>4, TableIs
  <1>18. PICK k : k = [id |-> id, place |-> r.place, health |-> r.health]
    OBVIOUS
  <1>19. PICK c : c = [o.cars EXCEPT ![x] = k]
    OBVIOUS
  <1>6. PICK s, a, n : /\ s = [r EXCEPT !.state = "active", !.car = x]
                       /\ a = o.active + 1 /\ n = o.pending - 1
    OBVIOUS
  <1>7. s \in Veh!Slots /\ s.car = x
    BY <1>3, <1>5, <1>6 DEF Veh!Slots
  <1>8. Shown(r, s)
    BY <1>5, <1>6 DEF Veh!Slots, Shown
  <1>9. ~r.marker /\ o.blips[id] = 0
    BY <1>4, <1>5, MarkersAre
  <1>10. o.cars \in [Handles -> Veh!Cars] /\ o.active \in Nat /\ o.pending \in Nat /\ o.seat \in Ids \cup {0}
    BY <1>1, TableIs
  <1>11. a \in Nat /\ n \in Nat
    BY <1>4, <1>5, <1>6, <1>10, CountedOnes
  <1>12. c \in [Handles -> Veh!Cars]
    <2>1. r.place \in Nat /\ r.health \in Nat
      BY <1>5 DEF Veh!Slots
    <2>2. k \in Veh!Cars
      BY <1>18, <2>1 DEF Veh!Cars
    <2> QED
      BY <1>3, <1>10, <1>19, <2>2
  <1>13. d = WithSlot(o, id, s, 0, c, a, n, o.seat)
    <2>1. d = [o EXCEPT !.cars = c, !.slots = [o.slots EXCEPT ![id] = s], !.active = a, !.pending = n]
      BY <1>2, <1>4, <1>5, <1>6, <1>18, <1>19 DEF Veh!ApplyPending
    <2>2. [o.blips EXCEPT ![id] = 0] = o.blips
      BY <1>1, <1>9, BlipStays
    <2>3. PICK t : t = [o.slots EXCEPT ![id] = s]
      OBVIOUS
    <2>4. d = [o EXCEPT !.cars = c, !.slots = t, !.active = a, !.pending = n]
      BY <2>1, <2>3
    <2>5. d = [mark |-> o.mark, active |-> a, pending |-> n, slots |-> t, seat |-> o.seat,
               cars |-> c, blips |-> o.blips]
      BY <1>1, <2>4 DEF Veh!Tables
    <2> QED
      BY <2>2, <2>3, <2>5 DEF WithSlot
  <1>14. CarsFit(o, c, id, s)
    <2>1. o.cars[x].id = 0
      BY <1>3, NoCarIs
    <2>2. \A y \in Handles : o.cars[y].id # id
      BY <1>4, <1>5, CarsAre
    <2>3. c[x] = [id |-> id, place |-> s.place, health |-> s.health]
      BY <1>3, <1>8, <1>10, <1>18, <1>19 DEF Shown
    <2>4. \A y \in Handles : y # x => c[y] = o.cars[y]
      <3>1. o.cars \in [Handles -> Veh!Cars] /\ x \in Handles
        BY <1>3, <1>10
      <3> QED
        BY <3>1, <1>19
    <2>5. \A y \in Handles :
            c[y] = IF s.state = "active" /\ y = s.car THEN [id |-> id, place |-> s.place, health |-> s.health]
                   ELSE IF o.cars[y].id = id THEN Veh!NoCar ELSE o.cars[y]
      <3>1. s.state = "active"
        BY <1>8 DEF Shown
      <3> QED
        BY <1>7, <2>2, <2>3, <2>4, <3>1
    <2>6. s.car \in Handles /\ o.cars[s.car].id = 0
      BY <1>3, <1>7, <2>1
    <2> QED
      BY <2>5, <2>6 DEF CarsFit
  <1>15. SlotFits(o, id, s, 0, a, n)
    <2>1. PICK m, l : m = o.active /\ l = o.pending
      OBVIOUS
    <2>2. m \in Nat /\ l \in Nat /\ a = m + 1 /\ n = l - 1
      BY <1>6, <1>10, <2>1
    <2>3. One(o.slots, id, "active") = 0 /\ One(o.slots, id, "pending") = 1
      BY <1>4, <1>5 DEF One
    <2>4. s.state = "active" /\ ~s.marker
      BY <1>8, <1>9 DEF Shown
    <2> QED
      BY <2>1, <2>2, <2>3, <2>4 DEF SlotFits
  <1>16. 0 \in Veh!Blips
    BY DEF Veh!Blips
  <1>17. d \in SaneTables /\ d.slots[id] = s /\ OthersStay(o, d, id)
    BY <1>7, <1>10, <1>11, <1>12, <1>13, <1>14, <1>15, <1>16, SlotStep
  <1> QED
    BY <1>4, <1>8, <1>17

\* A slot whose vehicle is told something keeps its car and its marker.
SameVehicle(r, s) == s.state = r.state /\ s.car = r.car /\ s.marker = r.marker /\ s.seq = r.seq

\* The cars where the vehicle of the slot s, if it has one, is told its place and its health.
CarIsTold(o, c, id, s) ==
    IF s.state = "active"
    THEN c = [o.cars EXCEPT ![s.car] = [id |-> id, place |-> s.place, health |-> s.health]]
    ELSE c = o.cars

WithTold(o, id, s, c) == [o EXCEPT !.slots = [o.slots EXCEPT ![id] = s], !.cars = c]

\* A slot, and its car if there is one, are told a place and a health.
LEMMA SlotIsTold ==
    ASSUME NEW o \in SaneTables, NEW id \in Ids, NEW s \in Veh!Slots, SameVehicle(o.slots[id], s), NEW c, CarIsTold(o, c, id, s),
           NEW d, d = WithTold(o, id, s, c)
    PROVE  d \in SaneTables /\ OthersStay(o, d, id) /\ d.slots[id] = s
  <1>1. o \in Veh!Tables
    BY DEF SaneTables
  <1>2. PICK r, b : r = o.slots[id] /\ b = o.blips[id]
    OBVIOUS
  <1>3. s.state = r.state /\ s.car = r.car /\ s.marker = r.marker
    BY <1>2 DEF SameVehicle
  <1>4. /\ r.marker \in BOOLEAN
        /\ r.state # "active" => ~r.marker
        /\ b = IF r.marker THEN 1 ELSE 0
    BY <1>2, MarkersAre
  <1>5. o.cars \in [Handles -> Veh!Cars] /\ o.active \in Nat /\ o.pending \in Nat /\ o.seat \in Ids \cup {0}
    BY <1>1, TableIs
  <1>6. b \in Veh!Blips
    BY <1>4 DEF Veh!Blips
  <1>7. d = WithSlot(o, id, s, b, c, o.active, o.pending, o.seat)
    <2>1. PICK t : t = [o.slots EXCEPT ![id] = s]
      OBVIOUS
    <2>2. d = [o EXCEPT !.slots = t, !.cars = c]
      BY <2>1 DEF WithTold
    <2>3. d = [mark |-> o.mark, active |-> o.active, pending |-> o.pending, slots |-> t, seat |-> o.seat,
               cars |-> c, blips |-> o.blips]
      BY <1>1, <2>2 DEF Veh!Tables
    <2>4. [o.blips EXCEPT ![id] = b] = o.blips
      BY <1>1, <1>2, BlipStays
    <2> QED
      BY <2>1, <2>3, <2>4 DEF WithSlot
  <1>8. SlotFits(o, id, s, b, o.active, o.pending)
    <2>1. PICK m, k : m = o.active /\ k = o.pending
      OBVIOUS
    <2>2. m \in Nat /\ k \in Nat
      BY <1>5, <2>1
    <2>3. /\ One(o.slots, id, "active") = IF s.state = "active" THEN 1 ELSE 0
          /\ One(o.slots, id, "pending") = IF s.state = "pending" THEN 1 ELSE 0
      BY <1>2, <1>3 DEF One
    <2>4. b = IF s.marker THEN 1 ELSE 0
      BY <1>3, <1>4
    <2>5. s.state # "active" => ~s.marker
      BY <1>3, <1>4
    <2> QED
      BY <2>1, <2>2, <2>3, <2>4, <2>5 DEF SlotFits
  <1>9. c \in [Handles -> Veh!Cars] /\ CarsFit(o, c, id, s)
    <2>1. CASE s.state # "active"
      <3>1. CarsFit(o, o.cars, id, s)
        BY <1>2, <1>3, <2>1, CarsFitSame DEF SameCar
      <3> QED
        BY <1>5, <2>1, <3>1 DEF CarIsTold
    <2>2. CASE s.state = "active"
      <3>1. PICK x, k : x = s.car /\ k = [id |-> id, place |-> s.place, health |-> s.health]
        OBVIOUS
      <3>2. r.state = "active" /\ x = r.car
        BY <1>3, <2>2, <3>1
      <3>3. x \in Handles /\ o.cars[x].id = id
        BY <1>2, <3>2, CarsAre
      <3>4. \A y \in Handles : y # x => o.cars[y].id # id
        BY <1>2, <3>2, CarsAre
      <3>5. k \in Veh!Cars
        <4>1. s.place \in Nat /\ s.health \in Nat
          BY DEF Veh!Slots
        <4> QED
          BY <3>1, <4>1 DEF Veh!Cars
      <3>6. c = [o.cars EXCEPT ![x] = k]
        BY <2>2, <3>1 DEF CarIsTold
      <3>7. c \in [Handles -> Veh!Cars] /\ c[x] = k /\ \A y \in Handles : y # x => c[y] = o.cars[y]
        BY <1>5, <3>3, <3>5, <3>6
      <3>8. \A y \in Handles :
              c[y] = IF s.state = "active" /\ y = s.car THEN [id |-> id, place |-> s.place, health |-> s.health]
                     ELSE IF o.cars[y].id = id THEN Veh!NoCar ELSE o.cars[y]
        BY <2>2, <3>1, <3>4, <3>7
      <3> QED
        BY <3>1, <3>3, <3>7, <3>8 DEF CarsFit
    <2> QED
      BY <2>1, <2>2
  <1> QED
    BY <1>5, <1>6, <1>7, <1>8, <1>9, SlotStep

\* Vehicles!SetHealth.
LEMMA HealthIsTold ==
    ASSUME NEW o \in SaneTables, NEW e \in Veh!Events
    PROVE  LET d == Veh!SetHealth(o, e)
               r == o.slots[e.id]
               s == d.slots[e.id]
           IN  /\ d \in SaneTables /\ OthersStay(o, d, e.id)
               /\ s.state = r.state /\ s.seq = r.seq /\ s.place = r.place
               /\ r.state # "none" => s.health = e.seq
  <1>1. o \in Veh!Tables
    BY DEF SaneTables
  <1>2. PICK id, q : id = e.id /\ q = e.seq
    OBVIOUS
  <1>3. id \in Ids /\ q \in Nat
    BY <1>2 DEF Veh!Events
  <1>4. PICK d, r : d = Veh!SetHealth(o, e) /\ r = o.slots[id]
    OBVIOUS
  <1>5. r \in Veh!Slots
    BY <1>1, <1>3, <1>4, TableIs
  <1>6. CASE r.state = "none"
    <2>1. d = o
      BY <1>2, <1>4, <1>6 DEF Veh!SetHealth
    <2> QED
      BY <1>2, <1>4, <1>6, <2>1 DEF OthersStay
  <1>7. CASE r.state # "none"
    <2>1. PICK s : s = [r EXCEPT !.health = q]
      OBVIOUS
    <2>2. s \in Veh!Slots
      BY <1>3, <1>5, <2>1 DEF Veh!Slots
    <2>3. s.state = r.state /\ s.seq = r.seq /\ s.place = r.place /\ s.health = q
      BY <1>5, <2>1 DEF Veh!Slots
    <2>4. s.car = r.car /\ s.marker = r.marker
      BY <1>5, <2>1 DEF Veh!Slots
    <2>5. SameVehicle(o.slots[id], s)
      BY <1>4, <2>3, <2>4 DEF SameVehicle
    <2>6. d \in SaneTables /\ OthersStay(o, d, id) /\ d.slots[id] = s
      <3>1. CASE r.state = "pending"
        <4>1. d = [o EXCEPT !.slots = [o.slots EXCEPT ![id] = s]]
          BY <1>2, <1>4, <2>1, <3>1 DEF Veh!SetHealth
        <4>2. PICK t : t = [o.slots EXCEPT ![id] = s]
          OBVIOUS
        <4>3. d = [o EXCEPT !.slots = t, !.cars = o.cars]
          BY <1>1, <4>1, <4>2 DEF Veh!Tables
        <4> QED
          <5>1. CarIsTold(o, o.cars, id, s)
            BY <2>3, <3>1 DEF CarIsTold
          <5>2. d = WithTold(o, id, s, o.cars)
            BY <4>2, <4>3 DEF WithTold
          <5> QED
            BY <1>3, <2>2, <2>5, <5>1, <5>2, SlotIsTold
      <3>2. CASE r.state = "active"
        <4>1. PICK x, h : x = r.car /\ h = [o.cars[x] EXCEPT !.health = q]
          OBVIOUS
        <4>2. d = [o EXCEPT !.slots = [o.slots EXCEPT ![id] = s], !.cars = [o.cars EXCEPT ![x] = h]]
          BY <1>2, <1>4, <2>1, <3>2, <4>1 DEF Veh!SetHealth
        <4>3. x \in Handles /\ o.cars[x].id = id /\ o.cars[x].place = r.place
          BY <1>3, <1>4, <3>2, <4>1, CarsAre
        <4>4. o.cars[x] \in Veh!Cars
          BY <1>1, <4>3, TableIs
        <4>5. h = [id |-> id, place |-> s.place, health |-> s.health]
          BY <2>3, <4>1, <4>3, <4>4 DEF Veh!Cars
        <4>6. PICK c : c = [o.cars EXCEPT ![x] = h]
          OBVIOUS
        <4>7. c = [o.cars EXCEPT ![s.car] = [id |-> id, place |-> s.place, health |-> s.health]]
          BY <2>4, <4>1, <4>5, <4>6
        <4>8. d = [o EXCEPT !.slots = [o.slots EXCEPT ![id] = s], !.cars = c]
          BY <4>2, <4>6
        <4> QED
          <5>1. CarIsTold(o, c, id, s)
            BY <2>3, <3>2, <4>7 DEF CarIsTold
          <5>2. d = WithTold(o, id, s, c)
            BY <4>8 DEF WithTold
          <5> QED
            BY <1>3, <2>2, <2>5, <5>1, <5>2, SlotIsTold
      <3> QED
        BY <1>5, <1>7, <3>1, <3>2 DEF Veh!Slots
    <2> QED
      BY <1>2, <1>4, <2>3, <2>6
  <1> QED
    BY <1>6, <1>7

\* Vehicles!PutLocalPlayer, which changes no slot.
LEMMA SeatIsTaken ==
    ASSUME NEW o \in SaneTables, NEW e \in Veh!Events
    PROVE  LET d == Veh!PutLocalPlayer(o, e) IN d \in SaneTables /\ d.slots = o.slots
  <1>1. o \in Veh!Tables /\ Veh!Sane(o)
    BY DEF SaneTables
  <1>2. PICK d, id : d = Veh!PutLocalPlayer(o, e) /\ id = e.id
    OBVIOUS
  <1>3. id \in Ids
    BY <1>2 DEF Veh!Events
  <1>4. CASE o.slots[id].state # "active"
    <2>1. d = o
      BY <1>2, <1>4 DEF Veh!PutLocalPlayer
    <2> QED
      BY <1>2, <2>1
  <1>5. CASE o.slots[id].state = "active"
    <2>1. d = [o EXCEPT !.seat = id]
      BY <1>2, <1>5 DEF Veh!PutLocalPlayer
    <2>2. d = [mark |-> o.mark, active |-> o.active, pending |-> o.pending, slots |-> o.slots, seat |-> id,
               cars |-> o.cars, blips |-> o.blips]
      BY <1>1, <2>1 DEF Veh!Tables
    <2>3. d \in Veh!Tables
      BY <1>1, <1>3, <2>2, TableIs DEF Veh!Tables
    <2>4. Veh!Sane(d)
      BY <1>1, <2>2 DEF Veh!Sane, Veh!SlotOk, Veh!CarOk
    <2> QED
      BY <1>2, <2>2, <2>3, <2>4 DEF SaneTables
  <1> QED
    BY <1>4, <1>5

\* The same vehicle, waiting or not.
AsGood(r, s) ==
    /\ s.state = "none" <=> r.state = "none"
    /\ s.seq = r.seq /\ s.place = r.place /\ s.health = r.health

\* Vehicles!ApplyPending, of any slot.
LEMMA PendingIsApplied ==
    ASSUME NEW o \in SaneTables, NEW id \in Ids
    PROVE  LET d == Veh!ApplyPending(o, id)
           IN  d \in SaneTables /\ OthersStay(o, d, id) /\ AsGood(o.slots[id], d.slots[id])
               /\ d.slots[id].state \in {"none", "active"}
  <1>1. PICK d, r : d = Veh!ApplyPending(o, id) /\ r = o.slots[id]
    OBVIOUS
  <1>2. r \in Veh!Slots
    BY <1>1, TableIs DEF SaneTables
  <1>3. CASE r.state = "pending"
    <2>1. d \in SaneTables /\ OthersStay(o, d, id) /\ Shown(r, d.slots[id])
      BY <1>1, <1>3, CarIsMade
    <2>2. AsGood(r, d.slots[id]) /\ d.slots[id].state = "active"
      BY <1>3, <2>1 DEF Shown, AsGood
    <2> QED
      BY <1>1, <2>1, <2>2
  <1>4. CASE r.state # "pending"
    <2>1. d = o
      BY <1>1, <1>4 DEF Veh!ApplyPending
    <2>2. r.state \in {"none", "active"}
      BY <1>2, <1>4 DEF Veh!Slots
    <2> QED
      BY <1>1, <2>1, <2>2 DEF OthersStay, AsGood
  <1> QED
    BY <1>3, <1>4

\* Vehicles!ApplyScriptEvent.
LEMMA ScriptIsTold ==
    ASSUME NEW o \in SaneTables, NEW e \in Veh!Events
    PROVE  LET d == Veh!ApplyScriptEvent(o, e)
               r == o.slots[e.id]
               s == d.slots[e.id]
           IN  /\ d \in SaneTables /\ OthersStay(o, d, e.id)
               /\ s.state = "none" <=> r.state = "none"
               /\ s.seq = r.seq /\ s.health = r.health
               /\ r.state # "none" => s.place = e.seq
  <1>1. PICK id, q, j : id = e.id /\ q = e.seq /\ j = e.objective
    OBVIOUS
  <1>2. id \in Ids /\ q \in Nat /\ j \in BOOLEAN
    BY <1>1 DEF Veh!Events
  <1>3. PICK d, r, p : d = Veh!ApplyScriptEvent(o, e) /\ r = o.slots[id] /\ p = Veh!ApplyPending(o, id)
    OBVIOUS
  <1>4. PICK u : u = p.slots[id]
    OBVIOUS
  <1>5. p \in SaneTables /\ OthersStay(o, p, id) /\ AsGood(r, u) /\ u.state \in {"none", "active"}
    BY <1>2, <1>3, <1>4, PendingIsApplied
  <1>6. p \in Veh!Tables
    BY <1>5 DEF SaneTables
  <1>7. u \in Veh!Slots
    BY <1>2, <1>4, <1>6, TableIs
  <1>8. CASE u.state # "active"
    <2>1. d = p
      BY <1>1, <1>3, <1>4, <1>8 DEF Veh!ApplyScriptEvent, Veh!EnsureActive
    <2>2. u.state = "none"
      BY <1>5, <1>8
    <2> QED
      BY <1>1, <1>3, <1>4, <1>5, <2>1, <2>2 DEF AsGood
  <1>9. CASE u.state = "active"
    <2>1. PICK s : s = [u EXCEPT !.place = q, !.objective = j]
      OBVIOUS
    <2>2. s \in Veh!Slots
      BY <1>2, <1>7, <2>1 DEF Veh!Slots
    <2>3. s.state = u.state /\ s.seq = u.seq /\ s.place = q /\ s.health = u.health
      BY <1>7, <2>1 DEF Veh!Slots
    <2>4. s.car = u.car /\ s.marker = u.marker
      BY <1>7, <2>1 DEF Veh!Slots
    <2>5. SameVehicle(p.slots[id], s)
      BY <1>4, <2>3, <2>4 DEF SameVehicle
    <2>6. PICK x, h : x = u.car /\ h = [p.cars[x] EXCEPT !.place = q]
      OBVIOUS
    <2>7. PICK c : c = [p.cars EXCEPT ![x] = h]
      OBVIOUS
    <2>8. d = WithTold(p, id, s, c)
      <3>1. p.slots[e.id].state = "active" /\ p = Veh!EnsureActive(o, e.id)
        BY <1>1, <1>3, <1>4, <1>9 DEF Veh!EnsureActive
      <3>2. d = [p EXCEPT !.slots[e.id] = [p.slots[e.id] EXCEPT !.place = e.seq, !.objective = e.objective],
                          !.cars[p.slots[e.id].car].place = e.seq]
        BY <1>3, <3>1 DEF Veh!ApplyScriptEvent
      <3>3. d = [p EXCEPT !.slots = [p.slots EXCEPT ![id] = s], !.cars = [p.cars EXCEPT ![x] = h]]
        BY <1>1, <1>4, <2>1, <2>6, <3>2
      <3> QED
        BY <2>7, <3>3 DEF WithTold
    <2>9. x \in Handles /\ p.cars[x].id = id /\ p.cars[x].health = u.health
      BY <1>2, <1>4, <1>5, <1>9, <2>6, CarsAre
    <2>10. p.cars[x] \in Veh!Cars
      BY <1>6, <2>9, TableIs
    <2>11. h = [id |-> id, place |-> s.place, health |-> s.health]
      BY <2>3, <2>6, <2>9, <2>10 DEF Veh!Cars
    <2>12. CarIsTold(p, c, id, s)
      BY <1>9, <2>3, <2>4, <2>6, <2>7, <2>11 DEF CarIsTold
    <2>13. d \in SaneTables /\ OthersStay(p, d, id) /\ d.slots[id] = s
      BY <1>2, <1>5, <2>2, <2>5, <2>8, <2>12, SlotIsTold
    <2>14. OthersStay(o, d, id)
      BY <1>5, <2>13 DEF OthersStay
    <2> QED
      BY <1>1, <1>3, <1>4, <1>5, <2>3, <2>13, <2>14 DEF AsGood
  <1> QED
    BY <1>8, <1>9

\* What an event makes of its slot.
Told(r, s, e) ==
    /\ e.action = "create" /\ e.model = "refused" => s = r
    /\ e.action = "create" /\ e.model # "refused" =>
         s.state = "pending" /\ s.seq = e.seq /\ s.place = e.seq /\ s.health = e.seq
    /\ e.action = "destroy" => s.state = "none"
    /\ e.action \notin {"create", "destroy"} => (s.state = "none" <=> r.state = "none") /\ s.seq = r.seq
    /\ e.action = "put" => s.place = r.place /\ s.health = r.health
    /\ e.action = "health" => s.place = r.place /\ (r.state # "none" => s.health = e.seq)
    /\ e.action = "script" => s.health = r.health /\ (r.state # "none" => s.place = e.seq)

\* Vehicles!ApplyEvent.
LEMMA VehicleIsTold ==
    ASSUME NEW o \in SaneTables, NEW e \in Veh!Events, NEW d, d = Veh!ApplyEvent(o, e)
    PROVE  d \in SaneTables /\ OthersStay(o, d, e.id) /\ Told(o.slots[e.id], d.slots[e.id], e)
  <1>1. PICK id, q, r, s : id = e.id /\ q = e.action /\ r = o.slots[id] /\ s = d.slots[id]
    OBVIOUS
  <1>2. id \in Ids /\ q \in {"create", "destroy", "health", "script", "put"}
    BY <1>1 DEF Veh!Events
  <1>3. CASE q = "create" /\ e.model = "refused"
    <2>1. d = o
      BY <1>1, <1>3 DEF Veh!ApplyEvent, Veh!CreateSlot
    <2> QED
      BY <1>1, <1>3, <2>1 DEF Told, OthersStay
  <1>4. CASE q = "create" /\ e.model # "refused"
    <2>1. d = Veh!CreateSlot(o, e)
      BY <1>1, <1>4 DEF Veh!ApplyEvent
    <2>2. d \in SaneTables /\ OthersStay(o, d, id) /\ s = NewSlot(e)
      BY <1>1, <1>4, <2>1, SlotIsNew
    <2>3. s.state = "pending" /\ s.seq = e.seq /\ s.place = e.seq /\ s.health = e.seq
      BY <2>2 DEF NewSlot
    <2> QED
      BY <1>1, <1>4, <2>2, <2>3 DEF Told
  <1>5. CASE q = "destroy"
    <2>1. d = Veh!DestroySlot(o, id)
      BY <1>1, <1>5 DEF Veh!ApplyEvent
    <2>2. d \in SaneTables /\ OthersStay(o, d, id) /\ s.state = "none"
      BY <1>1, <1>2, <2>1, SlotIsGone
    <2> QED
      BY <1>1, <1>5, <2>2 DEF Told
  <1>6. CASE q = "health"
    <2>1. d = Veh!SetHealth(o, e)
      BY <1>1, <1>6 DEF Veh!ApplyEvent
    <2>2. /\ d \in SaneTables /\ OthersStay(o, d, id)
          /\ s.state = r.state /\ s.seq = r.seq /\ s.place = r.place
          /\ r.state # "none" => s.health = e.seq
      BY <1>1, <2>1, HealthIsTold
    <2> QED
      BY <1>1, <1>6, <2>2 DEF Told
  <1>7. CASE q = "put"
    <2>1. d = Veh!PutLocalPlayer(o, e)
      BY <1>1, <1>7 DEF Veh!ApplyEvent
    <2>2. d \in SaneTables /\ d.slots = o.slots
      BY <2>1, SeatIsTaken
    <2>3. s = r /\ OthersStay(o, d, id)
      BY <1>1, <2>2 DEF OthersStay
    <2> QED
      BY <1>1, <1>7, <2>2, <2>3 DEF Told
  <1>8. CASE q = "script"
    <2>1. d = Veh!ApplyScriptEvent(o, e)
      BY <1>1, <1>8 DEF Veh!ApplyEvent
    <2>2. /\ d \in SaneTables /\ OthersStay(o, d, id)
          /\ s.state = "none" <=> r.state = "none"
          /\ s.seq = r.seq /\ s.health = r.health
          /\ r.state # "none" => s.place = e.seq
      BY <1>1, <2>1, ScriptIsTold
    <2> QED
      BY <1>1, <1>8, <2>2 DEF Told
  <1> QED
    BY <1>2, <1>3, <1>4, <1>5, <1>6, <1>7, <1>8

\* The reader's mark is no part of what is sane.
LEMMA MarkIsSet ==
    ASSUME NEW o \in SaneTables, NEW m \in Nat
    PROVE  [o EXCEPT !.mark = m] \in SaneTables /\ [o EXCEPT !.mark = m].slots = o.slots
  <1>1. o \in Veh!Tables /\ Veh!Sane(o)
    BY DEF SaneTables
  <1>2. PICK d : d = [o EXCEPT !.mark = m]
    OBVIOUS
  <1>3. d = [mark |-> m, active |-> o.active, pending |-> o.pending, slots |-> o.slots, seat |-> o.seat,
             cars |-> o.cars, blips |-> o.blips]
    BY <1>1, <1>2 DEF Veh!Tables
  <1>4. d \in Veh!Tables
    BY <1>1, <1>3, TableIs DEF Veh!Tables
  <1>5. Veh!Sane(d)
    BY <1>1, <1>3 DEF Veh!Sane, Veh!SlotOk, Veh!CarOk
  <1> QED
    BY <1>2, <1>3, <1>4, <1>5 DEF SaneTables

\* Each slot is as good as it was.
AllAsGood(o, d) == \A i \in Ids : AsGood(o.slots[i], d.slots[i])

\* What Vehicles!UpdateMarkers makes of a slot.
MarkerSet(r, s, b, k) ==
    /\ s.state = r.state /\ s.seq = r.seq /\ s.place = r.place /\ s.health = r.health /\ s.car = r.car
    /\ k = IF s.marker THEN 1 ELSE 0
    /\ s.state # "active" => ~s.marker

\* A slot whose marker is put up or taken away as GTA's is.
LEMMA MarkerIsSet ==
    ASSUME NEW r \in Veh!Slots, NEW b, b = IF r.marker THEN 1 ELSE 0, r.state # "active" => ~r.marker,
           NEW m \in BOOLEAN,
           NEW s, s = [r EXCEPT !.marker = (r.marker \/ (r.state = "active" /\ ~r.marker /\ m))
                                           /\ ~(r.state = "active" /\ r.marker /\ ~m)],
           NEW k, k = IF r.state = "active" /\ ~r.marker /\ m THEN b + 1
                      ELSE IF r.state = "active" /\ r.marker /\ ~m THEN b - 1 ELSE b
    PROVE  s \in Veh!Slots /\ k \in Veh!Blips /\ MarkerSet(r, s, b, k)
  <1>1. PICK l : l = r.marker
    OBVIOUS
  <1>2. l \in BOOLEAN
    BY <1>1 DEF Veh!Slots
  <1>3. PICK n \in BOOLEAN : n <=> (l \/ (r.state = "active" /\ ~l /\ m)) /\ ~(r.state = "active" /\ l /\ ~m)
    OBVIOUS
  <1>4. s = [r EXCEPT !.marker = n]
    BY <1>1, <1>2, <1>3, Zenon
  <1>5. s \in Veh!Slots
    BY <1>4 DEF Veh!Slots
  <1>6. /\ s.state = r.state /\ s.seq = r.seq /\ s.place = r.place /\ s.health = r.health /\ s.car = r.car
        /\ s.marker = n
    BY <1>4 DEF Veh!Slots
  <1>7. k = (IF n THEN 1 ELSE 0) /\ (s.state # "active" => ~n)
    BY <1>1, <1>2, <1>3, <1>6
  <1> QED
    BY <1>5, <1>6, <1>7 DEF MarkerSet, Veh!Blips

\* Vehicles!UpdateMarkers.
LEMMA MarkersAreUpdated ==
    ASSUME NEW o \in SaneTables, NEW near, near \in {{}, Ids}
    PROVE  LET d == Veh!UpdateMarkers(o, near) IN d \in SaneTables /\ AllAsGood(o, d) /\ d.mark = o.mark
  <1>1. o \in Veh!Tables /\ Veh!Sane(o)
    BY DEF SaneTables
  <1> DEFINE On(i) == o.slots[i].state = "active" /\ ~o.slots[i].marker /\ Veh!Marked(o, i, near)
             Off(i) == o.slots[i].state = "active" /\ o.slots[i].marker /\ ~Veh!Marked(o, i, near)
  <1>2. PICK t, k : /\ t = [i \in Ids |-> [o.slots[i] EXCEPT !.marker = (o.slots[i].marker \/ On(i)) /\ ~Off(i)]]
                    /\ k = [i \in Ids |-> IF On(i) THEN o.blips[i] + 1
                                          ELSE IF Off(i) THEN o.blips[i] - 1 ELSE o.blips[i]]
    OBVIOUS
  <1>3. PICK d : d = Veh!UpdateMarkers(o, near)
    OBVIOUS
  <1>4. d = [o EXCEPT !.slots = t, !.blips = k]
    BY <1>2, <1>3 DEF Veh!UpdateMarkers
  <1>5. d = [mark |-> o.mark, active |-> o.active, pending |-> o.pending, slots |-> t, seat |-> o.seat,
             cars |-> o.cars, blips |-> k]
    BY <1>1, <1>4 DEF Veh!Tables
  <1>6. ASSUME NEW i \in Ids
        PROVE  t[i] \in Veh!Slots /\ k[i] \in Veh!Blips /\ MarkerSet(o.slots[i], t[i], o.blips[i], k[i])
    <2>1. PICK r, b, s, l : r = o.slots[i] /\ b = o.blips[i] /\ s = t[i] /\ l = k[i]
      OBVIOUS
    <2>2. PICK m \in BOOLEAN : m <=> Veh!Marked(o, i, near)
      OBVIOUS
    <2>3. s = [r EXCEPT !.marker = (r.marker \/ (r.state = "active" /\ ~r.marker /\ m))
                                   /\ ~(r.state = "active" /\ r.marker /\ ~m)]
      BY <1>2, <2>1, <2>2, Zenon
    <2>4. l = IF r.state = "active" /\ ~r.marker /\ m THEN b + 1
              ELSE IF r.state = "active" /\ r.marker /\ ~m THEN b - 1 ELSE b
      BY <1>2, <2>1, <2>2
    <2>5. r \in Veh!Slots
      BY <1>1, <2>1, TableIs
    <2>6. (b = IF r.marker THEN 1 ELSE 0) /\ (r.state # "active" => ~r.marker)
      BY <2>1, MarkersAre
    <2>7. s \in Veh!Slots /\ l \in Veh!Blips /\ MarkerSet(r, s, b, l)
      BY <2>3, <2>4, <2>5, <2>6, MarkerIsSet
    <2> QED
      BY <2>1, <2>7
  <1> HIDE DEF On, Off
  <1>7. d \in Veh!Tables
    <2>1. t \in [Ids -> Veh!Slots] /\ k \in [Ids -> Veh!Blips]
      BY <1>2, <1>6
    <2> QED
      BY <1>1, <1>5, <2>1, TableIs DEF Veh!Tables
  <1>8. ASSUME NEW i \in Ids PROVE Veh!SlotOk(d, i) /\ AsGood(o.slots[i], t[i])
    <2>1. PICK r, s : r = o.slots[i] /\ s = t[i]
      OBVIOUS
    <2>2. /\ s.state = r.state /\ s.seq = r.seq /\ s.place = r.place /\ s.health = r.health /\ s.car = r.car
          /\ k[i] = IF s.marker THEN 1 ELSE 0
          /\ s.state # "active" => ~s.marker
      BY <1>6, <2>1 DEF MarkerSet
    <2>3. s.state = "active" => /\ s.car \in Handles /\ o.cars[s.car].id = i
                                /\ o.cars[s.car].place = s.place /\ o.cars[s.car].health = s.health
      BY <1>1, <2>1, <2>2 DEF Veh!Sane, Veh!SlotOk
    <2>4. d.slots[i] = s /\ d.blips = k /\ d.cars = o.cars
      BY <1>5, <2>1
    <2>5. Veh!SlotOk(d, i)
      BY <2>2, <2>3, <2>4 DEF Veh!SlotOk
    <2> QED
      BY <2>1, <2>2, <2>5 DEF AsGood
  <1>9. \A i \in Ids : t[i].state = o.slots[i].state /\ t[i].car = o.slots[i].car
    BY <1>6 DEF MarkerSet
  <1>10. ASSUME NEW x \in Handles PROVE Veh!CarOk(d, x)
    <2>1. Veh!CarOk(o, x)
      BY <1>1 DEF Veh!Sane
    <2>2. PICK y : y = o.cars[x]
      OBVIOUS
    <2>3. y.id \in Ids \cup {0}
      BY <1>1, <2>2, TableIs DEF Veh!Cars
    <2>4. d.cars[x] = y /\ d.slots = t
      BY <1>5, <2>2
    <2>5. CASE y.id = 0
      BY <2>1, <2>2, <2>4, <2>5 DEF Veh!CarOk
    <2>6. CASE y.id # 0
      <3>1. o.slots[y.id].state = "active" /\ o.slots[y.id].car = x
        BY <2>1, <2>2, <2>6 DEF Veh!CarOk
      <3>2. t[y.id].state = "active" /\ t[y.id].car = x
        BY <1>9, <2>3, <2>6, <3>1
      <3> QED
        BY <2>4, <2>6, <3>2 DEF Veh!CarOk
    <2> QED
      BY <2>5, <2>6
  <1>11. ASSUME NEW state PROVE Veh!Number(t, state) = Veh!Number(o.slots, state)
    <2>1. {i \in Ids : t[i].state = state} = {i \in Ids : o.slots[i].state = state}
      BY <1>9
    <2> QED
      BY <2>1 DEF Veh!Number
  <1>12. Veh!Sane(d)
    <2>1. d.active = o.active /\ d.pending = o.pending /\ d.slots = t
      BY <1>5
    <2>2. d.active = Veh!Number(d.slots, "active") /\ d.pending = Veh!Number(d.slots, "pending")
      BY <1>1, <1>11, <2>1 DEF Veh!Sane
    <2> QED
      BY <1>8, <1>10, <2>2 DEF Veh!Sane
  <1> QED
    BY <1>3, <1>5, <1>7, <1>8, <1>12 DEF SaneTables, AllAsGood

\* No vehicle.
LEMMA NumberOfNone ==
    ASSUME NEW s, NEW state, \A i \in Ids : s[i].state # state
    PROVE  Veh!Number(s, state) = 0
  <1>1. {i \in Ids : s[i].state = state} = {}
    OBVIOUS
  <1>2. Cardinality({}) = 0
    BY FS_EmptySet
  <1> QED
    BY <1>1, <1>2 DEF Veh!Number, Veh!Cardinality, Cardinality

\* Vehicles!ResetPool.
LEMMA PoolIsReset ==
    ASSUME NEW o \in SaneTables
    PROVE  LET d == Veh!ResetPool(o)
           IN  d \in SaneTables /\ d.mark = 0 /\ \A i \in Ids : d.slots[i].state = "none"
  <1>1. o \in Veh!Tables /\ Veh!Sane(o)
    BY DEF SaneTables
  <1>2. PICK gone : gone = {i \in Ids : o.slots[i].state = "active"}
    OBVIOUS
  <1>3. PICK t, c, k, seat :
          /\ t = [i \in Ids |-> Veh!NoSlot]
          /\ c = [x \in Handles |-> IF \E i \in gone : o.slots[i].car = x THEN Veh!NoCar ELSE o.cars[x]]
          /\ k = [i \in Ids |-> IF i \in gone /\ o.slots[i].marker THEN o.blips[i] - 1 ELSE o.blips[i]]
          /\ seat = IF o.seat \in gone THEN 0 ELSE o.seat
    OBVIOUS
  <1>4. PICK d : d = Veh!ResetPool(o)
    OBVIOUS
  <1>5. d = [mark |-> 0, active |-> 0, pending |-> 0, slots |-> t, seat |-> seat, cars |-> c, blips |-> k]
    BY <1>2, <1>3, <1>4 DEF Veh!ResetPool
  <1>6. seat \in Ids \cup {0}
    BY <1>1, <1>3, TableIs
  <1>7. ASSUME NEW x \in Handles PROVE c[x] = Veh!NoCar
    <2>1. c[x] = IF \E i \in gone : o.slots[i].car = x THEN Veh!NoCar ELSE o.cars[x]
      BY <1>3
    <2>2. Veh!CarOk(o, x)
      BY <1>1 DEF Veh!Sane
    <2>3. PICK j : j = o.cars[x].id
      OBVIOUS
    <2>4. j \in Ids \cup {0}
      BY <1>1, <2>3, TableIs DEF Veh!Cars
    <2>5. CASE j = 0
      BY <2>1, <2>2, <2>3, <2>5 DEF Veh!CarOk
    <2>6. CASE j # 0
      <3>1. o.slots[j].state = "active" /\ o.slots[j].car = x
        BY <2>2, <2>3, <2>6 DEF Veh!CarOk
      <3>2. j \in gone
        BY <1>2, <2>4, <2>6, <3>1
      <3> QED
        BY <2>1, <3>1, <3>2
    <2> QED
      BY <2>5, <2>6
  <1>8. ASSUME NEW i \in Ids PROVE k[i] = 0
    <2>1. PICK r, b : r = o.slots[i] /\ b = o.blips[i]
      OBVIOUS
    <2>2. /\ r.marker \in BOOLEAN
          /\ r.state # "active" => ~r.marker
          /\ b = IF r.marker THEN 1 ELSE 0
      BY <2>1, MarkersAre
    <2>3. k[i] = IF i \in gone /\ r.marker THEN b - 1 ELSE b
      BY <1>3, <2>1
    <2>4. i \in gone <=> r.state = "active"
      BY <1>2, <2>1
    <2> QED
      BY <2>2, <2>3, <2>4
  <1>9. d \in Veh!Tables
    <2>1. t \in [Ids -> Veh!Slots]
      BY <1>3, NoSlotIs
    <2>2. c \in [Handles -> Veh!Cars]
      BY <1>3, <1>7, NoCarIs
    <2>3. k \in [Ids -> Veh!Blips]
      <3>1. \A i \in Ids : k[i] \in Veh!Blips
        BY <1>8 DEF Veh!Blips
      <3> QED
        BY <1>3, <3>1
    <2> QED
      BY <1>5, <1>6, <2>1, <2>2, <2>3 DEF Veh!Tables
  <1>10. \A i \in Ids : d.slots[i] = Veh!NoSlot /\ d.blips[i] = 0
    BY <1>3, <1>5, <1>8
  <1>11. \A i \in Ids : Veh!SlotOk(d, i)
    BY <1>10, NoSlotIs DEF Veh!SlotOk
  <1>12. \A x \in Handles : Veh!CarOk(d, x)
    BY <1>5, <1>7, NoCarIs DEF Veh!CarOk
  <1>13. d.active = Veh!Number(d.slots, "active") /\ d.pending = Veh!Number(d.slots, "pending")
    <2>1. \A i \in Ids : d.slots[i].state # "active" /\ d.slots[i].state # "pending"
      BY <1>10, NoSlotIs
    <2>2. Veh!Number(d.slots, "active") = 0 /\ Veh!Number(d.slots, "pending") = 0
      BY <2>1, NumberOfNone
    <2> QED
      BY <1>5, <2>2
  <1>14. d \in SaneTables
    BY <1>9, <1>11, <1>12, <1>13 DEF SaneTables, Veh!Sane
  <1> QED
    BY <1>4, <1>5, <1>10, <1>14, NoSlotIs

\* Vehicles!FlushPending.
LEMMA OneIsFlushed ==
    ASSUME NEW o \in SaneTables, NEW due \in BOOLEAN
    PROVE  LET d == Veh!FlushPending(o, due) IN d \in SaneTables /\ AllAsGood(o, d)
  <1>1. PICK d : d = Veh!FlushPending(o, due)
    OBVIOUS
  <1>2. PICK waiting : waiting = {i \in Ids : o.slots[i].state = "pending"}
    OBVIOUS
  <1>3. CASE ~(due /\ scene = "spawned" /\ waiting # {})
    <2>1. d = o
      BY <1>1, <1>2, <1>3 DEF Veh!FlushPending
    <2> QED
      BY <1>1, <2>1 DEF AllAsGood, AsGood
  <1>4. CASE due /\ scene = "spawned" /\ waiting # {}
    <2>1. PICK id : id = CHOOSE i \in waiting : \A j \in waiting : i <= j
      OBVIOUS
    <2>2. waiting \subseteq Nat
      BY <1>2, IdsAre
    <2>3. \E i \in waiting : \A j \in waiting : i =< j
      BY <1>4, <2>2, Smallest
    <2>4. id \in waiting
      BY <2>1, <2>3
    <2>5. id \in Ids
      BY <1>2, <2>4
    <2>6. d = Veh!ApplyPending(o, id)
      BY <1>1, <1>2, <1>4, <2>1 DEF Veh!FlushPending
    <2>7. d \in SaneTables /\ OthersStay(o, d, id) /\ AsGood(o.slots[id], d.slots[id])
      BY <2>5, <2>6, PendingIsApplied
    <2>8. ASSUME NEW i \in Ids PROVE AsGood(o.slots[i], d.slots[i])
      <3>1. CASE i = id
        BY <2>7, <3>1
      <3>2. CASE i # id
        BY <2>7, <3>2 DEF OthersStay, AsGood
      <3> QED
        BY <3>1, <3>2
    <2> QED
      BY <1>1, <2>7, <2>8 DEF AllAsGood
  <1> QED
    BY <1>3, <1>4

-----------------------------------------------------------------------------
(* The replay of the vehicles' ring. *)

VehiclesSteps(U, E) == [p \in U \X E |-> Veh!ApplyEvent(p[1], p[2])]

VehiclesStay(U, E) == \A x \in U, e \in E : Veh!ApplyEvent(x, e) \in U

\* The loop over the snapshot of the vehicles' ring is that of the function.
LEMMA VehiclesLoop ==
    ASSUME NEW U, NEW E, VehiclesStay(U, E), NEW ring, NEW mark, NEW o \in U, News(ring, mark, E),
           Len(ring) \in Nat
    PROVE  Veh!Replayed(ring, mark, o, Veh!ApplyEvent) = Value(ring, mark, o, VehiclesSteps(U, E))
  <1>0. PICK F : F = VehiclesSteps(U, E)
    OBVIOUS
  <1>1. \A x \in U, e \in E : F[<<x, e>>] = Veh!ApplyEvent(x, e)
    BY <1>0 DEF VehiclesSteps
  <1>2. Closed(F, U, E)
    BY <1>1 DEF VehiclesStay, Closed
  <1>3. PICK last \in Nat : last = Len(ring)
    OBVIOUS
  <1>4. PICK g : Loop(g, ring, mark, o, last, F) /\ Value(ring, mark, o, F) = g[last]
    BY <1>3, ValueIs
  <1>5. \A k \in 0 .. last : g[k] \in U
    <2>1. last =< Len(ring)
      BY <1>3
    <2> QED
      BY <1>2, <1>3, <1>4, <2>1, LoopStays
  <1>13. /\ g[0] = o
         /\ \A k \in 0 .. last : k # 0 => g[k] = IF ring[k].seq > mark THEN F[<<g[k - 1], ring[k]>>] ELSE g[k - 1]
    BY <1>4 DEF Loop
  <1> DEFINE Then(x, k) == IF ring[k].seq > mark THEN Veh!ApplyEvent(x, ring[k]) ELSE x
             Is(h) == h = [k \in 0 .. last |-> IF k = 0 THEN o ELSE Then(h[k - 1], k)]
             c == CHOOSE h : Is(h)
  <1>6. Is(g)
    <2>2. ASSUME NEW k \in 0 .. last, k # 0 PROVE g[k] = Then(g[k - 1], k)
      <3>1. g[k] = IF ring[k].seq > mark THEN F[<<g[k - 1], ring[k]>>] ELSE g[k - 1]
        BY <1>13, <2>2
      <3>2. k - 1 \in 0 .. last /\ k \in 1 .. Len(ring)
        BY <1>3, <2>2
      <3>3. g[k - 1] \in U /\ (ring[k].seq > mark => ring[k] \in E)
        BY <1>5, <3>2 DEF News
      <3> QED
        BY <1>1, <3>1, <3>3
    <2>3. g = [k \in 0 .. last |-> g[k]]
      BY <1>4 DEF Loop
    <2> HIDE DEF Then
    <2> QED
      BY <1>13, <2>2, <2>3
  <1>7. Is(c)
    <2> HIDE DEF Is
    <2> QED
      BY <1>6
  <1>8. Veh!Replayed(ring, mark, o, Veh!ApplyEvent) = c[last]
    BY <1>3 DEF Veh!Replayed
  <1> HIDE DEF c
  <1>9. c[0] = o /\ g[0] = o /\ \A k \in 0 .. last : k # 0 => c[k] = Then(c[k - 1], k) /\ g[k] = Then(g[k - 1], k)
    <2> HIDE DEF Then
    <2> QED
      BY <1>6, <1>7
  <1> HIDE DEF Is, Then
  <1> DEFINE S == {k \in Nat : k =< last => c[k] = g[k]}
  <1>10. 0 \in S
    BY <1>9
  <1>11. ASSUME NEW k \in Nat, k \in S PROVE k + 1 \in S
    <2> SUFFICES ASSUME k + 1 =< last PROVE c[k + 1] = g[k + 1]
      OBVIOUS
    <2>1. c[k] = g[k] /\ k + 1 \in 0 .. last /\ k + 1 # 0 /\ (k + 1) - 1 = k
      BY <1>11
    <2> QED
      BY <1>9, <2>1
  <1>12. Nat \subseteq S
    <2> HIDE DEF S
    <2> QED
      BY <1>10, <1>11, Steps
  <1> QED
    BY <1>0, <1>4, <1>8, <1>12

\* What the instance of Vehicles has of Ring.
LEMMA VehiclesRing ==
    /\ \A r, m : Veh!Gap(r, m) = Gap(r, m) /\ Veh!MarkAfter(r, m) = MarkAfter(r, m)
    /\ \A r, n, e : Veh!Push(r, n, e) = Push(r, n, e)
  BY DEF Veh!Gap, Gap, Veh!MarkAfter, MarkAfter, Veh!Push, Push

\* Vehicles: no event takes a table out of the sane ones.
LEMMA TablesStay == VehiclesStay(SaneTables, Veh!Events)
  <1> SUFFICES ASSUME NEW x \in SaneTables, NEW e \in Veh!Events PROVE Veh!ApplyEvent(x, e) \in SaneTables
    BY DEF VehiclesStay
  <1>1. PICK d : d = Veh!ApplyEvent(x, e)
    OBVIOUS
  <1> QED
    BY <1>1, VehicleIsTold

\* The vehicles' ring.
LEMMA VehiclesRingOk ==
    ASSUME Veh!Fields, Veh!RingEnds
    PROVE  RingOk(net.probe.ring, net.probe.seq, RingSize, Veh!Events)
  BY DEF Veh!Fields, Veh!RingEnds, RingOk

\* Vehicles: what a replay ends with is the value of the loop, a sane table.
LEMMA TableReplayed ==
    ASSUME NEW ring \in Seq(Veh!Events), NEW mark, NEW o \in SaneTables
    PROVE  /\ Veh!Replayed(ring, mark, o, Veh!ApplyEvent)
                = Value(ring, mark, o, VehiclesSteps(SaneTables, Veh!Events))
           /\ Value(ring, mark, o, VehiclesSteps(SaneTables, Veh!Events)) \in SaneTables
  <1>1. News(ring, mark, Veh!Events) /\ Len(ring) \in Nat
    BY DEF News
  <1>2. PICK F : F = VehiclesSteps(SaneTables, Veh!Events)
    OBVIOUS
  <1>3. Closed(F, SaneTables, Veh!Events)
    BY <1>2, TablesStay DEF Closed, VehiclesStay, VehiclesSteps
  <1>4. Value(ring, mark, o, F) \in SaneTables
    BY <1>1, <1>3, ValueStays
  <1> QED
    BY <1>1, <1>2, <1>4, TablesStay, VehiclesLoop

\* What an event makes of a slot that is right is right for what the RPC makes of the vehicle.
Heeds(old, new, e) == \A r, s \in Veh!Slots : Veh!Right(r, old) /\ Told(r, s, e) => Veh!Right(s, new)

\* One RPC more.
LEMMA TableCatchesUp ==
    ASSUME NEW p, NEW q, NEW k \in SaneTables, RingOk(p.ring, p.seq, RingSize, Veh!Events),
           k.mark \in Nat, k.mark =< p.seq, Veh!CatchesUp(p, k),
           NEW e \in Veh!Events, e.seq = p.seq + 1, q.seq = p.seq + 1, q.ring = Push(p.ring, RingSize, e),
           \A i \in Ids : i # e.id => q.server[i] = p.server[i],
           Heeds(p.server[e.id], q.server[e.id], e)
    PROVE  Veh!CatchesUp(q, k)
  <1>1. SUFFICES ASSUME ~Veh!Gap(q.ring, k.mark)
                 PROVE  Veh!Caught(Veh!Replayed(q.ring, k.mark, k, Veh!ApplyEvent), q.server)
    BY DEF Veh!CatchesUp
  <1>2. PICK F : F = VehiclesSteps(SaneTables, Veh!Events)
    OBVIOUS
  <1>3. RingSize \in Nat \ {0}
    BY PoolsAssumption
  <1>4. RingOk(q.ring, q.seq, RingSize, Veh!Events)
    BY <1>3, RingPushed
  <1>5. Whole(q.ring, q.seq, k.mark)
    BY <1>1, <1>3, <1>4, GapIs, VehiclesRing
  <1>6. /\ Whole(p.ring, p.seq, k.mark)
        /\ Value(q.ring, k.mark, k, F) = F[<<Value(p.ring, k.mark, k, F), e>>]
    <2>1. PICK r, seq, mark : r = p.ring /\ seq = p.seq /\ mark = k.mark
      OBVIOUS
    <2>2. /\ RingOk(r, seq, RingSize, Veh!Events) /\ e.seq = seq + 1 /\ mark \in Nat /\ mark =< seq
          /\ Whole(Push(r, RingSize, e), seq + 1, mark)
      BY <1>5, <2>1
    <2>3. Whole(r, seq, mark) /\ Value(Push(r, RingSize, e), mark, k, F) = F[<<Value(r, mark, k, F), e>>]
      BY <1>3, <2>2, ValuePushed
    <2> QED
      BY <2>1, <2>3
  <1>7. ~Veh!Gap(p.ring, k.mark)
    BY <1>3, <1>6, GapIs, VehiclesRing
  <1>8. PICK x : x = Value(p.ring, k.mark, k, F)
    OBVIOUS
  <1>9. p.ring \in Seq(Veh!Events) /\ q.ring \in Seq(Veh!Events)
    BY <1>4 DEF RingOk
  <1>10. x = Veh!Replayed(p.ring, k.mark, k, Veh!ApplyEvent) /\ x \in SaneTables
    BY <1>2, <1>8, <1>9, TableReplayed
  <1>11. Veh!Replayed(q.ring, k.mark, k, Veh!ApplyEvent) = Veh!ApplyEvent(x, e)
    <2>1. Veh!Replayed(q.ring, k.mark, k, Veh!ApplyEvent) = Value(q.ring, k.mark, k, F)
      BY <1>2, <1>9, TableReplayed
    <2>2. F[<<x, e>>] = Veh!ApplyEvent(x, e)
      BY <1>2, <1>10 DEF VehiclesSteps
    <2> QED
      BY <1>6, <1>8, <2>1, <2>2
  <1>12. \A i \in Ids : Veh!Right(x.slots[i], p.server[i])
    BY <1>7, <1>10 DEF Veh!CatchesUp, Veh!Caught
  <1>13. PICK y : y = Veh!ApplyEvent(x, e)
    OBVIOUS
  <1>14. y \in SaneTables /\ OthersStay(x, y, e.id) /\ Told(x.slots[e.id], y.slots[e.id], e)
    BY <1>10, <1>13, VehicleIsTold
  <1>15. e.id \in Ids
    BY DEF Veh!Events
  <1>16. x.slots[e.id] \in Veh!Slots /\ y.slots[e.id] \in Veh!Slots
    BY <1>10, <1>14, <1>15, TableIs DEF SaneTables
  <1>17. Veh!Right(y.slots[e.id], q.server[e.id])
    BY <1>12, <1>14, <1>15, <1>16 DEF Heeds
  <1>18. ASSUME NEW i \in Ids PROVE Veh!Right(y.slots[i], q.server[i])
    <2>1. CASE i = e.id
      BY <1>17, <2>1
    <2>2. CASE i # e.id
      BY <1>12, <1>14, <2>2 DEF OthersStay
    <2> QED
      BY <2>1, <2>2
  <1> QED
    BY <1>11, <1>13, <1>18 DEF Veh!Caught

\* A reader of the vehicles' ring who has seen everything comes to the table he has.
LEMMA NothingIsReplayed ==
    ASSUME NEW p, NEW k, RingOk(p.ring, p.seq, RingSize, Veh!Events), k.mark = p.seq
    PROVE  Veh!Replayed(p.ring, k.mark, k, Veh!ApplyEvent) = k /\ ~Veh!Gap(p.ring, k.mark)
  <1>1. RingSize \in Nat \ {0}
    BY PoolsAssumption
  <1>2. PICK r, m : r = p.ring /\ m = k.mark
    OBVIOUS
  <1>3. News(r, m, {}) /\ r \in Seq(Veh!Events) /\ Len(r) \in Nat
    BY <1>1, <1>2, NoneUnseen DEF RingOk
  <1>4. VehiclesStay({k}, {})
    BY DEF VehiclesStay
  <1>5. Veh!Replayed(r, m, k, Veh!ApplyEvent) = Value(r, m, k, VehiclesSteps({k}, {}))
    BY <1>3, <1>4, VehiclesLoop
  <1>6. PICK l \in Nat : l = Len(r)
    BY <1>3
  <1>7. \A j \in 1 .. l : ~(r[j].seq > m)
    BY <1>3, <1>6 DEF News
  <1>8. Value(r, m, k, VehiclesSteps({k}, {})) = k
    BY <1>6, <1>7, NothingNew
  <1>9. ~Veh!Gap(r, m)
    BY <1>6, <1>7 DEF Veh!Gap
  <1> QED
    BY <1>2, <1>5, <1>8, <1>9

\* His table catches up just if it has.
LEMMA TableIsCaughtUp ==
    ASSUME NEW p, NEW k, RingOk(p.ring, p.seq, RingSize, Veh!Events), k.mark = p.seq
    PROVE  Veh!CatchesUp(p, k) <=> Veh!Caught(k, p.server)
  BY NothingIsReplayed DEF Veh!CatchesUp

\* The table before a frame's replay.
LEMMA PoolIs ==
    ASSUME Veh!Fields, Veh!Counts, Veh!Sane(own.pool)
    PROVE  /\ Veh!Pool \in SaneTables /\ Veh!Pool.mark \in Nat /\ Veh!Pool.mark =< net.probe.seq
           /\ own.handled = net.restart => Veh!Pool = own.pool
           /\ own.handled # net.restart => Veh!Pool.mark = 0 /\ Veh!Pool = Veh!ResetPool(own.pool)
  <1>1. own.pool \in SaneTables /\ net.probe.seq \in Nat
    BY DEF Veh!Fields, SaneTables
  <1>2. own.pool.mark \in Nat
    BY <1>1, TableIs DEF SaneTables
  <1>3. CASE own.handled = net.restart
    <2>1. Veh!Pool = own.pool
      BY <1>3 DEF Veh!Pool, Veh!Restarted
    <2>2. own.pool.mark =< net.probe.seq
      BY <1>3 DEF Veh!Counts
    <2> QED
      BY <1>1, <1>2, <1>3, <2>1, <2>2
  <1>4. CASE own.handled # net.restart
    <2>1. Veh!Pool = Veh!ResetPool(own.pool)
      BY <1>4 DEF Veh!Pool, Veh!Restarted
    <2>2. Veh!Pool \in SaneTables /\ Veh!Pool.mark = 0
      BY <1>1, <2>1, PoolIsReset
    <2> QED
      BY <1>1, <1>4, <2>1, <2>2
  <1> QED
    BY <1>3, <1>4

\* What Fields says of the parts.
LEMMA VehiclesFields ==
    ASSUME Veh!Fields
    PROVE  /\ net \in [probe : [seq : Nat, server : [Ids -> Veh!Vehicles], ring : Seq(Veh!Events)],
                       restart : Nat, rpcs : Nat]
           /\ net.probe.seq \in Nat /\ net.restart \in Nat /\ net.rpcs \in Nat
           /\ \A i \in Ids : net.probe.server[i] \in Veh!Vehicles
           /\ own \in [pool : Veh!Tables, handled : Nat, gap : BOOLEAN]
           /\ own.handled \in Nat /\ own.pool \in Veh!Tables /\ own.gap \in BOOLEAN
           /\ scene \in {"none", "spawned"}
  BY DEF Veh!Fields

\* An RPC about one vehicle.
LEMMA VehiclesQueue ==
    ASSUME Veh!VehiclesInv, Veh!Receives, NEW id \in Ids, NEW v \in Veh!Vehicles,
           NEW action \in {"create", "destroy", "health", "script", "put"}, NEW model \in Veh!Models,
           NEW objective \in BOOLEAN, NEW e,
           e = [seq |-> net.probe.seq + 1, action |-> action, id |-> id, model |-> model, objective |-> objective],
           Heeds(net.probe.server[id], v, e), Veh!Queue(action, id, v, model, objective)
    PROVE  Veh!VehiclesInv'
  <1>1. /\ Veh!Fields /\ Veh!RingEnds /\ Veh!Counts /\ Veh!Sane(own.pool)
        /\ (own.gap => Veh!Restarted) => Veh!CatchesUp(net.probe, Veh!Pool)
    BY DEF Veh!VehiclesInv
  <1>2. RingSize \in Nat \ {0} /\ MaxEvents \in Nat
    BY PoolsAssumption
  <1>3. net.probe.seq \in Nat /\ net.restart \in Nat /\ net.rpcs \in Nat
    BY <1>1, VehiclesFields
  <1>4. PICK seq \in Nat : seq = net.probe.seq + 1
    BY <1>3
  <1>5. e \in Veh!Events /\ e.seq = seq /\ e.id = id
    BY <1>4 DEF Veh!Events
  <1>6. PICK r, t : r = Push(net.probe.ring, RingSize, e) /\ t = [net.probe.server EXCEPT ![id] = v]
    OBVIOUS
  <1>7. PICK q : q = [seq |-> seq, server |-> t, ring |-> r]
    OBVIOUS
  <1>8. net' = [net EXCEPT !.rpcs = net.rpcs + 1, !.probe = q] /\ pc' = "pump" /\ own' = own /\ scene' = scene
    BY <1>4, <1>6, <1>7, VehiclesRing DEF Veh!Queue
  <1>9. net'.probe = q /\ net'.restart = net.restart /\ net'.rpcs = net.rpcs + 1
    BY <1>1, <1>8, VehiclesFields
  <1>10. RingOk(net.probe.ring, net.probe.seq, RingSize, Veh!Events)
    BY <1>1, VehiclesRingOk
  <1>11. RingOk(r, seq, RingSize, Veh!Events)
    BY <1>2, <1>4, <1>5, <1>6, <1>10, RingPushed
  <1>12. t \in [Ids -> Veh!Vehicles] /\ t[id] = v /\ \A i \in Ids : i # id => t[i] = net.probe.server[i]
    <2>1. net.probe.server \in [Ids -> Veh!Vehicles]
      BY <1>1 DEF Veh!Fields
    <2> QED
      BY <1>6, <2>1
  <1>13. Veh!Fields'
    <2>1. r \in Seq(Veh!Events)
      BY <1>11 DEF RingOk
    <2>2. q \in [seq : Nat, server : [Ids -> Veh!Vehicles], ring : Seq(Veh!Events)]
      BY <1>7, <1>12, <2>1
    <2>3. PICK n \in Nat : n = net.rpcs + 1
      BY <1>3
    <2>4. net' = [net EXCEPT !.rpcs = n, !.probe = q]
      BY <1>8, <2>3
    <2>5. net' \in [probe : [seq : Nat, server : [Ids -> Veh!Vehicles], ring : Seq(Veh!Events)],
                    restart : Nat, rpcs : Nat]
      BY <1>1, <2>2, <2>4, VehiclesFields
    <2> QED
      BY <1>1, <1>8, <2>5 DEF Veh!Fields
  <1>14. Veh!RingEnds'
    <2>1. net'.probe.seq = seq /\ net'.probe.ring = r
      BY <1>7, <1>9
    <2>2. /\ Len(r) = (IF seq < RingSize THEN seq ELSE RingSize)
          /\ \A k \in 1..Len(r) : r[k].seq = seq - Len(r) + k
      BY <1>11 DEF RingOk
    <2> QED
      BY <2>1, <2>2 DEF Veh!RingEnds
  <1>15. Veh!Counts'
    <2>1. own.pool \in Veh!Tables /\ own.handled \in Nat
      BY <1>1, VehiclesFields
    <2>2. own.pool.mark \in Nat
      BY <2>1, TableIs
    <2>3. q.seq = seq
      BY <1>7
    <2> QED
      BY <1>1, <1>2, <1>3, <1>4, <1>8, <1>9, <2>1, <2>2, <2>3 DEF Veh!Counts, Veh!Receives
  <1>16. (own.gap => Veh!Restarted)' => Veh!CatchesUp(net.probe, Veh!Pool)'
    <2>1. Veh!Pool' = Veh!Pool /\ (Veh!Restarted' <=> Veh!Restarted)
      BY <1>8, <1>9 DEF Veh!Pool, Veh!Restarted, Veh!ResetPool
    <2>2. SUFFICES ASSUME own.gap => Veh!Restarted PROVE Veh!CatchesUp(net.probe, Veh!Pool)'
      BY <1>8, <2>1
    <2>3. PICK k, p : k = Veh!Pool /\ p = net.probe
      OBVIOUS
    <2>4. k \in SaneTables /\ k.mark \in Nat /\ k.mark =< p.seq
      BY <1>1, <2>3, PoolIs
    <2>5. Veh!CatchesUp(p, k)
      BY <1>1, <2>2, <2>3
    <2>6. RingOk(p.ring, p.seq, RingSize, Veh!Events) /\ e.seq = p.seq + 1
      BY <1>4, <1>5, <1>10, <2>3
    <2>7. q.seq = p.seq + 1 /\ q.ring = Push(p.ring, RingSize, e)
      BY <1>4, <1>6, <1>7, <2>3
    <2>8. \A i \in Ids : i # e.id => q.server[i] = p.server[i]
      BY <1>5, <1>7, <1>12, <2>3
    <2>9. Heeds(p.server[e.id], q.server[e.id], e)
      BY <1>5, <1>7, <1>12, <2>3
    <2>10. Veh!CatchesUp(q, k)
      BY <1>5, <2>4, <2>5, <2>6, <2>7, <2>8, <2>9, TableCatchesUp
    <2> QED
      BY <1>9, <2>1, <2>3, <2>10
  <1>17. Veh!Sane(own.pool)'
    BY <1>1, <1>8 DEF Veh!Sane, Veh!SlotOk, Veh!CarOk
  <1> QED
    BY <1>13, <1>14, <1>15, <1>16, <1>17 DEF Veh!VehiclesInv

\* What an RPC of Vehicles finds.
LEMMA RpcFinds ==
    ASSUME Veh!VehiclesInv, NEW id \in Ids
    PROVE  /\ net.probe.seq + 1 \in Nat /\ net.probe.server[id] \in Veh!Vehicles
           /\ Veh!Now = net.probe.seq + 1 /\ Veh!Server(id) = net.probe.server[id]
  BY VehiclesFields DEF Veh!VehiclesInv, Veh!Now, Veh!Server

\* Vehicles!OnAdd preserves the invariant.
LEMMA VehiclesAdd ==
    ASSUME Veh!VehiclesInv, Veh!OnAdd
    PROVE  Veh!VehiclesInv'
  <1>1. PICK id \in Ids, model \in {"good", "refused"} :
          Veh!Queue("create", id, [kind |-> model, seq |-> Veh!Now, place |-> Veh!Now, health |-> Veh!Now], model, FALSE)
    BY DEF Veh!OnAdd
  <1>2. PICK seq, old : seq = net.probe.seq + 1 /\ old = net.probe.server[id]
    OBVIOUS
  <1>3. seq \in Nat /\ old \in Veh!Vehicles /\ Veh!Now = seq
    BY <1>2, RpcFinds
  <1>4. PICK v : v = [kind |-> model, seq |-> seq, place |-> seq, health |-> seq]
    OBVIOUS
  <1>5. v \in Veh!Vehicles /\ model \in Veh!Models
    BY <1>3, <1>4 DEF Veh!Vehicles, Veh!Models
  <1>6. PICK e : e = [seq |-> net.probe.seq + 1, action |-> "create", id |-> id, model |-> model, objective |-> FALSE]
    OBVIOUS
  <1>7. e.action = "create" /\ e.model = model /\ e.seq = seq
    BY <1>2, <1>6
  <1>8. ASSUME NEW r \in Veh!Slots, NEW s \in Veh!Slots, Veh!Right(r, old), Told(r, s, e) PROVE Veh!Right(s, v)
    <2>1. v.kind = model /\ v.seq = seq /\ v.place = seq /\ v.health = seq
      BY <1>4
    <2> QED
      BY <1>7, <1>8, <2>1 DEF Veh!Right, Told
  <1>9. Heeds(net.probe.server[id], v, e)
    BY <1>2, <1>8 DEF Heeds
  <1>10. Veh!Receives /\ Veh!Queue("create", id, v, model, FALSE)
    BY <1>1, <1>3, <1>4 DEF Veh!OnAdd
  <1> QED
    BY <1>5, <1>6, <1>9, <1>10, VehiclesQueue

\* Vehicles!OnRemove preserves the invariant.
LEMMA VehiclesRemove ==
    ASSUME Veh!VehiclesInv, Veh!OnRemove
    PROVE  Veh!VehiclesInv'
  <1>1. PICK id \in Ids : Veh!Queue("destroy", id, Veh!NoVehicle, "none", FALSE)
    BY DEF Veh!OnRemove
  <1>2. PICK old, v : old = net.probe.server[id] /\ v = Veh!NoVehicle
    OBVIOUS
  <1>3. v \in Veh!Vehicles /\ "none" \in Veh!Models
    BY <1>2 DEF Veh!Vehicles, Veh!NoVehicle, Veh!Models
  <1>4. PICK e : e = [seq |-> net.probe.seq + 1, action |-> "destroy", id |-> id, model |-> "none", objective |-> FALSE]
    OBVIOUS
  <1>5. ASSUME NEW r \in Veh!Slots, NEW s \in Veh!Slots, Veh!Right(r, old), Told(r, s, e) PROVE Veh!Right(s, v)
    <2>1. v.kind = "none" /\ e.action = "destroy"
      BY <1>2, <1>4 DEF Veh!NoVehicle
    <2> QED
      BY <1>5, <2>1 DEF Veh!Right, Told
  <1>6. Heeds(net.probe.server[id], v, e)
    BY <1>2, <1>5 DEF Heeds
  <1>7. Veh!Receives /\ Veh!Queue("destroy", id, v, "none", FALSE)
    BY <1>1, <1>2 DEF Veh!OnRemove
  <1> QED
    BY <1>3, <1>4, <1>6, <1>7, VehiclesQueue

\* Vehicles!OnHealth preserves the invariant.
LEMMA VehiclesHealth ==
    ASSUME Veh!VehiclesInv, Veh!OnHealth
    PROVE  Veh!VehiclesInv'
  <1>1. PICK id \in Ids : Veh!Queue("health", id,
            IF Veh!Server(id).kind = "none" THEN Veh!NoVehicle ELSE [Veh!Server(id) EXCEPT !.health = Veh!Now],
            "none", FALSE)
    BY DEF Veh!OnHealth
  <1>2. PICK seq, old : seq = net.probe.seq + 1 /\ old = net.probe.server[id]
    OBVIOUS
  <1>3. seq \in Nat /\ old \in Veh!Vehicles /\ Veh!Now = seq /\ Veh!Server(id) = old
    BY <1>2, RpcFinds
  <1>4. PICK v : v = IF old.kind = "none" THEN Veh!NoVehicle ELSE [old EXCEPT !.health = seq]
    OBVIOUS
  <1>5. /\ v \in Veh!Vehicles /\ v.kind = old.kind
        /\ v.kind # "none" => v.seq = old.seq /\ v.place = old.place /\ v.health = seq
    BY <1>3, <1>4 DEF Veh!Vehicles, Veh!NoVehicle, Veh!Models
  <1>6. "none" \in Veh!Models
    BY DEF Veh!Models
  <1>7. PICK e : e = [seq |-> net.probe.seq + 1, action |-> "health", id |-> id, model |-> "none", objective |-> FALSE]
    OBVIOUS
  <1>8. ASSUME NEW r \in Veh!Slots, NEW s \in Veh!Slots, Veh!Right(r, old), Told(r, s, e) PROVE Veh!Right(s, v)
    <2>1. e.action = "health" /\ e.seq = seq
      BY <1>2, <1>7
    <2>2. /\ (s.state = "none" <=> r.state = "none") /\ s.seq = r.seq
          /\ s.place = r.place /\ (r.state # "none" => s.health = seq)
      BY <1>8, <2>1 DEF Told
    <2> QED
      BY <1>5, <1>8, <2>2 DEF Veh!Right
  <1>9. Heeds(net.probe.server[id], v, e)
    BY <1>2, <1>8 DEF Heeds
  <1>10. Veh!Receives /\ Veh!Queue("health", id, v, "none", FALSE)
    BY <1>1, <1>3, <1>4 DEF Veh!OnHealth
  <1> QED
    BY <1>5, <1>6, <1>7, <1>9, <1>10, VehiclesQueue

\* Vehicles!OnScript preserves the invariant.
LEMMA VehiclesScript ==
    ASSUME Veh!VehiclesInv, Veh!OnScript
    PROVE  Veh!VehiclesInv'
  <1>1. PICK id \in Ids, objective \in BOOLEAN : Veh!Queue("script", id,
            IF Veh!Server(id).kind = "none" THEN Veh!NoVehicle ELSE [Veh!Server(id) EXCEPT !.place = Veh!Now],
            "none", objective)
    BY DEF Veh!OnScript
  <1>2. PICK seq, old : seq = net.probe.seq + 1 /\ old = net.probe.server[id]
    OBVIOUS
  <1>3. seq \in Nat /\ old \in Veh!Vehicles /\ Veh!Now = seq /\ Veh!Server(id) = old
    BY <1>2, RpcFinds
  <1>4. PICK v : v = IF old.kind = "none" THEN Veh!NoVehicle ELSE [old EXCEPT !.place = seq]
    OBVIOUS
  <1>5. /\ v \in Veh!Vehicles /\ v.kind = old.kind
        /\ v.kind # "none" => v.seq = old.seq /\ v.place = seq /\ v.health = old.health
    BY <1>3, <1>4 DEF Veh!Vehicles, Veh!NoVehicle, Veh!Models
  <1>6. "none" \in Veh!Models
    BY DEF Veh!Models
  <1>7. PICK e : e = [seq |-> net.probe.seq + 1, action |-> "script", id |-> id, model |-> "none",
                      objective |-> objective]
    OBVIOUS
  <1>8. ASSUME NEW r \in Veh!Slots, NEW s \in Veh!Slots, Veh!Right(r, old), Told(r, s, e) PROVE Veh!Right(s, v)
    <2>1. e.action = "script" /\ e.seq = seq
      BY <1>2, <1>7
    <2>2. /\ (s.state = "none" <=> r.state = "none") /\ s.seq = r.seq
          /\ s.health = r.health /\ (r.state # "none" => s.place = seq)
      BY <1>8, <2>1 DEF Told
    <2> QED
      BY <1>5, <1>8, <2>2 DEF Veh!Right
  <1>9. Heeds(net.probe.server[id], v, e)
    BY <1>2, <1>8 DEF Heeds
  <1>10. Veh!Receives /\ Veh!Queue("script", id, v, "none", objective)
    BY <1>1, <1>3, <1>4 DEF Veh!OnScript
  <1> QED
    BY <1>5, <1>6, <1>7, <1>9, <1>10, VehiclesQueue

\* Vehicles!OnPutPlayer preserves the invariant.
LEMMA VehiclesPut ==
    ASSUME Veh!VehiclesInv, Veh!OnPutPlayer
    PROVE  Veh!VehiclesInv'
  <1>1. PICK id \in Ids : Veh!Queue("put", id, Veh!Server(id), "none", FALSE)
    BY DEF Veh!OnPutPlayer
  <1>2. PICK old : old = net.probe.server[id]
    OBVIOUS
  <1>3. old \in Veh!Vehicles /\ Veh!Server(id) = old
    BY <1>2, RpcFinds
  <1>4. "none" \in Veh!Models
    BY DEF Veh!Models
  <1>5. PICK e : e = [seq |-> net.probe.seq + 1, action |-> "put", id |-> id, model |-> "none", objective |-> FALSE]
    OBVIOUS
  <1>6. ASSUME NEW r \in Veh!Slots, NEW s \in Veh!Slots, Veh!Right(r, old), Told(r, s, e) PROVE Veh!Right(s, old)
    <2>1. e.action = "put"
      BY <1>5
    <2>2. (s.state = "none" <=> r.state = "none") /\ s.seq = r.seq /\ s.place = r.place /\ s.health = r.health
      BY <1>6, <2>1 DEF Told
    <2> QED
      BY <1>6, <2>2 DEF Veh!Right
  <1>7. Heeds(net.probe.server[id], old, e)
    BY <1>2, <1>6 DEF Heeds
  <1>8. Veh!Receives /\ Veh!Queue("put", id, old, "none", FALSE)
    BY <1>1, <1>3 DEF Veh!OnPutPlayer
  <1> QED
    BY <1>3, <1>4, <1>5, <1>7, <1>8, VehiclesQueue

\* A flush is not read from the ring.
LEMMA FlushKeepsMark ==
    ASSUME NEW o \in SaneTables, NEW due \in BOOLEAN
    PROVE  Veh!FlushPending(o, due).mark = o.mark
  <1>1. o \in Veh!Tables
    BY DEF SaneTables
  <1>2. ASSUME NEW id PROVE Veh!ApplyPending(o, id).mark = o.mark
    BY <1>1 DEF Veh!ApplyPending, Veh!Tables
  <1> QED
    BY <1>2 DEF Veh!FlushPending

\* No vehicle at all, for an empty pool.
LEMMA NoneIsCaught ==
    ASSUME NEW o, \A i \in Ids : o.slots[i].state = "none", NEW t, t = [i \in Ids |-> Veh!NoVehicle]
    PROVE  t \in [Ids -> Veh!Vehicles] /\ Veh!Caught(o, t)
  <1>1. PICK v : v = Veh!NoVehicle
    OBVIOUS
  <1>2. v.kind = "none" /\ v \in Veh!Vehicles
    BY <1>1 DEF Veh!NoVehicle, Veh!Vehicles, Veh!Models
  <1>3. t \in [Ids -> Veh!Vehicles]
    BY <1>1, <1>2
  <1>4. ASSUME NEW i \in Ids PROVE Veh!Right(o.slots[i], t[i])
    BY <1>1, <1>2 DEF Veh!Right
  <1> QED
    BY <1>3, <1>4 DEF Veh!Caught

\* Vehicles!OnRestart preserves the invariant.
LEMMA VehiclesRestart ==
    ASSUME Veh!VehiclesInv, Veh!OnRestart
    PROVE  Veh!VehiclesInv'
  <1>1. Veh!Fields /\ Veh!RingEnds /\ Veh!Counts /\ Veh!Sane(own.pool)
    BY DEF Veh!VehiclesInv
  <1>2. RingSize \in Nat \ {0} /\ MaxEvents \in Nat /\ MaxRestarts \in Nat
    BY PoolsAssumption
  <1>3. PICK t : t = [i \in Ids |-> Veh!NoVehicle]
    OBVIOUS
  <1>4. PICK q : q = [seq |-> 0, server |-> t, ring |-> << >>]
    OBVIOUS
  <1>5. net.restart \in Nat /\ net.rpcs \in Nat /\ own.handled \in Nat /\ own.pool \in Veh!Tables
    BY <1>1, VehiclesFields
  <1>6. PICK n \in Nat : n = net.restart + 1
    BY <1>5
  <1>7. net' = [net EXCEPT !.probe = q, !.restart = n] /\ pc' = "pump" /\ own' = own /\ scene' = scene
    BY <1>3, <1>4, <1>6 DEF Veh!OnRestart, Veh!ResetVehicles
  <1>8. net'.probe = q /\ net'.restart = n /\ net'.rpcs = net.rpcs
    BY <1>1, <1>7, VehiclesFields
  <1>9. t \in [Ids -> Veh!Vehicles]
    BY <1>3 DEF Veh!NoVehicle, Veh!Vehicles, Veh!Models
  <1>10. RingOk(q.ring, q.seq, RingSize, Veh!Events)
    BY <1>2, <1>4, RingEmpty
  <1>11. Veh!Fields'
    <2>1. q \in [seq : Nat, server : [Ids -> Veh!Vehicles], ring : Seq(Veh!Events)]
      BY <1>4, <1>9
    <2>2. net' \in [probe : [seq : Nat, server : [Ids -> Veh!Vehicles], ring : Seq(Veh!Events)],
                    restart : Nat, rpcs : Nat]
      BY <1>1, <1>7, <2>1, VehiclesFields
    <2> QED
      BY <1>1, <1>7, <2>2 DEF Veh!Fields
  <1>12. Veh!RingEnds'
    BY <1>8, <1>10 DEF Veh!RingEnds, RingOk
  <1>13. own.handled < n
    BY <1>1, <1>5, <1>6 DEF Veh!Counts
  <1>14. Veh!Counts'
    <2>1. net.restart < MaxRestarts /\ net.rpcs =< MaxEvents /\ own.pool.mark =< MaxEvents
      BY <1>1 DEF Veh!OnRestart, Veh!Counts
    <2>2. q.seq = 0 /\ n =< MaxRestarts /\ own.handled # n /\ own.handled =< n
      BY <1>2, <1>4, <1>5, <1>6, <1>13, <2>1
    <2> QED
      BY <1>5, <1>7, <1>8, <2>1, <2>2 DEF Veh!Counts
  <1>15. Veh!CatchesUp(net.probe, Veh!Pool)'
    <2>1. PICK k : k = Veh!ResetPool(own.pool)
      OBVIOUS
    <2>2. Veh!Pool' = k
      BY <1>5, <1>7, <1>8, <1>13, <2>1 DEF Veh!Pool, Veh!Restarted, Veh!ResetPool
    <2>3. own.pool \in SaneTables
      BY <1>1, <1>5 DEF SaneTables
    <2>4. k.mark = 0 /\ \A i \in Ids : k.slots[i].state = "none"
      BY <2>1, <2>3, PoolIsReset
    <2>5. Veh!Caught(k, t)
      BY <1>3, <2>4, NoneIsCaught
    <2>6. k.mark = q.seq /\ q.server = t
      BY <1>4, <2>4
    <2>7. Veh!CatchesUp(q, k)
      BY <1>10, <2>5, <2>6, TableIsCaughtUp
    <2> QED
      BY <1>8, <2>2, <2>7
  <1>16. Veh!Sane(own.pool)'
    BY <1>1, <1>7 DEF Veh!Sane, Veh!SlotOk, Veh!CarOk
  <1> QED
    BY <1>11, <1>12, <1>14, <1>15, <1>16 DEF Veh!VehiclesInv

\* A step that changes neither the adapter nor the bridge.
LEMMA VehiclesIdle ==
    ASSUME Veh!VehiclesInv, net' = net, own' = own, pc' = pc, scene' \in {"none", "spawned"}
    PROVE  Veh!VehiclesInv'
  <1>1. Veh!Fields'
    BY DEF Veh!VehiclesInv, Veh!Fields
  <1>2. Veh!RingEnds' /\ Veh!Counts'
    BY DEF Veh!VehiclesInv, Veh!RingEnds, Veh!Counts
  <1>3. Veh!Sane(own.pool)'
    BY DEF Veh!VehiclesInv, Veh!Sane, Veh!SlotOk, Veh!CarOk
  <1>4. ((own.gap => Veh!Restarted) => Veh!CatchesUp(net.probe, Veh!Pool))'
    <2>1. Veh!Pool' = Veh!Pool /\ (Veh!Restarted' <=> Veh!Restarted)
      BY DEF Veh!Pool, Veh!Restarted, Veh!ResetPool
    <2> QED
      BY <2>1 DEF Veh!VehiclesInv
  <1> QED
    BY <1>1, <1>2, <1>3, <1>4 DEF Veh!VehiclesInv

\* What a frame makes of the pool: the mark is the newest event, and what the ring
\* brought up to date stays so.
LEMMA PoolIsDrawn ==
    ASSUME NEW k \in SaneTables, NEW ring \in Seq(Veh!Events), NEW mark, NEW m \in Nat, NEW x,
           x = Veh!Replayed(ring, mark, k, Veh!ApplyEvent), NEW due \in BOOLEAN, NEW ped \in BOOLEAN,
           NEW near, near \in {{}, Ids}, NEW y, y = [x EXCEPT !.mark = m],
           NEW d, d = IF ped THEN Veh!UpdateMarkers(Veh!FlushPending(y, due), near) ELSE Veh!FlushPending(y, due)
    PROVE  d \in SaneTables /\ d.mark = m /\ AllAsGood(x, d)
  <1>1. x \in SaneTables
    BY TableReplayed
  <1>2. y \in SaneTables /\ y.slots = x.slots
    BY <1>1, MarkIsSet
  <1>3. y.mark = m
    BY <1>1 DEF SaneTables, Veh!Tables
  <1>4. PICK z : z = Veh!FlushPending(y, due)
    OBVIOUS
  <1>5. z \in SaneTables /\ AllAsGood(y, z) /\ z.mark = m
    BY <1>2, <1>3, <1>4, OneIsFlushed, FlushKeepsMark
  <1>6. d \in SaneTables /\ AllAsGood(z, d) /\ d.mark = m
    <2>1. CASE ped
      <3>1. d = Veh!UpdateMarkers(z, near)
        BY <1>4, <2>1
      <3> QED
        BY <1>5, <3>1, MarkersAreUpdated
    <2>2. CASE ~ped
      <3>1. d = z
        BY <1>4, <2>2
      <3> QED
        BY <1>5, <3>1 DEF AllAsGood, AsGood
    <2> QED
      BY <2>1, <2>2
  <1>7. ASSUME NEW i \in Ids PROVE AsGood(x.slots[i], d.slots[i])
    <2>1. AsGood(y.slots[i], z.slots[i]) /\ AsGood(z.slots[i], d.slots[i])
      BY <1>5, <1>6 DEF AllAsGood
    <2> QED
      BY <1>2, <2>1 DEF AsGood
  <1> QED
    BY <1>6, <1>7 DEF AllAsGood

\* Slots that are as good are as right.
LEMMA CaughtStays ==
    ASSUME NEW o, NEW d, AllAsGood(o, d), NEW server, Veh!Caught(o, server)
    PROVE  Veh!Caught(d, server)
  <1>1. ASSUME NEW i \in Ids PROVE Veh!Right(d.slots[i], server[i])
    <2>1. AsGood(o.slots[i], d.slots[i]) /\ Veh!Right(o.slots[i], server[i])
      BY DEF AllAsGood, Veh!Caught
    <2> QED
      BY <2>1 DEF AsGood, Veh!Right
  <1> QED
    BY <1>1 DEF Veh!Caught

\* Vehicles!Frame preserves the invariant.
LEMMA VehiclesFrame ==
    ASSUME Veh!VehiclesInv, Veh!Frame
    PROVE  Veh!VehiclesInv'
  <1>1. /\ Veh!Fields /\ Veh!RingEnds /\ Veh!Counts /\ Veh!Sane(own.pool)
        /\ (own.gap => Veh!Restarted) => Veh!CatchesUp(net.probe, Veh!Pool)
    BY DEF Veh!VehiclesInv
  <1>2. RingSize \in Nat \ {0} /\ MaxEvents \in Nat
    BY PoolsAssumption
  <1>3. PICK k, p : k = Veh!Pool /\ p = net.probe
    OBVIOUS
  <1>4. k \in SaneTables /\ k.mark \in Nat /\ k.mark =< p.seq
    BY <1>1, <1>3, PoolIs
  <1>5. RingOk(p.ring, p.seq, RingSize, Veh!Events)
    BY <1>1, <1>3, VehiclesRingOk
  <1>6. p.ring \in Seq(Veh!Events) /\ p.seq \in Nat
    BY <1>5 DEF RingOk
  <1>7. PICK due \in BOOLEAN, ped \in BOOLEAN, near \in {{}, Ids} :
          LET o == Veh!FlushPending(Veh!Replay(k), due)
          IN  own' = [pool |-> IF ped THEN Veh!UpdateMarkers(o, near) ELSE o, handled |-> net.restart,
                      gap |-> Veh!Gap(p.ring, k.mark) \/ (own.gap /\ ~Veh!Restarted)]
    BY <1>3, Zenon DEF Veh!Frame
  <1>8. net' = net /\ pc' = "drawn"
    BY DEF Veh!Frame
  <1>9. scene' \in {"none", "spawned"}
    BY <1>1 DEF Veh!Frame, Veh!Fields
  <1>10. PICK x : x = Veh!Replayed(p.ring, k.mark, k, Veh!ApplyEvent)
    OBVIOUS
  <1>11. PICK y : y = [x EXCEPT !.mark = p.seq]
    OBVIOUS
  <1>12. Veh!Replay(k) = y
    <2>1. Veh!MarkAfter(p.ring, k.mark) = p.seq
      BY <1>2, <1>4, <1>5, MarkAfterIs, VehiclesRing
    <2> QED
      BY <1>3, <1>10, <1>11, <2>1 DEF Veh!Replay
  <1>13. PICK d : d = IF ped THEN Veh!UpdateMarkers(Veh!FlushPending(y, due), near) ELSE Veh!FlushPending(y, due)
    OBVIOUS
  <1>14. d \in SaneTables /\ d.mark = p.seq /\ AllAsGood(x, d)
    <2>1. PICK ring, mark, m : ring = p.ring /\ mark = k.mark /\ m = p.seq
      OBVIOUS
    <2>2. ring \in Seq(Veh!Events) /\ m \in Nat /\ x = Veh!Replayed(ring, mark, k, Veh!ApplyEvent)
      BY <1>6, <1>10, <2>1
    <2>3. y = [x EXCEPT !.mark = m]
      BY <1>11, <2>1
    <2>4. near \in {{}, Ids} /\ due \in BOOLEAN /\ ped \in BOOLEAN
      BY <1>7
    <2>5. d \in SaneTables /\ d.mark = m /\ AllAsGood(x, d)
      BY <1>4, <1>13, <2>2, <2>3, <2>4, PoolIsDrawn
    <2> QED
      BY <2>1, <2>5
  <1>15. PICK g \in BOOLEAN : g <=> (Veh!Gap(p.ring, k.mark) \/ (own.gap /\ ~Veh!Restarted))
    OBVIOUS
  <1>16. own' = [pool |-> d, handled |-> net.restart,
                 gap |-> Veh!Gap(p.ring, k.mark) \/ (own.gap /\ ~Veh!Restarted)]
    BY <1>7, <1>12, <1>13
  <1>17. own'.pool = d /\ own'.handled = net.restart /\ (own'.gap <=> g)
    BY <1>15, <1>16, Zenon
  <1>18. d \in Veh!Tables /\ Veh!Sane(d)
    BY <1>14 DEF SaneTables
  <1>19. Veh!Fields'
    <2>1. (Veh!Gap(p.ring, k.mark) \/ (own.gap /\ ~Veh!Restarted)) \in BOOLEAN
      OBVIOUS
    <2>2. net.restart \in Nat
      BY <1>1, VehiclesFields
    <2>3. own' \in [pool : Veh!Tables, handled : Nat, gap : BOOLEAN]
      BY <1>16, <1>18, <2>1, <2>2
    <2> QED
      BY <1>1, <1>8, <1>9, <2>3 DEF Veh!Fields
  <1>20. Veh!RingEnds'
    BY <1>1, <1>8 DEF Veh!RingEnds
  <1>21. Veh!Counts'
    <2>1. net.restart \in Nat /\ net.rpcs \in Nat
      BY <1>1, VehiclesFields
    <2>2. p.seq =< MaxEvents
      BY <1>1, <1>2, <1>3, <1>6, <2>1 DEF Veh!Counts
    <2> QED
      BY <1>1, <1>3, <1>6, <1>8, <1>14, <1>17, <2>1, <2>2 DEF Veh!Counts
  <1>22. (own.gap => Veh!Restarted)' => Veh!CatchesUp(net.probe, Veh!Pool)'
    <2>1. Veh!Pool' = d /\ ~Veh!Restarted'
      BY <1>8, <1>17 DEF Veh!Pool, Veh!Restarted
    <2>2. SUFFICES ASSUME ~g PROVE Veh!CatchesUp(p, d)
      BY <1>3, <1>8, <1>17, <2>1
    <2>3. ~Veh!Gap(p.ring, k.mark) /\ (own.gap => Veh!Restarted)
      BY <1>15, <2>2
    <2>4. Veh!Caught(x, p.server)
      BY <1>1, <1>3, <1>10, <2>3 DEF Veh!CatchesUp
    <2>5. Veh!Caught(d, p.server)
      BY <1>14, <2>4, CaughtStays
    <2> QED
      BY <1>5, <1>14, <2>5, TableIsCaughtUp
  <1>23. Veh!Sane(own.pool)'
    <2>1. PICK o : o = own'.pool
      OBVIOUS
    <2>2. Veh!Sane(o)
      BY <1>17, <1>18, <2>1
    <2> QED
      BY <2>1, <2>2 DEF Veh!Sane, Veh!SlotOk, Veh!CarOk
  <1> QED
    BY <1>19, <1>20, <1>21, <1>22, <1>23 DEF Veh!VehiclesInv

\* The invariant holds at first.
LEMMA VehiclesInit ==
    ASSUME Veh!Init
    PROVE  Veh!VehiclesInv
  <1>1. RingSize \in Nat \ {0} /\ MaxEvents \in Nat /\ MaxRestarts \in Nat
    BY PoolsAssumption
  <1>2. PICK t, d : t = [i \in Ids |-> Veh!NoVehicle] /\ d = Veh!FreshPool
    OBVIOUS
  <1>3. PICK q : q = [seq |-> 0, server |-> t, ring |-> << >>]
    OBVIOUS
  <1>4. /\ net = [probe |-> q, restart |-> 0, rpcs |-> 0]
        /\ own = [pool |-> d, handled |-> 0, gap |-> FALSE]
        /\ scene = "none" /\ pc = "pump"
    BY <1>2, <1>3 DEF Veh!Init, Veh!ResetVehicles
  <1>5. PICK s, c, b : /\ s = [i \in Ids |-> Veh!NoSlot] /\ c = [x \in Handles |-> Veh!NoCar]
                       /\ b = [i \in Ids |-> 0]
    OBVIOUS
  <1>6. d = [mark |-> 0, active |-> 0, pending |-> 0, slots |-> s, seat |-> 0, cars |-> c, blips |-> b]
    BY <1>2, <1>5 DEF Veh!FreshPool
  <1>7. /\ \A i \in Ids : s[i] = Veh!NoSlot /\ b[i] = 0
        /\ \A x \in Handles : c[x] = Veh!NoCar
        /\ Veh!NoSlot.state = "none" /\ ~Veh!NoSlot.marker /\ Veh!NoSlot.marker = FALSE /\ Veh!NoCar.id = 0
    BY <1>5, NoSlotIs, NoCarIs DEF Veh!NoSlot
  <1>8. d \in Veh!Tables
    <2>1. s \in [Ids -> Veh!Slots]
      BY <1>5, NoSlotIs
    <2>2. c \in [Handles -> Veh!Cars]
      BY <1>5, NoCarIs
    <2>3. b \in [Ids -> Veh!Blips]
      BY <1>5 DEF Veh!Blips
    <2> QED
      BY <1>6, <2>1, <2>2, <2>3 DEF Veh!Tables
  <1>9. Veh!Sane(d)
    <2>1. ASSUME NEW i \in Ids PROVE Veh!SlotOk(d, i)
      BY <1>6, <1>7 DEF Veh!SlotOk
    <2>2. ASSUME NEW x \in Handles PROVE Veh!CarOk(d, x)
      BY <1>6, <1>7 DEF Veh!CarOk
    <2>3. d.active = Veh!Number(d.slots, "active") /\ d.pending = Veh!Number(d.slots, "pending")
      <3>1. \A i \in Ids : s[i].state # "active" /\ s[i].state # "pending"
        BY <1>7
      <3>2. Veh!Number(s, "active") = 0 /\ Veh!Number(s, "pending") = 0
        BY <3>1, NumberOfNone
      <3> QED
        BY <1>6, <3>2
    <2> QED
      BY <2>1, <2>2, <2>3 DEF Veh!Sane
  <1>10. t \in [Ids -> Veh!Vehicles] /\ Veh!Caught(d, t)
    <2>1. \A i \in Ids : d.slots[i].state = "none"
      BY <1>6, <1>7
    <2> QED
      BY <1>2, <2>1, NoneIsCaught
  <1>11. RingOk(q.ring, q.seq, RingSize, Veh!Events)
    BY <1>1, <1>3, RingEmpty
  <1>12. Veh!Fields
    <2>1. q \in [seq : Nat, server : [Ids -> Veh!Vehicles], ring : Seq(Veh!Events)]
      BY <1>3, <1>10
    <2> QED
      BY <1>4, <1>8, <2>1 DEF Veh!Fields
  <1>13. Veh!RingEnds
    BY <1>4, <1>11 DEF Veh!RingEnds, RingOk
  <1>14. Veh!Counts
    BY <1>1, <1>3, <1>4, <1>6 DEF Veh!Counts
  <1>15. Veh!CatchesUp(net.probe, Veh!Pool)
    <2>1. Veh!Pool = d
      BY <1>4 DEF Veh!Pool, Veh!Restarted
    <2>2. d.mark = q.seq /\ q.server = t
      BY <1>3, <1>6
    <2>3. Veh!CatchesUp(q, d)
      BY <1>10, <1>11, <2>2, TableIsCaughtUp
    <2> QED
      BY <1>4, <2>1, <2>3
  <1> QED
    BY <1>4, <1>9, <1>12, <1>13, <1>14, <1>15 DEF Veh!VehiclesInv

\* Every step of Vehicles preserves the invariant.
LEMMA VehiclesStep ==
    ASSUME Veh!VehiclesInv, Veh!Next
    PROVE  Veh!VehiclesInv'
  <1>1. CASE Veh!NextScene
    BY <1>1, VehiclesIdle DEF Veh!NextScene
  <1>2. \/ Veh!OnAdd
        \/ Veh!OnRemove
        \/ Veh!OnHealth
        \/ Veh!OnScript
        \/ Veh!OnPutPlayer
        \/ Veh!OnRestart
        \/ Veh!Frame
        \/ Veh!NextScene
    BY DEF Veh!Next
  <1> QED
    BY <1>1, <1>2, VehiclesAdd, VehiclesRemove, VehiclesHealth, VehiclesScript, VehiclesPut, VehiclesRestart,
       VehiclesFrame

\* The pool holds together whatever the ring has lost, and what the ring still holds
\* brings it up to date unless it has lost something: the invariant of the vehicles.
THEOREM VehiclesInvariant == Spec => []VehiclesInv
  <1>1. Init => VehiclesInv
    BY VehiclesInit DEF Init, VehiclesInv
  <1>2. VehiclesInv /\ [Next]_vars => VehiclesInv'
    <2> SUFFICES ASSUME VehiclesInv, [Next]_vars PROVE VehiclesInv'
      OBVIOUS
    <2>1. CASE part = "vehicles" /\ part' = "vehicles" /\ Veh!Next
      BY <2>1, VehiclesStep DEF VehiclesInv
    <2>2. CASE part' # "vehicles"
      BY <2>2 DEF VehiclesInv
    <2>3. CASE UNCHANGED vars
      <3>1. part' = part /\ net' = net /\ own' = own /\ scene' = scene /\ pc' = pc
        BY <2>3 DEF vars
      <3>2. ASSUME Veh!VehiclesInv PROVE Veh!VehiclesInv'
        <4>1. scene' \in {"none", "spawned"}
          BY <3>1, <3>2 DEF Veh!VehiclesInv, Veh!Fields
        <4> QED
          BY <3>1, <3>2, <4>1, VehiclesIdle
      <3> QED
        BY <3>1, <3>2 DEF VehiclesInv
    <2>4. part' = "vehicles" /\ Next => part = "vehicles" /\ Veh!Next
      BY DEF Next
    <2> QED
      BY <2>1, <2>2, <2>3, <2>4
  <1> QED
    BY <1>1, <1>2, PTL DEF Spec

\* Vehicles!VehiclesAgree: while the ring has lost nothing, after a frame the pool is the
\* server's vehicles; GTA has the cars and the radar markers of the pool, and no others.
THEOREM VehiclesAreAgreed == Spec => []VehiclesAgree
  <1>1. ASSUME Veh!VehiclesInv, pc = "drawn", ~own.gap
        PROVE  Veh!Sane(own.pool) /\ Veh!Caught(own.pool, net.probe.server)
    <2>1. /\ Veh!Fields /\ Veh!RingEnds /\ Veh!Counts /\ Veh!Sane(own.pool)
          /\ Veh!CatchesUp(net.probe, Veh!Pool)
      BY <1>1 DEF Veh!VehiclesInv
    <2>2. PICK p, o : p = net.probe /\ o = own.pool
      OBVIOUS
    <2>3. own.handled = net.restart /\ o.mark = p.seq
      BY <1>1, <2>1, <2>2 DEF Veh!Counts
    <2>4. Veh!CatchesUp(p, o)
      BY <2>1, <2>2, <2>3 DEF Veh!Pool, Veh!Restarted
    <2>5. RingOk(p.ring, p.seq, RingSize, Veh!Events)
      BY <2>1, <2>2, VehiclesRingOk
    <2>6. Veh!Caught(o, p.server)
      BY <2>3, <2>4, <2>5, TableIsCaughtUp
    <2> QED
      BY <2>1, <2>2, <2>6
  <1>2. ASSUME Veh!VehiclesInv, pc = "drawn", ~own.gap PROVE Veh!VehiclesAgree
    <2>1. PICK o : o = own.pool
      OBVIOUS
    <2>2. o \in SaneTables /\ Veh!Sane(o) /\ Veh!Caught(o, net.probe.server)
      BY <1>1, <1>2, <2>1, VehiclesFields DEF Veh!VehiclesInv, SaneTables
    <2>3. ASSUME NEW i \in Ids
          PROVE  /\ Veh!Server(i).kind = "none" => o.slots[i].state = "none"
                 /\ Veh!Server(i).kind = "good" =>
                      /\ o.slots[i].state # "none" /\ o.slots[i].seq = Veh!Server(i).seq
                      /\ o.slots[i].place = Veh!Server(i).place /\ o.slots[i].health = Veh!Server(i).health
      BY <2>2 DEF Veh!Caught, Veh!Right, Veh!Server
    <2>4. ASSUME NEW i \in Ids PROVE o.blips[i] = IF o.slots[i].marker THEN 1 ELSE 0
      BY <2>2 DEF Veh!Sane, Veh!SlotOk
    <2>5. ASSUME NEW x \in Handles, o.cars[x] = Veh!NoCar, NEW i \in Ids, o.slots[i].state = "active"
          PROVE  o.slots[i].car # x
      <3>1. o.cars[o.slots[i].car].id = i
        BY <2>2, <2>5, CarsAre
      <3>2. o.cars[x].id = 0
        BY <2>5, NoCarIs
      <3> QED
        BY <3>1, <3>2, IdsAre
    <2>6. ASSUME NEW x \in Handles, o.cars[x] # Veh!NoCar
          PROVE  LET i == o.cars[x].id
                 IN  /\ i \in Ids /\ o.slots[i].state = "active" /\ o.slots[i].car = x
                     /\ o.cars[x].place = o.slots[i].place /\ o.cars[x].health = o.slots[i].health
      <3>1. PICK i : i = o.cars[x].id
        OBVIOUS
      <3>2. Veh!CarOk(o, x)
        BY <2>2 DEF Veh!Sane
      <3>3. i # 0 /\ o.slots[i].state = "active" /\ o.slots[i].car = x
        BY <2>6, <3>1, <3>2 DEF Veh!CarOk
      <3>4. o.cars[x] \in Veh!Cars
        BY <2>2, TableIs DEF SaneTables
      <3>5. i \in Ids
        BY <3>1, <3>3, <3>4 DEF Veh!Cars
      <3>6. o.cars[x].place = o.slots[i].place /\ o.cars[x].health = o.slots[i].health
        BY <2>2, <3>3, <3>5, CarsAre
      <3> QED
        BY <3>1, <3>3, <3>5, <3>6
    <2>7. /\ o.active = Veh!Number(o.slots, "active")
          /\ o.pending = Veh!Number(o.slots, "pending")
      BY <2>2 DEF Veh!Sane
    <2>8. PICK N, A, B : /\ N = {i \in Ids : o.slots[i].state = "none"}
                         /\ A = {i \in Ids : o.slots[i].state = "active"}
                         /\ B = {i \in Ids : o.slots[i].state = "pending"}
      OBVIOUS
    <2>9. o.active = Veh!Cardinality(A) /\ o.pending = Veh!Cardinality(B)
      BY <2>7, <2>8 DEF Veh!Number
    <2>10. \A i \in Ids : /\ Veh!Server(i).kind = "none" => i \in N
                          /\ Veh!Server(i).kind = "good" =>
                               /\ i \notin N /\ o.slots[i].seq = Veh!Server(i).seq
                               /\ o.slots[i].place = Veh!Server(i).place /\ o.slots[i].health = Veh!Server(i).health
                          /\ o.blips[i] = IF o.slots[i].marker THEN 1 ELSE 0
      BY <2>3, <2>4, <2>8
    <2>11. ASSUME NEW x \in Handles
           PROVE  IF o.cars[x] = Veh!NoCar THEN \A i \in A : o.slots[i].car # x
                  ELSE LET i == o.cars[x].id
                       IN  /\ i \in A /\ o.slots[i].car = x
                           /\ o.cars[x].place = o.slots[i].place /\ o.cars[x].health = o.slots[i].health
      <3>1. CASE o.cars[x] = Veh!NoCar
        BY <2>5, <2>8, <3>1
      <3>2. CASE o.cars[x] # Veh!NoCar
        BY <2>6, <2>8, <3>2
      <3> QED
        BY <3>1, <3>2
    <2> QED
      <3>1. /\ N = {i \in Ids : own.pool.slots[i].state = "none"}
            /\ A = {i \in Ids : own.pool.slots[i].state = "active"}
            /\ B = {i \in Ids : own.pool.slots[i].state = "pending"}
        BY <2>1, <2>8
      <3>2. /\ own.pool.active = Veh!Cardinality({i \in Ids : own.pool.slots[i].state = "active"})
            /\ own.pool.pending = Veh!Cardinality({i \in Ids : own.pool.slots[i].state = "pending"})
        BY <2>1, <2>9, <3>1
      <3>3. ASSUME NEW i \in Ids
            PROVE  /\ Veh!Server(i).kind = "none" => i \in {j \in Ids : own.pool.slots[j].state = "none"}
                   /\ Veh!Server(i).kind = "good" =>
                        /\ i \notin {j \in Ids : own.pool.slots[j].state = "none"}
                        /\ own.pool.slots[i].seq = Veh!Server(i).seq
                        /\ own.pool.slots[i].place = Veh!Server(i).place
                        /\ own.pool.slots[i].health = Veh!Server(i).health
                   /\ own.pool.blips[i] = IF own.pool.slots[i].marker THEN 1 ELSE 0
        BY <2>1, <2>10, <3>1
      <3>4. ASSUME NEW x \in Handles
            PROVE  IF own.pool.cars[x] = Veh!NoCar
                   THEN \A i \in {j \in Ids : own.pool.slots[j].state = "active"} : own.pool.slots[i].car # x
                   ELSE LET i == own.pool.cars[x].id
                        IN  /\ i \in {j \in Ids : own.pool.slots[j].state = "active"} /\ own.pool.slots[i].car = x
                            /\ own.pool.cars[x].place = own.pool.slots[i].place
                            /\ own.pool.cars[x].health = own.pool.slots[i].health
        BY <2>1, <2>11, <3>1
      <3> QED
        BY <3>2, <3>3, <3>4 DEF Veh!VehiclesAgree
  <1>3. VehiclesInv => VehiclesAgree
    BY <1>2 DEF VehiclesInv, VehiclesAgree, Veh!VehiclesAgree
  <1> QED
    BY <1>3, VehiclesInvariant, PTL
-----------------------------------------------------------------------------
(* What the server hangs on the client's world: the pools of Decor. *)

-----------------------------------------------------------------------------
(* The other players. *)

\* A bit, as a number.
Bit(b) == IF b THEN 1 ELSE 0

\* The numbers of the ones with a property, after one has changed.
LEMMA OnesAre ==
    ASSUME NEW A, A \subseteq Ids, NEW B, B \subseteq Ids, NEW id, \A j \in Ids : j # id => (j \in A <=> j \in B)
    PROVE  /\ Cardinality(A) \in Nat /\ Cardinality(B) \in Nat
           /\ Cardinality(B) = Cardinality(A) + Bit(id \in B) - Bit(id \in A)
  <1>1. A \ {id} = B \ {id}
    OBVIOUS
  <1>3. IsFiniteSet(Ids)
    BY IdsAre
  <1>2. /\ Cardinality(A) \in Nat /\ Cardinality(B) \in Nat
        /\ Cardinality(B) = Cardinality(A) + (IF id \in B THEN 1 ELSE 0) - (IF id \in A THEN 1 ELSE 0)
    BY <1>1, <1>3, CountChanges
  <1> QED
    BY <1>2 DEF Bit

SanePlayers == {o \in Ply!Pools : Ply!Sane(o)}

\* The fields of a pool and of a slot.
LEMMA PlayerFields ==
    ASSUME NEW o \in Ply!Pools
    PROVE  /\ o.marks \in [Ply!Rings -> Nat] /\ o.listed \subseteq Ids /\ o.slots \in [Ids -> Ply!Slots]
           /\ o.active \in Int /\ o.pending \in Int /\ o.peds \in [Handles -> Ids \cup {0}]
           /\ o.blips \in [Ids -> {0, 1}]
  BY DEF Ply!Pools, Ply!Blips

\* The fields of a slot.
LEMMA PlayerSlot ==
    ASSUME NEW s \in Ply!Slots
    PROVE  /\ s.state \in {"none", "pending", "active"} /\ s.seq \in Nat /\ s.boot \in BOOLEAN
           /\ s.visible \in BOOLEAN /\ s.skin \in BOOLEAN /\ s.at \in Nat /\ s.color \in Nat
           /\ s.marker \in BOOLEAN /\ s.ped \in Handles \cup {0}
  BY DEF Ply!Slots

\* A pool whose slot id is s, and what goes with it.
PlayerPut(o, id, s, a, n, g) ==
    [marks |-> o.marks, listed |-> o.listed, slots |-> [o.slots EXCEPT ![id] = s], active |-> a, pending |-> n,
     peds |-> g, blips |-> [o.blips EXCEPT ![id] = Bit(s.marker)]]

Unmarked(s) == s.state # "active" => s.marker = FALSE

PedOf(s) == IF s.state = "active" THEN s.ped ELSE 0

\* The ped of s, and no other, is of the player id.
PedFits(o, g, id, s) ==
    /\ s.state = "active" => s.ped \in Handles /\ o.peds[s.ped] \in {0, id}
    /\ Unmarked(s)
    /\ \A x \in Handles : g[x] = IF x = PedOf(s) THEN id ELSE IF o.peds[x] = id THEN 0 ELSE o.peds[x]

OneIn(s, state) == IF s.state = state THEN 1 ELSE 0

NumbersFit(o, id, s, a, n) ==
    /\ a = o.active + OneIn(s, "active") - OneIn(o.slots[id], "active")
    /\ n = o.pending + OneIn(s, "pending") - OneIn(o.slots[id], "pending")

PlayerOthers(o, d, id) ==
    d.marks = o.marks /\ d.listed \subseteq o.listed /\ \A j \in Ids : j # id => d.slots[j] = o.slots[j]

\* A ped is of the player whose slot names it.
LEMMA PedsAre ==
    ASSUME NEW o \in SanePlayers, NEW id \in Ids, NEW x \in Handles
    PROVE  o.peds[x] = id <=> (o.slots[id].state = "active" /\ o.slots[id].ped = x)
  <1>1. o \in Ply!Pools /\ Ply!Sane(o)
    BY DEF SanePlayers
  <1>2. Ply!SlotOk(o, id) /\ Ply!PedOk(o, x)
    BY <1>1 DEF Ply!Sane
  <1>3. id # 0 /\ x # 0
    BY IdsAre
  <1>4. o.slots[id].state = "active" => o.peds[o.slots[id].ped] = id
    BY <1>2 DEF Ply!SlotOk
  <1>5. o.peds[x] # 0 => o.slots[o.peds[x]].state = "active" /\ o.slots[o.peds[x]].ped = x
    BY <1>2 DEF Ply!PedOk
  <1> QED
    BY <1>3, <1>4, <1>5

\* RemotePlayers!Number after one slot has changed.
LEMMA PlayersNumber ==
    ASSUME NEW r, NEW w, NEW id \in Ids, \A j \in Ids : j # id => w[j] = r[j], NEW state
    PROVE  Ply!Number(w, state) = Ply!Number(r, state) + OneIn(w[id], state) - OneIn(r[id], state)
  <1>1. PICK A, B : A = {j \in Ids : r[j].state = state} /\ B = {j \in Ids : w[j].state = state}
    OBVIOUS
  <1>2. /\ A \subseteq Ids /\ B \subseteq Ids /\ (id \in A <=> r[id].state = state) /\ (id \in B <=> w[id].state = state)
        /\ \A j \in Ids : j # id => (j \in A <=> j \in B)
    BY <1>1, Zenon
  <1>3. Cardinality(B) = Cardinality(A) + Bit(id \in B) - Bit(id \in A)
    BY <1>2, OnesAre
  <1>4. Bit(id \in B) = OneIn(w[id], state) /\ Bit(id \in A) = OneIn(r[id], state)
    BY <1>2 DEF Bit, OneIn
  <1>5. Ply!Number(w, state) = Cardinality(B) /\ Ply!Number(r, state) = Cardinality(A)
    BY <1>1 DEF Ply!Number, Ply!Cardinality, Cardinality
  <1> QED
    BY <1>3, <1>4, <1>5

\* The slot id of a sane pool becomes s.
LEMMA PlayerIsPut ==
    ASSUME NEW o \in SanePlayers, NEW id \in Ids, NEW s \in Ply!Slots, NEW a \in Int, NEW n \in Int,
           NEW g \in [Handles -> Ids \cup {0}], PedFits(o, g, id, s), NumbersFit(o, id, s, a, n),
           NEW d, d = PlayerPut(o, id, s, a, n, g)
    PROVE  d \in SanePlayers /\ d.slots[id] = s /\ PlayerOthers(o, d, id)
  <1>1. o \in Ply!Pools /\ Ply!Sane(o)
    BY DEF SanePlayers
  <1>2. PICK w, b : w = [o.slots EXCEPT ![id] = s] /\ b = [o.blips EXCEPT ![id] = Bit(s.marker)]
    OBVIOUS
  <1>3. w \in [Ids -> Ply!Slots] /\ w[id] = s /\ \A j \in Ids : j # id => w[j] = o.slots[j]
    <2>1. o.slots \in [Ids -> Ply!Slots]
      BY <1>1, PlayerFields
    <2> QED
      BY <1>2, <2>1
  <1>4. b \in [Ids -> {0, 1}] /\ b[id] = Bit(s.marker) /\ \A j \in Ids : j # id => b[j] = o.blips[j]
    <2>1. o.blips \in [Ids -> {0, 1}] /\ Bit(s.marker) \in {0, 1}
      BY <1>1, PlayerFields DEF Bit
    <2> QED
      BY <1>2, <2>1
  <1>5. d = [marks |-> o.marks, listed |-> o.listed, slots |-> w, active |-> a, pending |-> n, peds |-> g, blips |-> b]
    BY <1>2 DEF PlayerPut
  <1>6. d \in Ply!Pools
    <2>1. o.marks \in [Ply!Rings -> Nat] /\ o.listed \subseteq Ids
      BY <1>1, PlayerFields
    <2> QED
      BY <1>3, <1>4, <1>5, <2>1 DEF Ply!Pools, Ply!Blips
  <1>7. /\ d.slots = w /\ d.peds = g /\ d.blips = b /\ d.active = a /\ d.pending = n /\ d.marks = o.marks
        /\ d.listed = o.listed
    BY <1>5
  <1>8. id # 0 /\ 0 \notin Handles
    BY IdsAre
  <1>9. ASSUME NEW i \in Ids PROVE Ply!SlotOk(d, i)
    <2>1. CASE i = id
      <3>1. s.state = "active" => g[s.ped] = id /\ s.ped \in Handles
        BY DEF PedFits, PedOf
      <3>2. b[id] = (IF s.marker THEN 1 ELSE 0) /\ (s.state # "active" => ~s.marker)
        BY <1>4 DEF Bit, PedFits, Unmarked
      <3> QED
        BY <1>3, <1>7, <2>1, <3>1, <3>2 DEF Ply!SlotOk
    <2>2. CASE i # id
      <3>1. PICK u : u = o.slots[i]
        OBVIOUS
      <3>2. w[i] = u /\ b[i] = o.blips[i] /\ Ply!SlotOk(o, i) /\ u \in Ply!Slots
        BY <1>1, <1>3, <1>4, <2>2, <3>1, PlayerFields DEF Ply!Sane
      <3>3. u.state = "active" => g[u.ped] = i /\ u.ped \in Handles
        <4> SUFFICES ASSUME u.state = "active" PROVE g[u.ped] = i /\ u.ped \in Handles
          OBVIOUS
        <4>1. u.ped \in Handles /\ o.peds[u.ped] = i
          BY <3>1, <3>2 DEF Ply!SlotOk
        <4>2. u.ped # PedOf(s)
          <5> SUFFICES ASSUME u.ped = PedOf(s) PROVE FALSE
            OBVIOUS
          <5>1. s.state = "active" /\ o.peds[u.ped] \in {0, id}
            BY <1>8, <4>1 DEF PedFits, PedOf
          <5>2. i # 0
            BY IdsAre
          <5> QED
            BY <2>2, <4>1, <5>1, <5>2
        <4> QED
          BY <2>2, <4>1, <4>2 DEF PedFits
      <3> QED
        BY <1>7, <3>1, <3>2, <3>3 DEF Ply!SlotOk
    <2> QED
      BY <2>1, <2>2
  <1>10. ASSUME NEW x \in Handles PROVE Ply!PedOk(d, x)
    <2>1. CASE x = PedOf(s)
      <3>1. g[x] = id /\ s.state = "active" /\ s.ped = x
        BY <1>8, <2>1 DEF PedFits, PedOf
      <3> QED
        BY <1>3, <1>7, <3>1 DEF Ply!PedOk
    <2>2. CASE x # PedOf(s) /\ o.peds[x] = id
      <3>1. g[x] = 0
        BY <2>2 DEF PedFits
      <3> QED
        BY <1>7, <3>1 DEF Ply!PedOk
    <2>3. CASE x # PedOf(s) /\ o.peds[x] # id
      <3>1. PICK j : j = o.peds[x]
        OBVIOUS
      <3>2. g[x] = j /\ j \in Ids \cup {0} /\ j # id
        BY <1>1, <2>3, <3>1, PlayerFields DEF PedFits
      <3>3. j # 0 => o.slots[j].state = "active" /\ o.slots[j].ped = x
        BY <1>1, <3>1 DEF Ply!Sane, Ply!PedOk
      <3> QED
        BY <1>3, <1>7, <3>2, <3>3 DEF Ply!PedOk
    <2> QED
      BY <2>1, <2>2, <2>3
  <1>11. a = Ply!Number(w, "active") /\ n = Ply!Number(w, "pending")
    <2>1. o.active = Ply!Number(o.slots, "active") /\ o.pending = Ply!Number(o.slots, "pending")
      BY <1>1 DEF Ply!Sane
    <2>2. PICK r : r = o.slots
      OBVIOUS
    <2>3. \A j \in Ids : j # id => w[j] = r[j]
      BY <1>3, <2>2
    <2>4. Ply!Number(w, "active") = Ply!Number(r, "active") + OneIn(w[id], "active") - OneIn(r[id], "active")
      BY <2>3, PlayersNumber
    <2>5. Ply!Number(w, "pending") = Ply!Number(r, "pending") + OneIn(w[id], "pending") - OneIn(r[id], "pending")
      BY <2>3, PlayersNumber
    <2> QED
      BY <1>3, <2>1, <2>2, <2>4, <2>5 DEF NumbersFit
  <1>12. Ply!Sane(d)
    BY <1>7, <1>9, <1>10, <1>11 DEF Ply!Sane
  <1> QED
    BY <1>3, <1>6, <1>7, <1>12 DEF SanePlayers, PlayerOthers

\* The slot id of d is s; the other slots are those of o.
PlayerIs(o, d, id, s) == d \in SanePlayers /\ d.slots[id] = s /\ PlayerOthers(o, d, id)

PlayerSet(o, id, s, a, n, g) == [o EXCEPT !.peds = g, !.active = a, !.pending = n, !.slots[id] = s]
PlayerCut(o, id, s, a, n, g, c) ==
    [o EXCEPT !.slots[id] = s, !.blips[id] = c, !.peds = g, !.active = a, !.pending = n]

\* What a sane pool has of a player.
LEMMA PlayerHas ==
    ASSUME NEW o \in SanePlayers, NEW id \in Ids, NEW s, s = o.slots[id]
    PROVE  /\ o \in Ply!Pools /\ s \in Ply!Slots /\ o.blips[id] = Bit(s.marker) /\ o.active \in Int /\ o.pending \in Int
           /\ o.peds \in [Handles -> Ids \cup {0}]
           /\ Unmarked(s)
           /\ s.state = "active" => s.ped \in Handles /\ o.peds[s.ped] = id
  <1>1. o \in Ply!Pools /\ Ply!Sane(o)
    BY DEF SanePlayers
  <1>2. Ply!SlotOk(o, id) /\ s \in Ply!Slots
    BY <1>1, PlayerFields DEF Ply!Sane
  <1>3. s.marker \in BOOLEAN
    BY <1>2, PlayerSlot
  <1> QED
    BY <1>1, <1>2, <1>3, PlayerFields DEF Ply!SlotOk, Bit, Unmarked

\* The two ways to write a pool with another slot.
LEMMA PlayerPuts ==
    ASSUME NEW o \in SanePlayers, NEW id \in Ids, NEW s \in Ply!Slots, NEW a, NEW n, NEW g
    PROVE  /\ \A c : c = Bit(s.marker) => PlayerCut(o, id, s, a, n, g, c) = PlayerPut(o, id, s, a, n, g)
           /\ s.marker = o.slots[id].marker => PlayerSet(o, id, s, a, n, g) = PlayerPut(o, id, s, a, n, g)
  <1>1. o \in Ply!Pools /\ o.blips[id] = Bit(o.slots[id].marker) /\ o.blips \in [Ids -> {0, 1}]
    <2>1. PICK u : u = o.slots[id]
      OBVIOUS
    <2>2. o \in Ply!Pools /\ o.blips[id] = Bit(u.marker)
      BY <2>1, PlayerHas
    <2> QED
      BY <2>1, <2>2, PlayerFields
  <1>2. PICK w : w = [o.slots EXCEPT ![id] = s]
    OBVIOUS
  <1>3. ASSUME NEW c, c = Bit(s.marker)
        PROVE  PlayerCut(o, id, s, a, n, g, c) = PlayerPut(o, id, s, a, n, g)
    <2>1. PICK b, x, y : /\ b = [o.blips EXCEPT ![id] = c] /\ x = [o EXCEPT !.slots = w, !.blips = b]
                         /\ y = [x EXCEPT !.peds = g, !.active = a]
      OBVIOUS
    <2>2. x = [marks |-> o.marks, listed |-> o.listed, slots |-> w, active |-> o.active, pending |-> o.pending,
               peds |-> o.peds, blips |-> b]
      BY <1>1, <2>1 DEF Ply!Pools
    <2>3. y = [marks |-> o.marks, listed |-> o.listed, slots |-> w, active |-> a, pending |-> o.pending,
               peds |-> g, blips |-> b]
      BY <2>1, <2>2
    <2>4. PlayerCut(o, id, s, a, n, g, c) = [y EXCEPT !.pending = n]
      BY <1>2, <2>1 DEF PlayerCut
    <2>5. PlayerCut(o, id, s, a, n, g, c) =
              [marks |-> o.marks, listed |-> o.listed, slots |-> w, active |-> a, pending |-> n, peds |-> g, blips |-> b]
      BY <2>3, <2>4
    <2> QED
      BY <1>2, <1>3, <2>1, <2>5 DEF PlayerPut
  <1>4. ASSUME s.marker = o.slots[id].marker PROVE PlayerSet(o, id, s, a, n, g) = PlayerPut(o, id, s, a, n, g)
    <2>1. PICK x, y : x = [o EXCEPT !.peds = g, !.active = a] /\ y = [x EXCEPT !.pending = n]
      OBVIOUS
    <2>2. x = [marks |-> o.marks, listed |-> o.listed, slots |-> o.slots, active |-> a, pending |-> o.pending,
               peds |-> g, blips |-> o.blips]
      BY <1>1, <2>1 DEF Ply!Pools
    <2>3. y = [marks |-> o.marks, listed |-> o.listed, slots |-> o.slots, active |-> a, pending |-> n,
               peds |-> g, blips |-> o.blips]
      BY <2>1, <2>2
    <2>4. PlayerSet(o, id, s, a, n, g) = [y EXCEPT !.slots = w]
      BY <1>2, <2>1, <2>3 DEF PlayerSet
    <2>5. PlayerSet(o, id, s, a, n, g) =
              [marks |-> o.marks, listed |-> o.listed, slots |-> w, active |-> a, pending |-> n, peds |-> g,
               blips |-> o.blips]
      BY <2>3, <2>4
    <2>6. [o.blips EXCEPT ![id] = Bit(s.marker)] = o.blips
      BY <1>1, <1>4
    <2> QED
      BY <1>2, <2>5, <2>6 DEF PlayerPut
  <1> QED
    BY <1>3, <1>4

\* The peds when the slot id has none any more.
LEMMA PedIsDeleted ==
    ASSUME NEW o \in SanePlayers, NEW id \in Ids, NEW u, u = o.slots[id], NEW s, s.state # "active", s.marker = FALSE,
           NEW g, g = IF u.state = "active" THEN [o.peds EXCEPT ![u.ped] = 0] ELSE o.peds
    PROVE  g \in [Handles -> Ids \cup {0}] /\ PedFits(o, g, id, s)
  <1>1. o.peds \in [Handles -> Ids \cup {0}] /\ (u.state = "active" => u.ped \in Handles)
    BY PlayerHas
  <1>2. g \in [Handles -> Ids \cup {0}]
    BY <1>1
  <1>3. ASSUME NEW x \in Handles PROVE g[x] = IF o.peds[x] = id THEN 0 ELSE o.peds[x]
    <2>1. o.peds[x] = id <=> (u.state = "active" /\ u.ped = x)
      BY PedsAre
    <2> QED
      BY <1>1, <2>1
  <1>4. PedOf(s) = 0 /\ \A x \in Handles : x # 0
    BY IdsAre DEF PedOf
  <1> QED
    BY <1>2, <1>3, <1>4 DEF PedFits, Unmarked

\* An empty slot.
LEMMA NoPlayer == Ply!NoSlot \in Ply!Slots /\ Ply!NoSlot.state = "none" /\ Ply!NoSlot.marker = FALSE
  BY DEF Ply!NoSlot, Ply!Slots

\* RemotePlayers!DestroySlot.
LEMMA PlayerIsDestroyed ==
    ASSUME NEW o \in SanePlayers, NEW id \in Ids, NEW d, d = Ply!DestroySlot(o, id)
    PROVE  PlayerIs(o, d, id, Ply!NoSlot)
  <1>1. PICK u, s : u = o.slots[id] /\ s = Ply!NoSlot
    OBVIOUS
  <1>2. /\ o.active \in Int /\ o.pending \in Int /\ u \in Ply!Slots /\ u.marker \in BOOLEAN /\ o.blips[id] = Bit(u.marker)
        /\ s \in Ply!Slots /\ s.state = "none" /\ s.marker = FALSE
    BY <1>1, PlayerHas, PlayerSlot, NoPlayer
  <1>3. PICK g, a, n, c : /\ g = IF u.state = "active" THEN [o.peds EXCEPT ![u.ped] = 0] ELSE o.peds
                          /\ a = IF u.state = "active" THEN o.active - 1 ELSE o.active
                          /\ n = IF u.state = "pending" THEN o.pending - 1 ELSE o.pending
                          /\ c = IF u.marker THEN o.blips[id] - 1 ELSE o.blips[id]
    OBVIOUS
  <1>4. d = PlayerCut(o, id, s, a, n, g, c)
    BY <1>1, <1>3 DEF Ply!DestroySlot, PlayerCut
  <1>5. c = Bit(s.marker)
    BY <1>2, <1>3 DEF Bit
  <1>6. d = PlayerPut(o, id, s, a, n, g)
    BY <1>2, <1>4, <1>5, PlayerPuts
  <1>7. g \in [Handles -> Ids \cup {0}] /\ PedFits(o, g, id, s)
    BY <1>1, <1>2, <1>3, PedIsDeleted
  <1>8. NumbersFit(o, id, s, a, n) /\ a \in Int /\ n \in Int
    BY <1>1, <1>2, <1>3 DEF NumbersFit, OneIn
  <1> QED
    BY <1>1, <1>2, <1>6, <1>7, <1>8, PlayerIsPut DEF PlayerIs

PlayerSlotSet(o, id, s) == [o EXCEPT !.slots[id] = s]
PendingPut(o, id, s, n) == [o EXCEPT !.pending = n, !.slots[id] = s]
SameState(u, s) == s.state = u.state /\ s.ped = u.ped /\ s.marker = u.marker
Begins(o, u, s, n) ==
    /\ u.state # "active" /\ s.state # "active" /\ s.marker = FALSE
    /\ n = o.pending + OneIn(s, "pending") - OneIn(u, "pending")

\* A pool some fields of which stay.
LEMMA PlayerKeeps ==
    ASSUME NEW o \in SanePlayers, NEW id, NEW s, NEW n
    PROVE  /\ PlayerSlotSet(o, id, s) = PlayerSet(o, id, s, o.active, o.pending, o.peds)
           /\ PendingPut(o, id, s, n) = PlayerSet(o, id, s, o.active, n, o.peds)
  <1>1. o \in Ply!Pools
    BY DEF SanePlayers
  <1>2. PICK w, x : w = [o.slots EXCEPT ![id] = s] /\ x = [o EXCEPT !.peds = o.peds, !.active = o.active]
    OBVIOUS
  <1>3. x = o
    BY <1>1, <1>2 DEF Ply!Pools
  <1>4. [o EXCEPT !.pending = o.pending] = o
    BY <1>1 DEF Ply!Pools
  <1>5. \A m : PlayerSet(o, id, s, o.active, m, o.peds) = [x EXCEPT !.pending = m, !.slots[id] = s]
    BY <1>2 DEF PlayerSet
  <1>6. [o EXCEPT !.pending = o.pending, !.slots[id] = s] = [o EXCEPT !.slots[id] = s]
    BY <1>1, <1>4 DEF Ply!Pools
  <1> QED
    BY <1>3, <1>5, <1>6 DEF PlayerSlotSet, PendingPut

\* The peds and the numbers when a slot keeps its state.
LEMMA NothingMoves ==
    ASSUME NEW o \in SanePlayers, NEW id \in Ids, NEW u, u = o.slots[id], NEW s,
           SameState(u, s)
    PROVE  PedFits(o, o.peds, id, s) /\ NumbersFit(o, id, s, o.active, o.pending)
  <1>1. /\ o.active \in Int /\ o.pending \in Int /\ (u.state = "active" => u.ped \in Handles /\ o.peds[u.ped] = id)
        /\ Unmarked(u)
    BY PlayerHas
  <1>2. ASSUME NEW x \in Handles PROVE o.peds[x] = IF x = PedOf(s) THEN id ELSE IF o.peds[x] = id THEN 0 ELSE o.peds[x]
    <2>1. o.peds[x] = id <=> (u.state = "active" /\ u.ped = x)
      BY PedsAre
    <2>2. x # 0
      BY IdsAre
    <2> QED
      BY <2>1, <2>2 DEF PedOf, SameState
  <1>3. PedFits(o, o.peds, id, s)
    BY <1>1, <1>2 DEF PedFits, Unmarked, SameState
  <1>4. OneIn(s, "active") = OneIn(u, "active") /\ OneIn(s, "pending") = OneIn(u, "pending")
    BY DEF OneIn, SameState
  <1>5. OneIn(u, "active") \in {0, 1} /\ OneIn(u, "pending") \in {0, 1}
    BY DEF OneIn
  <1>6. NumbersFit(o, id, s, o.active, o.pending)
    BY <1>1, <1>4, <1>5 DEF NumbersFit
  <1> QED
    BY <1>3, <1>6

\* A slot that keeps its state, ped and marker.
LEMMA PlayerIsEdited ==
    ASSUME NEW o \in SanePlayers, NEW id \in Ids, NEW u, u = o.slots[id], NEW s \in Ply!Slots,
           SameState(u, s), NEW d, d = PlayerSlotSet(o, id, s)
    PROVE  PlayerIs(o, d, id, s)
  <1>1. PedFits(o, o.peds, id, s) /\ NumbersFit(o, id, s, o.active, o.pending)
    BY NothingMoves
  <1>2. d = PlayerPut(o, id, s, o.active, o.pending, o.peds)
    <2>1. d = PlayerSet(o, id, s, o.active, o.pending, o.peds)
      BY PlayerKeeps
    <2>2. s.marker = o.slots[id].marker
      BY DEF SameState
    <2> QED
      BY <2>1, <2>2, PlayerPuts
  <1>3. o.active \in Int /\ o.pending \in Int /\ o.peds \in [Handles -> Ids \cup {0}]
    BY PlayerHas
  <1>4. PICK a, m, g : a = o.active /\ m = o.pending /\ g = o.peds
    OBVIOUS
  <1>5. PedFits(o, g, id, s) /\ NumbersFit(o, id, s, a, m) /\ d = PlayerPut(o, id, s, a, m, g)
    BY <1>1, <1>2, <1>4
  <1>6. a \in Int /\ m \in Int /\ g \in [Handles -> Ids \cup {0}]
    BY <1>3, <1>4
  <1> QED
    BY <1>5, <1>6, PlayerIsPut DEF PlayerIs

\* A slot that begins to wait for a ped, or is given up.
LEMMA PlayerWaits ==
    ASSUME NEW o \in SanePlayers, NEW id \in Ids, NEW u, u = o.slots[id], NEW s \in Ply!Slots,
           NEW n, Begins(o, u, s, n), NEW d, d = PendingPut(o, id, s, n)
    PROVE  PlayerIs(o, d, id, s)
  <1>1. /\ o.active \in Int /\ o.pending \in Int /\ o.peds \in [Handles -> Ids \cup {0}] /\ u.marker = FALSE
    <2>1. o.active \in Int /\ o.pending \in Int /\ o.peds \in [Handles -> Ids \cup {0}] /\ Unmarked(u)
      BY PlayerHas
    <2> QED
      BY <2>1 DEF Unmarked, Begins
  <1>2. PedFits(o, o.peds, id, s)
    <2>1. PICK g : g = IF u.state = "active" THEN [o.peds EXCEPT ![u.ped] = 0] ELSE o.peds
      OBVIOUS
    <2>2. g = o.peds /\ s.state # "active" /\ s.marker = FALSE
      BY <2>1 DEF Begins
    <2>3. PedFits(o, g, id, s)
      BY <2>1, <2>2, PedIsDeleted
    <2> QED
      BY <2>2, <2>3
  <1>3. OneIn(s, "active") = 0 /\ OneIn(u, "active") = 0 /\ OneIn(s, "pending") \in {0, 1} /\ OneIn(u, "pending") \in {0, 1}
    BY DEF OneIn, Begins
  <1>4. NumbersFit(o, id, s, o.active, n) /\ n \in Int
    BY <1>1, <1>3 DEF NumbersFit, Begins
  <1>5. d = PlayerPut(o, id, s, o.active, n, o.peds)
    <2>1. d = PlayerSet(o, id, s, o.active, n, o.peds)
      BY PlayerKeeps
    <2>2. s.marker = o.slots[id].marker
      BY <1>1 DEF Begins
    <2> QED
      BY <2>1, <2>2, PlayerPuts
  <1>6. PICK a, m, g : a = o.active /\ m = n /\ g = o.peds
    OBVIOUS
  <1>7. PedFits(o, g, id, s) /\ NumbersFit(o, id, s, a, m) /\ d = PlayerPut(o, id, s, a, m, g)
    BY <1>2, <1>4, <1>5, <1>6
  <1>8. a \in Int /\ m \in Int /\ g \in [Handles -> Ids \cup {0}]
    BY <1>1, <1>4, <1>6
  <1> QED
    BY <1>7, <1>8, PlayerIsPut DEF PlayerIs

-----------------------------------------------------------------------------
(* What an event makes of a slot, and of the view of it. *)

\* The slot is as the view says, if it says anything; there is a ghost if the player is listed.
Fits(s, v, listed) ==
    /\ v.kind \in {"absent", "here"} => Ply!Seen(s).kind = v.kind
    /\ v.kind = "here" => Ply!Seen(s) = v
    /\ v.kind = "ghost" /\ listed => Ply!Seen(s).kind = "ghost" /\ Ply!Seen(s).at = v.at
FitsIn(o, i, v) == Fits(o.slots[i], v, i \in o.listed)

\* A slot that has only been tried.
Lasts(u, s) ==
    /\ s \in Ply!Slots
    /\ Ply!Seen(s) = Ply!Seen(u) \/ (Ply!Seen(u).kind = "unknown" /\ Ply!Seen(s).kind = "absent")

\* What it has been tried for stays right.
LEMMA TriedFits ==
    ASSUME NEW u, NEW s, Lasts(u, s), NEW v, NEW l, Fits(u, v, l) PROVE Fits(s, v, l)
  BY DEF Lasts, Fits

\* A ped is free for a slot that has none.
LEMMA PedIsFree ==
    ASSUME NEW o \in SanePlayers, NEW id \in Ids, o.slots[id].state # "active"
    PROVE  \E h \in Handles : o.peds[h] = 0
  <1>1. PICK A, f : A = {i \in Ids : o.slots[i].state = "active"} /\ f = [i \in Ids |-> o.slots[i].ped]
    OBVIOUS
  <1>2. A \subseteq Ids /\ A # Ids /\ \A i \in A : f[i] = o.slots[i].ped
    BY <1>1
  <1>3. IsFiniteSet(Ids) /\ IsFiniteSet(Handles) /\ Cardinality(Ids) =< Cardinality(Handles)
    BY IdsAre
  <1>4. PICK h \in Handles : \A i \in A : f[i] # h
    BY <1>2, <1>3, OneIsFree
  <1>5. o \in Ply!Pools /\ o.peds[h] \in Ids \cup {0} /\ Ply!PedOk(o, h)
    BY PlayerFields DEF SanePlayers, Ply!Sane
  <1>6. o.peds[h] = 0
    <2> SUFFICES ASSUME o.peds[h] # 0 PROVE FALSE
      OBVIOUS
    <2>1. PICK j : j = o.peds[h]
      OBVIOUS
    <2>2. j \in Ids /\ o.slots[j].state = "active" /\ o.slots[j].ped = h
      BY <1>5, <2>1 DEF Ply!PedOk
    <2> QED
      BY <1>1, <1>2, <1>4, <2>2
  <1> QED
    BY <1>6

\* What the pool has of a slot.
LEMMA PlayerSeen ==
    ASSUME NEW s \in Ply!Slots
    PROVE  /\ Ply!Seen(s) \in Ply!Views /\ Ply!Seen(s).seq = s.seq /\ Ply!Seen(s).at = s.at /\ Ply!Seen(s).color = s.color
           /\ Ply!Seen(s).kind = "absent" <=> s.state = "none"
           /\ Ply!Seen(s).kind = "here" <=> s.state # "none" /\ s.visible /\ ~s.boot
           /\ Ply!Seen(s).kind = "ghost" <=> s.state # "none" /\ s.visible /\ s.boot
  <1>1. s.seq \in Nat /\ s.at \in Nat /\ s.color \in Nat
    BY PlayerSlot
  <1> QED
    BY <1>1 DEF Ply!Seen, Ply!Views

\* RemotePlayers!CreateSlot.
LEMMA PlayerIsCreated ==
    ASSUME NEW o \in SanePlayers, NEW id \in Ids, NEW d, d = Ply!CreateSlot(o, id)
    PROVE  \E s : PlayerIs(o, d, id, s) /\ Lasts(o.slots[id], s)
  <1>1. PICK u : u = o.slots[id]
    OBVIOUS
  <1>2. /\ u \in Ply!Slots /\ o.active \in Int /\ o.pending \in Int /\ o.peds \in [Handles -> Ids \cup {0}]
        /\ Unmarked(u)
    BY <1>1, PlayerHas
  <1>3. CASE Ply!Tried(o, id) /\ Ply!Creatable(u)
    <2>1. u.state = "pending" /\ u.marker = FALSE
      BY <1>1, <1>2, <1>3 DEF Ply!Tried, Unmarked
    <2>2. PICK x : x = CHOOSE h \in Handles : o.peds[h] = 0
      OBVIOUS
    <2>3. x \in Handles /\ o.peds[x] = 0
      <3>1. o.slots[id].state # "active"
        BY <1>1, <2>1
      <3>2. \E h \in Handles : o.peds[h] = 0
        BY <3>1, PedIsFree
      <3> QED
        BY <2>2, <3>2
    <2>4. PICK s, a, n, g : /\ s = [u EXCEPT !.state = "active", !.ped = x] /\ a = o.active + 1 /\ n = o.pending - 1
                            /\ g = [o.peds EXCEPT ![x] = id]
      OBVIOUS
    <2>5. d = PlayerSet(o, id, s, a, n, g)
      BY <1>1, <1>3, <2>2, <2>4 DEF Ply!CreateSlot, PlayerSet
    <2>6. /\ s \in Ply!Slots /\ s.state = "active" /\ s.ped = x /\ s.marker = u.marker
          /\ s.seq = u.seq /\ s.at = u.at /\ s.color = u.color /\ s.visible = u.visible /\ s.boot = u.boot
      BY <1>2, <2>3, <2>4 DEF Ply!Slots
    <2>7. PedFits(o, g, id, s) /\ g \in [Handles -> Ids \cup {0}]
      <3>1. g \in [Handles -> Ids \cup {0}] /\ \A y \in Handles : g[y] = IF y = x THEN id ELSE o.peds[y]
        BY <1>2, <2>3, <2>4
      <3>2. \A y \in Handles : o.peds[y] # id
        BY <1>1, <2>1, PedsAre
      <3>3. PedOf(s) = x /\ Unmarked(s)
        BY <2>6 DEF PedOf, Unmarked
      <3> QED
        BY <2>3, <2>6, <3>1, <3>2, <3>3 DEF PedFits
    <2>8. NumbersFit(o, id, s, a, n) /\ a \in Int /\ n \in Int
      <3>1. OneIn(s, "active") = 1 /\ OneIn(s, "pending") = 0 /\ OneIn(u, "active") = 0 /\ OneIn(u, "pending") = 1
        BY <2>1, <2>6 DEF OneIn
      <3> QED
        BY <1>1, <1>2, <2>4, <3>1 DEF NumbersFit
    <2>9. d = PlayerPut(o, id, s, a, n, g)
      BY <1>1, <2>5, <2>6, PlayerPuts
    <2>10. PlayerIs(o, d, id, s)
      BY <2>6, <2>7, <2>8, <2>9, PlayerIsPut DEF PlayerIs
    <2>11. Ply!Seen(s) = Ply!Seen(u)
      BY <2>1, <2>6 DEF Ply!Seen
    <2> QED
      BY <1>1, <2>6, <2>10, <2>11 DEF Lasts
  <1>4. CASE ~(Ply!Tried(o, id) /\ Ply!Creatable(u)) /\ Ply!Tried(o, id) /\ ~u.visible
    <2>1. u.state = "pending" /\ u.marker = FALSE
      BY <1>1, <1>2, <1>4 DEF Ply!Tried, Unmarked
    <2>2. PICK s, n : s = [u EXCEPT !.state = "none"] /\ n = o.pending - 1
      OBVIOUS
    <2>3. s \in Ply!Slots /\ s.state = "none" /\ s.marker = FALSE
      BY <1>2, <2>1, <2>2 DEF Ply!Slots
    <2>4. d = PendingPut(o, id, s, n)
      BY <1>1, <1>4, <2>2 DEF Ply!CreateSlot, PendingPut
    <2>5. Begins(o, u, s, n)
      <3>1. OneIn(s, "pending") = 0 /\ OneIn(u, "pending") = 1
        BY <2>1, <2>3 DEF OneIn
      <3> QED
        BY <1>2, <2>1, <2>2, <2>3, <3>1 DEF Begins
    <2>6. PlayerIs(o, d, id, s)
      BY <1>1, <2>3, <2>4, <2>5, PlayerWaits
    <2>7. Ply!Seen(u).kind = "unknown" /\ Ply!Seen(s).kind = "absent"
      BY <1>4, <2>1, <2>3 DEF Ply!Seen
    <2> QED
      BY <1>1, <2>3, <2>6, <2>7 DEF Lasts
  <1>5. CASE ~(Ply!Tried(o, id) /\ Ply!Creatable(u)) /\ ~(Ply!Tried(o, id) /\ ~u.visible)
    <2>1. d = o
      BY <1>1, <1>5 DEF Ply!CreateSlot
    <2>2. PlayerIs(o, d, id, u)
      BY <1>1, <2>1 DEF PlayerIs, PlayerOthers
    <2> QED
      BY <1>1, <1>2, <2>2 DEF Lasts
  <1> QED
    BY <1>3, <1>4, <1>5

\* One change of a slot after another.
LEMMA PlayerChain ==
    ASSUME NEW o, NEW d, NEW p, NEW id, NEW s, NEW t, PlayerIs(o, d, id, s), PlayerIs(d, p, id, t)
    PROVE  PlayerIs(o, p, id, t)
  BY DEF PlayerIs, PlayerOthers

\* What an event says goes into the slot of its player.
ViewHeeds(u, s, e, l) == \A v \in Ply!Views : Fits(u, v, l) => Fits(s, Ply!Heard(v, e), l)
PlayerHeeds(o, d, e) ==
    d \in SanePlayers /\ PlayerOthers(o, d, e.id) /\ ViewHeeds(o.slots[e.id], d.slots[e.id], e, e.id \in d.listed)

\* What a ring holds.
LEMMA PlayerEntry ==
    ASSUME NEW e \in Ply!Entries
    PROVE  /\ e.seq \in Nat /\ e.id \in Ids /\ e.rpc \in Nat
           /\ e.action \in {"add", "remove", "sync", "quit", "color"}
  BY DEF Ply!Entries, Ply!Actions, Ply!Rings

\* A view stays one.
LEMMA PlayerViewed ==
    ASSUME NEW v \in Ply!Views, NEW e \in Ply!Entries
    PROVE  Ply!Heard(v, e) \in Ply!Views
  <1>1. e.seq \in Nat /\ e.rpc \in Nat
    BY PlayerEntry
  <1> QED
    BY <1>1 DEF Ply!Heard, Ply!Views

\* An empty slot begins to wait.
LEMMA PlayerBegins ==
    ASSUME NEW o \in SanePlayers, NEW id \in Ids, o.slots[id].state = "none", NEW s \in Ply!Slots,
           s.state = "pending", s.marker = FALSE, NEW d, d = PendingPut(o, id, s, o.pending + 1)
    PROVE  PlayerIs(o, d, id, s)
  <1>1. PICK u, n : u = o.slots[id] /\ n = o.pending + 1
    OBVIOUS
  <1>2. o.pending \in Int
    BY <1>1, PlayerHas
  <1>3. OneIn(s, "pending") = 1 /\ OneIn(u, "pending") = 0
    BY <1>1 DEF OneIn
  <1>4. Begins(o, u, s, n)
    BY <1>1, <1>2, <1>3 DEF Begins
  <1>5. d = PendingPut(o, id, s, n)
    BY <1>1
  <1> QED
    BY <1>1, <1>4, <1>5, PlayerWaits

\* RemotePlayers!QueueAdd.
LEMMA PlayerIsAdded ==
    ASSUME NEW o \in SanePlayers, NEW e \in Ply!Entries, e.action = "add", NEW d, d = Ply!QueueAdd(o, e)
    PROVE  PlayerHeeds(o, d, e)
  <1>1. e.id \in Ids /\ e.rpc \in Nat
    BY PlayerEntry
  <1>2. CASE e.look = "off"
    <2>1. d = o
      BY <1>2 DEF Ply!QueueAdd
    <2>2. \A v : Ply!Heard(v, e) = v
      BY <1>2 DEF Ply!Heard
    <2> QED
      BY <2>1, <2>2 DEF PlayerHeeds, PlayerOthers, ViewHeeds
  <1>3. CASE e.look # "off"
    <2>1. PICK p, visible, skin : p = Ply!DestroySlot(o, e.id) /\ visible = (e.look # "hidden") /\ skin = (e.look # "refused")
      OBVIOUS
    <2>2. PICK s : s = Ply!Waiting(e, FALSE, visible, skin, e.rpc)
      OBVIOUS
    <2>3. PlayerIs(o, p, e.id, Ply!NoSlot)
      BY <1>1, <2>1, PlayerIsDestroyed
    <2>4. visible \in BOOLEAN /\ skin \in BOOLEAN
      BY <2>1
    <2>5. /\ s \in Ply!Slots /\ s.state = "pending" /\ s.marker = FALSE /\ s.seq = e.seq /\ s.at = e.rpc
          /\ s.color = e.rpc /\ s.boot = FALSE /\ s.visible = visible
      BY <1>1, <2>2, <2>4, PlayerEntry DEF Ply!Waiting, Ply!Slots
    <2>6. d = PendingPut(p, e.id, s, p.pending + 1)
      BY <1>3, <2>1, <2>2 DEF Ply!QueueAdd, PendingPut
    <2>7. p \in SanePlayers /\ p.slots[e.id].state = "none"
      BY <2>3, NoPlayer DEF PlayerIs
    <2>8. PlayerIs(p, d, e.id, s)
      BY <1>1, <2>5, <2>6, <2>7, PlayerBegins
    <2>9. PlayerIs(o, d, e.id, s)
      BY <2>3, <2>8, PlayerChain
    <2>10. ASSUME NEW v, NEW l PROVE Fits(s, Ply!Heard(v, e), l)
      <3>1. CASE e.look = "hidden"
        <4>1. Ply!Heard(v, e).kind = "unknown"
          BY <1>3, <3>1 DEF Ply!Heard
        <4> QED
          BY <4>1 DEF Fits
      <3>2. CASE e.look # "hidden"
        <4>1. Ply!Heard(v, e) = [kind |-> "here", seq |-> e.seq, at |-> e.rpc, color |-> e.rpc]
          BY <1>3, <3>2 DEF Ply!Heard
        <4>2. Ply!Seen(s) = [kind |-> "here", seq |-> e.seq, at |-> e.rpc, color |-> e.rpc]
          BY <2>1, <2>5, <3>2 DEF Ply!Seen
        <4> QED
          BY <4>1, <4>2 DEF Fits
      <3> QED
        BY <3>1, <3>2
    <2> QED
      BY <2>9, <2>10 DEF PlayerHeeds, PlayerIs, ViewHeeds
  <1> QED
    BY <1>2, <1>3

\* RemotePlayers!ApplySync, of a player without a slot.
LEMMA PlayerIsStarted ==
    ASSUME NEW o \in SanePlayers, NEW e \in Ply!Entries, e.action = "sync", NEW d, d = Ply!Bootstrap(o, e),
           o.slots[e.id].state = "none"
    PROVE  PlayerHeeds(o, d, e)
  <1>1. e.id \in Ids /\ e.rpc \in Nat
    BY PlayerEntry
  <1>2. \E s : /\ PlayerIs(o, d, e.id, s)
               /\ e.id \in d.listed => Ply!Seen(s).kind = "ghost" /\ Ply!Seen(s).at = e.rpc
    <2>1. CASE e.id \notin o.listed
      <3>1. d = o
        BY <2>1 DEF Ply!Bootstrap
      <3> QED
        BY <2>1, <3>1 DEF PlayerIs, PlayerOthers
    <2>2. CASE e.id \in o.listed
      <3>1. PICK s : s = Ply!Waiting(e, TRUE, TRUE, TRUE, 0)
        OBVIOUS
      <3>2. /\ s \in Ply!Slots /\ s.state = "pending" /\ s.marker = FALSE
            /\ s.visible = TRUE /\ s.boot = TRUE /\ s.at = e.rpc
        BY <3>1, PlayerEntry DEF Ply!Waiting, Ply!Slots
      <3>3. PICK p : p = PendingPut(o, e.id, s, o.pending + 1)
        OBVIOUS
      <3>4. PlayerIs(o, p, e.id, s)
        BY <1>1, <3>2, <3>3, PlayerBegins
      <3>5. d = Ply!CreateSlot(p, e.id)
        BY <2>2, <3>1, <3>3 DEF Ply!Bootstrap, PendingPut
      <3>6. p \in SanePlayers
        BY <3>4 DEF PlayerIs
      <3>7. PICK t : PlayerIs(p, d, e.id, t) /\ Lasts(p.slots[e.id], t)
        BY <1>1, <3>5, <3>6, PlayerIsCreated
      <3>8. Ply!Seen(s).kind = "ghost" /\ Ply!Seen(s).at = e.rpc
        BY <3>2, PlayerSeen
      <3>9. Ply!Seen(t).kind = "ghost" /\ Ply!Seen(t).at = e.rpc
        BY <3>4, <3>7, <3>8 DEF Lasts, PlayerIs
      <3>10. PlayerIs(o, d, e.id, t)
        BY <3>4, <3>7, PlayerChain
      <3> QED
        BY <3>9, <3>10
    <2> QED
      BY <2>1, <2>2
  <1>3. PICK l : l = (e.id \in d.listed)
    OBVIOUS
  <1>4. ASSUME NEW v \in Ply!Views, Fits(o.slots[e.id], v, l)
        PROVE  Ply!Heard(v, e).kind \in {"unknown", "ghost"} /\ Ply!Heard(v, e).at = e.rpc
    <2>1. o.slots[e.id] \in Ply!Slots
      BY <1>1, PlayerHas
    <2>2. v.kind # "here"
      BY <1>4, <2>1, PlayerSeen DEF Fits
    <2>3. Ply!Heard(v, e) = [v EXCEPT !.at = e.rpc, !.kind = IF v.kind = "absent" THEN "ghost" ELSE v.kind]
      BY DEF Ply!Heard
    <2> QED
      BY <2>2, <2>3 DEF Ply!Views
  <1>5. PICK s : /\ PlayerIs(o, d, e.id, s)
                 /\ l => Ply!Seen(s).kind = "ghost" /\ Ply!Seen(s).at = e.rpc
    BY <1>2, <1>3
  <1>6. ASSUME NEW v \in Ply!Views, Fits(o.slots[e.id], v, l) PROVE Fits(s, Ply!Heard(v, e), l)
    <2>1. PICK h : h = Ply!Heard(v, e)
      OBVIOUS
    <2>2. h.kind \in {"unknown", "ghost"} /\ h.at = e.rpc
      BY <1>4, <1>6, <2>1
    <2> QED
      BY <1>5, <2>1, <2>2 DEF Fits
  <1>7. ViewHeeds(o.slots[e.id], s, e, l)
    BY <1>6 DEF ViewHeeds
  <1> QED
    BY <1>3, <1>5, <1>7 DEF PlayerHeeds, PlayerIs

\* RemotePlayers!ApplySync, of a player with a slot.
LEMMA PlayerIsMoved ==
    ASSUME NEW o \in SanePlayers, NEW e \in Ply!Entries, e.action = "sync", NEW u, u = o.slots[e.id], u.state # "none",
           NEW s, s = [u EXCEPT !.at = e.rpc], NEW d, d = Ply!CreateSlot(PlayerSlotSet(o, e.id, s), e.id)
    PROVE  PlayerHeeds(o, d, e)
  <1>1. e.id \in Ids /\ e.rpc \in Nat
    BY PlayerEntry
  <1>2. u \in Ply!Slots
    BY <1>1, PlayerHas
  <1>3. s \in Ply!Slots /\ SameState(u, s)
    BY <1>1, <1>2 DEF SameState, Ply!Slots
  <1>4. PICK p : p = PlayerSlotSet(o, e.id, s)
    OBVIOUS
  <1>5. PlayerIs(o, p, e.id, s)
    BY <1>1, <1>3, <1>4, PlayerIsEdited
  <1>6. p \in SanePlayers /\ p.slots[e.id] = s
    BY <1>5 DEF PlayerIs
  <1>7. PICK t : PlayerIs(p, d, e.id, t) /\ Lasts(s, t)
    BY <1>1, <1>4, <1>6, PlayerIsCreated
  <1>8. PlayerIs(o, d, e.id, t)
    BY <1>5, <1>7, PlayerChain
  <1>9. ASSUME NEW v \in Ply!Views, NEW l, Fits(u, v, l) PROVE Fits(s, Ply!Heard(v, e), l)
    <2>1. v.kind # "absent"
      BY <1>2, <1>9, PlayerSeen DEF Fits
    <2>4. Ply!Heard(v, e) = [v EXCEPT !.at = e.rpc]
      <3>1. Ply!Heard(v, e) = [v EXCEPT !.at = e.rpc, !.kind = IF v.kind = "absent" THEN "ghost" ELSE v.kind]
        BY DEF Ply!Heard
      <3> QED
        BY <2>1, <3>1 DEF Ply!Views
    <2>5. Ply!Seen(s) = [Ply!Seen(u) EXCEPT !.at = e.rpc]
      BY <1>2 DEF Ply!Seen, Ply!Slots
    <2>6. Ply!Seen(s).kind = Ply!Seen(u).kind /\ Ply!Seen(s).at = e.rpc
      BY <2>5 DEF Ply!Seen
    <2>7. Ply!Heard(v, e).kind = v.kind /\ Ply!Heard(v, e).at = e.rpc
      BY <2>4 DEF Ply!Views
    <2>2. CASE v.kind = "here"
      <3>1. Ply!Heard(v, e) = [v EXCEPT !.at = e.rpc]
        BY <2>4
      <3>2. Ply!Seen(s) = [Ply!Seen(u) EXCEPT !.at = e.rpc]
        BY <2>5
      <3>3. v = Ply!Seen(u)
        BY <1>9, <2>2 DEF Fits
      <3>4. Ply!Seen(s) = Ply!Heard(v, e)
        BY <3>1, <3>2, <3>3
      <3> QED
        BY <2>2, <2>7, <3>4 DEF Fits
    <2>3. CASE v.kind # "here"
      BY <1>9, <2>1, <2>3, <2>6, <2>7 DEF Fits
    <2> QED
      BY <2>2, <2>3
  <1>10. \A v \in Ply!Views : \A l : Fits(u, v, l) => Fits(t, Ply!Heard(v, e), l)
    BY <1>7, <1>9, TriedFits
  <1> QED
    BY <1>8, <1>10 DEF PlayerHeeds, PlayerIs, ViewHeeds

\* RemotePlayers!ApplyColor.
LEMMA PlayerIsColored ==
    ASSUME NEW o \in SanePlayers, NEW e \in Ply!Entries, e.action = "color", NEW d, d = Ply!ApplyColor(o, e)
    PROVE  PlayerHeeds(o, d, e)
  <1>1. e.id \in Ids /\ e.rpc \in Nat
    BY PlayerEntry
  <1>2. PICK u : u = o.slots[e.id]
    OBVIOUS
  <1>3. u \in Ply!Slots
    BY <1>1, <1>2, PlayerHas
  <1>4. \A v : Ply!Heard(v, e) = [v EXCEPT !.color = e.rpc]
    BY DEF Ply!Heard
  <1>5. CASE u.state = "none"
    <2>1. d = o
      BY <1>2, <1>5 DEF Ply!ApplyColor
    <2>2. ASSUME NEW v \in Ply!Views, NEW l, Fits(u, v, l) PROVE Fits(u, Ply!Heard(v, e), l)
      <3>1. v.kind # "here"
        BY <1>3, <1>5, <2>2, PlayerSeen DEF Fits
      <3>2. Ply!Heard(v, e).kind = v.kind /\ Ply!Heard(v, e).at = v.at
        BY <1>4 DEF Ply!Views
      <3> QED
        BY <2>2, <3>1, <3>2 DEF Fits
    <2> QED
      BY <1>2, <2>1, <2>2 DEF PlayerHeeds, PlayerOthers, ViewHeeds
  <1>6. CASE u.state # "none"
    <2>1. PICK s : s = [u EXCEPT !.color = e.rpc]
      OBVIOUS
    <2>2. s \in Ply!Slots /\ SameState(u, s)
      BY <1>1, <1>3, <2>1 DEF SameState, Ply!Slots
    <2>3. d = PlayerSlotSet(o, e.id, s)
      BY <1>2, <1>6, <2>1 DEF Ply!ApplyColor, PlayerSlotSet
    <2>4. PlayerIs(o, d, e.id, s)
      BY <1>1, <1>2, <2>2, <2>3, PlayerIsEdited
    <2>5. Ply!Seen(s) = [Ply!Seen(u) EXCEPT !.color = e.rpc]
      BY <1>3, <2>1 DEF Ply!Seen, Ply!Slots
    <2>6. ASSUME NEW v \in Ply!Views, NEW l, Fits(u, v, l) PROVE Fits(s, Ply!Heard(v, e), l)
      <3>1. Ply!Heard(v, e).kind = v.kind /\ Ply!Heard(v, e).at = v.at
        BY <1>4 DEF Ply!Views
      <3>2. Ply!Seen(s).kind = Ply!Seen(u).kind /\ Ply!Seen(s).at = Ply!Seen(u).at
        BY <2>5 DEF Ply!Seen
      <3>3. v.kind = "here" => Ply!Seen(s) = Ply!Heard(v, e)
        BY <1>4, <2>5, <2>6 DEF Fits
      <3> QED
        BY <2>6, <3>1, <3>2, <3>3 DEF Fits
    <2> QED
      BY <1>2, <2>4, <2>6 DEF PlayerHeeds, PlayerIs, ViewHeeds
  <1> QED
    BY <1>5, <1>6

\* RemotePlayers!ApplyEvent, of a player who quits.
LEMMA PlayerQuits ==
    ASSUME NEW o \in SanePlayers, NEW e \in Ply!Entries, e.action = "quit", NEW d,
           d = [o EXCEPT !.listed = o.listed \ {e.id}]
    PROVE  PlayerHeeds(o, d, e)
  <1>1. o \in Ply!Pools /\ Ply!Sane(o)
    BY DEF SanePlayers
  <1>2. PICK l : l = o.listed \ {e.id}
    OBVIOUS
  <1>3. l \subseteq Ids
    BY <1>1, <1>2, PlayerFields
  <1>4. /\ d.slots = o.slots /\ d.peds = o.peds /\ d.blips = o.blips /\ d.active = o.active /\ d.pending = o.pending
        /\ d.marks = o.marks /\ d.listed \subseteq o.listed /\ d \in Ply!Pools
    BY <1>1, <1>2, <1>3 DEF Ply!Pools
  <1>5. Ply!Sane(d)
    <2>1. \A i : Ply!SlotOk(o, i) => Ply!SlotOk(d, i)
      BY <1>4 DEF Ply!SlotOk
    <2>2. \A x : Ply!PedOk(o, x) => Ply!PedOk(d, x)
      BY <1>4 DEF Ply!PedOk
    <2> QED
      BY <1>1, <1>4, <2>1, <2>2 DEF Ply!Sane
  <1>6. \A v : Ply!Heard(v, e) = v
    BY DEF Ply!Heard
  <1> QED
    BY <1>4, <1>5, <1>6 DEF PlayerHeeds, PlayerOthers, SanePlayers, ViewHeeds

\* RemotePlayers!ApplyEvent.
LEMMA PlayerIsApplied ==
    ASSUME NEW o \in SanePlayers, NEW e \in Ply!Entries, NEW d, d = Ply!ApplyEvent(o, e)
    PROVE  PlayerHeeds(o, d, e)
  <1>1. e.id \in Ids /\ e.action \in {"add", "remove", "sync", "quit", "color"}
    BY PlayerEntry
  <1>2. CASE e.action = "add"
    <2>1. d = Ply!QueueAdd(o, e)
      BY <1>2 DEF Ply!ApplyEvent
    <2> QED
      BY <1>2, <2>1, PlayerIsAdded
  <1>3. CASE e.action = "remove"
    <2>1. d = Ply!DestroySlot(o, e.id)
      BY <1>3 DEF Ply!ApplyEvent
    <2>2. PlayerIs(o, d, e.id, Ply!NoSlot)
      BY <1>1, <2>1, PlayerIsDestroyed
    <2>3. ASSUME NEW v \in Ply!Views, NEW l PROVE Fits(Ply!NoSlot, Ply!Heard(v, e), l)
      <3>1. Ply!Heard(v, e).kind = "absent"
        BY <1>3 DEF Ply!Heard, Ply!Views
      <3>2. Ply!Seen(Ply!NoSlot).kind = "absent"
        BY NoPlayer, PlayerSeen
      <3> QED
        BY <3>1, <3>2 DEF Fits
    <2> QED
      BY <2>2, <2>3 DEF PlayerHeeds, PlayerIs, ViewHeeds
  <1>4. CASE e.action = "sync"
    <2>1. d = Ply!ApplySync(o, e)
      BY <1>4 DEF Ply!ApplyEvent
    <2>2. PICK u, s : u = o.slots[e.id] /\ s = [u EXCEPT !.at = e.rpc]
      OBVIOUS
    <2>3. CASE u.state = "none"
      <3>1. d = Ply!Bootstrap(o, e)
        BY <2>1, <2>2, <2>3 DEF Ply!ApplySync
      <3> QED
        BY <1>4, <2>2, <2>3, <3>1, PlayerIsStarted
    <2>4. CASE u.state # "none"
      <3>1. d = Ply!CreateSlot(PlayerSlotSet(o, e.id, s), e.id)
        BY <2>1, <2>2, <2>4 DEF Ply!ApplySync, PlayerSlotSet
      <3> QED
        BY <1>4, <2>2, <2>4, <3>1, PlayerIsMoved
    <2> QED
      BY <2>3, <2>4
  <1>5. CASE e.action = "quit"
    <2>1. d = [o EXCEPT !.listed = o.listed \ {e.id}]
      BY <1>5 DEF Ply!ApplyEvent
    <2> QED
      BY <1>5, <2>1, PlayerQuits
  <1>6. CASE e.action = "color"
    <2>1. d = Ply!ApplyColor(o, e)
      BY <1>6 DEF Ply!ApplyEvent
    <2> QED
      BY <1>6, <2>1, PlayerIsColored
  <1> QED
    BY <1>1, <1>2, <1>3, <1>4, <1>5, <1>6

-----------------------------------------------------------------------------
(* The loops over the rings. *)

\* Two loops over one ring stay in a relation that each step keeps.
LEMMA ValuesTogether ==
    ASSUME NEW F, NEW H, NEW R, NEW E, \A z \in R, e \in E : <<F[<<z[1], e>>], H[<<z[2], e>>]>> \in R,
           NEW ring, NEW mark, NEW o, NEW v, <<o, v>> \in R, News(ring, mark, E), Len(ring) \in Nat
    PROVE  <<Value(ring, mark, o, F), Value(ring, mark, v, H)>> \in R
  <1>1. PICK last \in Nat : last = Len(ring)
    OBVIOUS
  <1>2. PICK g : Loop(g, ring, mark, o, last, F) /\ Value(ring, mark, o, F) = g[last]
    BY <1>1, ValueIs
  <1>3. PICK h : Loop(h, ring, mark, v, last, H) /\ Value(ring, mark, v, H) = h[last]
    BY <1>1, ValueIs
  <1>4. /\ g[0] = o
        /\ \A k \in 0 .. last : k # 0 => g[k] = IF ring[k].seq > mark THEN F[<<g[k - 1], ring[k]>>] ELSE g[k - 1]
    BY <1>2 DEF Loop
  <1>5. /\ h[0] = v
        /\ \A k \in 0 .. last : k # 0 => h[k] = IF ring[k].seq > mark THEN H[<<h[k - 1], ring[k]>>] ELSE h[k - 1]
    BY <1>3 DEF Loop
  <1> DEFINE S == {k \in Nat : k =< last => <<g[k], h[k]>> \in R}
  <1>6. 0 \in S
    BY <1>4, <1>5
  <1>7. ASSUME NEW k \in Nat, k \in S PROVE k + 1 \in S
    <2> SUFFICES ASSUME k + 1 =< last PROVE <<g[k + 1], h[k + 1]>> \in R
      OBVIOUS
    <2>1. PICK j : j = k + 1
      OBVIOUS
    <2>2. <<g[k], h[k]>> \in R /\ j \in 0 .. last /\ j # 0 /\ j - 1 = k /\ j \in 1 .. Len(ring)
      BY <1>1, <1>7, <2>1
    <2>3. PICK x, y, e : x = g[k] /\ y = h[k] /\ e = ring[j]
      OBVIOUS
    <2>4. /\ g[j] = IF e.seq > mark THEN F[<<x, e>>] ELSE x
          /\ h[j] = IF e.seq > mark THEN H[<<y, e>>] ELSE y
      BY <1>4, <1>5, <2>2, <2>3
    <2>5. PICK z : z = <<x, y>>
      OBVIOUS
    <2>6. z \in R /\ z[1] = x /\ z[2] = y /\ (e.seq > mark => e \in E)
      BY <2>2, <2>3, <2>5 DEF News
    <2>7. e.seq > mark => <<F[<<x, e>>], H[<<y, e>>]>> \in R
      BY <2>6
    <2> QED
      BY <2>1, <2>4, <2>5, <2>6, <2>7
  <1>8. Nat \subseteq S
    <2> HIDE DEF S
    <2> QED
      BY <1>6, <1>7, Steps
  <1> QED
    BY <1>2, <1>3, <1>8

PlayersSteps == [p \in SanePlayers \X Ply!Entries |-> Ply!ApplyEvent(p[1], p[2])]
PlayerViewSteps(i) == [p \in Ply!Views \X Ply!Entries |-> Ply!HeardOf(i, p[1], p[2])]

PlayersReplayed(ring, mark, o) == Ply!Replayed(ring, mark, o, Ply!ApplyEvent)
PlayerView(ring, mark, v, i) == Ply!Replayed(ring, mark, v, LAMBDA u, e : Ply!HeardOf(i, u, e))

\* The steps of the pool stay in the sane pools.
LEMMA PlayersStay ==
    ASSUME NEW F, F = PlayersSteps
    PROVE  /\ \A x \in SanePlayers, e \in Ply!Entries : F[<<x, e>>] = Ply!ApplyEvent(x, e)
           /\ Closed(F, SanePlayers, Ply!Entries)
  <1>1. \A x \in SanePlayers, e \in Ply!Entries : F[<<x, e>>] = Ply!ApplyEvent(x, e)
    BY DEF PlayersSteps
  <1>2. ASSUME NEW x \in SanePlayers, NEW e \in Ply!Entries PROVE F[<<x, e>>] \in SanePlayers
    <2>1. PICK d : d = Ply!ApplyEvent(x, e)
      OBVIOUS
    <2>2. d \in SanePlayers
      BY <2>1, PlayerIsApplied DEF PlayerHeeds
    <2> QED
      BY <1>1, <2>1, <2>2
  <1> QED
    BY <1>1, <1>2 DEF Closed

\* Those of a view stay in the views.
LEMMA PlayerViewsStay ==
    ASSUME NEW i, NEW H, H = PlayerViewSteps(i)
    PROVE  /\ \A v \in Ply!Views, e \in Ply!Entries : H[<<v, e>>] = Ply!HeardOf(i, v, e)
           /\ Closed(H, Ply!Views, Ply!Entries)
  <1>1. \A v \in Ply!Views, e \in Ply!Entries : H[<<v, e>>] = Ply!HeardOf(i, v, e)
    BY DEF PlayerViewSteps
  <1>2. ASSUME NEW v \in Ply!Views, NEW e \in Ply!Entries PROVE H[<<v, e>>] \in Ply!Views
    BY <1>1, PlayerViewed DEF Ply!HeardOf
  <1> QED
    BY <1>1, <1>2 DEF Closed

\* The loop over the snapshot is that of the function.
LEMMA PlayersLoop ==
    ASSUME NEW ring, NEW mark, NEW o \in SanePlayers, News(ring, mark, Ply!Entries), Len(ring) \in Nat
    PROVE  PlayersReplayed(ring, mark, o) = Value(ring, mark, o, PlayersSteps)
  <1>0. PICK F : F = PlayersSteps
    OBVIOUS
  <1> DEFINE U == SanePlayers
             E == Ply!Entries
             Taking(x, e) == Ply!ApplyEvent(x, e)
  <1>1. \A x \in U, e \in E : F[<<x, e>>] = Taking(x, e)
    BY <1>0, PlayersStay
  <1>2. Closed(F, U, E)
    BY <1>0, PlayersStay
  <1>3. PICK last \in Nat : last = Len(ring)
    OBVIOUS
  <1>4. PICK g : Loop(g, ring, mark, o, last, F) /\ Value(ring, mark, o, F) = g[last]
    BY <1>3, ValueIs
  <1>5. \A k \in 0 .. last : g[k] \in U
    <2>1. last =< Len(ring) /\ o \in U /\ News(ring, mark, E)
      BY <1>3
    <2> HIDE DEF U, E
    <2> QED
      BY <1>2, <1>3, <1>4, <2>1, LoopStays
  <1>13. /\ g[0] = o
         /\ \A k \in 0 .. last : k # 0 => g[k] = IF ring[k].seq > mark THEN F[<<g[k - 1], ring[k]>>] ELSE g[k - 1]
    BY <1>4 DEF Loop
  <1> DEFINE Then(x, k) == IF ring[k].seq > mark THEN Taking(x, ring[k]) ELSE x
             Is(h) == h = [k \in 0 .. last |-> IF k = 0 THEN o ELSE Then(h[k - 1], k)]
             c == CHOOSE h : Is(h)
  <1>8. PlayersReplayed(ring, mark, o) = c[last]
    BY <1>3 DEF PlayersReplayed, Ply!Replayed
  <1>6. Is(g)
    <2>2. ASSUME NEW k \in 0 .. last, k # 0 PROVE g[k] = Then(g[k - 1], k)
      <3>1. g[k] = IF ring[k].seq > mark THEN F[<<g[k - 1], ring[k]>>] ELSE g[k - 1]
        BY <1>13, <2>2
      <3>2. k - 1 \in 0 .. last /\ k \in 1 .. Len(ring)
        BY <1>3, <2>2
      <3>3. g[k - 1] \in U /\ (ring[k].seq > mark => ring[k] \in E)
        BY <1>5, <3>2 DEF News
      <3> HIDE DEF U, E, Taking
      <3> QED
        BY <1>1, <3>1, <3>3
    <2>3. g = [k \in 0 .. last |-> g[k]]
      BY <1>4 DEF Loop
    <2> HIDE DEF Then
    <2> QED
      BY <1>13, <2>2, <2>3
  <1>7. Is(c)
    <2> HIDE DEF Is
    <2> QED
      BY <1>6
  <1> HIDE DEF c
  <1>9. c[0] = o /\ g[0] = o /\ \A k \in 0 .. last : k # 0 => c[k] = Then(c[k - 1], k) /\ g[k] = Then(g[k - 1], k)
    <2> HIDE DEF Then
    <2> QED
      BY <1>6, <1>7
  <1> HIDE DEF Is, Then
  <1> DEFINE S == {k \in Nat : k =< last => c[k] = g[k]}
  <1>10. 0 \in S
    BY <1>9
  <1>11. ASSUME NEW k \in Nat, k \in S PROVE k + 1 \in S
    <2> SUFFICES ASSUME k + 1 =< last PROVE c[k + 1] = g[k + 1]
      OBVIOUS
    <2>1. c[k] = g[k] /\ k + 1 \in 0 .. last /\ k + 1 # 0 /\ (k + 1) - 1 = k
      BY <1>11
    <2> QED
      BY <1>9, <2>1
  <1>12. Nat \subseteq S
    <2> HIDE DEF S
    <2> QED
      BY <1>10, <1>11, Steps
  <1> QED
    BY <1>0, <1>4, <1>8, <1>12

\* So it is for what the RPCs come to.
LEMMA PlayerViewsLoop ==
    ASSUME NEW i, NEW ring, NEW mark, NEW o \in Ply!Views, News(ring, mark, Ply!Entries), Len(ring) \in Nat
    PROVE  PlayerView(ring, mark, o, i) = Value(ring, mark, o, PlayerViewSteps(i))
  <1>0. PICK F : F = PlayerViewSteps(i)
    OBVIOUS
  <1> DEFINE U == Ply!Views
             E == Ply!Entries
             Taking(x, e) == Ply!HeardOf(i, x, e)
  <1>1. \A x \in U, e \in E : F[<<x, e>>] = Taking(x, e)
    BY <1>0, PlayerViewsStay
  <1>2. Closed(F, U, E)
    BY <1>0, PlayerViewsStay
  <1>3. PICK last \in Nat : last = Len(ring)
    OBVIOUS
  <1>4. PICK g : Loop(g, ring, mark, o, last, F) /\ Value(ring, mark, o, F) = g[last]
    BY <1>3, ValueIs
  <1>5. \A k \in 0 .. last : g[k] \in U
    <2>1. last =< Len(ring) /\ o \in U /\ News(ring, mark, E)
      BY <1>3
    <2> HIDE DEF U, E
    <2> QED
      BY <1>2, <1>3, <1>4, <2>1, LoopStays
  <1>13. /\ g[0] = o
         /\ \A k \in 0 .. last : k # 0 => g[k] = IF ring[k].seq > mark THEN F[<<g[k - 1], ring[k]>>] ELSE g[k - 1]
    BY <1>4 DEF Loop
  <1> DEFINE Then(x, k) == IF ring[k].seq > mark THEN Taking(x, ring[k]) ELSE x
             Is(h) == h = [k \in 0 .. last |-> IF k = 0 THEN o ELSE Then(h[k - 1], k)]
             c == CHOOSE h : Is(h)
  <1>8. PlayerView(ring, mark, o, i) = c[last]
    BY <1>3 DEF PlayerView, Ply!Replayed
  <1>6. Is(g)
    <2>2. ASSUME NEW k \in 0 .. last, k # 0 PROVE g[k] = Then(g[k - 1], k)
      <3>1. g[k] = IF ring[k].seq > mark THEN F[<<g[k - 1], ring[k]>>] ELSE g[k - 1]
        BY <1>13, <2>2
      <3>2. k - 1 \in 0 .. last /\ k \in 1 .. Len(ring)
        BY <1>3, <2>2
      <3>3. g[k - 1] \in U /\ (ring[k].seq > mark => ring[k] \in E)
        BY <1>5, <3>2 DEF News
      <3> HIDE DEF U, E, Taking
      <3> QED
        BY <1>1, <3>1, <3>3
    <2>3. g = [k \in 0 .. last |-> g[k]]
      BY <1>4 DEF Loop
    <2> HIDE DEF Then
    <2> QED
      BY <1>13, <2>2, <2>3
  <1>7. Is(c)
    <2> HIDE DEF Is
    <2> QED
      BY <1>6
  <1> HIDE DEF c
  <1>9. c[0] = o /\ g[0] = o /\ \A k \in 0 .. last : k # 0 => c[k] = Then(c[k - 1], k) /\ g[k] = Then(g[k - 1], k)
    <2> HIDE DEF Then
    <2> QED
      BY <1>6, <1>7
  <1> HIDE DEF Is, Then
  <1> DEFINE S == {k \in Nat : k =< last => c[k] = g[k]}
  <1>10. 0 \in S
    BY <1>9
  <1>11. ASSUME NEW k \in Nat, k \in S PROVE k + 1 \in S
    <2> SUFFICES ASSUME k + 1 =< last PROVE c[k + 1] = g[k + 1]
      OBVIOUS
    <2>1. c[k] = g[k] /\ k + 1 \in 0 .. last /\ k + 1 # 0 /\ (k + 1) - 1 = k
      BY <1>11
    <2> QED
      BY <1>9, <2>1
  <1>12. Nat \subseteq S
    <2> HIDE DEF S
    <2> QED
      BY <1>10, <1>11, Steps
  <1> QED
    BY <1>0, <1>4, <1>8, <1>12

\* What a replay ends with is a sane pool that says of each player what the view of him does.
LEMMA PlayersAreReplayed ==
    ASSUME NEW ring, NEW mark, NEW o \in SanePlayers, News(ring, mark, Ply!Entries), Len(ring) \in Nat,
           NEW d, d = PlayersReplayed(ring, mark, o)
    PROVE  /\ d \in SanePlayers /\ d.marks = o.marks /\ d.listed \subseteq o.listed
           /\ \A i \in Ids, v \in Ply!Views : FitsIn(o, i, v) => FitsIn(d, i, PlayerView(ring, mark, v, i))
  <1>1. PICK F : F = PlayersSteps
    OBVIOUS
  <1>2. /\ d = Value(ring, mark, o, F) /\ Closed(F, SanePlayers, Ply!Entries)
        /\ \A x \in SanePlayers, e \in Ply!Entries : F[<<x, e>>] = Ply!ApplyEvent(x, e)
    BY <1>1, PlayersLoop, PlayersStay
  <1>3. d \in SanePlayers /\ d.marks = o.marks /\ d.listed \subseteq o.listed
    <2>1. PICK U : U = {x \in SanePlayers : x.marks = o.marks /\ x.listed \subseteq o.listed}
      OBVIOUS
    <2>2. ASSUME NEW x \in U, NEW e \in Ply!Entries PROVE F[<<x, e>>] \in U
      <3>1. PICK y : y = Ply!ApplyEvent(x, e)
        OBVIOUS
      <3>2. x \in SanePlayers /\ x.marks = o.marks /\ x.listed \subseteq o.listed
        BY <2>1
      <3>3. PlayerHeeds(x, y, e)
        BY <3>1, <3>2, PlayerIsApplied
      <3> QED
        BY <1>2, <2>1, <3>1, <3>2, <3>3 DEF PlayerHeeds, PlayerOthers
    <2>3. Closed(F, U, Ply!Entries) /\ o \in U
      BY <2>1, <2>2 DEF Closed
    <2>4. Value(ring, mark, o, F) \in U
      BY <2>3, ValueStays
    <2> QED
      BY <1>2, <2>1, <2>4
  <1>4. ASSUME NEW i \in Ids, NEW v \in Ply!Views, FitsIn(o, i, v)
        PROVE  FitsIn(d, i, PlayerView(ring, mark, v, i))
    <2>1. PICK H : H = PlayerViewSteps(i)
      OBVIOUS
    <2>2. /\ PlayerView(ring, mark, v, i) = Value(ring, mark, v, H)
          /\ \A u \in Ply!Views, e \in Ply!Entries : H[<<u, e>>] = Ply!HeardOf(i, u, e)
          /\ Closed(H, Ply!Views, Ply!Entries)
      BY <2>1, PlayerViewsLoop, PlayerViewsStay
    <2>3. PICK R : R = {z \in SanePlayers \X Ply!Views : FitsIn(z[1], i, z[2])}
      OBVIOUS
    <2>4. ASSUME NEW z \in R, NEW e \in Ply!Entries PROVE <<F[<<z[1], e>>], H[<<z[2], e>>]>> \in R
      <3>1. PICK x, u, y, w : /\ x = z[1] /\ u = z[2] /\ y = Ply!ApplyEvent(x, e)
                              /\ w = Ply!HeardOf(i, u, e)
        OBVIOUS
      <3>2. x \in SanePlayers /\ u \in Ply!Views /\ FitsIn(x, i, u)
        BY <2>3, <3>1
      <3>3. F[<<x, e>>] = y /\ H[<<u, e>>] = w
        BY <1>2, <2>2, <3>1, <3>2
      <3>4. w \in Ply!Views
        BY <2>2, <3>2, <3>3 DEF Closed
      <3>5. PlayerHeeds(x, y, e)
        BY <3>1, <3>2, PlayerIsApplied
      <3>9. PICK l, m : l = (i \in x.listed) /\ m = (i \in y.listed)
        OBVIOUS
      <3>10. Fits(x.slots[i], u, m) /\ (m => l)
        <4>1. m => l
          BY <3>5, <3>9 DEF PlayerHeeds, PlayerOthers
        <4> QED
          BY <3>2, <3>9, <4>1 DEF FitsIn, Fits
      <3>6. Fits(y.slots[i], w, m)
        <4>1. CASE e.id = i
          <5>1. w = Ply!Heard(u, e)
            BY <3>1, <4>1 DEF Ply!HeardOf
          <5> QED
            BY <3>2, <3>5, <3>9, <3>10, <4>1, <5>1 DEF PlayerHeeds, ViewHeeds
        <4>2. CASE e.id # i
          <5>1. w = u /\ y.slots[i] = x.slots[i]
            BY <3>1, <3>5, <4>2 DEF Ply!HeardOf, PlayerHeeds, PlayerOthers
          <5> QED
            BY <3>10, <5>1
        <4> QED
          BY <4>1, <4>2
      <3>7. y \in SanePlayers
        BY <3>5 DEF PlayerHeeds
      <3>8. <<y, w>> \in R
        BY <2>3, <3>4, <3>6, <3>7, <3>9 DEF FitsIn
      <3> QED
        BY <3>1, <3>3, <3>8
    <2>5. <<o, v>> \in R
      BY <1>4, <2>3
    <2>6. <<Value(ring, mark, o, F), Value(ring, mark, v, H)>> \in R
      BY <2>4, <2>5, ValuesTogether
    <2>7. PICK x, u : x = Value(ring, mark, o, F) /\ u = Value(ring, mark, v, H)
      OBVIOUS
    <2>8. FitsIn(x, i, u)
      BY <2>3, <2>6, <2>7
    <2> QED
      BY <1>2, <2>2, <2>7, <2>8
  <1> QED
    BY <1>3, <1>4

\* A view stays in a set that the events do not leave.
LEMMA PlayerViewStays ==
    ASSUME NEW i, NEW U, U \subseteq Ply!Views, NEW E, E \subseteq Ply!Entries,
           \A u \in U, e \in E : Ply!HeardOf(i, u, e) \in U,
           NEW ring, NEW mark, NEW v \in U, News(ring, mark, E), Len(ring) \in Nat
    PROVE  PlayerView(ring, mark, v, i) \in U
  <1>1. PICK H : H = PlayerViewSteps(i)
    OBVIOUS
  <1>2. News(ring, mark, Ply!Entries)
    BY DEF News
  <1>3. /\ PlayerView(ring, mark, v, i) = Value(ring, mark, v, H)
        /\ \A u \in Ply!Views, e \in Ply!Entries : H[<<u, e>>] = Ply!HeardOf(i, u, e)
    BY <1>1, <1>2, PlayerViewsLoop, PlayerViewsStay
  <1>4. Closed(H, U, E)
    BY <1>3 DEF Closed
  <1>5. Value(ring, mark, v, H) \in U
    BY <1>4, ValueStays
  <1> QED
    BY <1>3, <1>5

\* Views that differ in the colour alone.
SamePlace(u, v) == u.kind = v.kind /\ u.seq = v.seq /\ u.at = v.at

\* What differs in the colour alone still does, after a replay.
LEMMA PlacesStay ==
    ASSUME NEW i, NEW ring, NEW mark, NEW u \in Ply!Views, NEW v \in Ply!Views, SamePlace(u, v),
           News(ring, mark, Ply!Entries), Len(ring) \in Nat
    PROVE  SamePlace(PlayerView(ring, mark, u, i), PlayerView(ring, mark, v, i))
  <1>1. PICK H : H = PlayerViewSteps(i)
    OBVIOUS
  <1>2. /\ PlayerView(ring, mark, u, i) = Value(ring, mark, u, H)
        /\ PlayerView(ring, mark, v, i) = Value(ring, mark, v, H)
        /\ \A w \in Ply!Views, e \in Ply!Entries : H[<<w, e>>] = Ply!HeardOf(i, w, e)
        /\ Closed(H, Ply!Views, Ply!Entries)
    BY <1>1, PlayerViewsLoop, PlayerViewsStay
  <1>3. PICK R : R = {z \in Ply!Views \X Ply!Views : SamePlace(z[1], z[2])}
    OBVIOUS
  <1>4. ASSUME NEW z \in R, NEW e \in Ply!Entries PROVE <<H[<<z[1], e>>], H[<<z[2], e>>]>> \in R
    <2>1. PICK x, y : x = z[1] /\ y = z[2]
      OBVIOUS
    <2>2. x \in Ply!Views /\ y \in Ply!Views /\ SamePlace(x, y)
      BY <1>3, <2>1
    <2>3. H[<<x, e>>] = Ply!HeardOf(i, x, e) /\ H[<<y, e>>] = Ply!HeardOf(i, y, e)
      BY <1>2, <2>2
    <2>4. H[<<x, e>>] \in Ply!Views /\ H[<<y, e>>] \in Ply!Views
      BY <1>2, <2>2 DEF Closed
    <2>5. SamePlace(Ply!Heard(x, e), Ply!Heard(y, e))
      BY <2>2 DEF SamePlace, Ply!Heard, Ply!Views
    <2>6. SamePlace(Ply!HeardOf(i, x, e), Ply!HeardOf(i, y, e))
      BY <2>2, <2>5 DEF Ply!HeardOf
    <2> QED
      BY <1>3, <2>1, <2>3, <2>4, <2>6
  <1>5. <<u, v>> \in R
    BY <1>3
  <1>6. <<Value(ring, mark, u, H), Value(ring, mark, v, H)>> \in R
    BY <1>4, <1>5, ValuesTogether
  <1> QED
    BY <1>2, <1>3, <1>6

-----------------------------------------------------------------------------
(* What the bridge does with all the slots. *)

PlayersMade(o, w, g, a, n, b) ==
    [marks |-> o.marks, listed |-> o.listed, slots |-> w, active |-> a, pending |-> n, peds |-> g, blips |-> b]

\* A slot, its ped and its marker belong together.
Belongs(w, g, b, i) ==
    /\ b[i] = Bit(w[i].marker) /\ Unmarked(w[i])
    /\ w[i].state = "active" => w[i].ped \in Handles /\ g[w[i].ped] = i
Named(w, g, x) == g[x] # 0 => w[g[x]].state = "active" /\ w[g[x]].ped = x

\* A pool made of slots, peds and markers that belong together.
LEMMA PlayersArePut ==
    ASSUME NEW o \in Ply!Pools, NEW w \in [Ids -> Ply!Slots], NEW g \in [Handles -> Ids \cup {0}], NEW a \in Int, NEW n \in Int,
           NEW b \in [Ids -> {0, 1}], \A i \in Ids : Belongs(w, g, b, i), \A x \in Handles : Named(w, g, x),
           a = Ply!Number(w, "active"), n = Ply!Number(w, "pending"), NEW d, d = PlayersMade(o, w, g, a, n, b)
    PROVE  d \in SanePlayers /\ d.slots = w /\ d.marks = o.marks /\ d.listed = o.listed
  <1>1. /\ d.slots = w /\ d.peds = g /\ d.blips = b /\ d.active = a /\ d.pending = n /\ d.marks = o.marks
        /\ d.listed = o.listed
    BY DEF PlayersMade
  <1>2. d \in Ply!Pools
    BY PlayerFields DEF PlayersMade, Ply!Pools, Ply!Blips
  <1>3. ASSUME NEW i \in Ids PROVE Ply!SlotOk(d, i)
    BY <1>1 DEF Belongs, Unmarked, Bit, Ply!SlotOk
  <1>4. ASSUME NEW x \in Handles PROVE Ply!PedOk(d, x)
    BY <1>1 DEF Named, Ply!PedOk
  <1>5. d.active = Ply!Number(d.slots, "active") /\ d.pending = Ply!Number(d.slots, "pending")
    BY <1>1
  <1> QED
    BY <1>1, <1>2, <1>3, <1>4, <1>5 DEF Ply!Sane, SanePlayers

\* How many slots have a state.
LEMMA PlayersAreCounted ==
    ASSUME NEW o \in SanePlayers, NEW A, A = {i \in Ids : o.slots[i].state = "active"},
           NEW P, P = {i \in Ids : o.slots[i].state = "pending"}
    PROVE  /\ o.active = Cardinality(A) /\ o.pending = Cardinality(P) /\ IsFiniteSet(A) /\ IsFiniteSet(P)
           /\ Cardinality(A) \in Nat /\ Cardinality(P) \in Nat
  <1>1. o.active = Cardinality(A) /\ o.pending = Cardinality(P)
    BY DEF SanePlayers, Ply!Sane, Ply!Number, Ply!Cardinality, Cardinality
  <1>2. IsFiniteSet(Ids)
    BY IdsAre
  <1>3. IsFiniteSet(A) /\ IsFiniteSet(P)
    BY <1>2, FS_Subset
  <1> QED
    BY <1>1, <1>3, FS_CardinalityType

\* As many as before, with another field.
LEMMA SameNumber ==
    ASSUME NEW w, NEW r, \A i \in Ids : w[i].state = r[i].state, NEW state
    PROVE  Ply!Number(w, state) = Ply!Number(r, state)
  <1>1. {i \in Ids : w[i].state = state} = {i \in Ids : r[i].state = state}
    OBVIOUS
  <1> QED
    BY <1>1 DEF Ply!Number

Manned(s, x) == [s EXCEPT !.state = "active", !.ped = x]
Emptied(s) == [s EXCEPT !.state = "none"]

\* A slot that has been given a ped, or has been given up.
LEMMA MannedIs ==
    ASSUME NEW s \in Ply!Slots, s.state = "pending", s.marker = FALSE, NEW x \in Handles, NEW t,
           t = Manned(s, x) \/ (t = Emptied(s) /\ ~s.visible)
    PROVE  /\ t \in Ply!Slots /\ t.marker = FALSE /\ Lasts(s, t)
           /\ t = Manned(s, x) => t.state = "active" /\ t.ped = x
           /\ t = Emptied(s) => t.state = "none"
  <1>1. CASE t = Manned(s, x)
    <2>1. /\ t \in Ply!Slots /\ t.marker = FALSE /\ t.state = "active" /\ t.ped = x
          /\ t.seq = s.seq /\ t.at = s.at /\ t.color = s.color /\ t.visible = s.visible /\ t.boot = s.boot
      BY <1>1 DEF Manned, Ply!Slots
    <2>2. Ply!Seen(t) = Ply!Seen(s)
      BY <2>1 DEF Ply!Seen
    <2>3. Emptied(s).state = "none"
      BY DEF Emptied, Ply!Slots
    <2> QED
      BY <2>1, <2>2, <2>3 DEF Lasts
  <1>2. CASE t = Emptied(s) /\ ~s.visible
    <2>1. t \in Ply!Slots /\ t.marker = FALSE /\ t.state = "none"
      BY <1>2 DEF Emptied, Ply!Slots
    <2>2. Ply!Seen(s).kind = "unknown" /\ Ply!Seen(t).kind = "absent"
      BY <1>2, <2>1 DEF Ply!Seen
    <2>3. Manned(s, x).state = "active"
      BY DEF Manned, Ply!Slots
    <2> QED
      BY <2>1, <2>2, <2>3 DEF Lasts
  <1> QED
    BY <1>1, <1>2

\* The sets a flush works on.
Gone(o, go, hidden) ==
    /\ go \subseteq Ids /\ hidden \subseteq Ids /\ \A i \in go : i \notin hidden
    /\ \A i \in go \cup hidden : o.slots[i].state = "pending"
    /\ \A i \in hidden : ~o.slots[i].visible

FlushedSet(o, w, g, a, n) == [o EXCEPT !.active = a, !.pending = n, !.peds = g, !.slots = w]

\* The two ways to write it.
LEMMA FlushedPut ==
    ASSUME NEW o \in Ply!Pools, NEW w, NEW g, NEW a, NEW n
    PROVE  FlushedSet(o, w, g, a, n) = PlayersMade(o, w, g, a, n, o.blips)
  <1>1. PICK x : x = [o EXCEPT !.active = a, !.pending = n]
    OBVIOUS
  <1>2. x = [marks |-> o.marks, listed |-> o.listed, slots |-> o.slots, active |-> a, pending |-> n,
             peds |-> o.peds, blips |-> o.blips]
    BY <1>1 DEF Ply!Pools
  <1>3. FlushedSet(o, w, g, a, n) = [x EXCEPT !.peds = g, !.slots = w]
    BY <1>1 DEF FlushedSet
  <1> QED
    BY <1>2, <1>3 DEF PlayersMade

\* RemotePlayers!Flushed: who goes gets a ped of his own.
LEMMA PlayersAreFlushed ==
    ASSUME NEW o \in SanePlayers, NEW go, NEW hidden, Gone(o, go, hidden), NEW h, h \in Ply!Given(o, go),
           NEW d, d = Ply!Flushed(o, go, hidden, h)
    PROVE  d \in SanePlayers /\ d.marks = o.marks /\ d.listed = o.listed /\ \A i \in Ids : Lasts(o.slots[i], d.slots[i])
  <1>1. /\ o \in Ply!Pools /\ o.slots \in [Ids -> Ply!Slots] /\ o.peds \in [Handles -> Ids \cup {0}]
        /\ o.blips \in [Ids -> {0, 1}]
    BY PlayerFields DEF SanePlayers
  <1>2. /\ go \subseteq Ids /\ hidden \subseteq Ids /\ (\A i \in go : i \notin hidden)
        /\ (\A i \in go \cup hidden : o.slots[i].state = "pending") /\ \A i \in hidden : ~o.slots[i].visible
    BY DEF Gone
  <1>3. ASSUME NEW i \in Ids
        PROVE  /\ o.blips[i] = Bit(o.slots[i].marker) /\ Unmarked(o.slots[i])
               /\ o.slots[i].state = "active" => o.slots[i].ped \in Handles /\ o.peds[o.slots[i].ped] = i
    BY PlayerHas
  <1>4. /\ h \in [go -> {x \in Handles : o.peds[x] = 0}]
        /\ \A i \in go, j \in go : h[i] = h[j] => i = j
    BY DEF Ply!Given
  <1>5. \A i \in go : h[i] \in Handles /\ o.peds[h[i]] = 0
    BY <1>4
  <1>6. PICK w, g : /\ w = [i \in Ids |-> CASE i \in go -> Manned(o.slots[i], h[i])
                                            [] i \in hidden -> Emptied(o.slots[i])
                                            [] OTHER -> o.slots[i]]
                    /\ g = [x \in Handles |-> IF \E i \in go : h[i] = x THEN CHOOSE i \in go : h[i] = x ELSE o.peds[x]]
    OBVIOUS
  <1>7. PICK a, n, A, P : /\ a = o.active + Cardinality(go) /\ n = o.pending - Cardinality(go) - Cardinality(hidden)
                          /\ A = {i \in Ids : o.slots[i].state = "active"}
                          /\ P = {i \in Ids : o.slots[i].state = "pending"}
    OBVIOUS
  <1>8. d = PlayersMade(o, w, g, a, n, o.blips)
    <2>1. d = FlushedSet(o, w, g, a, n)
      BY <1>6, <1>7 DEF Ply!Flushed, Ply!Cardinality, Cardinality, FlushedSet, Manned, Emptied
    <2> QED
      BY <1>1, <2>1, FlushedPut
  <1>9. /\ \A i \in go : w[i] = Manned(o.slots[i], h[i])
        /\ \A i \in hidden : w[i] = Emptied(o.slots[i])
        /\ \A i \in Ids : i \notin go /\ i \notin hidden => w[i] = o.slots[i]
    BY <1>2, <1>6
  <1>10. \A i \in go : w[i] \in Ply!Slots /\ w[i].state = "active" /\ w[i].ped = h[i] /\ w[i].marker = FALSE
                       /\ Lasts(o.slots[i], w[i]) /\ o.slots[i].marker = FALSE
    <2> TAKE i \in go
    <2>1. PICK s, x, t : s = o.slots[i] /\ x = h[i] /\ t = w[i]
      OBVIOUS
    <2>2. s \in Ply!Slots /\ s.state = "pending" /\ s.marker = FALSE /\ x \in Handles /\ t = Manned(s, x)
      BY <1>1, <1>2, <1>3, <1>5, <1>9, <2>1 DEF Unmarked
    <2>3. t \in Ply!Slots /\ t.state = "active" /\ t.ped = x /\ t.marker = FALSE /\ Lasts(s, t)
      BY <2>2, MannedIs
    <2> QED
      BY <2>1, <2>2, <2>3
  <1>11. \A i \in hidden : w[i] \in Ply!Slots /\ w[i].state = "none" /\ w[i].marker = FALSE
                           /\ Lasts(o.slots[i], w[i]) /\ o.slots[i].marker = FALSE
    <2> TAKE i \in hidden
    <2>1. PICK s, t : s = o.slots[i] /\ t = w[i]
      OBVIOUS
    <2>2. s \in Ply!Slots /\ s.state = "pending" /\ s.marker = FALSE /\ t = Emptied(s) /\ ~s.visible
      BY <1>1, <1>2, <1>3, <1>9, <2>1 DEF Unmarked
    <2>3. PICK x : x \in Handles
      <3>1. \E x \in Handles : o.peds[x] = 0
        BY <1>2, <2>1, <2>2, PedIsFree
      <3> QED
        BY <3>1
    <2>4. t \in Ply!Slots /\ t.state = "none" /\ t.marker = FALSE /\ Lasts(s, t)
      BY <2>2, <2>3, MannedIs
    <2> QED
      BY <2>1, <2>2, <2>4
  <1>12. w \in [Ids -> Ply!Slots] /\ \A i \in Ids : Lasts(o.slots[i], w[i])
    <2>1. \A i \in Ids : w[i] \in Ply!Slots /\ Lasts(o.slots[i], w[i])
      BY <1>1, <1>9, <1>10, <1>11 DEF Lasts
    <2> QED
      BY <1>6, <2>1
  <1>13. ASSUME NEW i \in go PROVE g[h[i]] = i
    <2>1. (CHOOSE j \in go : h[j] = h[i]) = i
      BY <1>4
    <2> QED
      BY <1>5, <1>6, <2>1
  <1>14. ASSUME NEW x \in Handles, \A i \in go : h[i] # x PROVE g[x] = o.peds[x]
    BY <1>6, <1>14
  <1>15. g \in [Handles -> Ids \cup {0}]
    <2>1. ASSUME NEW x \in Handles PROVE g[x] \in Ids \cup {0}
      <3>1. CASE \A i \in go : h[i] # x
        BY <1>1, <1>14, <3>1
      <3>2. CASE \E i \in go : h[i] = x
        BY <1>2, <1>13, <3>2
      <3> QED
        BY <3>1, <3>2
    <2> QED
      BY <1>6, <2>1
  <1>16. ASSUME NEW i \in Ids PROVE Belongs(w, g, o.blips, i)
    <2>1. CASE i \in go
      <3>1. o.blips[i] = 0
        BY <1>3, <1>10, <2>1 DEF Bit
      <3> QED
        BY <1>5, <1>10, <1>13, <2>1, <3>1 DEF Belongs, Unmarked, Bit
    <2>2. CASE i \in hidden
      <3>1. o.blips[i] = 0
        BY <1>3, <1>11, <2>2 DEF Bit
      <3> QED
        BY <1>11, <2>2, <3>1 DEF Belongs, Unmarked, Bit
    <2>3. CASE i \notin go /\ i \notin hidden
      <3>1. PICK s : s = o.slots[i]
        OBVIOUS
      <3>2. /\ w[i] = s /\ o.blips[i] = Bit(s.marker) /\ Unmarked(s)
            /\ s.state = "active" => s.ped \in Handles /\ o.peds[s.ped] = i
        BY <1>3, <1>9, <2>3, <3>1
      <3>3. s.state = "active" => g[s.ped] = i
        <4> SUFFICES ASSUME s.state = "active" PROVE g[s.ped] = i
          OBVIOUS
        <4>1. i # 0
          BY IdsAre
        <4>2. \A j \in go : h[j] # s.ped
          BY <1>5, <3>2, <4>1
        <4> QED
          BY <1>14, <3>2, <4>2
      <3> QED
        BY <3>2, <3>3 DEF Belongs
    <2> QED
      BY <2>1, <2>2, <2>3
  <1>17. ASSUME NEW x \in Handles PROVE Named(w, g, x)
    <2>1. CASE \A i \in go : h[i] # x
      <3>1. PICK j : j = o.peds[x]
        OBVIOUS
      <3>2. g[x] = j /\ j \in Ids \cup {0}
        BY <1>1, <1>14, <2>1, <3>1
      <3>3. j # 0 => o.slots[j].state = "active" /\ o.slots[j].ped = x
        BY <3>1, <3>2, PedsAre
      <3>4. j # 0 => j \notin go /\ j \notin hidden
        BY <1>2, <3>3
      <3>5. j # 0 => w[j].state = "active" /\ w[j].ped = x
        BY <1>9, <3>2, <3>3, <3>4
      <3> QED
        BY <3>2, <3>5 DEF Named
    <2>2. CASE \E i \in go : h[i] = x
      <3>1. PICK i \in go : h[i] = x
        BY <2>2
      <3> QED
        BY <1>10, <1>13, <3>1 DEF Named
    <2> QED
      BY <2>1, <2>2
  <1>18. /\ o.active = Cardinality(A) /\ o.pending = Cardinality(P)
         /\ IsFiniteSet(A) /\ IsFiniteSet(P) /\ Cardinality(A) \in Nat /\ Cardinality(P) \in Nat
    BY <1>7, PlayersAreCounted
  <1>19. IsFiniteSet(go) /\ IsFiniteSet(hidden) /\ Cardinality(go) \in Nat /\ Cardinality(hidden) \in Nat
    <2>1. IsFiniteSet(Ids)
      BY IdsAre
    <2>2. IsFiniteSet(go) /\ IsFiniteSet(hidden)
      BY <1>2, <2>1, FS_Subset
    <2> QED
      BY <2>2, FS_CardinalityType
  <1>20. {i \in Ids : w[i].state = "active"} = A \cup go /\ A \cap go = {}
    <2>1. PICK B : B = {i \in Ids : w[i].state = "active"}
      OBVIOUS
    <2>2. ASSUME NEW i \in Ids PROVE i \in B <=> (i \in A \/ i \in go)
      <3>1. CASE i \in go
        BY <1>10, <2>1, <3>1
      <3>2. CASE i \in hidden
        <4>1. w[i].state = "none" /\ o.slots[i].state = "pending" /\ i \notin go
          BY <1>2, <1>11, <3>2
        <4> QED
          BY <1>7, <2>1, <4>1
      <3>3. CASE i \notin go /\ i \notin hidden
        BY <1>7, <1>9, <2>1, <3>3
      <3> QED
        BY <3>1, <3>2, <3>3
    <2>3. B \subseteq Ids /\ A \subseteq Ids /\ \A i \in go : i \notin A
      BY <1>2, <1>7, <2>1
    <2> QED
      BY <1>2, <2>1, <2>2, <2>3
  <1>21. {i \in Ids : w[i].state = "pending"} = P \ (go \cup hidden) /\ P \cap (go \cup hidden) = go \cup hidden
    <2>1. PICK B : B = {i \in Ids : w[i].state = "pending"}
      OBVIOUS
    <2>2. ASSUME NEW i \in Ids PROVE i \in B <=> (i \in P /\ i \notin go \cup hidden)
      <3>1. CASE i \in go
        <4>1. w[i].state = "active"
          BY <1>10, <3>1
        <4> QED
          BY <2>1, <3>1, <4>1
      <3>2. CASE i \in hidden
        <4>1. w[i].state = "none"
          BY <1>11, <3>2
        <4> QED
          BY <2>1, <3>2, <4>1
      <3>3. CASE i \notin go /\ i \notin hidden
        BY <1>7, <1>9, <2>1, <3>3
      <3> QED
        BY <3>1, <3>2, <3>3
    <2>3. B \subseteq Ids /\ P \subseteq Ids /\ \A i \in go \cup hidden : i \in P
      BY <1>2, <1>7, <2>1
    <2> QED
      BY <1>2, <2>1, <2>2, <2>3
  <1>22. /\ a = Cardinality(A \cup go) /\ n = Cardinality(P \ (go \cup hidden)) /\ a \in Int /\ n \in Int
    <2>1. Cardinality(A \cup go) = Cardinality(A) + Cardinality(go) - Cardinality(A \cap go)
      BY <1>18, <1>19, FS_Union
    <2>2. Cardinality(P \ (go \cup hidden)) = Cardinality(P) - Cardinality(P \cap (go \cup hidden))
      BY <1>18, FS_Difference
    <2>3. Cardinality(go \cup hidden) = Cardinality(go) + Cardinality(hidden) - Cardinality(go \cap hidden)
      BY <1>19, FS_Union
    <2>4. go \cap hidden = {}
      BY <1>2
    <2>5. Cardinality(A \cap go) = 0 /\ Cardinality(go \cap hidden) = 0
      BY <1>20, <2>4, FS_EmptySet
    <2>6. Cardinality(P \cap (go \cup hidden)) = Cardinality(go \cup hidden)
      BY <1>21
    <2>7. PICK x, y, z, c, u, v, r : /\ x = Cardinality(A) /\ y = Cardinality(P) /\ z = Cardinality(go)
                                     /\ c = Cardinality(hidden) /\ r = Cardinality(go \cup hidden)
                                     /\ u = Cardinality(A \cup go) /\ v = Cardinality(P \ (go \cup hidden))
      OBVIOUS
    <2>8. a = x + z /\ n = y - z - c /\ x \in Nat /\ y \in Nat /\ z \in Nat /\ c \in Nat
      BY <1>7, <1>18, <1>19, <2>7
    <2>9. u = x + z - 0 /\ v = y - r /\ r = z + c - 0
      BY <2>1, <2>2, <2>3, <2>5, <2>6, <2>7
    <2>10. a = u /\ n = v /\ a \in Int /\ n \in Int
      BY <2>8, <2>9
    <2> QED
      BY <2>7, <2>10
  <1>23. d \in SanePlayers /\ d.marks = o.marks /\ d.listed = o.listed /\ d.slots = w
    <2>1. a = Ply!Number(w, "active") /\ n = Ply!Number(w, "pending")
      BY <1>20, <1>21, <1>22 DEF Ply!Number, Ply!Cardinality, Cardinality
    <2>2. PICK b : b = o.blips
      OBVIOUS
    <2>3. d = PlayersMade(o, w, g, a, n, b) /\ b \in [Ids -> {0, 1}] /\ \A i \in Ids : Belongs(w, g, b, i)
      BY <1>1, <1>8, <1>16, <2>2
    <2>4. a \in Int /\ n \in Int
      BY <1>22
    <2> QED
      BY <1>1, <1>12, <1>15, <1>17, <2>1, <2>3, <2>4, PlayersArePut
  <1> QED
    BY <1>12, <1>23

\* RemotePlayers!Flush.
LEMMA PlayersFlush ==
    ASSUME NEW o \in SanePlayers, NEW d \in Ply!Flush(o)
    PROVE  d \in SanePlayers /\ d.marks = o.marks /\ d.listed = o.listed /\ \A i \in Ids : Lasts(o.slots[i], d.slots[i])
  <1> DEFINE Able == {i \in Ids : Ply!Tried(o, i) /\ Ply!Creatable(o.slots[i])}
             Reached == {i \in Ids : Ply!Cardinality({j \in Able : j < i}) < Budget}
             Hidden == {i \in Reached : Ply!Tried(o, i) /\ ~o.slots[i].visible}
  <1>1. PICK h : h \in Ply!Given(o, Able \cap Reached) /\ d = Ply!Flushed(o, Able \cap Reached, Hidden, h)
    BY DEF Ply!Flush
  <1>2. Reached \subseteq Ids
    OBVIOUS
  <1>3. PICK reached : reached = Reached
    OBVIOUS
  <1>4. PICK go, hidden : go = Able \cap reached /\ hidden = {i \in reached : Ply!Tried(o, i) /\ ~o.slots[i].visible}
    OBVIOUS
  <1>5. Gone(o, go, hidden)
    <2> HIDE DEF Reached, Hidden
    <2>1. \A i \in go : o.slots[i].state = "pending" /\ o.slots[i].visible /\ i \in Ids
      BY <1>4 DEF Ply!Tried, Ply!Creatable
    <2>2. \A i \in hidden : o.slots[i].state = "pending" /\ ~o.slots[i].visible /\ i \in Ids
      BY <1>2, <1>3, <1>4 DEF Ply!Tried
    <2> QED
      BY <2>1, <2>2 DEF Gone
  <1>6. h \in Ply!Given(o, go) /\ d = Ply!Flushed(o, go, hidden, h)
    <2> HIDE DEF Able, Reached
    <2> QED
      BY <1>1, <1>3, <1>4
  <1> QED
    BY <1>5, <1>6, PlayersAreFlushed

Marked(s, m) == [s EXCEPT !.marker = m]

\* The marker of a slot alone.
LEMMA MarkedIs ==
    ASSUME NEW s \in Ply!Slots, NEW m \in BOOLEAN, NEW t, t = Marked(s, m)
    PROVE  /\ t \in Ply!Slots /\ t.marker = m /\ t.state = s.state /\ t.ped = s.ped /\ Lasts(s, t)
  <1>1. /\ t \in Ply!Slots /\ t.marker = m /\ t.state = s.state /\ t.ped = s.ped
        /\ t.seq = s.seq /\ t.at = s.at /\ t.color = s.color /\ t.visible = s.visible /\ t.boot = s.boot
    BY DEF Marked, Ply!Slots
  <1>2. Ply!Seen(t) = Ply!Seen(s)
    BY <1>1 DEF Ply!Seen
  <1> QED
    BY <1>1, <1>2 DEF Lasts

MarkedSet(o, w, b) == [o EXCEPT !.slots = w, !.blips = b]

\* The two ways to write it.
LEMMA MarkedPut ==
    ASSUME NEW o \in Ply!Pools, NEW w, NEW b
    PROVE  MarkedSet(o, w, b) = PlayersMade(o, w, o.peds, o.active, o.pending, b)
  <1>1. PICK x : x = [o EXCEPT !.slots = w]
    OBVIOUS
  <1>2. x = [marks |-> o.marks, listed |-> o.listed, slots |-> w, active |-> o.active, pending |-> o.pending,
             peds |-> o.peds, blips |-> o.blips]
    BY <1>1 DEF Ply!Pools
  <1>3. MarkedSet(o, w, b) = [x EXCEPT !.blips = b]
    BY <1>1 DEF MarkedSet, Ply!Pools
  <1> QED
    BY <1>2, <1>3 DEF PlayersMade

\* RemotePlayers!UpdateMarkers.
LEMMA PlayersAreMarked ==
    ASSUME NEW o \in SanePlayers, NEW enabled \in BOOLEAN, NEW d, d = Ply!UpdateMarkers(o, enabled)
    PROVE  d \in SanePlayers /\ d.marks = o.marks /\ d.listed = o.listed /\ \A i \in Ids : Lasts(o.slots[i], d.slots[i])
  <1>1. /\ o \in Ply!Pools /\ o.slots \in [Ids -> Ply!Slots] /\ o.peds \in [Handles -> Ids \cup {0}]
        /\ o.active \in Int /\ o.pending \in Int /\ o.blips \in [Ids -> {0, 1}] /\ Ply!Sane(o)
    BY PlayerFields DEF SanePlayers
  <1> DEFINE Shows(i) == enabled /\ i \in o.listed /\ o.slots[i].visible
             On(i) == o.slots[i].state = "active" /\ Shows(i) /\ ~o.slots[i].marker
             Off(i) == o.slots[i].state = "active" /\ ~Shows(i) /\ o.slots[i].marker
             New(i) == (o.slots[i].marker \/ On(i)) /\ ~Off(i)
  <1>2. PICK w, b : /\ w = [i \in Ids |-> Marked(o.slots[i], New(i))]
                    /\ b = [i \in Ids |-> IF On(i) THEN o.blips[i] + 1 ELSE IF Off(i) THEN o.blips[i] - 1 ELSE o.blips[i]]
    OBVIOUS
  <1>3. d = MarkedSet(o, w, b)
    BY <1>1, <1>2 DEF Ply!UpdateMarkers, MarkedSet, Marked, Ply!Pools, Ply!Blips
  <1>4. ASSUME NEW i \in Ids
        PROVE  /\ New(i) \in BOOLEAN
               /\ o.slots[i].state # "active" => New(i) = FALSE
               /\ b[i] = Bit(New(i))
    <2>1. o.blips[i] = Bit(o.slots[i].marker) /\ Unmarked(o.slots[i]) /\ o.slots[i] \in Ply!Slots
      BY PlayerHas
    <2>2. o.slots[i].marker \in BOOLEAN
      BY <2>1, PlayerSlot
    <2>3. PICK m \in BOOLEAN : m = o.slots[i].marker
      BY <2>2
    <2>4. PICK x : x = Shows(i)
      OBVIOUS
    <2> QED
      BY <1>2, <2>1, <2>3, <2>4 DEF Bit, Unmarked
  <1> HIDE DEF New
  <1>5. ASSUME NEW i \in Ids
        PROVE  /\ w[i] \in Ply!Slots /\ w[i].marker = New(i) /\ w[i].state = o.slots[i].state /\ w[i].ped = o.slots[i].ped
               /\ Lasts(o.slots[i], w[i])
    <2>1. PICK u, m, t : u = o.slots[i] /\ m = New(i) /\ t = Marked(u, m)
      OBVIOUS
    <2>2. u \in Ply!Slots /\ m \in BOOLEAN /\ t = w[i]
      BY <1>1, <1>2, <1>4, <2>1
    <2>3. t \in Ply!Slots /\ t.marker = m /\ t.state = u.state /\ t.ped = u.ped /\ Lasts(u, t)
      BY <2>1, <2>2, MarkedIs
    <2> QED
      BY <2>1, <2>2, <2>3
  <1>6. w \in [Ids -> Ply!Slots] /\ b \in [Ids -> {0, 1}]
    <2>1. \A i \in Ids : b[i] \in {0, 1}
      BY <1>4 DEF Bit
    <2> HIDE DEF On, Off
    <2> QED
      BY <1>2, <1>5, <2>1
  <1>7. ASSUME NEW i \in Ids PROVE Belongs(w, o.peds, b, i)
    <2>1. PICK m : m = New(i)
      OBVIOUS
    <2>2. b[i] = Bit(w[i].marker) /\ Unmarked(w[i])
      BY <1>4, <1>5, <2>1 DEF Unmarked
    <2>3. o.slots[i].state = "active" => o.slots[i].ped \in Handles /\ o.peds[o.slots[i].ped] = i
      BY PlayerHas
    <2> QED
      BY <1>5, <2>2, <2>3 DEF Belongs
  <1>8. ASSUME NEW x \in Handles PROVE Named(w, o.peds, x)
    <2>1. Ply!PedOk(o, x) /\ o.peds[x] \in Ids \cup {0}
      BY <1>1 DEF Ply!Sane
    <2> QED
      BY <1>5, <2>1 DEF Ply!PedOk, Named
  <1>9. o.active = Ply!Number(w, "active") /\ o.pending = Ply!Number(w, "pending")
    <2>1. o.active = Ply!Number(o.slots, "active") /\ o.pending = Ply!Number(o.slots, "pending")
      BY <1>1 DEF Ply!Sane
    <2>2. \A i \in Ids : w[i].state = o.slots[i].state
      BY <1>5
    <2> QED
      BY <2>1, <2>2, SameNumber
  <1>10. d = PlayersMade(o, w, o.peds, o.active, o.pending, b)
    BY <1>1, <1>3, MarkedPut
  <1>11. PICK g, a, n : g = o.peds /\ a = o.active /\ n = o.pending
    OBVIOUS
  <1>12. d \in SanePlayers /\ d.slots = w /\ d.marks = o.marks /\ d.listed = o.listed
    <2>1. g \in [Handles -> Ids \cup {0}] /\ a \in Int /\ n \in Int
      BY <1>1, <1>11
    <2>2. (\A i \in Ids : Belongs(w, g, b, i)) /\ \A x \in Handles : Named(w, g, x)
      BY <1>7, <1>8, <1>11
    <2>3. a = Ply!Number(w, "active") /\ n = Ply!Number(w, "pending") /\ d = PlayersMade(o, w, g, a, n, b)
      BY <1>9, <1>10, <1>11
    <2> QED
      BY <1>1, <1>6, <2>1, <2>2, <2>3, PlayersArePut
  <1> QED
    BY <1>5, <1>12

\* The empty pool.
LEMMA FreshPlayers ==
    ASSUME NEW d, d = Ply!FreshPool
    PROVE  /\ d \in SanePlayers /\ d.slots = [i \in Ids |-> Ply!NoSlot] /\ d.marks = [r \in Ply!Rings |-> 0]
           /\ d.active = 0 /\ d.pending = 0 /\ d.listed = Ids
           /\ d.blips = [i \in Ids |-> 0] /\ d.peds = [x \in Handles |-> 0]
  <1>1. /\ d.slots = [i \in Ids |-> Ply!NoSlot] /\ d.marks = [r \in Ply!Rings |-> 0]
        /\ d.active = 0 /\ d.pending = 0 /\ d.blips = [i \in Ids |-> 0] /\ d.peds = [x \in Handles |-> 0]
        /\ d.listed = Ids
    BY DEF Ply!FreshPool
  <1>2. d \in Ply!Pools
    <2>1. Ply!NoSlot \in Ply!Slots
      BY NoPlayer
    <2> HIDE DEF Ply!NoSlot
    <2> QED
      BY <2>1 DEF Ply!FreshPool, Ply!Pools, Ply!Blips
  <1>3. ASSUME NEW i \in Ids PROVE Ply!SlotOk(d, i)
    BY <1>1, NoPlayer DEF Ply!SlotOk
  <1>4. ASSUME NEW x \in Handles PROVE Ply!PedOk(d, x)
    BY <1>1 DEF Ply!PedOk
  <1>5. ASSUME NEW state \in {"active", "pending"} PROVE Ply!Number(d.slots, state) = 0
    <2>1. {i \in Ids : d.slots[i].state = state} = {}
      BY <1>1, NoPlayer
    <2>2. Cardinality({}) = 0
      BY FS_EmptySet
    <2> QED
      BY <2>1, <2>2 DEF Ply!Number, Ply!Cardinality, Cardinality
  <1> QED
    BY <1>1, <1>2, <1>3, <1>4, <1>5 DEF Ply!Sane, SanePlayers

\* RemotePlayers!ResetPool.
LEMMA PlayersAreReset ==
    ASSUME NEW o \in SanePlayers, NEW d, d = Ply!ResetPool(o)
    PROVE  d = Ply!FreshPool
  <1>1. PICK f : f = Ply!FreshPool
    OBVIOUS
  <1>2. /\ f \in SanePlayers /\ f.blips = [i \in Ids |-> 0] /\ f.peds = [x \in Handles |-> 0]
    BY <1>1, FreshPlayers
  <1>3. /\ o.peds \in [Handles -> Ids \cup {0}] /\ o.blips \in [Ids -> {0, 1}]
    BY PlayerFields DEF SanePlayers
  <1> DEFINE Had == {i \in Ids : o.slots[i].state = "active"}
  <1>4. PICK g, b : /\ g = [x \in Handles |-> IF \E i \in Had : o.slots[i].ped = x THEN 0 ELSE o.peds[x]]
                    /\ b = [i \in Ids |-> IF i \in Had /\ o.slots[i].marker THEN o.blips[i] - 1 ELSE o.blips[i]]
    OBVIOUS
  <1>5. d = [f EXCEPT !.peds = g, !.blips = b]
    BY <1>1, <1>4 DEF Ply!ResetPool
  <1>6. ASSUME NEW x \in Handles PROVE g[x] = 0
    <2>1. o.peds[x] \in Ids \cup {0}
      BY <1>3
    <2>2. CASE o.peds[x] = 0
      BY <1>4, <2>2
    <2>3. CASE o.peds[x] \in Ids
      <3>1. o.slots[o.peds[x]].state = "active" /\ o.slots[o.peds[x]].ped = x
        BY <2>3, PedsAre
      <3> QED
        BY <1>4, <2>3, <3>1
    <2> QED
      BY <2>1, <2>2, <2>3
  <1>7. ASSUME NEW i \in Ids PROVE b[i] = 0
    <2>1. o.blips[i] = Bit(o.slots[i].marker) /\ Unmarked(o.slots[i]) /\ o.slots[i] \in Ply!Slots
      BY PlayerHas
    <2>2. o.slots[i].marker \in BOOLEAN
      BY <2>1, PlayerSlot
    <2> QED
      BY <1>4, <2>1, <2>2 DEF Bit, Unmarked
  <1>8. g = [x \in Handles |-> 0] /\ b = [i \in Ids |-> 0]
    BY <1>4, <1>6, <1>7
  <1>9. d = [f EXCEPT !.peds = f.peds, !.blips = f.blips]
    BY <1>2, <1>5, <1>8
  <1> QED
    BY <1>1, <1>2, <1>9 DEF SanePlayers, Ply!Pools

-----------------------------------------------------------------------------
(* The invariant of RemotePlayers, of any values of its variables. *)

PlayerRings == [Ply!Rings -> [seq : Nat, ring : Seq(Ply!Entries)]]
PlayerProbes == [rings : PlayerRings, server : [Ids -> Ply!Players]]
PlayerNets == [probe : PlayerProbes, restart : Nat, rpcs : Nat]
PlayerOwns == [pool : Ply!Pools, handled : Nat, gap : BOOLEAN]

PlayersTypes(n, w, c, s) ==
    n \in PlayerNets /\ w \in PlayerOwns /\ c \in {"pump", "drawn"} /\ s \in {"none", "spawned"}

\* A ring of theirs.
Row(p, r) == RingOk(p.rings[r].ring, p.rings[r].seq, RingSize, Ply!Events(r))
Rows(p) == \A r \in Ply!Rings : Row(p, r)

PlayersCount(n, w, c) ==
    /\ n.rpcs =< MaxEvents /\ w.handled =< n.restart /\ n.restart =< MaxRestarts
    /\ \A r \in Ply!Rings :
         /\ n.probe.rings[r].seq =< n.rpcs
         /\ w.pool.marks[r] =< MaxEvents
         /\ w.handled = n.restart => w.pool.marks[r] =< n.probe.rings[r].seq
         /\ c = "drawn" => w.pool.marks[r] = n.probe.rings[r].seq
    /\ c = "drawn" => w.handled = n.restart

PlayersPool(n, w) == IF n.restart # w.handled THEN Ply!ResetPool(w.pool) ELSE w.pool

PlayersCatch(n, w) == (w.gap => n.restart # w.handled) => Ply!CatchesUp(n.probe, PlayersPool(n, w))

PlayersHas(n, w, c, s) ==
    /\ PlayersTypes(n, w, c, s) /\ Rows(n.probe) /\ PlayersCount(n, w, c)
    /\ Ply!Sane(w.pool) /\ PlayersCatch(n, w)

\* It is the invariant, now
LEMMA PlayersHasIs == Ply!PlayersInv <=> PlayersHas(net, own, pc, scene)
  <1>1. (Ply!Fields /\ Ply!RingEnds) <=> (PlayersTypes(net, own, pc, scene) /\ Rows(net.probe))
    <2>1. Ply!Fields <=> /\ PlayersTypes(net, own, pc, scene)
                         /\ \A r \in Ply!Rings : net.probe.rings[r].ring \in Seq(Ply!Events(r))
      BY DEF Ply!Fields, PlayersTypes, PlayerNets, PlayerProbes, PlayerRings, PlayerOwns
    <2>2. PlayersTypes(net, own, pc, scene) => \A r \in Ply!Rings : net.probe.rings[r].seq \in Nat
      BY DEF PlayersTypes, PlayerNets, PlayerProbes, PlayerRings
    <2> QED
      BY <2>1, <2>2 DEF Ply!RingEnds, Rows, Row, RingOk
  <1>2. Ply!Counts <=> PlayersCount(net, own, pc)
    BY DEF Ply!Counts, PlayersCount
  <1>3. Ply!Pool = PlayersPool(net, own)
    BY DEF Ply!Pool, Ply!Restarted, PlayersPool
  <1>4. ((own.gap => Ply!Restarted) => Ply!CatchesUp(net.probe, Ply!Pool)) <=> PlayersCatch(net, own)
    BY <1>3 DEF Ply!Restarted, PlayersCatch
  <1> QED
    BY <1>1, <1>2, <1>4 DEF Ply!PlayersInv, PlayersHas

\* and after a step.
LEMMA PlayersWillHave == Ply!PlayersInv' <=> PlayersHas(net', own', pc', scene')
  <1>1. (Ply!Fields' /\ Ply!RingEnds') <=> (PlayersTypes(net', own', pc', scene') /\ Rows(net'.probe))
    <2>1. Ply!Fields' <=> /\ PlayersTypes(net', own', pc', scene')
                          /\ \A r \in Ply!Rings : net'.probe.rings[r].ring \in Seq(Ply!Events(r))
      BY DEF Ply!Fields, PlayersTypes, PlayerNets, PlayerProbes, PlayerRings, PlayerOwns
    <2>2. PlayersTypes(net', own', pc', scene') => \A r \in Ply!Rings : net'.probe.rings[r].seq \in Nat
      BY DEF PlayersTypes, PlayerNets, PlayerProbes, PlayerRings
    <2> QED
      BY <2>1, <2>2 DEF Ply!RingEnds, Rows, Row, RingOk
  <1>2. Ply!Counts' <=> PlayersCount(net', own', pc')
    BY DEF Ply!Counts, PlayersCount
  <1>3. Ply!Pool' = PlayersPool(net', own')
    BY DEF Ply!Pool, Ply!Restarted, PlayersPool, Ply!ResetPool
  <1>4. ((own.gap => Ply!Restarted) => Ply!CatchesUp(net.probe, Ply!Pool))' <=> PlayersCatch(net', own')
    BY <1>3 DEF Ply!Restarted, PlayersCatch
  <1>5. Ply!Sane(own.pool)' <=> Ply!Sane(own'.pool)
    OBVIOUS
  <1> QED
    BY <1>1, <1>2, <1>4, <1>5 DEF Ply!PlayersInv, PlayersHas

\* The parts of the adapter.
LEMMA PlayerNet ==
    ASSUME NEW n \in PlayerNets
    PROVE  /\ n = [probe |-> n.probe, restart |-> n.restart, rpcs |-> n.rpcs]
           /\ n.probe \in PlayerProbes /\ n.restart \in Nat /\ n.rpcs \in Nat
  BY DEF PlayerNets

\* The parts of its snapshot.
LEMMA PlayerProbe ==
    ASSUME NEW p \in PlayerProbes
    PROVE  /\ p = [rings |-> p.rings, server |-> p.server]
           /\ p.rings \in PlayerRings /\ p.server \in [Ids -> Ply!Players]
           /\ \A r \in Ply!Rings : p.rings[r] = [seq |-> p.rings[r].seq, ring |-> p.rings[r].ring] /\ p.rings[r].seq \in Nat
  BY DEF PlayerProbes, PlayerRings

\* The parts of the bridge.
LEMMA PlayerOwn ==
    ASSUME NEW w \in PlayerOwns
    PROVE  /\ w = [pool |-> w.pool, handled |-> w.handled, gap |-> w.gap]
           /\ w.pool \in Ply!Pools /\ w.handled \in Nat /\ w.gap \in BOOLEAN
  BY DEF PlayerOwns

\* An event of a ring is an entry.
LEMMA EventIs ==
    ASSUME NEW r \in Ply!Rings
    PROVE  Ply!Events(r) \subseteq Ply!Entries
  <1>1. Ply!Actions(r) \subseteq UNION {Ply!Actions(x) : x \in Ply!Rings}
    OBVIOUS
  <1> QED
    BY <1>1 DEF Ply!Events, Ply!Entries

\* What a ring of theirs holds.
LEMMA RowIs ==
    ASSUME NEW p, NEW r \in Ply!Rings, Row(p, r), NEW ring, ring = p.rings[r].ring
    PROVE  /\ Len(ring) \in Nat /\ ring \in Seq(Ply!Events(r)) /\ p.rings[r].seq \in Nat
           /\ \A mark : News(ring, mark, Ply!Events(r)) /\ News(ring, mark, Ply!Entries)
  <1>1. ring \in Seq(Ply!Events(r)) /\ p.rings[r].seq \in Nat
    BY DEF Row, RingOk
  <1>2. \A k \in 1 .. Len(ring) : ring[k] \in Ply!Events(r)
    BY <1>1
  <1>3. \A k \in 1 .. Len(ring) : ring[k] \in Ply!Entries
    BY <1>2, EventIs
  <1> QED
    BY <1>1, <1>2, <1>3 DEF News

\* Ring, of RemotePlayers.
LEMMA PlayersRing ==
    /\ \A r, m : Ply!Gap(r, m) = Gap(r, m) /\ Ply!MarkAfter(r, m) = MarkAfter(r, m)
    /\ \A r, n, e : Ply!Push(r, n, e) = Push(r, n, e)
  BY DEF Ply!Gap, Gap, Ply!MarkAfter, MarkAfter, Ply!Push, Push

\* What a replay makes of a view is one.
LEMMA PlayerHeardIs ==
    ASSUME NEW p, NEW r \in Ply!Rings, Row(p, r), NEW marks, NEW v \in Ply!Views, NEW i
    PROVE  /\ Ply!HeardAfter(p, r, marks, v, i) = PlayerView(p.rings[r].ring, marks[r], v, i)
           /\ Ply!HeardAfter(p, r, marks, v, i) \in Ply!Views
  <1>1. Ply!HeardAfter(p, r, marks, v, i) = PlayerView(p.rings[r].ring, marks[r], v, i)
    BY DEF Ply!HeardAfter, PlayerView
  <1>2. PICK ring, mark : ring = p.rings[r].ring /\ mark = marks[r]
    OBVIOUS
  <1>3. News(ring, mark, Ply!Entries) /\ Len(ring) \in Nat
    BY <1>2, RowIs
  <1>4. PICK U, E : U = Ply!Views /\ E = Ply!Entries
    OBVIOUS
  <1>5. \A u \in U, e \in E : Ply!HeardOf(i, u, e) \in U
    BY <1>4, PlayerViewed DEF Ply!HeardOf
  <1>6. PlayerView(ring, mark, v, i) \in U
    BY <1>3, <1>4, <1>5, PlayerViewStays
  <1> QED
    BY <1>1, <1>2, <1>4, <1>6

-----------------------------------------------------------------------------
(* Whether a replay catches up. *)

\* The event e is put into the ring x of p, and q is what becomes of p.
QueuedIn(p, q, x, e) ==
    /\ e.seq = p.rings[x].seq + 1 /\ q.rings[x].seq = p.rings[x].seq + 1
    /\ q.rings[x].ring = Push(p.rings[x].ring, RingSize, e)
    /\ \A r \in Ply!Rings : r # x => q.rings[r] = p.rings[r]
    /\ \A i \in Ids : i # e.id => q.server[i] = p.server[i]

MarksFit(p, marks) == marks \in [Ply!Rings -> Nat] /\ \A r \in Ply!Rings : marks[r] =< p.rings[r].seq

Asked(p, q, x, e, marks) ==
    x \in Ply!Rings /\ e \in Ply!Events(x) /\ Rows(p) /\ QueuedIn(p, q, x, e) /\ MarksFit(p, marks)

NoGaps(p, marks) == \A r \in Ply!Rings : ~Ply!Gap(p.rings[r].ring, marks[r])

\* What is asked for.
LEMMA AskedIs ==
    ASSUME NEW p, NEW q, NEW x, NEW e, NEW marks, Asked(p, q, x, e, marks)
    PROVE  /\ x \in Ply!Rings /\ e \in Ply!Events(x) /\ e \in Ply!Entries /\ e.id \in Ids /\ Row(p, x)
           /\ e.seq = p.rings[x].seq + 1 /\ q.rings[x].seq = p.rings[x].seq + 1
           /\ q.rings[x].ring = Push(p.rings[x].ring, RingSize, e)
           /\ marks[x] \in Nat /\ marks[x] =< p.rings[x].seq
  <1>1. /\ x \in Ply!Rings /\ e \in Ply!Events(x) /\ Row(p, x)
        /\ e.seq = p.rings[x].seq + 1 /\ q.rings[x].seq = p.rings[x].seq + 1
        /\ q.rings[x].ring = Push(p.rings[x].ring, RingSize, e)
        /\ marks[x] \in Nat /\ marks[x] =< p.rings[x].seq
    BY DEF Asked, QueuedIn, MarksFit, Rows
  <1>2. e \in Ply!Entries
    BY <1>1, EventIs
  <1>3. e.id \in Ids
    BY <1>2, PlayerEntry
  <1> QED
    BY <1>1, <1>2, <1>3

\* A ring with an event more is a ring.
LEMMA RowPushed ==
    ASSUME NEW p, NEW q, NEW x, NEW e, NEW marks, Asked(p, q, x, e, marks)
    PROVE  Row(q, x)
  <1>1. PICK ring, seq, r, E : ring = p.rings[x].ring /\ seq = p.rings[x].seq /\ r = q.rings[x].ring /\ E = Ply!Events(x)
    OBVIOUS
  <1>2. e \in E /\ e.seq = seq + 1 /\ r = Push(ring, RingSize, e) /\ RingOk(ring, seq, RingSize, E)
    BY <1>1, AskedIs DEF Row
  <1>3. RingSize \in Nat \ {0}
    BY PoolsAssumption
  <1>4. RingOk(r, seq + 1, RingSize, E)
    BY <1>2, <1>3, RingPushed
  <1>5. q.rings[x].seq = seq + 1
    BY <1>1, AskedIs
  <1> QED
    BY <1>1, <1>4, <1>5 DEF Row

\* The pushed ring is read with one event more.
LEMMA HeardPushed ==
    ASSUME NEW p, NEW q, NEW x, NEW e, NEW marks, Asked(p, q, x, e, marks), NoGaps(q, marks),
           NEW v \in Ply!Views, NEW i
    PROVE  /\ ~Ply!Gap(p.rings[x].ring, marks[x])
           /\ Ply!HeardAfter(q, x, marks, v, i) = Ply!HeardOf(i, Ply!HeardAfter(p, x, marks, v, i), e)
  <1>1. PICK ring, seq, r, E, mark : /\ ring = p.rings[x].ring /\ seq = p.rings[x].seq /\ r = q.rings[x].ring
                                     /\ E = Ply!Events(x) /\ mark = marks[x]
    OBVIOUS
  <1>2. /\ x \in Ply!Rings /\ e \in E /\ e.seq = seq + 1 /\ r = Push(ring, RingSize, e) /\ Row(p, x)
        /\ mark \in Nat /\ mark =< seq /\ e \in Ply!Entries
    BY <1>1, AskedIs
  <1>3. RingOk(ring, seq, RingSize, E)
    BY <1>1, <1>2 DEF Row
  <1>4. RingSize \in Nat \ {0}
    BY PoolsAssumption
  <1>5. RingOk(r, seq + 1, RingSize, E)
    BY <1>2, <1>3, <1>4, RingPushed
  <1>6. Row(q, x)
    BY RowPushed
  <1>7. Whole(r, seq + 1, mark)
    <2>1. ~Ply!Gap(r, mark)
      BY <1>1, <1>2 DEF NoGaps
    <2>2. ~Gap(r, mark)
      BY <2>1, PlayersRing
    <2>3. PICK t : t = seq + 1
      OBVIOUS
    <2>4. RingOk(r, t, RingSize, E)
      BY <1>5, <2>3
    <2> QED
      BY <1>2, <1>4, <2>2, <2>3, <2>4, GapIs
  <1>8. PICK H : H = PlayerViewSteps(i)
    OBVIOUS
  <1>9. Whole(ring, seq, mark) /\ Value(r, mark, v, H) = H[<<Value(ring, mark, v, H), e>>]
    BY <1>2, <1>3, <1>4, <1>7, ValuePushed
  <1>10. ~Gap(ring, mark)
    BY <1>2, <1>3, <1>4, <1>9, GapIs
  <1>11. ~Ply!Gap(ring, mark)
    BY <1>10, PlayersRing
  <1>12. PICK u, w : u = PlayerView(ring, mark, v, i) /\ w = PlayerView(r, mark, v, i)
    OBVIOUS
  <1>13. u = Value(ring, mark, v, H) /\ w = Value(r, mark, v, H)
    <2>1. /\ News(ring, mark, Ply!Entries) /\ Len(ring) \in Nat
          /\ News(r, mark, Ply!Entries) /\ Len(r) \in Nat
      BY <1>1, <1>2, <1>6, RowIs
    <2> QED
      BY <1>8, <1>12, <2>1, PlayerViewsLoop
  <1>14. u = Ply!HeardAfter(p, x, marks, v, i) /\ u \in Ply!Views /\ w = Ply!HeardAfter(q, x, marks, v, i)
    <2>1. /\ Ply!HeardAfter(p, x, marks, v, i) = PlayerView(p.rings[x].ring, marks[x], v, i)
          /\ Ply!HeardAfter(p, x, marks, v, i) \in Ply!Views
      BY <1>2, PlayerHeardIs
    <2>2. Ply!HeardAfter(q, x, marks, v, i) = PlayerView(q.rings[x].ring, marks[x], v, i)
      BY <1>2, <1>6, PlayerHeardIs
    <2> QED
      BY <1>1, <1>12, <2>1, <2>2
  <1>15. H[<<u, e>>] = Ply!HeardOf(i, u, e)
    BY <1>2, <1>8, <1>14, PlayerViewsStay
  <1> QED
    BY <1>1, <1>9, <1>11, <1>13, <1>14, <1>15

\* The others as before.
LEMMA HeardSame ==
    ASSUME NEW p, NEW q, NEW x, NEW e, NEW marks, Asked(p, q, x, e, marks), NEW r \in Ply!Rings, r # x
    PROVE  /\ q.rings[r] = p.rings[r] /\ Row(p, r)
           /\ \A v, i : Ply!HeardAfter(q, r, marks, v, i) = Ply!HeardAfter(p, r, marks, v, i)
  <1>1. q.rings[r] = p.rings[r] /\ Row(p, r)
    BY DEF Asked, QueuedIn, Rows
  <1> QED
    BY <1>1 DEF Ply!HeardAfter

\* Whom the event is not about.
LEMMA ViewSame ==
    ASSUME NEW p, NEW q, NEW x, NEW e, NEW marks, Asked(p, q, x, e, marks), NoGaps(q, marks),
           NEW r \in Ply!Rings, NEW v \in Ply!Views, NEW i, i # e.id
    PROVE  /\ Ply!HeardAfter(q, r, marks, v, i) = Ply!HeardAfter(p, r, marks, v, i)
           /\ Ply!HeardAfter(p, r, marks, v, i) \in Ply!Views
  <1>1. Row(p, r)
    BY DEF Asked, Rows
  <1>2. CASE r = x
    <2>1. Ply!HeardAfter(q, r, marks, v, i) = Ply!HeardOf(i, Ply!HeardAfter(p, r, marks, v, i), e)
      BY <1>2, HeardPushed
    <2> QED
      BY <1>1, <2>1, PlayerHeardIs DEF Ply!HeardOf
  <1>3. CASE r # x
    <2>1. \A t, j : Ply!HeardAfter(q, r, marks, t, j) = Ply!HeardAfter(p, r, marks, t, j)
      BY <1>3, HeardSame
    <2>2. Ply!HeardAfter(p, r, marks, v, i) \in Ply!Views
      BY <1>1, PlayerHeardIs
    <2> QED
      BY <2>1, <2>2
  <1> QED
    BY <1>2, <1>3

\* The three replays.
LEMMA ViewAfterIs ==
    ASSUME NEW p, NEW marks, NEW v \in Ply!Views, NEW i, Rows(p)
    PROVE  \E a \in Ply!Views, b \in Ply!Views, c \in Ply!Views :
              /\ a = Ply!HeardAfter(p, "roster", marks, v, i) /\ b = Ply!HeardAfter(p, "world", marks, a, i)
              /\ c = Ply!HeardAfter(p, "sync", marks, b, i) /\ c = Ply!ViewAfter(p, marks, v, i)
  <1>1. PICK x, y, z : x = "roster" /\ y = "world" /\ z = "sync"
    OBVIOUS
  <1>2. x \in Ply!Rings /\ y \in Ply!Rings /\ z \in Ply!Rings
    BY <1>1 DEF Ply!Rings
  <1>3. Row(p, x) /\ Row(p, y) /\ Row(p, z)
    BY <1>2 DEF Rows
  <1>4. PICK a : a = Ply!HeardAfter(p, x, marks, v, i)
    OBVIOUS
  <1>5. a \in Ply!Views
    BY <1>2, <1>3, <1>4, PlayerHeardIs
  <1>6. PICK b : b = Ply!HeardAfter(p, y, marks, a, i)
    OBVIOUS
  <1>7. b \in Ply!Views
    BY <1>2, <1>3, <1>5, <1>6, PlayerHeardIs
  <1>8. PICK c : c = Ply!HeardAfter(p, z, marks, b, i)
    OBVIOUS
  <1>9. c \in Ply!Views
    BY <1>2, <1>3, <1>7, <1>8, PlayerHeardIs
  <1>10. c = Ply!ViewAfter(p, marks, v, i)
    BY <1>1, <1>4, <1>6, <1>8 DEF Ply!ViewAfter
  <1> QED
    BY <1>1, <1>4, <1>5, <1>6, <1>7, <1>8, <1>9, <1>10

\* What the server says of the player comes out of a replay, if it did before the event.
Answered(p, q, marks, e) ==
    NoGaps(q, marks) =>
        \A v \in Ply!Views, l \in BOOLEAN :
            Ply!Right(Ply!ViewAfter(p, marks, v, e.id), p.server[e.id], l)
                => Ply!Right(Ply!ViewAfter(q, marks, v, e.id), q.server[e.id], l)

\* One RPC more.
LEMMA PlayerPushed ==
    ASSUME NEW p, NEW q, NEW x, NEW e, NEW k \in Ply!Pools, Asked(p, q, x, e, k.marks), Answered(p, q, k.marks, e),
           Ply!CatchesUp(p, k)
    PROVE  Ply!CatchesUp(q, k)
  <1>1. PICK marks : marks = k.marks
    OBVIOUS
  <1>2. Asked(p, q, x, e, marks) /\ Answered(p, q, marks, e)
    BY <1>1
  <1>3. SUFFICES ASSUME NoGaps(q, marks), NEW i \in Ids
                 PROVE  Ply!Right(Ply!ViewAfter(q, marks, Ply!Seen(k.slots[i]), i), q.server[i], i \in k.listed)
    BY <1>1 DEF Ply!CatchesUp, NoGaps
  <1>4. PICK v, l : v = Ply!Seen(k.slots[i]) /\ l = (i \in k.listed)
    OBVIOUS
  <1>10. l \in BOOLEAN
    <2>1. CASE i \in k.listed
      BY <1>4, <2>1
    <2>2. CASE i \notin k.listed
      BY <1>4, <2>2
    <2> QED
      BY <2>1, <2>2
  <1>5. v \in Ply!Views
    BY <1>4, PlayerSeen, PlayerFields
  <1>6. ASSUME NEW r \in Ply!Rings PROVE ~Ply!Gap(p.rings[r].ring, marks[r])
    <2>1. CASE r = x
      BY <1>2, <1>3, <1>5, <2>1, HeardPushed
    <2>2. CASE r # x
      BY <1>2, <1>3, <2>2, HeardSame DEF NoGaps
    <2> QED
      BY <2>1, <2>2
  <1>7. Ply!Right(Ply!ViewAfter(p, marks, v, i), p.server[i], l)
    BY <1>1, <1>4, <1>6 DEF Ply!CatchesUp
  <1>8. CASE i = e.id
    BY <1>2, <1>3, <1>4, <1>5, <1>7, <1>8, <1>10 DEF Answered
  <1>9. CASE i # e.id
    <2>1. q.server[i] = p.server[i] /\ Rows(p)
      BY <1>2, <1>9 DEF Asked, QueuedIn
    <2>2. PICK a \in Ply!Views, b \in Ply!Views, c \in Ply!Views :
              /\ a = Ply!HeardAfter(p, "roster", marks, v, i) /\ b = Ply!HeardAfter(p, "world", marks, a, i)
              /\ c = Ply!HeardAfter(p, "sync", marks, b, i) /\ c = Ply!ViewAfter(p, marks, v, i)
      BY <1>5, <2>1, ViewAfterIs
    <2>3. PICK y, z, t : y = "roster" /\ z = "world" /\ t = "sync"
      OBVIOUS
    <2>4. y \in Ply!Rings /\ z \in Ply!Rings /\ t \in Ply!Rings
      BY <2>3 DEF Ply!Rings
    <2>5. /\ a = Ply!HeardAfter(q, y, marks, v, i) /\ b = Ply!HeardAfter(q, z, marks, a, i)
          /\ c = Ply!HeardAfter(q, t, marks, b, i)
      BY <1>2, <1>3, <1>5, <1>9, <2>2, <2>3, <2>4, ViewSame
    <2>6. Ply!ViewAfter(q, marks, v, i) = c
      BY <2>3, <2>5 DEF Ply!ViewAfter
    <2> QED
      BY <1>4, <1>7, <2>1, <2>2, <2>6
  <1> QED
    BY <1>8, <1>9

\* The rings are rings still.
LEMMA RowsPushed ==
    ASSUME NEW p, NEW q, NEW x, NEW e, NEW marks, Asked(p, q, x, e, marks)
    PROVE  Rows(q)
  <1>1. SUFFICES ASSUME NEW r \in Ply!Rings PROVE Row(q, r)
    BY DEF Rows
  <1>2. CASE r = x
    BY <1>2, RowPushed
  <1>3. CASE r # x
    <2>1. q.rings[r] = p.rings[r] /\ Row(p, r)
      BY <1>3, HeardSame
    <2> QED
      BY <2>1 DEF Row
  <1> QED
    BY <1>2, <1>3

\* What becomes of the pushed ring's player: of the world,
LEMMA WorldPushed ==
    ASSUME NEW p, NEW q, NEW e, NEW marks, Asked(p, q, "world", e, marks), NoGaps(q, marks),
           NEW v \in Ply!Views, NEW i
    PROVE  \E b \in Ply!Views :
              Ply!ViewAfter(q, marks, v, i) = Ply!HeardAfter(p, "sync", marks, Ply!HeardOf(i, b, e), i)
  <1>1. PICK x, y, z : x = "roster" /\ y = "world" /\ z = "sync"
    OBVIOUS
  <1>2. x \in Ply!Rings /\ y \in Ply!Rings /\ z \in Ply!Rings /\ x # y /\ z # y /\ Asked(p, q, y, e, marks)
    BY <1>1 DEF Ply!Rings
  <1>3. PICK a : a = Ply!HeardAfter(p, x, marks, v, i)
    OBVIOUS
  <1>4. Row(p, x) /\ Row(p, y)
    BY <1>2 DEF Asked, Rows
  <1>5. a \in Ply!Views
    BY <1>2, <1>3, <1>4, PlayerHeardIs
  <1>6. PICK b : b = Ply!HeardAfter(p, y, marks, a, i)
    OBVIOUS
  <1>7. b \in Ply!Views
    BY <1>2, <1>4, <1>5, <1>6, PlayerHeardIs
  <1>8. \A t, j : Ply!HeardAfter(q, x, marks, t, j) = Ply!HeardAfter(p, x, marks, t, j)
    BY <1>2, HeardSame
  <1>9. \A t, j : Ply!HeardAfter(q, z, marks, t, j) = Ply!HeardAfter(p, z, marks, t, j)
    BY <1>2, HeardSame
  <1>10. Ply!HeardAfter(q, y, marks, a, i) = Ply!HeardOf(i, b, e)
    BY <1>2, <1>5, <1>6, HeardPushed
  <1>11. Ply!ViewAfter(q, marks, v, i) = Ply!HeardAfter(p, z, marks, Ply!HeardOf(i, b, e), i)
    BY <1>1, <1>3, <1>8, <1>9, <1>10 DEF Ply!ViewAfter
  <1> QED
    BY <1>1, <1>7, <1>11

\* of the syncs,
LEMMA SyncPushed ==
    ASSUME NEW p, NEW q, NEW e, NEW marks, Asked(p, q, "sync", e, marks), NoGaps(q, marks),
           NEW v \in Ply!Views, NEW i
    PROVE  /\ Ply!ViewAfter(p, marks, v, i) \in Ply!Views
           /\ Ply!ViewAfter(q, marks, v, i) = Ply!HeardOf(i, Ply!ViewAfter(p, marks, v, i), e)
  <1>1. PICK x, y, z : x = "roster" /\ y = "world" /\ z = "sync"
    OBVIOUS
  <1>2. x \in Ply!Rings /\ y \in Ply!Rings /\ z \in Ply!Rings /\ x # z /\ y # z /\ Asked(p, q, z, e, marks)
    BY <1>1 DEF Ply!Rings
  <1>3. Row(p, x) /\ Row(p, y) /\ Row(p, z)
    BY <1>2 DEF Asked, Rows
  <1>4. PICK a : a = Ply!HeardAfter(p, x, marks, v, i)
    OBVIOUS
  <1>5. a \in Ply!Views
    BY <1>2, <1>3, <1>4, PlayerHeardIs
  <1>6. PICK b : b = Ply!HeardAfter(p, y, marks, a, i)
    OBVIOUS
  <1>7. b \in Ply!Views
    BY <1>2, <1>3, <1>5, <1>6, PlayerHeardIs
  <1>8. PICK c : c = Ply!HeardAfter(p, z, marks, b, i)
    OBVIOUS
  <1>9. c \in Ply!Views
    BY <1>2, <1>3, <1>7, <1>8, PlayerHeardIs
  <1>10. \A t, j : Ply!HeardAfter(q, x, marks, t, j) = Ply!HeardAfter(p, x, marks, t, j)
    BY <1>2, HeardSame
  <1>11. \A t, j : Ply!HeardAfter(q, y, marks, t, j) = Ply!HeardAfter(p, y, marks, t, j)
    BY <1>2, HeardSame
  <1>12. Ply!HeardAfter(q, z, marks, b, i) = Ply!HeardOf(i, c, e)
    BY <1>2, <1>7, <1>8, HeardPushed
  <1>13. Ply!ViewAfter(q, marks, v, i) = Ply!HeardOf(i, c, e)
    BY <1>1, <1>4, <1>6, <1>10, <1>11, <1>12 DEF Ply!ViewAfter
  <1>14. Ply!ViewAfter(p, marks, v, i) = c
    BY <1>1, <1>4, <1>6, <1>8 DEF Ply!ViewAfter
  <1> QED
    BY <1>9, <1>13, <1>14

\* of the scoreboard.
LEMMA RosterPushed ==
    ASSUME NEW p, NEW q, NEW e, NEW marks, Asked(p, q, "roster", e, marks), NoGaps(q, marks),
           NEW v \in Ply!Views, NEW i
    PROVE  \E a \in Ply!Views :
              /\ Ply!ViewAfter(p, marks, v, i) = Ply!HeardAfter(p, "sync", marks, Ply!HeardAfter(p, "world", marks, a, i), i)
              /\ Ply!ViewAfter(q, marks, v, i)
                    = Ply!HeardAfter(p, "sync", marks, Ply!HeardAfter(p, "world", marks, Ply!HeardOf(i, a, e), i), i)
  <1>1. PICK x, y, z : x = "roster" /\ y = "world" /\ z = "sync"
    OBVIOUS
  <1>2. x \in Ply!Rings /\ y \in Ply!Rings /\ z \in Ply!Rings /\ y # x /\ z # x /\ Asked(p, q, x, e, marks)
    BY <1>1 DEF Ply!Rings
  <1>3. PICK a : a = Ply!HeardAfter(p, x, marks, v, i)
    OBVIOUS
  <1>4. Row(p, x)
    BY <1>2 DEF Asked, Rows
  <1>5. a \in Ply!Views
    BY <1>2, <1>3, <1>4, PlayerHeardIs
  <1>8. \A t, j : Ply!HeardAfter(q, y, marks, t, j) = Ply!HeardAfter(p, y, marks, t, j)
    BY <1>2, HeardSame
  <1>9. \A t, j : Ply!HeardAfter(q, z, marks, t, j) = Ply!HeardAfter(p, z, marks, t, j)
    BY <1>2, HeardSame
  <1>10. Ply!HeardAfter(q, x, marks, v, i) = Ply!HeardOf(i, a, e)
    BY <1>2, <1>3, HeardPushed
  <1>11. Ply!ViewAfter(q, marks, v, i)
            = Ply!HeardAfter(p, z, marks, Ply!HeardAfter(p, y, marks, Ply!HeardOf(i, a, e), i), i)
    BY <1>1, <1>8, <1>9, <1>10 DEF Ply!ViewAfter
  <1>12. Ply!ViewAfter(p, marks, v, i) = Ply!HeardAfter(p, z, marks, Ply!HeardAfter(p, y, marks, a, i), i)
    BY <1>1, <1>3 DEF Ply!ViewAfter
  <1> QED
    BY <1>1, <1>5, <1>11, <1>12

\* Nothing about i waits.
NoneWaits(ring, mark, i) == \A k \in 1 .. Len(ring) : ~(ring[k].id = i /\ ring[k].seq > mark)

\* A ring with nothing about him that its reader has not seen.
LEMMA NothingOfHis ==
    ASSUME NEW p, NEW r \in Ply!Rings, Row(p, r), NEW marks, NEW v \in Ply!Views, NEW i,
           NoneWaits(p.rings[r].ring, marks[r], i)
    PROVE  Ply!HeardAfter(p, r, marks, v, i) = v
  <1>1. PICK ring, mark, U, E : /\ ring = p.rings[r].ring /\ mark = marks[r]
                                /\ U = {v} /\ E = {e \in Ply!Entries : e.id # i}
    OBVIOUS
  <1>2. News(ring, mark, Ply!Entries) /\ Len(ring) \in Nat
    BY <1>1, RowIs
  <1>3. News(ring, mark, E)
    BY <1>1, <1>2 DEF News, NoneWaits
  <1>4. \A u \in U, e \in E : Ply!HeardOf(i, u, e) \in U
    BY <1>1 DEF Ply!HeardOf
  <1>5. U \subseteq Ply!Views /\ E \subseteq Ply!Entries /\ v \in U
    BY <1>1
  <1>6. PlayerView(ring, mark, v, i) \in U
    BY <1>2, <1>3, <1>4, <1>5, PlayerViewStays
  <1>7. Ply!HeardAfter(p, r, marks, v, i) = PlayerView(p.rings[r].ring, marks[r], v, i)
    BY PlayerHeardIs
  <1> QED
    BY <1>1, <1>6, <1>7

\* A sync that waits makes a ghost of one who is not there.
LEMMA GhostComes ==
    ASSUME NEW p, Row(p, "sync"), NEW marks, NEW v \in Ply!Views, v.kind = "absent", NEW i,
           ~NoneWaits(p.rings["sync"].ring, marks["sync"], i)
    PROVE  Ply!HeardAfter(p, "sync", marks, v, i).kind = "ghost"
  <1>1. PICK z : z = "sync"
    OBVIOUS
  <1>2. z \in Ply!Rings /\ Row(p, z)
    BY <1>1 DEF Ply!Rings
  <1>3. PICK ring, mark, E, H : /\ ring = p.rings[z].ring /\ mark = marks[z] /\ E = Ply!Events(z)
                                /\ H = PlayerViewSteps(i)
    OBVIOUS
  <1>4. News(ring, mark, E) /\ News(ring, mark, Ply!Entries) /\ Len(ring) \in Nat
    BY <1>2, <1>3, RowIs
  <1>5. PICK last \in Nat : last = Len(ring)
    BY <1>4
  <1>6. PICK h : Loop(h, ring, mark, v, last, H) /\ Value(ring, mark, v, H) = h[last]
    BY <1>5, ValueIs
  <1>7. /\ h[0] = v
        /\ \A k \in 0 .. last : k # 0 => h[k] = IF ring[k].seq > mark THEN H[<<h[k - 1], ring[k]>>] ELSE h[k - 1]
    BY <1>6 DEF Loop
  <1>8. PICK n \in 1 .. last : ring[n].id = i /\ ring[n].seq > mark
    BY <1>1, <1>3, <1>5 DEF NoneWaits
  <1> DEFINE S == {k \in Nat : k =< last => h[k] \in Ply!Views /\ h[k].kind \in {"absent", "ghost"}
                                             /\ (n =< k => h[k].kind = "ghost")}
  <1>9. 0 \in S
    BY <1>7, <1>8
  <1>10. ASSUME NEW k \in Nat, k \in S PROVE k + 1 \in S
    <2> SUFFICES ASSUME k + 1 =< last
                 PROVE  /\ h[k + 1] \in Ply!Views /\ h[k + 1].kind \in {"absent", "ghost"}
                        /\ n =< k + 1 => h[k + 1].kind = "ghost"
      OBVIOUS
    <2>1. PICK j : j = k + 1
      OBVIOUS
    <2>2. PICK u, e, w : u = h[k] /\ e = ring[j] /\ w = h[j]
      OBVIOUS
    <2>3. u \in Ply!Views /\ u.kind \in {"absent", "ghost"} /\ (n =< k => u.kind = "ghost")
      BY <1>10, <2>2
    <2>4. j \in 0 .. last /\ j # 0 /\ j - 1 = k /\ j \in 1 .. Len(ring)
      BY <1>5, <2>1
    <2>5. w = IF e.seq > mark THEN H[<<u, e>>] ELSE u
      BY <1>7, <2>2, <2>4
    <2>6. CASE ~(e.seq > mark)
      <3>1. w = u /\ j # n
        BY <1>8, <2>2, <2>5, <2>6
      <3>2. n =< j => n =< k
        BY <1>8, <2>1, <3>1
      <3> QED
        BY <2>1, <2>2, <2>3, <3>1, <3>2
    <2>7. CASE e.seq > mark
      <3>1. e \in E
        BY <1>4, <2>2, <2>4, <2>7 DEF News
      <3>2. e \in Ply!Entries /\ e.action = "sync"
        BY <1>1, <1>2, <1>3, <3>1, EventIs DEF Ply!Events, Ply!Actions
      <3>3. w = Ply!HeardOf(i, u, e)
        BY <1>3, <2>3, <2>5, <2>7, <3>2, PlayerViewsStay
      <3>4. CASE e.id = i
        <4>1. w = Ply!Heard(u, e) /\ w \in Ply!Views
          BY <2>3, <3>2, <3>3, <3>4, PlayerViewed DEF Ply!HeardOf
        <4>2. w = [u EXCEPT !.at = e.rpc, !.kind = IF u.kind = "absent" THEN "ghost" ELSE u.kind]
          BY <3>2, <4>1 DEF Ply!Heard
        <4>3. w.kind = "ghost"
          BY <2>3, <4>2 DEF Ply!Views
        <4> QED
          BY <2>1, <2>2, <4>1, <4>3
      <3>5. CASE e.id # i
        <4>1. w = u /\ j # n
          BY <1>8, <2>2, <3>3, <3>5 DEF Ply!HeardOf
        <4>2. n =< j => n =< k
          BY <1>8, <2>1, <4>1
        <4> QED
          BY <2>1, <2>2, <2>3, <4>1, <4>2
      <3> QED
        BY <3>4, <3>5
    <2> QED
      BY <2>6, <2>7
  <1>11. Nat \subseteq S
    <2> HIDE DEF S
    <2> QED
      BY <1>9, <1>10, Steps
  <1>12. h[last].kind = "ghost"
    BY <1>8, <1>11
  <1>13. PlayerView(ring, mark, v, i) = Value(ring, mark, v, H)
    BY <1>3, <1>4, PlayerViewsLoop
  <1>14. Ply!HeardAfter(p, z, marks, v, i) = PlayerView(p.rings[z].ring, marks[z], v, i)
    BY <1>2, PlayerHeardIs
  <1> QED
    BY <1>1, <1>3, <1>6, <1>12, <1>13, <1>14

\* A sync leaves the colour and the entry alone.
LEMMA SyncKeeps ==
    ASSUME NEW p, Row(p, "sync"), NEW marks, NEW v \in Ply!Views, NEW i, NEW u, u = Ply!HeardAfter(p, "sync", marks, v, i)
    PROVE  u \in Ply!Views /\ u.color = v.color /\ u.seq = v.seq /\ (v.kind = "here" => u.kind = "here")
  <1>1. PICK z : z = "sync"
    OBVIOUS
  <1>2. z \in Ply!Rings /\ Row(p, z)
    BY <1>1 DEF Ply!Rings
  <1>3. PICK ring, mark, U, E : /\ ring = p.rings[z].ring /\ mark = marks[z] /\ E = Ply!Events(z)
                                /\ U = {t \in Ply!Views : t.color = v.color /\ t.seq = v.seq /\ (v.kind = "here" => t.kind = "here")}
    OBVIOUS
  <1>4. News(ring, mark, E) /\ Len(ring) \in Nat
    BY <1>2, <1>3, RowIs
  <1>5. ASSUME NEW t \in U, NEW e \in E PROVE Ply!HeardOf(i, t, e) \in U
    <2>1. e.action = "sync" /\ e \in Ply!Entries
      BY <1>1, <1>2, <1>3, EventIs DEF Ply!Events, Ply!Actions
    <2>2. t \in Ply!Views
      BY <1>3
    <2>3. Ply!Heard(t, e) \in Ply!Views
      BY <2>1, <2>2, PlayerViewed
    <2>4. Ply!Heard(t, e) = [t EXCEPT !.at = e.rpc, !.kind = IF t.kind = "absent" THEN "ghost" ELSE t.kind]
      BY <2>1 DEF Ply!Heard
    <2>5. /\ Ply!Heard(t, e).color = t.color /\ Ply!Heard(t, e).seq = t.seq
          /\ t.kind = "here" => Ply!Heard(t, e).kind = "here"
      BY <2>2, <2>4 DEF Ply!Views
    <2> QED
      BY <1>3, <2>3, <2>5 DEF Ply!HeardOf
  <1>6. U \subseteq Ply!Views /\ E \subseteq Ply!Entries /\ v \in U
    BY <1>2, <1>3, EventIs
  <1>7. PlayerView(ring, mark, v, i) \in U
    BY <1>4, <1>5, <1>6, PlayerViewStays
  <1>8. Ply!HeardAfter(p, z, marks, v, i) = PlayerView(p.rings[z].ring, marks[z], v, i)
    BY <1>2, PlayerHeardIs
  <1> QED
    BY <1>1, <1>3, <1>7, <1>8

-----------------------------------------------------------------------------
(* The adapter's handlers. *)

\* What the server says of a player, who has entered as e says.
Entered(s, e) == s.kind = e.look /\ s.seq = e.seq /\ s.synced = FALSE /\ s.color = e.rpc

\* A player enters the world.
LEMMA EntryIsAnswered ==
    ASSUME NEW p, NEW q, NEW e, NEW marks, Asked(p, q, "world", e, marks), e.action = "add",
           Entered(q.server[e.id], e)
    PROVE  Answered(p, q, marks, e)
  <1>1. PICK i, s : i = e.id /\ s = q.server[e.id]
    OBVIOUS
  <1>2. s.kind = e.look /\ s.seq = e.seq /\ s.synced = FALSE /\ s.color = e.rpc
    BY <1>1 DEF Entered
  <1>3. SUFFICES ASSUME NoGaps(q, marks), NEW v \in Ply!Views, NEW l \in BOOLEAN
                 PROVE  Ply!Right(Ply!ViewAfter(q, marks, v, i), s, l)
    BY <1>1 DEF Answered
  <1>4. PICK b \in Ply!Views :
          Ply!ViewAfter(q, marks, v, i) = Ply!HeardAfter(p, "sync", marks, Ply!HeardOf(i, b, e), i)
    BY <1>3, WorldPushed
  <1>5. e \in Ply!Entries /\ e.look \notin {"gone", "late"}
    <2>1. e \in Ply!Entries
      BY AskedIs
    <2> QED
      BY <2>1 DEF Ply!Entries, Ply!Looks
  <1>6. CASE e.look # "shown"
    BY <1>2, <1>5, <1>6 DEF Ply!Right
  <1>7. CASE e.look = "shown"
    <2>1. PICK t : t = Ply!HeardOf(i, b, e)
      OBVIOUS
    <2>2. t = Ply!Heard(b, e) /\ t \in Ply!Views
      BY <1>1, <1>5, <2>1, PlayerViewed DEF Ply!HeardOf
    <2>3. t = [kind |-> "here", seq |-> e.seq, at |-> e.rpc, color |-> e.rpc]
      BY <1>7, <2>2 DEF Ply!Heard
    <2>4. t.kind = "here" /\ t.seq = e.seq /\ t.color = e.rpc
      BY <2>3
    <2>5. Row(p, "sync")
      BY DEF Asked, Rows, Ply!Rings
    <2>6. PICK u : u = Ply!HeardAfter(p, "sync", marks, t, i)
      OBVIOUS
    <2>7. u.color = t.color /\ u.seq = t.seq /\ (t.kind = "here" => u.kind = "here")
      BY <2>2, <2>5, <2>6, SyncKeeps
    <2>8. Ply!ViewAfter(q, marks, v, i) = u
      BY <1>4, <2>1, <2>6
    <2> QED
      BY <1>2, <1>7, <2>4, <2>7, <2>8 DEF Ply!Right
  <1> QED
    BY <1>6, <1>7

\* What it says of one who has left, and may have moved before.
Left(s, p, marks, i) ==
    /\ s.kind = (IF NoneWaits(p.rings["sync"].ring, marks["sync"], i) THEN "gone" ELSE "late")
    /\ s.synced = FALSE

\* A player leaves the world.
LEMMA ExitIsAnswered ==
    ASSUME NEW p, NEW q, NEW e, NEW marks, Asked(p, q, "world", e, marks), e.action = "remove",
           Left(q.server[e.id], p, marks, e.id)
    PROVE  Answered(p, q, marks, e)
  <1>1. PICK i, s : i = e.id /\ s = q.server[e.id]
    OBVIOUS
  <1>2. s.kind = (IF NoneWaits(p.rings["sync"].ring, marks["sync"], i) THEN "gone" ELSE "late") /\ s.synced = FALSE
    BY <1>1 DEF Left
  <1>3. SUFFICES ASSUME NoGaps(q, marks), NEW v \in Ply!Views, NEW l \in BOOLEAN
                 PROVE  Ply!Right(Ply!ViewAfter(q, marks, v, i), s, l)
    BY <1>1 DEF Answered
  <1>4. PICK b \in Ply!Views :
          Ply!ViewAfter(q, marks, v, i) = Ply!HeardAfter(p, "sync", marks, Ply!HeardOf(i, b, e), i)
    BY <1>3, WorldPushed
  <1>7. e \in Ply!Entries
    BY AskedIs
  <1>8. PICK t : t = Ply!HeardOf(i, b, e)
    OBVIOUS
  <1>9. t = Ply!Heard(b, e) /\ t \in Ply!Views
    BY <1>1, <1>7, <1>8, PlayerViewed DEF Ply!HeardOf
  <1>10. t.kind = "absent"
    BY <1>9 DEF Ply!Heard, Ply!Views
  <1>11. Row(p, "sync")
    BY DEF Asked, Rows, Ply!Rings
  <1>5. CASE ~NoneWaits(p.rings["sync"].ring, marks["sync"], i)
    <2>1. Ply!HeardAfter(p, "sync", marks, t, i).kind = "ghost"
      BY <1>5, <1>9, <1>10, <1>11, GhostComes
    <2> QED
      BY <1>2, <1>4, <1>5, <1>8, <2>1 DEF Ply!Right
  <1>6. CASE NoneWaits(p.rings["sync"].ring, marks["sync"], i)
    <2>5. PICK z : z = "sync"
      OBVIOUS
    <2>6. z \in Ply!Rings /\ Row(p, z) /\ NoneWaits(p.rings[z].ring, marks[z], i)
      BY <1>6, <2>5 DEF Asked, Rows, Ply!Rings
    <2>7. Ply!HeardAfter(p, z, marks, t, i) = t
      BY <1>9, <2>6, NothingOfHis
    <2>8. Ply!ViewAfter(q, marks, v, i) = t
      BY <1>4, <1>8, <2>5, <2>7
    <2> QED
      BY <1>2, <1>6, <1>10, <2>8 DEF Ply!Right
  <1> QED
    BY <1>5, <1>6

\* What it says of one who has moved.
Moved(u, s, e) ==
    s.kind = (IF u.kind = "gone" THEN "late" ELSE u.kind) /\ s.seq = u.seq /\ s.at = e.rpc /\ s.color = u.color

\* A player moves.
LEMMA MoveIsAnswered ==
    ASSUME NEW p, NEW q, NEW e, NEW marks, Asked(p, q, "sync", e, marks),
           Moved(p.server[e.id], q.server[e.id], e)
    PROVE  Answered(p, q, marks, e)
  <1>1. PICK i, u, s : i = e.id /\ u = p.server[e.id] /\ s = q.server[e.id]
    OBVIOUS
  <1>2. /\ s.kind = (IF u.kind = "gone" THEN "late" ELSE u.kind)
        /\ s.seq = u.seq /\ s.at = e.rpc /\ s.color = u.color
    BY <1>1 DEF Moved
  <1>3. SUFFICES ASSUME NoGaps(q, marks), NEW v \in Ply!Views, NEW l \in BOOLEAN,
                        Ply!Right(Ply!ViewAfter(p, marks, v, i), u, l)
                 PROVE  Ply!Right(Ply!ViewAfter(q, marks, v, i), s, l)
    BY <1>1 DEF Answered
  <1>4. PICK c, d : c = Ply!ViewAfter(p, marks, v, i) /\ d = Ply!ViewAfter(q, marks, v, i)
    OBVIOUS
  <1>5. c \in Ply!Views /\ d = Ply!HeardOf(i, c, e)
    BY <1>3, <1>4, SyncPushed
  <1>6. e.action = "sync"
    BY AskedIs DEF Ply!Events, Ply!Actions
  <1>9. c.kind \in {"absent", "ghost"} => d.kind = "ghost" /\ d.at = e.rpc
    <2>1. d = [c EXCEPT !.at = e.rpc, !.kind = IF c.kind = "absent" THEN "ghost" ELSE c.kind]
      BY <1>1, <1>5, <1>6 DEF Ply!HeardOf, Ply!Heard
    <2> QED
      BY <1>5, <2>1 DEF Ply!Views
  <1>7. CASE s.kind # "shown"
    <2>1. s.kind # "gone"
      BY <1>2
    <2>2. s.kind = "late" /\ l => c.kind \in {"absent", "ghost"}
      BY <1>2, <1>3, <1>4 DEF Ply!Right
    <2> QED
      BY <1>2, <1>4, <1>7, <1>9, <2>1, <2>2 DEF Ply!Right
  <1>8. CASE s.kind = "shown"
    <2>1. c.kind = "here" /\ c.seq = u.seq /\ (u.color # 0 => c.color = u.color)
      BY <1>2, <1>3, <1>4, <1>8 DEF Ply!Right
    <2>2. d = [c EXCEPT !.at = e.rpc]
      <3>1. d = [c EXCEPT !.at = e.rpc, !.kind = IF c.kind = "absent" THEN "ghost" ELSE c.kind]
        BY <1>1, <1>5, <1>6 DEF Ply!HeardOf, Ply!Heard
      <3> QED
        BY <1>5, <2>1, <3>1 DEF Ply!Views
    <2>3. d.kind = c.kind /\ d.seq = c.seq /\ d.color = c.color /\ d.at = e.rpc
      BY <1>5, <2>2 DEF Ply!Views
    <2> QED
      BY <1>2, <1>4, <1>8, <2>1, <2>3 DEF Ply!Right
  <1> QED
    BY <1>7, <1>8

\* A player leaves the server.
LEMMA QuitIsAnswered ==
    ASSUME NEW p, NEW q, NEW e, NEW marks, Asked(p, q, "roster", e, marks), e.action = "quit",
           q.server[e.id] = p.server[e.id]
    PROVE  Answered(p, q, marks, e)
  <1>1. PICK i, u : i = e.id /\ u = p.server[e.id]
    OBVIOUS
  <1>2. SUFFICES ASSUME NoGaps(q, marks), NEW v \in Ply!Views, NEW l \in BOOLEAN,
                        Ply!Right(Ply!ViewAfter(p, marks, v, i), u, l)
                 PROVE  Ply!Right(Ply!ViewAfter(q, marks, v, i), u, l)
    BY <1>1 DEF Answered
  <1>3. PICK a \in Ply!Views :
          /\ Ply!ViewAfter(p, marks, v, i) = Ply!HeardAfter(p, "sync", marks, Ply!HeardAfter(p, "world", marks, a, i), i)
          /\ Ply!ViewAfter(q, marks, v, i)
                = Ply!HeardAfter(p, "sync", marks, Ply!HeardAfter(p, "world", marks, Ply!HeardOf(i, a, e), i), i)
    BY <1>2, RosterPushed
  <1>4. Ply!HeardOf(i, a, e) = a
    BY DEF Ply!HeardOf, Ply!Heard
  <1> QED
    BY <1>2, <1>3, <1>4

\* What it says of one who has another colour.
Recolored(u, s, p, marks, e) ==
    /\ s.kind = u.kind /\ s.seq = u.seq /\ s.at = u.at /\ s.synced = u.synced
    /\ s.color = 0 \/ (s.color = e.rpc /\ NoneWaits(p.rings["world"].ring, marks["world"], e.id))

\* A player gets another colour.
LEMMA ColorIsAnswered ==
    ASSUME NEW p, NEW q, NEW e, NEW marks, Asked(p, q, "roster", e, marks), e.action = "color",
           Recolored(p.server[e.id], q.server[e.id], p, marks, e)
    PROVE  Answered(p, q, marks, e)
  <1>1. PICK i, u, s : i = e.id /\ u = p.server[e.id] /\ s = q.server[e.id]
    OBVIOUS
  <1>2. /\ s.kind = u.kind /\ s.seq = u.seq /\ s.at = u.at /\ s.synced = u.synced
        /\ s.color = 0 \/ (s.color = e.rpc /\ NoneWaits(p.rings["world"].ring, marks["world"], i))
    BY <1>1 DEF Recolored
  <1>3. SUFFICES ASSUME NoGaps(q, marks), NEW v \in Ply!Views, NEW l \in BOOLEAN,
                        Ply!Right(Ply!ViewAfter(p, marks, v, i), u, l)
                 PROVE  Ply!Right(Ply!ViewAfter(q, marks, v, i), s, l)
    BY <1>1 DEF Answered
  <1>4. PICK a \in Ply!Views :
          /\ Ply!ViewAfter(p, marks, v, i) = Ply!HeardAfter(p, "sync", marks, Ply!HeardAfter(p, "world", marks, a, i), i)
          /\ Ply!ViewAfter(q, marks, v, i)
                = Ply!HeardAfter(p, "sync", marks, Ply!HeardAfter(p, "world", marks, Ply!HeardOf(i, a, e), i), i)
    BY <1>3, RosterPushed
  <1>5. PICK t, y, z : t = Ply!HeardOf(i, a, e) /\ y = "world" /\ z = "sync"
    OBVIOUS
  <1>6. y \in Ply!Rings /\ z \in Ply!Rings /\ Row(p, y) /\ Row(p, z) /\ e \in Ply!Entries
    BY <1>5, AskedIs DEF Asked, Rows, Ply!Rings
  <1>7. t = [a EXCEPT !.color = e.rpc] /\ t \in Ply!Views
    BY <1>1, <1>5, <1>6, PlayerViewed DEF Ply!HeardOf, Ply!Heard
  <1>8. SamePlace(a, t) /\ t.color = e.rpc
    BY <1>7 DEF SamePlace, Ply!Views
  <1>9. PICK b, f : b = Ply!HeardAfter(p, y, marks, a, i) /\ f = Ply!HeardAfter(p, y, marks, t, i)
    OBVIOUS
  <1>10. b \in Ply!Views /\ f \in Ply!Views
    BY <1>6, <1>7, <1>9, PlayerHeardIs
  <1>11. ASSUME NEW r \in Ply!Rings, Row(p, r), NEW g \in Ply!Views, NEW h \in Ply!Views, SamePlace(g, h)
         PROVE  SamePlace(Ply!HeardAfter(p, r, marks, g, i), Ply!HeardAfter(p, r, marks, h, i))
    <2>1. PICK ring, mark : ring = p.rings[r].ring /\ mark = marks[r]
      OBVIOUS
    <2>2. News(ring, mark, Ply!Entries) /\ Len(ring) \in Nat
      BY <1>11, <2>1, RowIs
    <2>3. SamePlace(PlayerView(ring, mark, g, i), PlayerView(ring, mark, h, i))
      BY <1>11, <2>2, PlacesStay
    <2>4. /\ Ply!HeardAfter(p, r, marks, g, i) = PlayerView(p.rings[r].ring, marks[r], g, i)
          /\ Ply!HeardAfter(p, r, marks, h, i) = PlayerView(p.rings[r].ring, marks[r], h, i)
      BY <1>11, PlayerHeardIs
    <2> QED
      BY <2>1, <2>3, <2>4
  <1>12. SamePlace(b, f)
    BY <1>6, <1>7, <1>8, <1>9, <1>11
  <1>13. PICK c, d : c = Ply!HeardAfter(p, z, marks, b, i) /\ d = Ply!HeardAfter(p, z, marks, f, i)
    OBVIOUS
  <1>14. SamePlace(c, d)
    BY <1>6, <1>10, <1>11, <1>12, <1>13
  <1>15. c = Ply!ViewAfter(p, marks, v, i) /\ d = Ply!ViewAfter(q, marks, v, i)
    BY <1>4, <1>5, <1>9, <1>13
  <1>16. s.color # 0 => d.color = s.color
    <2>1. SUFFICES ASSUME s.color # 0 PROVE d.color = e.rpc
      BY <1>2
    <2>2. NoneWaits(p.rings[y].ring, marks[y], i)
      BY <1>2, <1>5, <2>1
    <2>3. f = t
      BY <1>6, <1>7, <1>9, <2>2, NothingOfHis
    <2>4. Row(p, "sync") /\ d = Ply!HeardAfter(p, "sync", marks, f, i)
      BY <1>5, <1>6, <1>13
    <2>5. d.color = f.color
      BY <1>10, <2>4, SyncKeeps
    <2> QED
      BY <1>8, <2>3, <2>5
  <1> QED
    BY <1>2, <1>3, <1>14, <1>15, <1>16 DEF Ply!Right, SamePlace

\* The pool before a frame's replay.
LEMMA PlayersPoolIs ==
    ASSUME NEW n, NEW w, NEW c, NEW s, PlayersHas(n, w, c, s), NEW o, o = PlayersPool(n, w)
    PROVE  /\ o \in SanePlayers /\ MarksFit(n.probe, o.marks)
           /\ w.handled = n.restart => o = w.pool
           /\ w.handled # n.restart => o = Ply!FreshPool
  <1>1. PlayersTypes(n, w, c, s) /\ Rows(n.probe) /\ PlayersCount(n, w, c) /\ Ply!Sane(w.pool)
    BY DEF PlayersHas
  <1>2. PICK k, p : k = w.pool /\ p = n.probe
    OBVIOUS
  <1>3. k \in Ply!Pools /\ k \in SanePlayers
    BY <1>1, <1>2, PlayerOwn DEF PlayersTypes, SanePlayers
  <1>4. CASE w.handled = n.restart
    <2>1. o = k
      BY <1>2, <1>4 DEF PlayersPool
    <2>2. \A r \in Ply!Rings : k.marks[r] =< p.rings[r].seq
      BY <1>1, <1>2, <1>4 DEF PlayersCount
    <2>3. k.marks \in [Ply!Rings -> Nat]
      BY <1>3, PlayerFields
    <2> QED
      BY <1>2, <1>3, <1>4, <2>1, <2>2, <2>3 DEF MarksFit
  <1>5. CASE w.handled # n.restart
    <2>1. o = Ply!ResetPool(k)
      BY <1>2, <1>5 DEF PlayersPool
    <2>2. o = Ply!FreshPool
      BY <1>3, <2>1, PlayersAreReset
    <2>3. o \in SanePlayers /\ o.marks = [r \in Ply!Rings |-> 0]
      BY <2>2, FreshPlayers
    <2>4. \A r \in Ply!Rings : p.rings[r].seq \in Nat
      BY <1>1, <1>2 DEF Rows, Row, RingOk
    <2>5. MarksFit(p, o.marks)
      BY <2>3, <2>4 DEF MarksFit
    <2> QED
      BY <1>2, <1>5, <2>2, <2>3, <2>5
  <1> QED
    BY <1>4, <1>5

\* A snapshot with one event more.
PlayerQueued(p, x, e, v) ==
    [server |-> [p.server EXCEPT ![e.id] = v],
     rings |-> [p.rings EXCEPT ![x] = [seq |-> p.rings[x].seq + 1, ring |-> Push(p.rings[x].ring, RingSize, e)]]]

\* An event is put into a ring, and what the server says of a player changes.
LEMMA PlayersRpc ==
    ASSUME NEW n, NEW w, NEW c, NEW s, PlayersHas(n, w, c, s), n.rpcs < MaxEvents,
           NEW x \in Ply!Rings, NEW e \in Ply!Events(x), e.seq = n.probe.rings[x].seq + 1, NEW v \in Ply!Players,
           NEW q, q = PlayerQueued(n.probe, x, e, v),
           NEW m, m = [probe |-> q, restart |-> n.restart, rpcs |-> n.rpcs + 1], NEW o, o = PlayersPool(n, w)
    PROVE  /\ Asked(n.probe, q, x, e, o.marks) /\ q.server[e.id] = v
           /\ Answered(n.probe, q, o.marks, e) => PlayersHas(m, w, "pump", s)
  <1>1. /\ PlayersTypes(n, w, c, s) /\ Rows(n.probe) /\ PlayersCount(n, w, c)
        /\ Ply!Sane(w.pool) /\ PlayersCatch(n, w)
    BY DEF PlayersHas
  <1>2. PICK p, seq, ring : p = n.probe /\ seq = p.rings[x].seq /\ ring = Push(p.rings[x].ring, RingSize, e)
    OBVIOUS
  <1>3. n \in PlayerNets /\ w \in PlayerOwns /\ s \in {"none", "spawned"} /\ p \in PlayerProbes /\ n.restart \in Nat
    BY <1>1, <1>2, PlayerNet DEF PlayersTypes
  <1>4. /\ p.rings \in PlayerRings /\ p.server \in [Ids -> Ply!Players] /\ seq \in Nat /\ n.rpcs \in Nat
        /\ Rows(p) /\ e.seq = seq + 1 /\ e \in Ply!Entries
    BY <1>1, <1>2, <1>3, PlayerProbe, PlayerNet, EventIs
  <1>5. PICK t, u : t = [p.server EXCEPT ![e.id] = v] /\ u = [p.rings EXCEPT ![x] = [seq |-> seq + 1, ring |-> ring]]
    OBVIOUS
  <1>6. q.server = t /\ q.rings = u
    BY <1>2, <1>5 DEF PlayerQueued
  <1>7. e.id \in Ids
    BY <1>4, PlayerEntry
  <1>8. t \in [Ids -> Ply!Players] /\ t[e.id] = v /\ \A i \in Ids : i # e.id => t[i] = p.server[i]
    BY <1>4, <1>5, <1>7
  <1>9. u[x] = [seq |-> seq + 1, ring |-> ring] /\ \A r \in Ply!Rings : r # x => u[r] = p.rings[r]
    BY <1>4, <1>5 DEF PlayerRings
  <1>10. u[x].seq = seq + 1 /\ u[x].ring = ring
    BY <1>9
  <1>11. QueuedIn(p, q, x, e)
    BY <1>2, <1>4, <1>6, <1>8, <1>9, <1>10 DEF QueuedIn
  <1>12. o \in SanePlayers /\ MarksFit(p, o.marks)
    BY <1>2, PlayersPoolIs
  <1>13. PICK marks : marks = o.marks
    OBVIOUS
  <1>14. Asked(p, q, x, e, marks)
    BY <1>4, <1>11, <1>12, <1>13 DEF Asked
  <1>15. Rows(q)
    BY <1>14, RowsPushed
  <1>16. q \in PlayerProbes
    <2>1. ring \in Seq(Ply!Events(x))
      BY <1>6, <1>10, <1>15 DEF Rows, Row, RingOk
    <2>2. Ply!Events(x) \subseteq Ply!Entries
      BY EventIs
    <2>3. ring \in Seq(Ply!Entries)
      BY <2>1, <2>2
    <2>4. u \in PlayerRings
      <3>1. [seq |-> seq + 1, ring |-> ring] \in [seq : Nat, ring : Seq(Ply!Entries)]
        BY <1>4, <2>3
      <3> QED
        BY <1>4, <1>5, <3>1 DEF PlayerRings
    <2>5. q = [server |-> t, rings |-> u]
      BY <1>2, <1>5 DEF PlayerQueued
    <2> QED
      BY <1>8, <2>4, <2>5 DEF PlayerProbes
  <1>17. m.probe = q /\ m.restart = n.restart /\ m.rpcs = n.rpcs + 1
    OBVIOUS
  <1>18. PlayersTypes(m, w, "pump", s)
    <2>1. PICK k \in Nat : k = n.rpcs + 1
      BY <1>4
    <2>2. m \in PlayerNets
      BY <1>3, <1>16, <2>1 DEF PlayerNets
    <2> QED
      BY <1>3, <2>2 DEF PlayersTypes
  <1>19. PlayersCount(m, w, "pump")
    <2>1. MaxEvents \in Nat
      BY PoolsAssumption
    <2>2. n.rpcs + 1 =< MaxEvents
      BY <1>4, <2>1
    <2>3. ASSUME NEW r \in Ply!Rings
          PROVE  /\ u[r].seq =< n.rpcs + 1 /\ w.pool.marks[r] =< MaxEvents
                 /\ w.handled = n.restart => w.pool.marks[r] =< u[r].seq
      <3>1. p.rings[r].seq \in Nat /\ w.pool.marks[r] \in Nat
        BY <1>3, PlayerProbe, PlayerOwn, PlayerFields
      <3>2. /\ p.rings[r].seq =< n.rpcs /\ w.pool.marks[r] =< MaxEvents
            /\ w.handled = n.restart => w.pool.marks[r] =< p.rings[r].seq
        BY <1>1, <1>2 DEF PlayersCount
      <3>3. u[r].seq = p.rings[r].seq \/ u[r].seq = p.rings[r].seq + 1
        BY <1>2, <1>9, <1>10
      <3> QED
        BY <1>4, <3>1, <3>2, <3>3
    <2> QED
      BY <1>1, <1>6, <1>17, <2>2, <2>3 DEF PlayersCount
  <1>20. ASSUME Answered(p, q, marks, e) PROVE PlayersHas(m, w, "pump", s)
    <2>1. PlayersPool(m, w) = o
      BY <1>17 DEF PlayersPool
    <2>2. SUFFICES ASSUME w.gap => n.restart # w.handled PROVE Ply!CatchesUp(q, o)
      BY <1>1, <1>15, <1>17, <1>18, <1>19, <2>1 DEF PlayersHas, PlayersCatch
    <2>3. Ply!CatchesUp(p, o)
      BY <1>1, <1>2, <2>2 DEF PlayersCatch
    <2>4. o \in Ply!Pools /\ Asked(p, q, x, e, o.marks) /\ Answered(p, q, o.marks, e)
      BY <1>12, <1>13, <1>14, <1>20 DEF SanePlayers
    <2> QED
      BY <2>3, <2>4, PlayerPushed
  <1> QED
    BY <1>2, <1>6, <1>8, <1>13, <1>14, <1>20

\* RemotePlayers!Queue.
LEMMA PlayerIsQueued ==
    ASSUME PlayersHas(net, own, pc, scene), Ply!Receives, NEW x \in Ply!Rings, NEW action \in Ply!Actions(x),
           NEW id \in Ids, NEW look \in Ply!Looks, NEW v \in Ply!Players, Ply!Queue(x, action, id, look, v),
           NEW marks, marks = PlayersPool(net, own).marks
    PROVE  \E e, q : /\ e = [seq |-> net.probe.rings[x].seq + 1, action |-> action, id |-> id, look |-> look, rpc |-> Ply!Now]
                     /\ Asked(net.probe, q, x, e, marks) /\ q.server[e.id] = v
                     /\ Answered(net.probe, q, marks, e) => PlayersHas(net', own', pc', scene')
  <1>1. PICK n, p, o : n = net /\ p = n.probe /\ o = PlayersPool(n, own)
    OBVIOUS
  <1>2. n \in PlayerNets /\ n.rpcs < MaxEvents
    BY <1>1 DEF PlayersHas, PlayersTypes, Ply!Receives
  <1>3. p \in PlayerProbes /\ n.rpcs \in Nat
    BY <1>1, <1>2, PlayerNet
  <1>4. p.rings[x].seq \in Nat
    BY <1>3, PlayerProbe
  <1>5. PICK e : e = [seq |-> p.rings[x].seq + 1, action |-> action, id |-> id, look |-> look, rpc |-> n.rpcs + 1]
    OBVIOUS
  <1>6. e \in Ply!Events(x) /\ e.seq = p.rings[x].seq + 1 /\ e.id = id
    BY <1>3, <1>4, <1>5 DEF Ply!Events
  <1>7. PICK q : q = PlayerQueued(p, x, e, v)
    OBVIOUS
  <1>8. /\ net' = [n EXCEPT !.rpcs = n.rpcs + 1, !.probe = q]
        /\ own' = own /\ scene' = scene /\ pc' = "pump"
    BY <1>1, <1>5, <1>7, PlayersRing DEF Ply!Queue, Ply!Now, PlayerQueued
  <1>9. PICK m : m = net'
    OBVIOUS
  <1>10. m = [probe |-> q, restart |-> n.restart, rpcs |-> n.rpcs + 1]
    BY <1>2, <1>8, <1>9 DEF PlayerNets
  <1>11. PlayersHas(n, own, pc, scene) /\ q = PlayerQueued(n.probe, x, e, v) /\ e.seq = n.probe.rings[x].seq + 1
    BY <1>1, <1>6, <1>7
  <1>12. PICK w, c, s : w = own /\ c = pc /\ s = scene
    OBVIOUS
  <1>13. PlayersHas(n, w, c, s) /\ o = PlayersPool(n, w)
    BY <1>1, <1>11, <1>12
  <1>14. /\ Asked(n.probe, q, x, e, o.marks) /\ q.server[e.id] = v
         /\ Answered(n.probe, q, o.marks, e) => PlayersHas(m, w, "pump", s)
    BY <1>2, <1>6, <1>10, <1>11, <1>13, PlayersRpc
  <1>15. e = [seq |-> net.probe.rings[x].seq + 1, action |-> action, id |-> id, look |-> look, rpc |-> Ply!Now]
    BY <1>1, <1>5 DEF Ply!Now
  <1> QED
    BY <1>1, <1>8, <1>9, <1>12, <1>14, <1>15

\* RemotePlayers!Waits, of the pool before a frame's replay.
LEMMA WaitsIs ==
    ASSUME PlayersHas(net, own, pc, scene), NEW r \in Ply!Rings, NEW id,
           NEW marks, marks = PlayersPool(net, own).marks
    PROVE  Ply!Waits(r, id) <=> ~NoneWaits(net.probe.rings[r].ring, marks[r], id)
  <1>1. PICK n, w, c, s : n = net /\ w = own /\ c = pc /\ s = scene
    OBVIOUS
  <1>2. PICK o : o = PlayersPool(n, w)
    OBVIOUS
  <1>3. /\ w.handled = n.restart => o = w.pool
        /\ w.handled # n.restart => o = Ply!FreshPool
    BY <1>1, <1>2, PlayersPoolIs
  <1>4. Ply!FreshPool.marks = [x \in Ply!Rings |-> 0]
    BY FreshPlayers
  <1>5. marks[r] = IF net.restart = own.handled THEN own.pool.marks[r] ELSE 0
    BY <1>1, <1>2, <1>3, <1>4
  <1> QED
    BY <1>5 DEF Ply!Waits, NoneWaits

\* RemotePlayers!OnWorldPlayerAdd.
LEMMA PlayerAdds ==
    ASSUME PlayersHas(net, own, pc, scene), Ply!OnWorldPlayerAdd
    PROVE  PlayersHas(net', own', pc', scene')
  <1>1. Ply!Receives
    BY DEF Ply!OnWorldPlayerAdd
  <1>0. PICK id \in Ids, look \in {"shown", "hidden", "refused", "off"} : \E v :
          /\ v = [kind |-> look, seq |-> net.probe.rings["world"].seq + 1, at |-> Ply!Now, synced |-> FALSE, color |-> Ply!Now]
          /\ Ply!Queue("world", "add", id, look, v)
    BY DEF Ply!OnWorldPlayerAdd
  <1>2. PICK v :
          /\ v = [kind |-> look, seq |-> net.probe.rings["world"].seq + 1, at |-> Ply!Now, synced |-> FALSE, color |-> Ply!Now]
          /\ Ply!Queue("world", "add", id, look, v)
    BY <1>0
  <1>3. PICK x, action : x = "world" /\ action = "add"
    OBVIOUS
  <1>4. x \in Ply!Rings /\ action \in Ply!Actions(x) /\ look \in Ply!Looks
    BY <1>3 DEF Ply!Rings, Ply!Actions, Ply!Looks
  <1>5. net.probe.rings[x].seq \in Nat /\ Ply!Now \in Nat
    <2>1. net.probe \in PlayerProbes /\ net.rpcs \in Nat
      BY PlayerNet DEF PlayersHas, PlayersTypes
    <2>2. PICK p : p = net.probe
      OBVIOUS
    <2>3. p.rings[x].seq \in Nat
      BY <1>4, <2>1, <2>2, PlayerProbe
    <2> QED
      BY <2>1, <2>2, <2>3 DEF Ply!Now
  <1>6. v \in Ply!Players
    BY <1>2, <1>3, <1>5 DEF Ply!Players
  <1>7. PICK marks : marks = PlayersPool(net, own).marks
    OBVIOUS
  <1>8. Ply!Queue(x, action, id, look, v)
    BY <1>2, <1>3
  <1>9. PICK e, q : /\ e = [seq |-> net.probe.rings[x].seq + 1, action |-> action, id |-> id, look |-> look, rpc |-> Ply!Now]
                    /\ Asked(net.probe, q, x, e, marks) /\ q.server[e.id] = v
                    /\ Answered(net.probe, q, marks, e) => PlayersHas(net', own', pc', scene')
    BY <1>1, <1>4, <1>6, <1>7, <1>8, PlayerIsQueued
  <1>10. e.action = "add" /\ Entered(v, e)
    BY <1>2, <1>3, <1>9 DEF Entered
  <1>11. Asked(net.probe, q, "world", e, marks) /\ Entered(q.server[e.id], e)
    BY <1>3, <1>9, <1>10
  <1>12. PICK p : p = net.probe
    OBVIOUS
  <1>13. Answered(p, q, marks, e)
    BY <1>10, <1>11, <1>12, EntryIsAnswered
  <1> QED
    BY <1>9, <1>12, <1>13

\* RemotePlayers!OnWorldPlayerRemove.
LEMMA PlayerRemoves ==
    ASSUME PlayersHas(net, own, pc, scene), Ply!OnWorldPlayerRemove
    PROVE  PlayersHas(net', own', pc', scene')
  <1>1. Ply!Receives
    BY DEF Ply!OnWorldPlayerRemove
  <1>0. PICK id \in Ids : \E v :
          /\ v = [Ply!Absent EXCEPT !.kind = IF Ply!Waits("sync", id) THEN "late" ELSE "gone"]
          /\ Ply!Queue("world", "remove", id, "none", v)
    BY DEF Ply!OnWorldPlayerRemove
  <1>2. PICK v :
          /\ v = [Ply!Absent EXCEPT !.kind = IF Ply!Waits("sync", id) THEN "late" ELSE "gone"]
          /\ Ply!Queue("world", "remove", id, "none", v)
    BY <1>0
  <1>3. PICK x, action, look : x = "world" /\ action = "remove" /\ look = "none"
    OBVIOUS
  <1>4. x \in Ply!Rings /\ action \in Ply!Actions(x) /\ look \in Ply!Looks
    BY <1>3 DEF Ply!Rings, Ply!Actions, Ply!Looks
  <1>6. v \in Ply!Players /\ v.synced = FALSE /\ v.kind = IF Ply!Waits("sync", id) THEN "late" ELSE "gone"
    BY <1>2 DEF Ply!Players, Ply!Absent
  <1>7. PICK marks : marks = PlayersPool(net, own).marks
    OBVIOUS
  <1>8. Ply!Queue(x, action, id, look, v)
    BY <1>2, <1>3
  <1>9. PICK e, q : /\ e = [seq |-> net.probe.rings[x].seq + 1, action |-> action, id |-> id, look |-> look, rpc |-> Ply!Now]
                    /\ Asked(net.probe, q, x, e, marks) /\ q.server[e.id] = v
                    /\ Answered(net.probe, q, marks, e) => PlayersHas(net', own', pc', scene')
    BY <1>1, <1>4, <1>6, <1>7, <1>8, PlayerIsQueued
  <1>12. PICK p, z : p = net.probe /\ z = "sync"
    OBVIOUS
  <1>10. e.action = "remove" /\ e.id = id
    BY <1>3, <1>9
  <1>11. Left(v, p, marks, id)
    <2>1. z \in Ply!Rings
      BY <1>12 DEF Ply!Rings
    <2>2. Ply!Waits(z, id) <=> ~NoneWaits(net.probe.rings[z].ring, marks[z], id)
      BY <1>7, <2>1, WaitsIs
    <2> QED
      BY <1>6, <1>12, <2>2 DEF Left
  <1>13. Asked(p, q, "world", e, marks) /\ Left(q.server[e.id], p, marks, e.id)
    BY <1>3, <1>9, <1>10, <1>11, <1>12
  <1>14. Answered(p, q, marks, e)
    BY <1>10, <1>13, ExitIsAnswered
  <1> QED
    BY <1>9, <1>12, <1>14

\* RemotePlayers!OnSync.
LEMMA PlayerSyncs ==
    ASSUME PlayersHas(net, own, pc, scene), Ply!OnSync
    PROVE  PlayersHas(net', own', pc', scene')
  <1>1. Ply!Receives
    BY DEF Ply!OnSync
  <1>0. PICK id \in Ids : \E u, v :
          /\ u = net.probe.server[id] /\ v = [u EXCEPT !.at = Ply!Now, !.synced = TRUE, !.kind = IF u.kind = "gone" THEN "late" ELSE u.kind]
          /\ Ply!Queue("sync", "sync", id, "none", v)
    BY DEF Ply!OnSync, Ply!Server
  <1>2. PICK u, v :
          /\ u = net.probe.server[id] /\ v = [u EXCEPT !.at = Ply!Now, !.synced = TRUE, !.kind = IF u.kind = "gone" THEN "late" ELSE u.kind]
          /\ Ply!Queue("sync", "sync", id, "none", v)
    BY <1>0
  <1>3. PICK x, look : x = "sync" /\ look = "none"
    OBVIOUS
  <1>4. x \in Ply!Rings /\ x \in Ply!Actions(x) /\ look \in Ply!Looks
    BY <1>3 DEF Ply!Rings, Ply!Actions, Ply!Looks
  <1>5. Ply!Now \in Nat /\ u \in Ply!Players
    BY <1>2, PlayerNet, PlayerProbe DEF PlayersHas, PlayersTypes, Ply!Now
  <1>6. v \in Ply!Players /\ v.kind = (IF u.kind = "gone" THEN "late" ELSE u.kind) /\ v.seq = u.seq /\ v.at = Ply!Now /\ v.color = u.color
    BY <1>2, <1>5 DEF Ply!Players
  <1>7. PICK marks : marks = PlayersPool(net, own).marks
    OBVIOUS
  <1>8. Ply!Queue(x, x, id, look, v)
    BY <1>2, <1>3
  <1>9. PICK e, q : /\ e = [seq |-> net.probe.rings[x].seq + 1, action |-> x, id |-> id, look |-> look, rpc |-> Ply!Now]
                    /\ Asked(net.probe, q, x, e, marks) /\ q.server[e.id] = v
                    /\ Answered(net.probe, q, marks, e) => PlayersHas(net', own', pc', scene')
    BY <1>1, <1>4, <1>6, <1>7, <1>8, PlayerIsQueued
  <1>12. PICK p : p = net.probe
    OBVIOUS
  <1>10. Moved(p.server[e.id], q.server[e.id], e)
    BY <1>2, <1>6, <1>9, <1>12 DEF Moved
  <1>11. Asked(p, q, "sync", e, marks)
    BY <1>3, <1>9, <1>12
  <1>13. Answered(p, q, marks, e)
    BY <1>10, <1>11, MoveIsAnswered
  <1> QED
    BY <1>9, <1>12, <1>13

\* RemotePlayers!OnQuit.
LEMMA PlayerQuitsServer ==
    ASSUME PlayersHas(net, own, pc, scene), Ply!OnQuit
    PROVE  PlayersHas(net', own', pc', scene')
  <1>1. Ply!Receives
    BY DEF Ply!OnQuit
  <1>0. PICK id \in Ids : \E v :
          v = net.probe.server[id] /\ Ply!Queue("roster", "quit", id, "none", v)
    BY DEF Ply!OnQuit, Ply!Server
  <1>2. PICK v :
          v = net.probe.server[id] /\ Ply!Queue("roster", "quit", id, "none", v)
    BY <1>0
  <1>3. PICK x, action, look : x = "roster" /\ action = "quit" /\ look = "none"
    OBVIOUS
  <1>4. x \in Ply!Rings /\ action \in Ply!Actions(x) /\ look \in Ply!Looks
    BY <1>3 DEF Ply!Rings, Ply!Actions, Ply!Looks
  <1>6. v \in Ply!Players
    BY <1>2, PlayerNet, PlayerProbe DEF PlayersHas, PlayersTypes
  <1>7. PICK marks : marks = PlayersPool(net, own).marks
    OBVIOUS
  <1>8. Ply!Queue(x, action, id, look, v)
    BY <1>2, <1>3
  <1>9. PICK e, q : /\ e = [seq |-> net.probe.rings[x].seq + 1, action |-> action, id |-> id, look |-> look, rpc |-> Ply!Now]
                    /\ Asked(net.probe, q, x, e, marks) /\ q.server[e.id] = v
                    /\ Answered(net.probe, q, marks, e) => PlayersHas(net', own', pc', scene')
    BY <1>1, <1>4, <1>6, <1>7, <1>8, PlayerIsQueued
  <1>12. PICK p : p = net.probe
    OBVIOUS
  <1>10. e.action = "quit" /\ q.server[e.id] = p.server[e.id]
    BY <1>2, <1>3, <1>9, <1>12
  <1>11. Asked(p, q, "roster", e, marks)
    BY <1>3, <1>9, <1>12
  <1>13. Answered(p, q, marks, e)
    BY <1>10, <1>11, QuitIsAnswered
  <1> QED
    BY <1>9, <1>12, <1>13

\* RemotePlayers!OnColor.
LEMMA PlayerColors ==
    ASSUME PlayersHas(net, own, pc, scene), Ply!OnColor
    PROVE  PlayersHas(net', own', pc', scene')
  <1>1. Ply!Receives
    BY DEF Ply!OnColor
  <1>0. PICK id \in Ids : \E u, v :
          /\ u = net.probe.server[id] /\ v = [u EXCEPT !.color = IF Ply!Waits("world", id) THEN 0 ELSE Ply!Now]
          /\ Ply!Queue("roster", "color", id, "none", v)
    BY DEF Ply!OnColor, Ply!Server
  <1>2. PICK u, v :
          /\ u = net.probe.server[id] /\ v = [u EXCEPT !.color = IF Ply!Waits("world", id) THEN 0 ELSE Ply!Now]
          /\ Ply!Queue("roster", "color", id, "none", v)
    BY <1>0
  <1>3. PICK x, action, look : x = "roster" /\ action = "color" /\ look = "none"
    OBVIOUS
  <1>4. x \in Ply!Rings /\ action \in Ply!Actions(x) /\ look \in Ply!Looks
    BY <1>3 DEF Ply!Rings, Ply!Actions, Ply!Looks
  <1>5. Ply!Now \in Nat /\ u \in Ply!Players
    BY <1>2, PlayerNet, PlayerProbe DEF PlayersHas, PlayersTypes, Ply!Now
  <1>6. /\ v \in Ply!Players /\ v.kind = u.kind /\ v.seq = u.seq /\ v.at = u.at /\ v.synced = u.synced
        /\ v.color = IF Ply!Waits("world", id) THEN 0 ELSE Ply!Now
    BY <1>2, <1>5 DEF Ply!Players
  <1>7. PICK marks : marks = PlayersPool(net, own).marks
    OBVIOUS
  <1>8. Ply!Queue(x, action, id, look, v)
    BY <1>2, <1>3
  <1>9. PICK e, q : /\ e = [seq |-> net.probe.rings[x].seq + 1, action |-> action, id |-> id, look |-> look, rpc |-> Ply!Now]
                    /\ Asked(net.probe, q, x, e, marks) /\ q.server[e.id] = v
                    /\ Answered(net.probe, q, marks, e) => PlayersHas(net', own', pc', scene')
    BY <1>1, <1>4, <1>6, <1>7, <1>8, PlayerIsQueued
  <1>12. PICK p, y : p = net.probe /\ y = "world"
    OBVIOUS
  <1>10. e.action = "color" /\ e.id = id /\ e.rpc = Ply!Now
    BY <1>3, <1>9
  <1>11. Recolored(u, v, p, marks, e)
    <2>1. y \in Ply!Rings
      BY <1>12 DEF Ply!Rings
    <2>2. Ply!Waits(y, id) <=> ~NoneWaits(net.probe.rings[y].ring, marks[y], id)
      BY <1>7, <2>1, WaitsIs
    <2> QED
      BY <1>6, <1>10, <1>12, <2>2 DEF Recolored
  <1>13. Asked(p, q, "roster", e, marks) /\ Recolored(p.server[e.id], q.server[e.id], p, marks, e)
    BY <1>2, <1>3, <1>9, <1>10, <1>11, <1>12
  <1>14. Answered(p, q, marks, e)
    BY <1>10, <1>13, ColorIsAnswered
  <1> QED
    BY <1>9, <1>12, <1>14

\* A snapshot with empty rings.
LEMMA PlayersBegin ==
    ASSUME NEW p, p = Ply!ResetPlayers
    PROVE  /\ p \in PlayerProbes /\ Rows(p) /\ \A r \in Ply!Rings : p.rings[r].seq = 0
           /\ \A k : Ply!CatchesUp(p, k)
  <1>1. PICK z : z = Ply!EmptyRing
    OBVIOUS
  <1>2. z.seq = 0 /\ z.ring = << >> /\ z = [seq |-> 0, ring |-> << >>]
    BY <1>1 DEF Ply!EmptyRing
  <1>3. p.rings = [r \in Ply!Rings |-> z] /\ p.server = [i \in Ids |-> Ply!Absent]
    BY <1>1 DEF Ply!ResetPlayers
  <1>4. RingSize \in Nat \ {0}
    BY PoolsAssumption
  <1>5. ASSUME NEW r \in Ply!Rings PROVE Row(p, r)
    <2>1. p.rings[r].seq = 0 /\ p.rings[r].ring = << >>
      BY <1>2, <1>3
    <2> QED
      BY <1>4, <2>1 DEF Row, RingOk
  <1>6. Ply!Absent \in Ply!Players /\ Ply!Absent.kind = "unseen"
    BY DEF Ply!Absent, Ply!Players
  <1>7. p \in PlayerProbes
    <2>1. z \in [seq : Nat, ring : Seq(Ply!Entries)]
      BY <1>2
    <2>2. p.rings \in PlayerRings /\ p.server \in [Ids -> Ply!Players]
      BY <1>3, <1>6, <2>1 DEF PlayerRings
    <2>3. p = [rings |-> p.rings, server |-> p.server]
      BY DEF Ply!ResetPlayers
    <2> QED
      BY <2>2, <2>3 DEF PlayerProbes
  <1>8. ASSUME NEW k PROVE Ply!CatchesUp(p, k)
    <2>1. \A i \in Ids : \A v, l : Ply!Right(v, p.server[i], l)
      BY <1>3, <1>6 DEF Ply!Right
    <2> QED
      BY <2>1 DEF Ply!CatchesUp
  <1> QED
    BY <1>2, <1>3, <1>5, <1>7, <1>8 DEF Rows

\* RemotePlayers!OnRestart.
LEMMA PlayersRestart ==
    ASSUME PlayersHas(net, own, pc, scene), Ply!OnRestart
    PROVE  PlayersHas(net', own', pc', scene')
  <1>1. PICK n, w, c, s : n = net /\ w = own /\ c = pc /\ s = scene
    OBVIOUS
  <1>2. /\ PlayersTypes(n, w, c, s) /\ PlayersCount(n, w, c) /\ Ply!Sane(w.pool)
    BY <1>1 DEF PlayersHas
  <1>3. PICK p, m : p = Ply!ResetPlayers /\ m = net'
    OBVIOUS
  <1>4. /\ n.restart < MaxRestarts /\ m = [n EXCEPT !.probe = p, !.restart = n.restart + 1]
        /\ own' = w /\ scene' = s /\ pc' = "pump"
    BY <1>1, <1>3 DEF Ply!OnRestart
  <1>5. n \in PlayerNets /\ w \in PlayerOwns /\ s \in {"none", "spawned"}
    BY <1>2 DEF PlayersTypes
  <1>6. n.restart \in Nat /\ n.rpcs \in Nat /\ w.handled \in Nat
    BY <1>5, PlayerNet, PlayerOwn
  <1>7. m = [probe |-> p, restart |-> n.restart + 1, rpcs |-> n.rpcs]
    BY <1>4, <1>5 DEF PlayerNets
  <1>8. m.probe = p /\ m.restart = n.restart + 1 /\ m.rpcs = n.rpcs
    BY <1>7
  <1>9. p \in PlayerProbes /\ Rows(p) /\ (\A r \in Ply!Rings : p.rings[r].seq = 0) /\ \A k : Ply!CatchesUp(p, k)
    BY <1>3, PlayersBegin
  <1>10. PlayersTypes(m, w, "pump", s)
    <2>1. PICK k \in Nat : k = n.restart + 1
      BY <1>6
    <2>2. m \in PlayerNets
      BY <1>6, <1>7, <1>9, <2>1 DEF PlayerNets
    <2> QED
      BY <1>5, <2>2 DEF PlayersTypes
  <1>11. PlayersCount(m, w, "pump")
    <2>1. MaxRestarts \in Nat
      BY PoolsAssumption
    <2>2. n.restart + 1 =< MaxRestarts
      BY <1>4, <1>6, <2>1
    <2>3. w.handled =< n.restart + 1 /\ w.handled # n.restart + 1
      BY <1>2, <1>6 DEF PlayersCount
    <2>4. (\A r \in Ply!Rings : p.rings[r].seq =< n.rpcs /\ w.pool.marks[r] =< MaxEvents) /\ n.rpcs =< MaxEvents
      BY <1>2, <1>6, <1>9 DEF PlayersCount
    <2> QED
      BY <1>8, <2>2, <2>3, <2>4 DEF PlayersCount
  <1>12. PlayersCatch(m, w)
    BY <1>8, <1>9 DEF PlayersCatch
  <1> QED
    BY <1>2, <1>3, <1>4, <1>8, <1>9, <1>10, <1>11, <1>12 DEF PlayersHas

-----------------------------------------------------------------------------
(* The bridge's frame. *)

RowRead(d, r, m) == [d EXCEPT !.marks[r] = m]

\* Another mark.
LEMMA PlayerMarkIsSet ==
    ASSUME NEW o \in SanePlayers, NEW r \in Ply!Rings, NEW m \in Nat, NEW d, d = RowRead(o, r, m)
    PROVE  d \in SanePlayers /\ d.marks = [o.marks EXCEPT ![r] = m] /\ d.slots = o.slots /\ d.listed = o.listed
  <1>1. o \in Ply!Pools /\ Ply!Sane(o)
    BY DEF SanePlayers
  <1>2. PICK t : t = [o.marks EXCEPT ![r] = m]
    OBVIOUS
  <1>3. d = [marks |-> t, listed |-> o.listed, slots |-> o.slots, active |-> o.active, pending |-> o.pending,
             peds |-> o.peds, blips |-> o.blips]
    BY <1>1, <1>2 DEF RowRead, Ply!Pools
  <1>4. /\ d.marks = t /\ d.slots = o.slots /\ d.listed = o.listed /\ d.active = o.active /\ d.pending = o.pending
        /\ d.peds = o.peds /\ d.blips = o.blips
    BY <1>3
  <1>5. o.marks \in [Ply!Rings -> Nat]
    BY <1>1, PlayerFields
  <1>6. t \in [Ply!Rings -> Nat]
    BY <1>2, <1>5
  <1>7. d \in Ply!Pools
    BY <1>1, <1>3, <1>6, PlayerFields DEF Ply!Pools, Ply!Blips
  <1>8. ASSUME NEW i \in Ids PROVE Ply!SlotOk(d, i)
    BY <1>1, <1>4 DEF Ply!Sane, Ply!SlotOk
  <1>9. ASSUME NEW x \in Handles PROVE Ply!PedOk(d, x)
    BY <1>1, <1>4 DEF Ply!Sane, Ply!PedOk
  <1>10. d.active = Ply!Number(d.slots, "active") /\ d.pending = Ply!Number(d.slots, "pending")
    BY <1>1, <1>4 DEF Ply!Sane
  <1> QED
    BY <1>2, <1>4, <1>7, <1>8, <1>9, <1>10 DEF SanePlayers, Ply!Sane

\* RemotePlayers!Replay.
LEMMA RowIsReplayed ==
    ASSUME NEW p, p = net.probe, NEW r \in Ply!Rings, Row(p, r), NEW o \in SanePlayers, o.marks[r] =< p.rings[r].seq,
           NEW d, d = Ply!Replay(o, r)
    PROVE  /\ d \in SanePlayers /\ d.marks = [o.marks EXCEPT ![r] = p.rings[r].seq] /\ d.listed \subseteq o.listed
           /\ \A i \in Ids, v \in Ply!Views :
                FitsIn(o, i, v) => FitsIn(d, i, Ply!HeardAfter(p, r, o.marks, v, i))
  <1>1. PICK ring, mark, seq, E : /\ ring = p.rings[r].ring /\ mark = o.marks[r] /\ seq = p.rings[r].seq
                                  /\ E = Ply!Events(r)
    OBVIOUS
  <1>2. RingOk(ring, seq, RingSize, E) /\ RingSize \in Nat \ {0} /\ seq \in Nat
    BY <1>1, PoolsAssumption DEF Row, RingOk
  <1>3. o.marks \in [Ply!Rings -> Nat]
    BY PlayerFields DEF SanePlayers
  <1>4. mark \in Nat /\ mark =< seq
    BY <1>1, <1>3
  <1>5. News(ring, mark, Ply!Entries) /\ Len(ring) \in Nat
    BY <1>1, RowIs
  <1>6. PICK b, m : b = PlayersReplayed(ring, mark, o) /\ m = Ply!MarkAfter(ring, mark)
    OBVIOUS
  <1>7. d = RowRead(b, r, m)
    BY <1>1, <1>6 DEF Ply!Replay, RowRead, PlayersReplayed
  <1>8. m = seq
    <2>1. MarkAfter(ring, mark) = seq
      BY <1>2, <1>4, MarkAfterIs
    <2> QED
      BY <1>6, <2>1, PlayersRing
  <1>9. /\ b \in SanePlayers /\ b.marks = o.marks /\ b.listed \subseteq o.listed
        /\ \A i \in Ids, v \in Ply!Views : FitsIn(o, i, v) => FitsIn(b, i, PlayerView(ring, mark, v, i))
    BY <1>5, <1>6, PlayersAreReplayed
  <1>10. d \in SanePlayers /\ d.marks = [b.marks EXCEPT ![r] = m] /\ d.slots = b.slots /\ d.listed = b.listed
    BY <1>2, <1>7, <1>8, <1>9, PlayerMarkIsSet
  <1>11. \A i \in Ids, v \in Ply!Views : Ply!HeardAfter(p, r, o.marks, v, i) = PlayerView(ring, mark, v, i)
    BY <1>1 DEF Ply!HeardAfter, PlayerView
  <1>12. ASSUME NEW i \in Ids, NEW v \in Ply!Views, FitsIn(o, i, v)
         PROVE  FitsIn(d, i, Ply!HeardAfter(p, r, o.marks, v, i))
    <2>1. FitsIn(b, i, PlayerView(ring, mark, v, i))
      BY <1>9, <1>12
    <2>2. d.slots = b.slots /\ d.listed = b.listed
      BY <1>10
    <2>3. Ply!HeardAfter(p, r, o.marks, v, i) = PlayerView(ring, mark, v, i)
      BY <1>11
    <2> QED
      BY <2>1, <2>2, <2>3 DEF FitsIn
  <1> QED
    BY <1>1, <1>8, <1>9, <1>10, <1>12

\* The replay of a ring depends on its own mark.
LEMMA MarksMatter ==
    ASSUME NEW p, NEW r, NEW marks, NEW t, t[r] = marks[r], NEW v, NEW i
    PROVE  Ply!HeardAfter(p, r, t, v, i) = Ply!HeardAfter(p, r, marks, v, i)
  BY DEF Ply!HeardAfter

\* RemotePlayers!Update: the three rings, and the flush.
LEMMA PlayersAreUpdated ==
    ASSUME NEW p, p = net.probe, Rows(p), NEW o \in SanePlayers, MarksFit(p, o.marks), NEW d \in Ply!Update(o)
    PROVE  /\ d \in SanePlayers /\ \A r \in Ply!Rings : d.marks[r] = p.rings[r].seq
           /\ d.listed \subseteq o.listed
           /\ \A i \in Ids, v \in Ply!Views :
                FitsIn(o, i, v) => FitsIn(d, i, Ply!ViewAfter(p, o.marks, v, i))
  <1>1. PICK x, y, z : x = "roster" /\ y = "world" /\ z = "sync"
    OBVIOUS
  <1>2. /\ x \in Ply!Rings /\ y \in Ply!Rings /\ z \in Ply!Rings /\ x # y /\ y # z /\ x # z
        /\ \A r \in Ply!Rings : r = x \/ r = y \/ r = z
    BY <1>1 DEF Ply!Rings
  <1>3. Row(p, x) /\ Row(p, y) /\ Row(p, z)
    BY <1>2 DEF Rows
  <1>4. PICK k, l, m : k = p.rings[x].seq /\ l = p.rings[y].seq /\ m = p.rings[z].seq
    OBVIOUS
  <1>5. /\ o.marks \in [Ply!Rings -> Nat] /\ o.marks[x] =< k /\ o.marks[y] =< l /\ o.marks[z] =< m
    BY <1>2, <1>4 DEF MarksFit
  <1>6. PICK a : a = Ply!Replay(o, x)
    OBVIOUS
  <1>7. /\ a \in SanePlayers /\ a.marks = [o.marks EXCEPT ![x] = k] /\ a.listed \subseteq o.listed
        /\ \A i \in Ids, v \in Ply!Views :
             FitsIn(o, i, v) => FitsIn(a, i, Ply!HeardAfter(p, x, o.marks, v, i))
    BY <1>2, <1>3, <1>4, <1>5, <1>6, RowIsReplayed
  <1>8. a.marks[y] = o.marks[y] /\ a.marks[z] = o.marks[z] /\ a.marks[x] = k
    BY <1>2, <1>5, <1>7
  <1>9. PICK b : b = Ply!Replay(a, y)
    OBVIOUS
  <1>10. /\ b \in SanePlayers /\ b.marks = [a.marks EXCEPT ![y] = l] /\ b.listed \subseteq a.listed
         /\ \A i \in Ids, v \in Ply!Views :
              FitsIn(a, i, v) => FitsIn(b, i, Ply!HeardAfter(p, y, a.marks, v, i))
    BY <1>2, <1>3, <1>4, <1>5, <1>7, <1>8, <1>9, RowIsReplayed
  <1>11. a.marks \in [Ply!Rings -> Nat]
    BY <1>7, PlayerFields DEF SanePlayers
  <1>12. b.marks[y] = l /\ b.marks[z] = o.marks[z] /\ b.marks[x] = k
    BY <1>2, <1>8, <1>10, <1>11
  <1>13. PICK c : c = Ply!Replay(b, z)
    OBVIOUS
  <1>14. /\ c \in SanePlayers /\ c.marks = [b.marks EXCEPT ![z] = m] /\ c.listed \subseteq b.listed
         /\ \A i \in Ids, v \in Ply!Views :
              FitsIn(b, i, v) => FitsIn(c, i, Ply!HeardAfter(p, z, b.marks, v, i))
    <2>1. b.marks[z] =< p.rings[z].seq
      BY <1>4, <1>5, <1>12
    <2>2. z \in Ply!Rings /\ Row(p, z) /\ b \in SanePlayers
      BY <1>2, <1>3, <1>10
    <2>3. /\ c \in SanePlayers /\ c.marks = [b.marks EXCEPT ![z] = p.rings[z].seq] /\ c.listed \subseteq b.listed
          /\ \A i \in Ids, v \in Ply!Views :
               FitsIn(b, i, v) => FitsIn(c, i, Ply!HeardAfter(p, z, b.marks, v, i))
      BY <1>13, <2>1, <2>2, RowIsReplayed
    <2> QED
      BY <1>4, <2>3
  <1>15. b.marks \in [Ply!Rings -> Nat]
    BY <1>10, PlayerFields DEF SanePlayers
  <1>16. c.marks[x] = k /\ c.marks[y] = l /\ c.marks[z] = m
    BY <1>2, <1>12, <1>14, <1>15
  <1>17. d \in Ply!Flush(c)
    BY <1>1, <1>6, <1>9, <1>13 DEF Ply!Update
  <1>18. d \in SanePlayers /\ d.marks = c.marks /\ d.listed = c.listed /\ \A i \in Ids : Lasts(c.slots[i], d.slots[i])
    BY <1>14, <1>17, PlayersFlush
  <1>19. \A r \in Ply!Rings : d.marks[r] = p.rings[r].seq
    BY <1>2, <1>4, <1>16, <1>18
  <1>20. ASSUME NEW i \in Ids, NEW v \in Ply!Views, FitsIn(o, i, v)
         PROVE  FitsIn(d, i, Ply!ViewAfter(p, o.marks, v, i))
    <2>1. PICK f, g, h : /\ f = Ply!HeardAfter(p, x, o.marks, v, i) /\ g = Ply!HeardAfter(p, y, o.marks, f, i)
                         /\ h = Ply!HeardAfter(p, z, o.marks, g, i)
      OBVIOUS
    <2>2. f \in Ply!Views
      BY <1>2, <1>3, <2>1, PlayerHeardIs
    <2>3. g \in Ply!Views
      BY <1>2, <1>3, <2>1, <2>2, PlayerHeardIs
    <2>4. FitsIn(a, i, f)
      BY <1>7, <1>20, <2>1
    <2>5. FitsIn(b, i, Ply!HeardAfter(p, y, a.marks, f, i))
      BY <1>10, <2>2, <2>4
    <2>6. Ply!HeardAfter(p, y, a.marks, f, i) = g
      BY <1>8, <2>1, MarksMatter
    <2>7. FitsIn(c, i, Ply!HeardAfter(p, z, b.marks, g, i))
      BY <1>14, <2>3, <2>5, <2>6
    <2>8. Ply!HeardAfter(p, z, b.marks, g, i) = h
      BY <1>12, <2>1, MarksMatter
    <2>9. FitsIn(c, i, h) /\ Lasts(c.slots[i], d.slots[i])
      BY <1>18, <2>7, <2>8
    <2>10. PICK s, t, q : s = c.slots[i] /\ t = d.slots[i] /\ q = (i \in c.listed)
      OBVIOUS
    <2>13. Fits(s, h, q)
      BY <2>9, <2>10 DEF FitsIn
    <2>11. Fits(t, h, q)
      BY <2>9, <2>10, <2>13, TriedFits
    <2>12. Ply!ViewAfter(p, o.marks, v, i) = h
      BY <1>1, <2>1 DEF Ply!ViewAfter
    <2> QED
      BY <1>18, <2>10, <2>11, <2>12 DEF FitsIn
  <1> QED
    BY <1>7, <1>10, <1>14, <1>18, <1>19, <1>20

\* What fits a view that is right is right.
LEMMA PlayerFitIsRight ==
    ASSUME NEW s, NEW v, NEW l, Fits(s, v, l), NEW u, Ply!Right(v, u, l)
    PROVE  Ply!Right(Ply!Seen(s), u, l)
  BY DEF Fits, Ply!Right

\* A slot fits what is seen of it.
LEMMA SeenFits == \A s, l : Fits(s, Ply!Seen(s), l)
  BY DEF Fits

\* When everything has been read, a replay changes nothing.
LEMMA ViewIsRead ==
    ASSUME NEW p, Rows(p), NEW marks, \A r \in Ply!Rings : marks[r] = p.rings[r].seq, NEW v \in Ply!Views, NEW i
    PROVE  Ply!ViewAfter(p, marks, v, i) = v
  <1>1. ASSUME NEW r \in Ply!Rings PROVE Ply!HeardAfter(p, r, marks, v, i) = v
    <2>1. PICK ring, seq, E : ring = p.rings[r].ring /\ seq = p.rings[r].seq /\ E = Ply!Events(r)
      OBVIOUS
    <2>2. Row(p, r) /\ RingOk(ring, seq, RingSize, E) /\ RingSize \in Nat \ {0}
      BY <2>1, PoolsAssumption DEF Rows, Row
    <2>3. News(ring, seq, {})
      BY <2>2, NoneUnseen
    <2>4. NoneWaits(ring, seq, i)
      BY <2>3 DEF News, NoneWaits
    <2>5. NoneWaits(p.rings[r].ring, marks[r], i)
      BY <2>1, <2>4
    <2> QED
      BY <2>2, <2>5, NothingOfHis
  <1> QED
    BY <1>1 DEF Ply!ViewAfter, Ply!Rings

\* A frame.
LEMMA PlayersFrame ==
    ASSUME PlayersHas(net, own, pc, scene), Ply!Frame
    PROVE  PlayersHas(net', own', pc', scene')
  <1>1. PICK n, w, c, s, p, o : n = net /\ w = own /\ c = pc /\ s = scene /\ p = net.probe /\ o = PlayersPool(net, own)
    OBVIOUS
  <1>2. /\ PlayersHas(n, w, c, s) /\ PlayersTypes(n, w, c, s) /\ Rows(p) /\ PlayersCount(n, w, c) /\ PlayersCatch(n, w)
    BY <1>1 DEF PlayersHas
  <1>3. Ply!Pool = o
    BY <1>1 DEF Ply!Pool, Ply!Restarted, PlayersPool
  <1>4. o = PlayersPool(n, w) /\ p = n.probe
    BY <1>1
  <1>5. o \in SanePlayers /\ MarksFit(p, o.marks)
    BY <1>2, <1>4, PlayersPoolIs
  <1>0. PICK ped \in BOOLEAN, enabled \in BOOLEAN : \E d, k :
          /\ d \in Ply!Update(o) /\ k = IF ped THEN Ply!UpdateMarkers(d, enabled) ELSE d
          /\ own' = [pool |-> k, handled |-> n.restart, gap |-> Ply!Lost(o.marks) \/ (w.gap /\ ~Ply!Restarted)]
    BY <1>1, <1>3 DEF Ply!Frame
  <1>6. PICK d, k :
          /\ d \in Ply!Update(o) /\ k = IF ped THEN Ply!UpdateMarkers(d, enabled) ELSE d
          /\ own' = [pool |-> k, handled |-> n.restart, gap |-> Ply!Lost(o.marks) \/ (w.gap /\ ~Ply!Restarted)]
    BY <1>0
  <1>7. scene' = Ply!SceneAfter /\ pc' = "drawn" /\ net' = n
    BY <1>1 DEF Ply!Frame
  <1>8. /\ d \in SanePlayers /\ \A r \in Ply!Rings : d.marks[r] = p.rings[r].seq
        /\ d.listed \subseteq o.listed
        /\ \A i \in Ids, v \in Ply!Views :
             FitsIn(o, i, v) => FitsIn(d, i, Ply!ViewAfter(p, o.marks, v, i))
    BY <1>1, <1>2, <1>5, <1>6, PlayersAreUpdated
  <1>9. k \in SanePlayers /\ k.marks = d.marks /\ k.listed = d.listed /\ \A i \in Ids : Lasts(d.slots[i], k.slots[i])
    <2>1. CASE ped
      <3>1. k = Ply!UpdateMarkers(d, enabled)
        BY <1>6, <2>1
      <3> QED
        BY <1>6, <1>8, <3>1, PlayersAreMarked
    <2>2. CASE ~ped
      <3>1. k = d
        BY <1>6, <2>2
      <3>2. \A i \in Ids : d.slots[i] \in Ply!Slots
        BY <1>8, PlayerHas
      <3> QED
        BY <1>8, <3>1, <3>2 DEF Lasts
    <2> QED
      BY <2>1, <2>2
  <1>10. PICK gap \in BOOLEAN : gap = (Ply!Lost(o.marks) \/ (w.gap /\ ~Ply!Restarted))
    <2>1. (Ply!Lost(o.marks) \/ (w.gap /\ ~Ply!Restarted)) \in BOOLEAN
      BY Zenon
    <2> QED
      BY <2>1
  <1>11. PICK x : x = own'
    OBVIOUS
  <1>12. x = [pool |-> k, handled |-> n.restart, gap |-> gap]
    BY <1>6, <1>10, <1>11
  <1>13. x.pool = k /\ x.handled = n.restart /\ x.gap = gap
    BY <1>12
  <1>14. n \in PlayerNets /\ n.restart \in Nat /\ n.rpcs \in Nat /\ p \in PlayerProbes /\ w \in PlayerOwns
    BY <1>2, <1>4, PlayerNet DEF PlayersTypes
  <1>15. PlayersTypes(n, x, "drawn", scene')
    <2>1. k \in Ply!Pools
      BY <1>9 DEF SanePlayers
    <2>2. x \in PlayerOwns
      BY <1>12, <1>14, <2>1 DEF PlayerOwns
    <2>3. s \in {"none", "spawned"}
      BY <1>2 DEF PlayersTypes
    <2>4. scene' \in {"none", "spawned"}
      BY <1>1, <1>7, <2>3 DEF Ply!SceneAfter
    <2> QED
      BY <1>14, <2>2, <2>4 DEF PlayersTypes
  <1>16. PlayersCount(n, x, "drawn")
    <2>1. ASSUME NEW r \in Ply!Rings
          PROVE  p.rings[r].seq =< n.rpcs /\ x.pool.marks[r] =< MaxEvents /\ x.pool.marks[r] = p.rings[r].seq
      <3>1. p.rings[r].seq \in Nat /\ p.rings[r].seq =< n.rpcs /\ n.rpcs =< MaxEvents
        BY <1>2, <1>4, <1>14, PlayerProbe DEF PlayersCount
      <3>2. k.marks[r] = p.rings[r].seq /\ MaxEvents \in Nat
        BY <1>8, <1>9, PoolsAssumption
      <3> QED
        BY <1>13, <1>14, <3>1, <3>2
    <2>2. ASSUME NEW r \in Ply!Rings PROVE p.rings[r].seq =< p.rings[r].seq
      <3>1. p.rings[r].seq \in Nat
        BY <1>14, PlayerProbe
      <3> QED
        BY <3>1
    <2> QED
      BY <1>2, <1>4, <1>13, <1>14, <2>1, <2>2 DEF PlayersCount
  <1>17. PlayersCatch(n, x)
    <2>1. PlayersPool(n, x) = k
      BY <1>13 DEF PlayersPool
    <2>2. SUFFICES ASSUME ~gap PROVE Ply!CatchesUp(p, k)
      BY <1>4, <1>13, <2>1 DEF PlayersCatch
    <2>3. ~Ply!Lost(o.marks) /\ (w.gap => n.restart # w.handled)
      BY <1>1, <1>10, <2>2 DEF Ply!Restarted
    <2>4. Ply!CatchesUp(p, o)
      BY <1>2, <1>4, <2>3 DEF PlayersCatch
    <2>5. ASSUME NEW i \in Ids PROVE Ply!Right(Ply!ViewAfter(p, o.marks, Ply!Seen(o.slots[i]), i), p.server[i], i \in o.listed)
      BY <1>1, <2>3, <2>4 DEF Ply!CatchesUp, Ply!Lost
    <2>6. ASSUME NEW i \in Ids PROVE Ply!Right(Ply!ViewAfter(p, k.marks, Ply!Seen(k.slots[i]), i), p.server[i], i \in k.listed)
      <3>1. PICK v, u, a, b, t : /\ v = Ply!Seen(o.slots[i]) /\ u = Ply!ViewAfter(p, o.marks, v, i)
                                 /\ a = d.slots[i] /\ b = k.slots[i] /\ t = Ply!Seen(b)
        OBVIOUS
      <3>2. v \in Ply!Views /\ FitsIn(o, i, v)
        <4>1. o.slots[i] \in Ply!Slots
          BY <1>5, PlayerHas
        <4> QED
          BY <3>1, <4>1, PlayerSeen, SeenFits DEF FitsIn
      <3>12. PICK l, m : l = (i \in o.listed) /\ m = (i \in k.listed)
        OBVIOUS
      <3>13. m => l
        BY <1>8, <1>9, <3>12
      <3>3. Fits(a, u, m)
        BY <1>8, <1>9, <3>1, <3>2, <3>12 DEF FitsIn
      <3>4. Lasts(a, b)
        BY <1>9, <3>1
      <3>5. Fits(b, u, m)
        BY <3>3, <3>4, TriedFits
      <3>6. Ply!Right(u, p.server[i], m)
        <4>1. Ply!Right(u, p.server[i], l)
          BY <2>5, <3>1, <3>12
        <4> QED
          BY <3>13, <4>1 DEF Ply!Right
      <3>7. Ply!Right(t, p.server[i], m)
        BY <3>1, <3>5, <3>6, PlayerFitIsRight
      <3>8. t \in Ply!Views
        <4>1. k.slots[i] \in Ply!Slots
          BY <1>9, PlayerHas
        <4> QED
          BY <3>1, <4>1, PlayerSeen
      <3>9. PICK marks : marks = k.marks
        OBVIOUS
      <3>10. \A r \in Ply!Rings : marks[r] = p.rings[r].seq
        BY <1>8, <1>9, <3>9
      <3>11. Ply!ViewAfter(p, marks, t, i) = t
        BY <1>2, <3>8, <3>10, ViewIsRead
      <3> QED
        BY <3>1, <3>7, <3>9, <3>11, <3>12
    <2> QED
      BY <2>6 DEF Ply!CatchesUp
  <1>18. Ply!Sane(x.pool)
    BY <1>9, <1>13 DEF SanePlayers
  <1>19. PlayersHas(n, x, "drawn", scene')
    BY <1>2, <1>4, <1>15, <1>16, <1>17, <1>18 DEF PlayersHas
  <1> QED
    BY <1>7, <1>11, <1>19

\* The scene.
LEMMA PlayersScene ==
    ASSUME PlayersHas(net, own, pc, scene), Ply!NextScene
    PROVE  PlayersHas(net', own', pc', scene')
  <1>1. net' = net /\ own' = own /\ pc' = pc /\ scene' = "spawned"
    BY DEF Ply!NextScene
  <1>2. PlayersTypes(net, own, pc, "spawned")
    BY DEF PlayersHas, PlayersTypes
  <1> QED
    BY <1>1, <1>2 DEF PlayersHas

-----------------------------------------------------------------------------
(* The invariant, and what it says after a frame. *)

\* At first,
LEMMA PlayersInit ==
    ASSUME Ply!Init
    PROVE  Ply!PlayersInv
  <1>1. PICK p, o, n, w : /\ p = Ply!ResetPlayers /\ o = Ply!FreshPool
                          /\ n = [probe |-> p, restart |-> 0, rpcs |-> 0]
                          /\ w = [pool |-> o, handled |-> 0, gap |-> FALSE]
    OBVIOUS
  <1>2. net = n /\ own = w /\ scene = "none" /\ pc = "pump"
    BY <1>1 DEF Ply!Init
  <1>3. /\ p \in PlayerProbes /\ Rows(p) /\ (\A r \in Ply!Rings : p.rings[r].seq = 0) /\ \A k : Ply!CatchesUp(p, k)
    BY <1>1, PlayersBegin
  <1>4. o \in SanePlayers /\ o.marks = [r \in Ply!Rings |-> 0]
    BY <1>1, FreshPlayers
  <1>5. /\ n.probe = p /\ n.restart = 0 /\ n.rpcs = 0 /\ w.pool = o /\ w.handled = 0 /\ w.gap = FALSE
    BY <1>1
  <1>6. PlayersTypes(n, w, "pump", "none")
    BY <1>1, <1>3, <1>4 DEF PlayersTypes, PlayerNets, PlayerOwns, SanePlayers
  <1>7. PlayersCount(n, w, "pump")
    <2>1. MaxEvents \in Nat /\ MaxRestarts \in Nat
      BY PoolsAssumption
    <2>2. \A r \in Ply!Rings : o.marks[r] = 0
      BY <1>4
    <2> QED
      BY <1>3, <1>5, <2>1, <2>2 DEF PlayersCount
  <1>8. PlayersCatch(n, w)
    BY <1>3, <1>5 DEF PlayersCatch
  <1>9. Ply!Sane(w.pool)
    BY <1>4, <1>5 DEF SanePlayers
  <1>10. PlayersHas(n, w, "pump", "none")
    BY <1>3, <1>5, <1>6, <1>7, <1>8, <1>9 DEF PlayersHas
  <1> QED
    BY <1>2, <1>10, PlayersHasIs

\* after a step,
LEMMA PlayersStep ==
    ASSUME Ply!PlayersInv, Ply!Next
    PROVE  Ply!PlayersInv'
  <1>1. PlayersHas(net, own, pc, scene)
    BY PlayersHasIs
  <1>2. PlayersHas(net', own', pc', scene')
    BY <1>1, PlayerAdds, PlayerRemoves, PlayerSyncs, PlayerQuitsServer, PlayerColors, PlayersRestart, PlayersFrame,
       PlayersScene DEF Ply!Next
  <1> QED
    BY <1>2, PlayersWillHave

\* and after a stuttering one.
LEMMA PlayersUnchanged ==
    ASSUME Ply!PlayersInv, UNCHANGED <<net, own, scene, pc>>
    PROVE  Ply!PlayersInv'
  <1>1. PlayersHas(net, own, pc, scene)
    BY PlayersHasIs
  <1>2. PlayersHas(net', own', pc', scene')
    BY <1>1
  <1> QED
    BY <1>2, PlayersWillHave

\* The players' slots, peds and markers hold together whatever the rings have lost,
\* and what the three rings still hold, read one after the other, brings the slots up to
\* date: the invariant of the player pool.
THEOREM PlayersInvariant == Spec => []PlayersInv
  <1>1. Init => PlayersInv
    BY PlayersInit DEF Init, PlayersInv
  <1>2. PlayersInv /\ [Next]_vars => PlayersInv'
    <2> SUFFICES ASSUME PlayersInv, [Next]_vars PROVE PlayersInv'
      OBVIOUS
    <2>1. CASE part = "players" /\ part' = "players" /\ Ply!Next
      BY <2>1, PlayersStep DEF PlayersInv
    <2>2. CASE part' # "players"
      BY <2>2 DEF PlayersInv
    <2>3. CASE UNCHANGED vars
      BY <2>3, PlayersUnchanged DEF PlayersInv, vars
    <2>4. part' = "players" /\ Next => part = "players" /\ Ply!Next
      BY DEF Next
    <2> QED
      BY <2>1, <2>2, <2>3, <2>4
  <1> QED
    BY <1>1, <1>2, PTL DEF Spec

\* After a frame, while the rings have lost nothing, what is seen of a slot is right.
LEMMA PlayerIsRight ==
    ASSUME Ply!PlayersInv, pc = "drawn", ~own.gap, NEW i \in Ids
    PROVE  Ply!Right(Ply!Seen(own.pool.slots[i]), net.probe.server[i], i \in own.pool.listed)
  <1>1. PICK n, w, c, s, p, o : n = net /\ w = own /\ c = pc /\ s = scene /\ p = net.probe /\ o = own.pool
    OBVIOUS
  <1>2. PlayersHas(n, w, c, s) /\ p = n.probe /\ o = w.pool /\ c = "drawn" /\ ~w.gap
    BY <1>1, PlayersHasIs
  <1>3. Rows(p) /\ PlayersCount(n, w, c) /\ PlayersCatch(n, w)
    BY <1>2 DEF PlayersHas
  <1>4. w.handled = n.restart /\ \A r \in Ply!Rings : o.marks[r] = p.rings[r].seq
    BY <1>2, <1>3 DEF PlayersCount
  <1>5. PlayersPool(n, w) = o
    BY <1>2, <1>4 DEF PlayersPool
  <1>6. o \in SanePlayers
    BY <1>2, <1>5, PlayersPoolIs
  <1>7. PICK marks, v : marks = o.marks /\ v = Ply!Seen(o.slots[i])
    OBVIOUS
  <1>8. v \in Ply!Views
    <2>1. o.slots[i] \in Ply!Slots
      BY <1>6, PlayerHas
    <2> QED
      BY <1>7, <2>1, PlayerSeen
  <1>9. ASSUME NEW r \in Ply!Rings PROVE ~Ply!Gap(p.rings[r].ring, marks[r])
    <2>1. PICK ring, seq, E : ring = p.rings[r].ring /\ seq = p.rings[r].seq /\ E = Ply!Events(r)
      OBVIOUS
    <2>2. RingOk(ring, seq, RingSize, E) /\ RingSize \in Nat \ {0} /\ seq \in Nat
      BY <1>3, <2>1, PoolsAssumption DEF Rows, Row, RingOk
    <2>3. Whole(ring, seq, seq)
      BY <2>2, NoneUnseen
    <2>4. ~Gap(ring, seq)
      BY <2>2, <2>3, GapIs
    <2>5. ~Ply!Gap(ring, seq)
      BY <2>4, PlayersRing
    <2> QED
      BY <1>4, <1>7, <2>1, <2>5
  <1>10. Ply!CatchesUp(p, o)
    BY <1>2, <1>3, <1>5 DEF PlayersCatch
  <1>11. Ply!Right(Ply!ViewAfter(p, marks, v, i), p.server[i], i \in o.listed)
    BY <1>7, <1>9, <1>10 DEF Ply!CatchesUp
  <1>12. \A r \in Ply!Rings : marks[r] = p.rings[r].seq
    BY <1>4, <1>7
  <1>13. Ply!ViewAfter(p, marks, v, i) = v
    BY <1>3, <1>8, <1>12, ViewIsRead
  <1> QED
    BY <1>1, <1>7, <1>11, <1>13

\* RemotePlayers!PlayersAgree: after a frame, while the rings have lost nothing, every
\* player the server shows is in the pool as he last entered, where his last sync put him
\* and in his last colour, one it has removed is not, or, when a sync of his is read after
\* the removal, stands as a ghost where his last sync put it, and GTA has exactly the peds
\* and the radar markers of the pool.
THEOREM PlayersAreAgreed == Spec => []PlayersAgree
  <1>1. ASSUME Ply!PlayersInv PROVE Ply!PlayersAgree
    <2> SUFFICES ASSUME pc = "drawn", ~own.gap PROVE Ply!PlayersAgree
      BY DEF Ply!PlayersAgree
    <2>1. PICK o : o = own.pool
      OBVIOUS
    <2>2. o \in SanePlayers
      BY <1>1, <2>1, PlayerOwn DEF Ply!PlayersInv, Ply!Fields, SanePlayers
    <2>3. o \in Ply!Pools /\ Ply!Sane(o)
      BY <2>2 DEF SanePlayers
    <2>4. ASSUME NEW i \in Ids
          PROVE  LET s == o.slots[i]  v == net.probe.server[i]
                 IN  /\ v.kind = "gone" => s.state = "none"
                     /\ v.kind = "late" /\ i \in o.listed => s.state # "none" /\ s.boot
                     /\ v.kind = "late" /\ i \in o.listed /\ v.synced => s.at = v.at
                     /\ v.kind = "shown" => s.state # "none" /\ ~s.boot /\ s.seq = v.seq
                     /\ v.kind = "shown" /\ v.synced => s.at = v.at
                     /\ v.kind = "shown" /\ v.color # 0 => s.color = v.color
      <3>1. PICK s, u, v : s = o.slots[i] /\ u = Ply!Seen(s) /\ v = net.probe.server[i]
        OBVIOUS
      <3>2. Ply!Right(u, v, i \in o.listed)
        BY <1>1, <2>1, <3>1, PlayerIsRight
      <3>3. s \in Ply!Slots
        BY <2>2, <3>1, PlayerHas
      <3>4. /\ u.seq = s.seq /\ u.at = s.at /\ u.color = s.color
            /\ u.kind = "absent" <=> s.state = "none"
            /\ u.kind = "here" <=> s.state # "none" /\ s.visible /\ ~s.boot
            /\ u.kind = "ghost" <=> s.state # "none" /\ s.visible /\ s.boot
        BY <3>1, <3>3, PlayerSeen
      <3> QED
        BY <3>1, <3>2, <3>4 DEF Ply!Right
    <2>5. ASSUME NEW i \in Ids PROVE o.blips[i] = IF o.slots[i].marker THEN 1 ELSE 0
      BY <2>3 DEF Ply!Sane, Ply!SlotOk
    <2>6. ASSUME NEW x \in Handles
          PROVE  IF o.peds[x] = 0 THEN \A i \in Ids : o.slots[i].state = "active" => o.slots[i].ped # x
                 ELSE o.peds[x] \in Ids /\ o.slots[o.peds[x]].state = "active" /\ o.slots[o.peds[x]].ped = x
      <3>1. o.peds[x] \in Ids \cup {0}
        BY <2>3, PlayerFields
      <3>2. CASE o.peds[x] = 0
        <4>1. \A i \in Ids : o.peds[x] # i
          BY <3>2, IdsAre
        <4> QED
          BY <2>2, <3>2, <4>1, PedsAre
      <3>3. CASE o.peds[x] # 0
        BY <2>3, <3>1, <3>3 DEF Ply!Sane, Ply!PedOk
      <3> QED
        BY <3>2, <3>3
    <2>7. /\ o.active = Ply!Cardinality({i \in Ids : o.slots[i].state = "active"})
          /\ o.pending = Ply!Cardinality({i \in Ids : o.slots[i].state = "pending"})
      BY <2>3 DEF Ply!Sane, Ply!Number
    <2> DEFINE In(state) == {i \in Ids : o.slots[i].state = state}
    <2>8. ASSUME NEW i \in Ids
          PROVE  LET s == o.slots[i]  v == net.probe.server[i]
                 IN  /\ v.kind = "gone" => i \in In("none")
                     /\ v.kind = "late" /\ i \in o.listed => i \notin In("none") /\ s.boot
                     /\ v.kind = "late" /\ i \in o.listed /\ v.synced => s.at = v.at
                     /\ v.kind = "shown" => i \notin In("none") /\ ~s.boot /\ s.seq = v.seq
                     /\ v.kind = "shown" /\ v.synced => s.at = v.at
                     /\ v.kind = "shown" /\ v.color # 0 => s.color = v.color
                     /\ o.blips[i] = IF s.marker THEN 1 ELSE 0
      BY <2>4, <2>5
    <2>9. ASSUME NEW x \in Handles
          PROVE  IF o.peds[x] = 0 THEN \A i \in In("active") : o.slots[i].ped # x
                 ELSE o.peds[x] \in In("active") /\ o.slots[o.peds[x]].ped = x
      BY <2>6
    <2>10. o.active = Ply!Cardinality(In("active")) /\ o.pending = Ply!Cardinality(In("pending"))
      BY <2>7
    <2> QED
      BY <2>1, <2>8, <2>9, <2>10 DEF Ply!PlayersAgree, Ply!Server
  <1>2. PlayersInv => PlayersAgree
    BY <1>1 DEF PlayersInv, PlayersAgree
  <1> QED
    BY <1>2, PlayersInvariant, PTL

==============================================================================
