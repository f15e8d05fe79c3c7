---------------------------- MODULE Client_proofs ----------------------------
(***************************************************************************)
(* What Client promises of its own player's packets, of its hooks and the   *)
(* import table, of its start and stop, of its sockets and of its models,   *)
(* for any number of ticks, shots, deaths, restarts, places, threads,       *)
(* addresses, archives and requests.  A behaviour of Client is one of a     *)
(* part, so the inductive invariant of a part is one of Client while that   *)
(* part is named; each action has a lemma that says it keeps it.            *)
(***************************************************************************)
EXTENDS Client, Integers, Sequences, FiniteSetTheorems, WellFoundedInduction, TLAPS

-----------------------------------------------------------------------------
(* Numbers. *)

\* A set of numbers has a least one.
LEMMA Smallest ==
    ASSUME NEW T, T \subseteq Nat, T # {}
    PROVE  \E x \in T : \A y \in T : x =< y
  <1>1. IsWellFoundedOn(OpToRel(<, Nat), Nat)
    BY NatLessThanWellFounded
  <1>2. PICK x \in T : \A y \in T : <<y, x>> \notin OpToRel(<, Nat)
    BY <1>1, WFMin
  <1>3. \A y \in T : ~(y < x)
    BY <1>2 DEF OpToRel
  <1> QED
    BY <1>3

\* Induction, about a set.
LEMMA Steps ==
    ASSUME NEW S, 0 \in S, \A n \in Nat : n \in S => n + 1 \in S
    PROVE  Nat \subseteq S
  <1> SUFFICES ASSUME Nat \ S # {} PROVE FALSE
    OBVIOUS
  <1>1. PICK x \in Nat \ S : \A y \in Nat \ S : x =< y
    BY Smallest
  <1>2. x # 0 /\ x - 1 \in Nat
    OBVIOUS
  <1>3. x - 1 \in S
    BY <1>1, <1>2
  <1> QED
    BY <1>2, <1>3

\* How long ago a tick was, on a clock that wraps.
LEMMA Distance ==
    ASSUME NEW w \in Nat \ {0}, NEW a \in 0 .. w - 1, NEW b \in 0 .. w - 1
    PROVE  (a - b) % w = IF b =< a THEN a - b ELSE a - b + w
  <1> DEFINE d == a - b
  <1>1. d \in Int /\ d = w * (d \div w) + (d % w) /\ d % w \in 0 .. w - 1 /\ d \div w \in Int
    OBVIOUS
  <1>2. CASE b =< a
    <2>1. d \in 0 .. w - 1
      BY <1>2
    <2> QED
      BY <1>2, <2>1, SMT
  <1>3. CASE a < b
    <2>1. d + w \in 0 .. w - 1
      BY <1>3
    <2> QED
      BY <1>3, <2>1, SMT
  <1> QED
    BY <1>2, <1>3

-----------------------------------------------------------------------------
(* LocalSync. *)

\* What the packets of the session bridge leave alone, by what it is about.
Rates(o) == <<o.last, o.at, o.rushed>>
Shots(o) == <<o.sampled, o.ammo, o.bullets, o.wounds>>
Death(o) == <<o.reported, o.told, o.twice, o.silent>>
Toggles(o) == <<o.spectating, o.mark, o.markOf, o.handled>>
Spawn(o) == <<o.finalized, o.class, o.seenDead, o.type, o.targetMark>>

SyncIs == env \in Snc!Player /\ Snc!ClockRuns
KeepsRate(o) == ~o.rushed /\ Snc!TimerFollows(o)

\* The clock is a tick of the wrapping clock, and every tick noted lies behind it.
LEMMA EarlyIs ==
    ASSUME ClientAssumption, SyncIs, NEW tick \in (0 .. env.ticks - 1) \cup {0, Wrap - 1}
    PROVE  /\ Snc!Early(tick) <=> tick # 0 /\ (IF tick = Wrap - 1 THEN env.ticks ELSE env.ticks - 1 - tick) < Interval
           /\ env.clock \in 0 .. Wrap - 1 /\ Wrap \in Nat /\ env.ticks \in Nat
  <1>1. /\ Wrap \in Nat /\ Wrap > 1 /\ env.ticks \in Nat /\ env.ticks < Wrap /\ Interval \in Nat /\ Interval > 0
        /\ env.clock = IF env.ticks = 0 THEN Wrap - 1 ELSE env.ticks - 1
    BY DEF ClientAssumption, SyncIs, Snc!ClockRuns, Snc!Player
  <1>2. env.clock \in 0 .. Wrap - 1 /\ tick \in 0 .. Wrap - 1 /\ Wrap \in Nat \ {0}
    BY <1>1
  <1>3. (env.clock - tick) % Wrap = IF tick =< env.clock THEN env.clock - tick ELSE env.clock - tick + Wrap
    BY <1>2, Distance
  <1>4. tick # 0 => (env.clock - tick) % Wrap = IF tick = Wrap - 1 THEN env.ticks ELSE env.ticks - 1 - tick
    <2>1. CASE tick = Wrap - 1
      BY <1>1, <1>3, <2>1
    <2>2. CASE tick \in 1 .. env.ticks - 1 /\ tick # Wrap - 1
      BY <1>1, <1>3, <2>2
    <2> QED
      BY <1>1, <2>1, <2>2
  <1> QED
    BY <1>1, <1>2, <1>4 DEF Snc!Early

\* Whatever the kind, a packet that is due keeps its distance.
LEMMA SendsKeeps ==
    ASSUME ClientAssumption, SyncIs, NEW o \in Snc!Marks, KeepsRate(o), NEW k, NEW ok \in BOOLEAN,
           Snc!Due(o, k), ~(k = "bullet" /\ "impact" \in env.hooks), NEW s, s = Snc!Sends(o, k, ok)
    PROVE  /\ s \in Snc!Marks /\ KeepsRate(s)
           /\ Shots(s) = Shots(o) /\ Death(s) = Death(o) /\ Toggles(s) = Toggles(o) /\ Spawn(s) = Spawn(o)
  <1> USE DEF ClientAssumption
  <1>1. CASE k # env.kind
    BY <1>1 DEF Snc!Sends
  <1>2. CASE k = env.kind
    <2>1. s = [o EXCEPT !.last = env.clock, !.at = IF ok THEN env.clock ELSE @,
                        !.rushed = @ \/ (ok /\ Snc!Early(o.at))]
      BY <1>2 DEF Snc!Sends
    <2>2. /\ o.last \in (0 .. env.ticks - 1) \cup {0, Wrap - 1} /\ o.at \in (0 .. env.ticks - 1) \cup {0, Wrap - 1}
          /\ o.at # 0 =>
               \/ o.at = Wrap - 1 /\ (o.last = 0 => Interval = 1 /\ env.ticks > 0)
               \/ o.at < Wrap - 1 /\ o.at =< o.last /\ o.last < env.ticks
      BY DEF KeepsRate, Snc!TimerFollows
    <2>3. ~Snc!Early(o.last)
      BY <1>2 DEF Snc!Due
    <2>4. /\ env.clock = IF env.ticks = 0 THEN Wrap - 1 ELSE env.ticks - 1
          /\ env.clock \in Nat /\ env.ticks \in Nat /\ env.ticks < Wrap
      BY DEF SyncIs, Snc!ClockRuns, Snc!Player
    <2>5. ~Snc!Early(o.at)
      BY <2>2, <2>3, <2>4, EarlyIs
    <2>6. s \in Snc!Marks
      BY <2>1, <2>4, <2>5 DEF Snc!Marks
    <2>7. s.last = env.clock /\ s.at = (IF ok THEN env.clock ELSE o.at) /\ ~s.rushed
      BY <2>1, <2>5 DEF Snc!Marks, KeepsRate
    <2>8. /\ {s.last, s.at} \subseteq (0 .. env.ticks - 1) \cup {0, Wrap - 1}
          /\ s.at # 0 =>
               \/ s.at = Wrap - 1 /\ (s.last = 0 => Interval = 1 /\ env.ticks > 0)
               \/ s.at < Wrap - 1 /\ s.at =< s.last /\ s.last < env.ticks
      <3>1. CASE ok
        BY <2>4, <2>7, <3>1
      <3>2. CASE ~ok
        BY <2>2, <2>3, <2>4, <2>7, <3>2, EarlyIs
      <3> QED
        BY <3>1, <3>2
    <2>9. KeepsRate(s)
      BY <1>2, <2>7, <2>8 DEF KeepsRate, Snc!TimerFollows
    <2>10. /\ Shots(s) = Shots(o) /\ Death(s) = Death(o) /\ Toggles(s) = Toggles(o) /\ Spawn(s) = Spawn(o)
      BY <2>1 DEF Snc!Marks, Shots, Death, Toggles, Spawn
    <2> QED
      BY <2>6, <2>9, <2>10
  <1> QED
    BY <1>1, <1>2

\* The poller looked and may have counted the shot it had missed.
Missed(o) == IF o.sampled /\ env.ammo < o.ammo THEN 1 ELSE 0

Polled(o, s) ==
    \/ Shots(s) = Shots(o)
    \/ /\ "impact" \notin env.hooks /\ s.sampled /\ s.ammo = env.ammo
       /\ s.bullets \in o.bullets .. o.bullets + Missed(o) /\ s.wounds \in o.wounds .. o.wounds + Missed(o)

Kept(o, s) ==
    /\ s \in Snc!Marks /\ KeepsRate(s) /\ Polled(o, s)
    /\ Death(s) = Death(o) /\ Toggles(s) = Toggles(o) /\ Spawn(s) = Spawn(o)

\* Timers and notes of shots apart, a shot that is counted changes nothing.
LEMMA PollKeeps ==
    ASSUME ClientAssumption, SyncIs, NEW o \in Snc!Marks, KeepsRate(o), NEW ok \in BOOLEAN, NEW near \in BOOLEAN,
           NEW s, s = Snc!BulletSync(o, ok, near)
    PROVE  Kept(o, s)
  <1>1. CASE "impact" \in env.hooks \/ env.place # "foot"
    BY <1>1 DEF Snc!BulletSync, Kept, Polled
  <1>2. CASE ~("impact" \in env.hooks \/ env.place # "foot")
    <2>1. PICK seen : seen = [o EXCEPT !.sampled = TRUE, !.ammo = env.ammo]
      OBVIOUS
    <2>2. env.ammo \in Int
      BY DEF SyncIs, Snc!Player
    <2>3. /\ seen \in Snc!Marks /\ Rates(seen) = Rates(o) /\ Death(seen) = Death(o)
          /\ Toggles(seen) = Toggles(o) /\ Spawn(seen) = Spawn(o)
          /\ seen.sampled /\ seen.ammo = env.ammo /\ seen.bullets = o.bullets /\ seen.wounds = o.wounds
      BY <2>1, <2>2 DEF Snc!Marks, Rates, Death, Toggles, Spawn
    <2>4. KeepsRate(seen)
      BY <2>3 DEF KeepsRate, Snc!TimerFollows, Rates
    <2>5. o.bullets \in Nat /\ o.wounds \in Nat
      BY DEF Snc!Marks
    <2>6. CASE ~(o.sampled /\ env.ammo < o.ammo) \/ ~Snc!Due(o, "bullet")
      <3>1. s = seen
        BY <1>2, <2>1, <2>6 DEF Snc!BulletSync
      <3>2. Polled(o, s)
        BY <1>2, <2>3, <2>5, <3>1 DEF Polled, Missed
      <3> QED
        BY <2>3, <2>4, <3>1, <3>2 DEF Kept
    <2>7. CASE o.sampled /\ env.ammo < o.ammo /\ Snc!Due(o, "bullet")
      <3>1. PICK x : x = Snc!Sends(seen, "bullet", ok)
        OBVIOUS
      <3>2. s = [x EXCEPT !.bullets = IF ok THEN @ + 1 ELSE @, !.wounds = IF ok /\ near THEN @ + 1 ELSE @]
        BY <1>2, <2>1, <2>7, <3>1 DEF Snc!BulletSync
      <3>3. Snc!Due(seen, "bullet")
        BY <2>3, <2>7 DEF Snc!Due, Rates
      <3>4. /\ x \in Snc!Marks /\ KeepsRate(x)
            /\ Shots(x) = Shots(seen) /\ Death(x) = Death(seen) /\ Toggles(x) = Toggles(seen) /\ Spawn(x) = Spawn(seen)
        BY <1>2, <2>3, <2>4, <3>1, <3>3, SendsKeeps
      <3>5. x.sampled /\ x.ammo = env.ammo /\ x.bullets = o.bullets /\ x.wounds = o.wounds
        BY <2>3, <3>4 DEF Shots
      <3> DEFINE bul == IF ok THEN x.bullets + 1 ELSE x.bullets
                 wnd == IF ok /\ near THEN x.wounds + 1 ELSE x.wounds
      <3>10. bul \in Nat /\ wnd \in Nat /\ s = [x EXCEPT !.bullets = bul, !.wounds = wnd]
        BY <3>2, <3>4 DEF Snc!Marks
      <3> HIDE DEF bul, wnd
      <3>12. PICK y : y = [x EXCEPT !.bullets = bul]
        OBVIOUS
      <3>13. y \in Snc!Marks /\ y.bullets = bul
        BY <3>4, <3>10, <3>12 DEF Snc!Marks
      <3>14. s = [y EXCEPT !.wounds = wnd]
        BY <3>4, <3>10, <3>12 DEF Snc!Marks
      <3>11. s \in Snc!Marks /\ s.bullets = bul /\ s.wounds = wnd
        BY <3>10, <3>13, <3>14 DEF Snc!Marks
      <3>6. /\ s \in Snc!Marks /\ Rates(s) = Rates(x) /\ Death(s) = Death(x) /\ Toggles(s) = Toggles(x) /\ Spawn(s) = Spawn(x)
            /\ s.sampled = x.sampled /\ s.ammo = x.ammo
            /\ s.bullets = (IF ok THEN x.bullets + 1 ELSE x.bullets)
            /\ s.wounds = (IF ok /\ near THEN x.wounds + 1 ELSE x.wounds)
        BY <3>4, <3>10, <3>11 DEF Snc!Marks, Rates, Death, Toggles, Spawn, bul, wnd
      <3>7. KeepsRate(s)
        BY <3>4, <3>6 DEF KeepsRate, Snc!TimerFollows, Rates
      <3>8. Missed(o) = 1
        BY <2>7 DEF Missed
      <3>9. Polled(o, s)
        BY <1>2, <2>5, <3>5, <3>6, <3>8 DEF Polled
      <3> QED
        BY <2>3, <3>4, <3>6, <3>7, <3>9 DEF Kept
    <2> QED
      BY <2>6, <2>7
  <1> QED
    BY <1>1, <1>2

\* What every packet but the poller's keeps.
SameBut(o, s) ==
    /\ s \in Snc!Marks /\ KeepsRate(s) /\ Shots(s) = Shots(o)
    /\ Death(s) = Death(o) /\ Toggles(s) = Toggles(o) /\ Spawn(s) = Spawn(o)

\* One packet of a kind that is due keeps the rates and leaves all else as it was.
LEMMA PacketKeeps ==
    ASSUME ClientAssumption, SyncIs, NEW o \in Snc!Marks, KeepsRate(o), NEW ok \in BOOLEAN
    PROVE  /\ SameBut(o, Snc!AimSync(o, ok)) /\ SameBut(o, Snc!OnFootSync(o, ok))
           /\ SameBut(o, Snc!InCarSync(o, ok)) /\ SameBut(o, Snc!SpectatorSync(o, ok))
           /\ \A gun, near \in BOOLEAN : SameBut(o, Snc!LocalDamage(o, ok, gun, near))
  <1>1. SameBut(o, o)
    BY DEF SameBut
  <1>2. \A k \in Snc!Kinds \ {"bullet"} : Snc!Due(o, k) => SameBut(o, Snc!Sends(o, k, ok))
    BY SendsKeeps DEF SameBut
  <1> QED
    BY <1>1, <1>2 DEF Snc!AimSync, Snc!OnFootSync, Snc!InCarSync, Snc!SpectatorSync, Snc!LocalDamage, Snc!Kinds

\* So do the packets of a frame, one after the other.
LEMMA PacketsKeep ==
    ASSUME ClientAssumption, SyncIs, NEW o \in Snc!Marks, KeepsRate(o), NEW ok \in BOOLEAN,
           NEW held \in BOOLEAN, NEW gun \in BOOLEAN, NEW near \in BOOLEAN,
           NEW s, s = Snc!Packets(o, ok, held, gun, near)
    PROVE  Kept(o, s)
  <1>1. PICK d : d = IF held THEN Snc!LocalDamage(o, ok, gun, near) ELSE o
    OBVIOUS
  <1>2. SameBut(o, d)
    <2>1. SameBut(o, o)
      BY DEF SameBut
    <2>2. SameBut(o, Snc!LocalDamage(o, ok, gun, near))
      BY PacketKeeps
    <2> QED
      BY <1>1, <2>1, <2>2
  <1>3. PICK a : a = Snc!AimSync(d, ok)
    OBVIOUS
  <1>4. SameBut(d, a)
    BY <1>2, <1>3, PacketKeeps DEF SameBut
  <1>5. PICK b : b = IF held /\ gun THEN Snc!BulletSync(a, ok, near) ELSE a
    OBVIOUS
  <1>6. Kept(a, b)
    BY <1>4, <1>5, PollKeeps DEF SameBut, Kept, Polled
  <1>7. PICK f : f = Snc!OnFootSync(b, ok)
    OBVIOUS
  <1>8. SameBut(b, f)
    BY <1>6, <1>7, PacketKeeps DEF Kept
  <1>9. PICK c : c = Snc!InCarSync(f, ok)
    OBVIOUS
  <1>10. SameBut(f, c)
    BY <1>8, <1>9, PacketKeeps DEF SameBut
  <1>11. PICK p : p = Snc!SpectatorSync(d, ok)
    OBVIOUS
  <1>12. SameBut(d, p)
    BY <1>2, <1>11, PacketKeeps DEF SameBut
  <1>13. s = IF ~o.finalized THEN o ELSE IF o.spectating THEN p ELSE c
    BY <1>1, <1>3, <1>5, <1>7, <1>9, <1>11 DEF Snc!Packets
  <1>14. Shots(a) = Shots(o) /\ Shots(c) = Shots(b) /\ Shots(p) = Shots(o)
    BY <1>2, <1>4, <1>8, <1>10, <1>12 DEF SameBut
  <1>15. Polled(o, c)
    BY <1>6, <1>14 DEF Kept, Polled, Missed, Shots
  <1>16. Kept(o, c)
    BY <1>2, <1>4, <1>6, <1>8, <1>10, <1>15 DEF SameBut, Kept
  <1>17. Kept(o, p)
    BY <1>2, <1>12, <1>14 DEF SameBut, Kept, Polled
  <1>18. Kept(o, o)
    BY DEF Kept, Polled
  <1> QED
    BY <1>13, <1>16, <1>17, <1>18

\* The report of a death touches nothing else, and marks what it tells.
LEMMA ReportKeeps ==
    ASSUME NEW o \in Snc!Marks, Snc!DeathMarked(o), NEW ok \in BOOLEAN, NEW r, r = Snc!Report(o, ok)
    PROVE  /\ r \in Snc!Marks /\ Snc!DeathMarked(r)
           /\ Rates(r) = Rates(o) /\ Shots(r) = Shots(o) /\ Toggles(r) = Toggles(o) /\ Spawn(r) = Spawn(o)
  <1>1. CASE ~o.finalized \/ (Snc!Dead /\ o.reported)
    <2>1. r = o
      BY <1>1 DEF Snc!Report
    <2> QED
      BY <2>1
  <1>2. CASE o.finalized /\ ~Snc!Dead
    <2>1. r = [o EXCEPT !.reported = FALSE]
      BY <1>2 DEF Snc!Report
    <2>2. /\ r \in Snc!Marks /\ ~r.reported /\ r.told = o.told /\ r.twice = o.twice
          /\ Rates(r) = Rates(o) /\ Shots(r) = Shots(o) /\ Toggles(r) = Toggles(o) /\ Spawn(r) = Spawn(o)
      BY <2>1 DEF Snc!Marks, Rates, Shots, Toggles, Spawn
    <2> QED
      BY <1>2, <2>2 DEF Snc!DeathMarked
  <1>3. CASE o.finalized /\ Snc!Dead /\ ~o.reported
    <2>1. ~o.told /\ ~o.twice
      BY <1>3 DEF Snc!DeathMarked
    <2>6. o.told = FALSE /\ o.twice = FALSE
      BY <2>1 DEF Snc!Marks
    <2>7. PICK twice : twice = (o.twice \/ (o.told /\ ok))
      OBVIOUS
    <2>8. PICK told : told = (o.told \/ ok)
      OBVIOUS
    <2>2. r = [o EXCEPT !.reported = ok, !.twice = twice, !.told = told, !.silent = ~ok]
      BY <1>3, <2>7, <2>8 DEF Snc!Report
    <2>9. twice = FALSE /\ told = ok
      BY <2>6, <2>7, <2>8
    <2>3. r = [o EXCEPT !.reported = ok, !.twice = FALSE, !.told = ok, !.silent = ~ok]
      BY <2>2, <2>9
    <2>10. PICK half : half = [o EXCEPT !.reported = ok, !.twice = FALSE]
      OBVIOUS
    <2>11. half \in Snc!Marks
      BY <2>10 DEF Snc!Marks
    <2>12. half.reported = ok /\ half.twice = FALSE
      BY <2>10 DEF Snc!Marks
    <2>13. PICK quiet \in BOOLEAN : quiet = ~ok
      OBVIOUS
    <2>14. r = [half EXCEPT !.told = ok, !.silent = quiet]
      BY <2>3, <2>10, <2>13
    <2>15. r \in Snc!Marks
      BY <2>11, <2>14 DEF Snc!Marks
    <2>16. r.reported = half.reported /\ r.told = ok /\ r.twice = half.twice /\ r.silent = quiet
      BY <2>11, <2>14 DEF Snc!Marks
    <2>4. r \in Snc!Marks /\ r.reported = ok /\ r.told = ok /\ r.twice = FALSE /\ r.silent = ~ok
      BY <2>12, <2>13, <2>15, <2>16
    <2>5. Rates(r) = Rates(o) /\ Shots(r) = Shots(o) /\ Toggles(r) = Toggles(o) /\ Spawn(r) = Spawn(o)
      BY <2>3 DEF Snc!Marks, Rates, Shots, Toggles, Spawn
    <2> QED
      BY <1>3, <2>4, <2>5 DEF Snc!DeathMarked
  <1> QED
    BY <1>1, <1>2, <1>3

\* What each part of the invariant reads of own.
LEMMA RateFrom ==
    ASSUME NEW o, NEW s, KeepsRate(o), Rates(s) = Rates(o) PROVE KeepsRate(s)
  BY DEF KeepsRate, Snc!TimerFollows, Rates

\* What is marked and told of a death holds after the report too.
LEMMA DeathFrom ==
    ASSUME NEW o, NEW s, Snc!DeathMarked(o), Death(s) = Death(o) PROVE Snc!DeathMarked(s)
  BY DEF Snc!DeathMarked, Death

\* A poll moves what was unseen to what is counted.
LEMMA ShotsFrom ==
    ASSUME own \in Snc!Marks, env \in Snc!Player, Snc!ShotsCounted, own' \in Snc!Marks, Polled(own, own'), UNCHANGED env
    PROVE  Snc!ShotsCounted'
  <1>1. /\ own.bullets \in Nat /\ own.wounds \in Nat /\ own'.bullets \in Nat /\ own'.wounds \in Nat
        /\ env.fired \in Nat /\ env.cuts \in Nat /\ own.ammo \in Int /\ env.ammo \in Int
    BY DEF Snc!Marks, Snc!Player
  <1>2. CASE Shots(own') = Shots(own)
    BY <1>2 DEF Snc!ShotsCounted, Snc!Unseen, Shots
  <1>3. CASE Shots(own') # Shots(own)
    <2>1. /\ "impact" \notin env.hooks /\ own'.sampled /\ own'.ammo = env.ammo
          /\ own'.bullets \in own.bullets .. own.bullets + Missed(own)
          /\ own'.wounds \in own.wounds .. own.wounds + Missed(own)
      BY <1>3 DEF Polled
    <2>2. Missed(own) = Snc!Unseen /\ Snc!Unseen \in {0, 1}
      BY <2>1 DEF Missed, Snc!Unseen
    <2>3. Snc!Unseen' = 0
      BY <1>1, <2>1 DEF Snc!Unseen
    <2>4. own'.bullets =< env.fired + env.cuts
      BY <1>1, <2>1, <2>2 DEF Snc!ShotsCounted
    <2>5. env.hooks # {"damage"} => own'.wounds =< env.fired + env.cuts
      BY <1>1, <2>1, <2>2 DEF Snc!ShotsCounted
    <2> QED
      BY <1>1, <2>3, <2>4, <2>5 DEF Snc!ShotsCounted
  <1> QED
    BY <1>2, <1>3

\* What was followed of the toggles is what counts while the server says nothing new.
LEMMA TogglesFrom ==
    ASSUME Snc!ToggleFollowed, Toggles(own') = Toggles(own), UNCHANGED net, pc' = pc \/ pc' = "idle"
    PROVE  Snc!ToggleFollowed'
  BY DEF Snc!ToggleFollowed, Toggles

\* What the packets, the death and the spawn of a frame leave of the bridge's own state.
LEMMA BridgeOwn ==
    ASSUME ClientAssumption, Snc!IInv, Snc!Bridge
    PROVE  /\ own' \in Snc!Marks /\ KeepsRate(own') /\ Polled(own, own') /\ Snc!DeathMarked(own')
           /\ Toggles(own') = Toggles(own)
  <1>1. /\ own \in Snc!Marks /\ SyncIs /\ KeepsRate(own) /\ Snc!DeathMarked(own)
    BY DEF Snc!IInv, SyncIs, KeepsRate, Snc!RateHonored
  <1>2. PICK ok, spawn, held, gun, near \in BOOLEAN :
          LET r == Snc!Report(own, ok)
              s == Snc!SeesDeath(r)
          IN  own' = IF Snc!AfterDeath(r) /\ ok
                     THEN [r EXCEPT !.finalized = FALSE, !.class = FALSE, !.seenDead = FALSE]
                     ELSE Snc!Packets([s EXCEPT !.finalized = @ \/ spawn], ok, held, gun, near)
    BY DEF Snc!Bridge
  <1>3. PICK r : r = Snc!Report(own, ok)
    OBVIOUS
  <1>4. /\ r \in Snc!Marks /\ Snc!DeathMarked(r)
        /\ Rates(r) = Rates(own) /\ Shots(r) = Shots(own) /\ Toggles(r) = Toggles(own)
    BY <1>1, <1>3, ReportKeeps
  <1>5. own' \in Snc!Marks /\ KeepsRate(own') /\ Polled(own, own') /\ Snc!DeathMarked(own') /\ Toggles(own') = Toggles(own)
    <2>1. CASE Snc!AfterDeath(r) /\ ok
      <3>1. own' = [r EXCEPT !.finalized = FALSE, !.class = FALSE, !.seenDead = FALSE]
        BY <1>2, <1>3, <2>1
      <3>2. /\ own' \in Snc!Marks /\ Rates(own') = Rates(r) /\ Shots(own') = Shots(r)
            /\ Death(own') = Death(r) /\ Toggles(own') = Toggles(r)
        BY <1>4, <3>1 DEF Snc!Marks, Rates, Shots, Death, Toggles
      <3> QED
        BY <1>1, <1>4, <3>2, RateFrom, DeathFrom DEF Polled
    <2>2. CASE ~(Snc!AfterDeath(r) /\ ok)
      <3>1. PICK m : m = [Snc!SeesDeath(r) EXCEPT !.finalized = @ \/ spawn]
        OBVIOUS
      <3>2. own' = Snc!Packets(m, ok, held, gun, near)
        BY <1>2, <1>3, <2>2, <3>1
      <3>3. PICK d \in BOOLEAN : d = (r.class /\ (r.seenDead \/ (r.finalized /\ Snc!Dead)))
        OBVIOUS
      <3>4. PICK f \in BOOLEAN : f = (r.finalized \/ spawn)
        OBVIOUS
      <3>5. m = [r EXCEPT !.seenDead = d, !.finalized = f]
        BY <1>4, <3>1, <3>3, <3>4 DEF Snc!SeesDeath, Snc!Marks
      <3>6. /\ m \in Snc!Marks /\ Rates(m) = Rates(r) /\ Shots(m) = Shots(r)
            /\ Death(m) = Death(r) /\ Toggles(m) = Toggles(r)
        BY <1>4, <3>5 DEF Snc!Marks, Rates, Shots, Death, Toggles
      <3>7. KeepsRate(m) /\ Snc!DeathMarked(m)
        BY <1>1, <1>4, <3>6, RateFrom, DeathFrom
      <3>8. Kept(m, own')
        BY <1>1, <3>2, <3>6, <3>7, PacketsKeep
      <3>9. Polled(own, own')
        BY <1>4, <3>6, <3>8 DEF Kept, Polled, Missed, Shots
      <3> QED
        BY <1>4, <3>6, <3>7, <3>8, <3>9, DeathFrom DEF Kept
    <2> QED
      BY <2>1, <2>2
  <1> QED
    BY <1>5

\* The part of the frame that sends keeps the invariant.
LEMMA SyncBridge ==
    ASSUME ClientAssumption, Snc!IInv, Snc!Bridge PROVE Snc!IInv'
  <1>1. own' \in Snc!Marks /\ KeepsRate(own') /\ Polled(own, own') /\ Snc!DeathMarked(own') /\ Toggles(own') = Toggles(own)
    BY BridgeOwn
  <1>2. UNCHANGED <<net, env>> /\ pc' = "idle"
    BY DEF Snc!Bridge
  <1>3. Snc!ShotsCounted'
    BY <1>1, <1>2, ShotsFrom DEF Snc!IInv, SyncIs
  <1>4. Snc!ToggleFollowed'
    BY <1>1, <1>2, TogglesFrom DEF Snc!IInv
  <1>5. (Snc!TimerFollows(own) /\ Snc!RateHonored /\ Snc!DeathMarked(own) /\ Snc!ClockRuns)'
    BY <1>1, <1>2 DEF KeepsRate, Snc!TimerFollows, Snc!RateHonored, Snc!DeathMarked, Snc!Dead, Snc!ClockRuns, Snc!IInv
  <1> QED
    BY <1>1, <1>2, <1>3, <1>4, <1>5 DEF Snc!IInv

\* What the invariant says of own, when own and the player are left alone.
LEMMA OwnLeftAlone ==
    ASSUME Snc!IInv, UNCHANGED <<own, env>>
    PROVE  /\ own' \in Snc!Marks /\ env' \in Snc!Player /\ Snc!ClockRuns' /\ Snc!RateHonored'
           /\ Snc!TimerFollows(own)' /\ Snc!ShotsCounted' /\ Snc!DeathMarked(own)'
  BY DEF Snc!IInv, Snc!ClockRuns, Snc!RateHonored, Snc!TimerFollows, Snc!ShotsCounted, Snc!Unseen,
         Snc!DeathMarked, Snc!Dead

\* A new session begins with a count of the toggles of its own.
LEMMA NewSessionIs ==
    ASSUME net \in Snc!Server, NEW n, n = Snc!NewSession
    PROVE  n \in Snc!Server /\ n.seq = 0 /\ n.session = net.session + 1 /\ n.restart = net.restart
  <1>1. n = [net EXCEPT !.seq = 0, !.on = FALSE, !.target = 0, !.session = @ + 1]
    BY DEF Snc!NewSession
  <1>2. net.session + 1 \in Nat /\ 0 \in Nat
    BY DEF Snc!Server
  <1>3. n \in Snc!Server
    BY <1>1, <1>2 DEF Snc!Server
  <1> QED
    BY <1>1, <1>3 DEF Snc!Server

\* What the server says keeps the invariant.
LEMMA SyncServer ==
    ASSUME Snc!IInv, Snc!OnToggleSpectating \/ Snc!OnSpectate \/ Snc!OnRestart PROVE Snc!IInv'
  <1>1. UNCHANGED <<own, env, pc>> /\ pc = "idle" /\ net \in Snc!Server /\ own \in Snc!Marks
    BY DEF Snc!IInv, Snc!OnToggleSpectating, Snc!OnSpectate, Snc!OnRestart, Snc!Receives
  <1>2. CASE Snc!OnToggleSpectating
    <2>1. PICK on \in BOOLEAN : net' = [net EXCEPT !.seq = @ + 1, !.on = on, !.said = @ + 1]
      BY <1>2 DEF Snc!OnToggleSpectating
    <2>4. net.seq + 1 \in Nat /\ net.said + 1 \in Nat
      BY <1>1 DEF Snc!Server
    <2>5. net' \in Snc!Server
      BY <1>1, <2>1, <2>4 DEF Snc!Server
    <2>2. net' \in Snc!Server /\ net'.seq = net.seq + 1 /\ net'.session = net.session /\ net'.restart = net.restart
      BY <1>1, <2>1, <2>5 DEF Snc!Server
    <2>3. Snc!ToggleFollowed'
      BY <1>1, <2>2 DEF Snc!IInv, Snc!ToggleFollowed, Snc!Server, Snc!Marks
    <2> QED
      BY <1>1, <2>2, <2>3, OwnLeftAlone DEF Snc!IInv
  <1>3. CASE Snc!OnSpectate
    <2>3. net' = [net EXCEPT !.target = @ + 1, !.said = @ + 1]
      BY <1>3 DEF Snc!OnSpectate
    <2>4. net.target + 1 \in Nat /\ net.said + 1 \in Nat
      BY <1>1 DEF Snc!Server
    <2>5. net' \in Snc!Server
      BY <1>1, <2>3, <2>4 DEF Snc!Server
    <2>1. /\ net' \in Snc!Server /\ net'.seq = net.seq /\ net'.session = net.session
          /\ net'.restart = net.restart /\ net'.on = net.on
      BY <1>1, <2>3, <2>5 DEF Snc!Server
    <2>2. Snc!ToggleFollowed'
      BY <1>1, <2>1 DEF Snc!IInv, Snc!ToggleFollowed
    <2> QED
      BY <1>1, <2>1, <2>2, OwnLeftAlone DEF Snc!IInv
  <1>4. CASE Snc!OnRestart
    <2>1. net' = [Snc!NewSession EXCEPT !.restart = @ + 1]
      BY <1>4 DEF Snc!OnRestart
    <2>4. PICK n : n = Snc!NewSession
      OBVIOUS
    <2>5. n \in Snc!Server /\ n.seq = 0 /\ n.session = net.session + 1 /\ n.restart = net.restart
      BY <1>1, <2>4, NewSessionIs
    <2>6. net' = [n EXCEPT !.restart = @ + 1] /\ n.restart + 1 \in Nat
      BY <2>1, <2>4, <2>5 DEF Snc!Server
    <2>7. net' \in Snc!Server
      BY <2>5, <2>6 DEF Snc!Server
    <2>2. /\ net' \in Snc!Server /\ net'.seq = 0 /\ net'.session = net.session + 1
          /\ net'.restart = net.restart + 1
      BY <2>5, <2>6, <2>7 DEF Snc!Server
    <2>8. /\ net.session \in Nat /\ net.restart \in Nat /\ own.markOf \in Nat /\ own.handled \in Nat
          /\ own.markOf =< net.session /\ own.handled =< net.restart
      BY <1>1 DEF Snc!Server, Snc!Marks, Snc!IInv, Snc!ToggleFollowed
    <2>3. Snc!ToggleFollowed'
      BY <1>1, <2>2, <2>8 DEF Snc!IInv, Snc!ToggleFollowed
    <2> QED
      BY <1>1, <2>2, <2>3, OwnLeftAlone DEF Snc!IInv
  <1> QED
    BY <1>2, <1>3, <1>4

\* So does a forced class selection.
LEMMA SyncForceClass ==
    ASSUME Snc!IInv, Snc!OnForceClass PROVE Snc!IInv'
  <1>1. own' = [own EXCEPT !.class = TRUE] /\ UNCHANGED <<net, env, pc>> /\ own \in Snc!Marks
    BY DEF Snc!IInv, Snc!OnForceClass
  <1>2. /\ own' \in Snc!Marks /\ Rates(own') = Rates(own) /\ Shots(own') = Shots(own)
        /\ Death(own') = Death(own) /\ Toggles(own') = Toggles(own)
    BY <1>1 DEF Snc!Marks, Rates, Shots, Death, Toggles
  <1>3. Snc!ToggleFollowed'
    BY <1>1, <1>2, TogglesFrom DEF Snc!IInv
  <1>4. Snc!ShotsCounted'
    BY <1>1, <1>2, ShotsFrom DEF Snc!IInv, Polled
  <1>5. (Snc!RateHonored /\ Snc!TimerFollows(own) /\ Snc!ClockRuns)'
    BY <1>1, <1>2 DEF Snc!IInv, Snc!RateHonored, Snc!TimerFollows, Snc!ClockRuns, Rates
  <1>6. Snc!DeathMarked(own)'
    BY <1>1, <1>2 DEF Snc!IInv, Snc!DeathMarked, Snc!Dead, Death
  <1> QED
    BY <1>1, <1>2, <1>3, <1>4, <1>5, <1>6 DEF Snc!IInv

\* A timer that starts anew has nothing to keep a distance from.
LEMMA RestartsKeep ==
    ASSUME SyncIs, ClientAssumption, NEW o \in Snc!Marks, KeepsRate(o), NEW kinds, NEW r, r = Snc!Restarts(o, kinds)
    PROVE  /\ r \in Snc!Marks /\ KeepsRate(r)
           /\ Shots(r) = Shots(o) /\ Death(r) = Death(o) /\ Toggles(r) = Toggles(o) /\ Spawn(r) = Spawn(o)
  <1>1. CASE r = o
    BY <1>1
  <1>2. CASE r = [o EXCEPT !.last = 0, !.at = 0]
    <2>2. r \in Snc!Marks
      <3>1. PICK z \in Nat : z = 0
        OBVIOUS
      <3>2. r = [o EXCEPT !.last = z, !.at = z]
        BY <1>2, <3>1
      <3> QED
        BY <3>2 DEF Snc!Marks
    <2>1. /\ r \in Snc!Marks /\ r.last = 0 /\ r.at = 0 /\ r.rushed = o.rushed
          /\ Shots(r) = Shots(o) /\ Death(r) = Death(o) /\ Toggles(r) = Toggles(o) /\ Spawn(r) = Spawn(o)
      BY <1>2, <2>2 DEF Snc!Marks, Shots, Death, Toggles, Spawn
    <2> QED
      BY <2>1 DEF KeepsRate, Snc!TimerFollows
  <1> QED
    BY <1>1, <1>2 DEF Snc!Restarts

\* The reset of a restart keeps the rates, the shots and the deaths.
LEMMA ResetKeeps ==
    ASSUME SyncIs, ClientAssumption, NEW o \in Snc!Marks, KeepsRate(o), Snc!DeathMarked(o),
           NEW r, r = Snc!SessionReset(o)
    PROVE  /\ r \in Snc!Marks /\ KeepsRate(r) /\ Snc!DeathMarked(r) /\ Shots(r) = Shots(o)
           /\ ~r.spectating /\ r.mark = o.mark /\ r.markOf = o.markOf /\ r.handled = o.handled
  <1>1. PICK s : s = Snc!Restarts(o, {"spectator"})
    OBVIOUS
  <1>2. /\ s \in Snc!Marks /\ KeepsRate(s)
        /\ Shots(s) = Shots(o) /\ Death(s) = Death(o) /\ Toggles(s) = Toggles(o)
    BY <1>1, RestartsKeep
  <1> DEFINE q == [s EXCEPT !.finalized = FALSE, !.spectating = FALSE, !.type = FALSE]
             p == [q EXCEPT !.reported = FALSE, !.told = FALSE]
  <1>3. r = [s EXCEPT !.finalized = FALSE, !.spectating = FALSE, !.type = FALSE, !.reported = FALSE,
                      !.class = FALSE, !.seenDead = FALSE, !.told = FALSE]
    BY <1>1 DEF Snc!SessionReset
  <1>5. r = [p EXCEPT !.class = FALSE, !.seenDead = FALSE]
    BY <1>3
  <1>10. q \in Snc!Marks
    BY <1>2 DEF Snc!Marks
  <1>4. /\ Rates(q) = Rates(s) /\ Shots(q) = Shots(s) /\ Death(q) = Death(s)
        /\ ~q.spectating /\ q.mark = s.mark /\ q.markOf = s.markOf /\ q.handled = s.handled
    BY <1>2, <1>10 DEF Snc!Marks, Rates, Shots, Death
  <1> HIDE DEF q
  <1>11. p \in Snc!Marks
    BY <1>10 DEF Snc!Marks
  <1>12. /\ Rates(p) = Rates(q) /\ Shots(p) = Shots(q) /\ ~p.reported /\ ~p.told /\ p.twice = q.twice
         /\ p.spectating = q.spectating /\ p.mark = q.mark /\ p.markOf = q.markOf /\ p.handled = q.handled
    BY <1>10, <1>11 DEF Snc!Marks, Rates, Shots
  <1> HIDE DEF p
  <1>9. r \in Snc!Marks
    BY <1>5, <1>11 DEF Snc!Marks
  <1>13. /\ Rates(r) = Rates(p) /\ Shots(r) = Shots(p) /\ r.reported = p.reported /\ r.told = p.told /\ r.twice = p.twice
         /\ r.spectating = p.spectating /\ r.mark = p.mark /\ r.markOf = p.markOf /\ r.handled = p.handled
    BY <1>5, <1>9, <1>11 DEF Snc!Marks, Rates, Shots
  <1>6. /\ r \in Snc!Marks /\ Rates(r) = Rates(q) /\ Shots(r) = Shots(q)
        /\ ~r.reported /\ ~r.told /\ r.twice = q.twice
        /\ r.spectating = q.spectating /\ r.mark = q.mark /\ r.markOf = q.markOf /\ r.handled = q.handled
    BY <1>9, <1>12, <1>13
  <1>7. KeepsRate(r)
    BY <1>2, <1>4, <1>6, <1>10, RateFrom
  <1>8. Snc!DeathMarked(r)
    BY <1>2, <1>4, <1>6 DEF Snc!DeathMarked, Death
  <1> QED
    BY <1>2, <1>4, <1>6, <1>7, <1>8 DEF Toggles

\* A connection that is lost and made again keeps the invariant.
LEMMA SyncReconnect ==
    ASSUME ClientAssumption, Snc!IInv, Snc!Reconnect PROVE Snc!IInv'
  <1>1. /\ own \in Snc!Marks /\ net \in Snc!Server /\ SyncIs /\ KeepsRate(own) /\ Snc!DeathMarked(own)
        /\ pc = "idle" /\ net' = Snc!NewSession /\ UNCHANGED <<env, pc>>
        /\ own' = [Snc!Restarts(Snc!SessionReset(own), Snc!Kinds) EXCEPT !.sampled = FALSE, !.ammo = 0]
    BY DEF Snc!IInv, SyncIs, KeepsRate, Snc!RateHonored, Snc!Reconnect
  <1>2. PICK r : r = Snc!SessionReset(own)
    OBVIOUS
  <1>3. /\ r \in Snc!Marks /\ KeepsRate(r) /\ Snc!DeathMarked(r) /\ Shots(r) = Shots(own)
        /\ ~r.spectating /\ r.mark = own.mark /\ r.markOf = own.markOf /\ r.handled = own.handled
    BY <1>1, <1>2, ResetKeeps
  <1>4. PICK s : s = Snc!Restarts(r, Snc!Kinds)
    OBVIOUS
  <1>5. /\ s \in Snc!Marks /\ KeepsRate(s)
        /\ Shots(s) = Shots(r) /\ Death(s) = Death(r) /\ Toggles(s) = Toggles(r)
    BY <1>1, <1>3, <1>4, RestartsKeep
  <1>6. own' = [s EXCEPT !.sampled = FALSE, !.ammo = 0]
    BY <1>1, <1>2, <1>4
  <1>14. own' \in Snc!Marks
    <2>1. PICK z \in Int : z = 0
      OBVIOUS
    <2>2. own' = [s EXCEPT !.sampled = FALSE, !.ammo = z]
      BY <1>6, <2>1
    <2> QED
      BY <1>5, <2>2 DEF Snc!Marks
  <1>7. /\ own' \in Snc!Marks /\ Rates(own') = Rates(s) /\ Death(own') = Death(s) /\ Toggles(own') = Toggles(s)
        /\ ~own'.sampled /\ own'.bullets = s.bullets /\ own'.wounds = s.wounds
    BY <1>5, <1>6, <1>14 DEF Snc!Marks, Rates, Death, Toggles
  <1>8. KeepsRate(own') /\ Snc!DeathMarked(own')
    BY <1>3, <1>5, <1>7, RateFrom, DeathFrom
  <1>9. (Snc!TimerFollows(own) /\ Snc!RateHonored /\ Snc!DeathMarked(own) /\ Snc!ClockRuns)'
    BY <1>1, <1>8 DEF KeepsRate, Snc!TimerFollows, Snc!RateHonored, Snc!DeathMarked, Snc!Dead, Snc!ClockRuns, Snc!IInv
  <1>10. Snc!ShotsCounted'
    <2>1. own'.bullets = own.bullets /\ own'.wounds = own.wounds
      BY <1>3, <1>5, <1>7 DEF Shots
    <2>2. Snc!Unseen' = 0 /\ Snc!Unseen \in {0, 1}
      BY <1>7 DEF Snc!Unseen
    <2> QED
      BY <1>1, <2>1, <2>2 DEF Snc!ShotsCounted, Snc!IInv, SyncIs, Snc!Marks, Snc!Player
  <1>11. net' \in Snc!Server /\ net'.seq = 0 /\ net'.session = net.session + 1 /\ net'.restart = net.restart
    BY <1>1, NewSessionIs
  <1>12. ~own'.spectating /\ own'.mark = own.mark /\ own'.markOf = own.markOf /\ own'.handled = own.handled
    BY <1>3, <1>5, <1>7 DEF Toggles
  <1>13. Snc!ToggleFollowed'
    BY <1>1, <1>11, <1>12 DEF Snc!IInv, Snc!ToggleFollowed, Snc!Server, Snc!Marks
  <1> QED
    BY <1>1, <1>7, <1>9, <1>10, <1>11, <1>13 DEF Snc!IInv, SyncIs

\* The three stages of the refresh: the restart, the toggles, the target.
LEMMA HandledIs ==
    ASSUME ClientAssumption, Snc!IInv,
           NEW b, b = IF own.handled = net.restart THEN own ELSE [Snc!SessionReset(own) EXCEPT !.handled = net.restart]
    PROVE  /\ b \in Snc!Marks /\ KeepsRate(b) /\ Snc!DeathMarked(b) /\ Shots(b) = Shots(own)
           /\ b.handled = net.restart /\ b.markOf =< net.session /\ b.mark = own.mark
           /\ b.markOf < net.session => ~b.spectating
           /\ b.markOf = net.session => b.mark \in 1 .. net.seq /\ (b.mark = net.seq => b.spectating = net.on)
  <1>1. /\ own \in Snc!Marks /\ net \in Snc!Server /\ SyncIs /\ KeepsRate(own) /\ Snc!DeathMarked(own)
        /\ Snc!ToggleFollowed
    BY DEF Snc!IInv, SyncIs, KeepsRate, Snc!RateHonored
  <1>2. CASE own.handled = net.restart
    BY <1>1, <1>2 DEF Snc!ToggleFollowed
  <1>3. CASE own.handled # net.restart
    <2>1. PICK r : r = Snc!SessionReset(own)
      OBVIOUS
    <2>2. /\ r \in Snc!Marks /\ KeepsRate(r) /\ Snc!DeathMarked(r) /\ Shots(r) = Shots(own)
          /\ ~r.spectating /\ r.mark = own.mark /\ r.markOf = own.markOf
      BY <1>1, <2>1, ResetKeeps
    <2>3. b = [r EXCEPT !.handled = net.restart] /\ net.restart \in Nat
      BY <1>1, <1>3, <2>1 DEF Snc!Server
    <2>4. b \in Snc!Marks
      BY <2>2, <2>3 DEF Snc!Marks
    <2>5. /\ Rates(b) = Rates(r) /\ Death(b) = Death(r) /\ Shots(b) = Shots(r)
          /\ b.handled = net.restart /\ ~b.spectating /\ b.markOf = own.markOf /\ b.mark = own.mark
      BY <2>2, <2>3, <2>4 DEF Snc!Marks, Rates, Death, Shots
    <2>6. own.markOf < net.session /\ own.markOf \in Nat /\ net.session \in Nat
      BY <1>1, <1>3 DEF Snc!ToggleFollowed, Snc!Marks, Snc!Server
    <2>7. KeepsRate(b) /\ Snc!DeathMarked(b)
      BY <2>2, <2>5, RateFrom, DeathFrom
    <2> QED
      BY <2>2, <2>4, <2>5, <2>6, <2>7
  <1> QED
    BY <1>2, <1>3

\* A toggle that is followed is marked with its number and its session.
LEMMA ToggleKeeps ==
    ASSUME ClientAssumption, SyncIs, net \in Snc!Server, NEW b \in Snc!Marks, KeepsRate(b), Snc!DeathMarked(b),
           b.handled = net.restart, b.markOf =< net.session, b.markOf < net.session => ~b.spectating,
           b.markOf = net.session => b.mark \in 1 .. net.seq /\ (b.mark = net.seq => b.spectating = net.on),
           NEW t, t = Snc!Toggle(b)
    PROVE  /\ t \in Snc!Marks /\ KeepsRate(t) /\ Snc!DeathMarked(t) /\ Shots(t) = Shots(b)
           /\ t.mark \in {b.mark, net.seq}
           /\ t.handled = net.restart /\ t.markOf =< net.session /\ net.seq \in {0, t.mark}
           /\ t.markOf < net.session => ~t.spectating
           /\ t.markOf = net.session => t.mark \in 1 .. net.seq /\ (t.mark = net.seq => t.spectating = net.on)
  <1>1. CASE net.seq \in {0, b.mark}
    BY <1>1 DEF Snc!Toggle
  <1>2. CASE net.seq \notin {0, b.mark}
    <2>1. net.seq \in Nat /\ net.session \in Nat /\ net.on \in BOOLEAN
      BY DEF Snc!Server
    <2>2. PICK seen : seen = [b EXCEPT !.mark = net.seq, !.markOf = net.session, !.spectating = net.on]
      OBVIOUS
    <2>3. seen \in Snc!Marks
      BY <2>1, <2>2 DEF Snc!Marks
    <2>4. /\ Rates(seen) = Rates(b) /\ Shots(seen) = Shots(b) /\ Death(seen) = Death(b)
          /\ seen.mark = net.seq /\ seen.markOf = net.session /\ seen.spectating = net.on
          /\ seen.handled = b.handled
      BY <2>2, <2>3 DEF Snc!Marks, Rates, Shots, Death
    <2>5. KeepsRate(seen)
      BY <2>4, RateFrom
    <2>6. PICK s : s = Snc!Restarts(seen, {"spectator"})
      OBVIOUS
    <2>7. /\ s \in Snc!Marks /\ KeepsRate(s)
          /\ Shots(s) = Shots(seen) /\ Death(s) = Death(seen) /\ Toggles(s) = Toggles(seen)
      BY <2>3, <2>5, <2>6, RestartsKeep
    <2>8. t = IF net.on THEN seen ELSE [s EXCEPT !.type = FALSE]
      BY <1>2, <2>2, <2>6 DEF Snc!Toggle
    <2>9. t \in Snc!Marks
      <3>1. [s EXCEPT !.type = FALSE] \in Snc!Marks
        BY <2>7 DEF Snc!Marks
      <3> QED
        BY <2>3, <2>8, <3>1
    <2>10. Shots(t) = Shots(b) /\ Death(t) = Death(b) /\ Toggles(t) = Toggles(seen)
      BY <2>4, <2>7, <2>8 DEF Snc!Marks, Shots, Death, Toggles
    <2>11. KeepsRate(t)
      <3>1. CASE net.on
        BY <2>5, <2>8, <3>1
      <3>2. CASE ~net.on
        <4>1. Rates(t) = Rates(s)
          BY <2>7, <2>8, <3>2 DEF Snc!Marks, Rates
        <4> QED
          BY <2>7, <4>1, RateFrom
      <3> QED
        BY <3>1, <3>2
    <2>12. Snc!DeathMarked(t)
      BY <2>10, DeathFrom
    <2>13. t.mark = net.seq /\ t.markOf = net.session /\ t.spectating = net.on /\ t.handled = b.handled
      BY <2>4, <2>10 DEF Toggles
    <2> QED
      BY <1>2, <2>1, <2>9, <2>10, <2>11, <2>12, <2>13
  <1> QED
    BY <1>1, <1>2

\* The refresh at the start of a frame keeps the invariant.
LEMMA SyncRefresh ==
    ASSUME ClientAssumption, Snc!IInv, Snc!Refresh PROVE Snc!IInv'
  <1>1. /\ own \in Snc!Marks /\ net \in Snc!Server /\ SyncIs /\ UNCHANGED <<net, env>> /\ pc' = "refreshed"
    BY DEF Snc!IInv, SyncIs, Snc!Refresh
  <1>2. PICK b : b = IF own.handled = net.restart THEN own ELSE [Snc!SessionReset(own) EXCEPT !.handled = net.restart]
    OBVIOUS
  <1>3. PICK t : t = Snc!Toggle(b)
    OBVIOUS
  <1>4. own' = Snc!Target(t)
    BY <1>2, <1>3 DEF Snc!Refresh
  <1>5. /\ t \in Snc!Marks /\ KeepsRate(t) /\ Snc!DeathMarked(t) /\ Shots(t) = Shots(own)
        /\ t.handled = net.restart /\ t.markOf =< net.session /\ net.seq \in {0, t.mark}
        /\ t.markOf < net.session => ~t.spectating
        /\ t.markOf = net.session => t.mark \in 1 .. net.seq /\ (t.mark = net.seq => t.spectating = net.on)
    <2>1. /\ b \in Snc!Marks /\ KeepsRate(b) /\ Snc!DeathMarked(b) /\ Shots(b) = Shots(own)
          /\ b.handled = net.restart /\ b.markOf =< net.session
          /\ b.markOf < net.session => ~b.spectating
          /\ b.markOf = net.session => b.mark \in 1 .. net.seq /\ (b.mark = net.seq => b.spectating = net.on)
      BY <1>2, HandledIs
    <2> QED
      BY <1>1, <1>3, <2>1, ToggleKeeps
  <1>6. /\ own' \in Snc!Marks /\ Rates(own') = Rates(t) /\ Shots(own') = Shots(t)
        /\ Death(own') = Death(t) /\ Toggles(own') = Toggles(t)
    <2>1. CASE own' = t
      BY <1>5, <2>1
    <2>2. CASE own' = [t EXCEPT !.targetMark = net.target, !.type = TRUE]
      <3>1. net.target \in Nat
        BY <1>1 DEF Snc!Server
      <3>2. own' \in Snc!Marks
        BY <1>5, <2>2, <3>1 DEF Snc!Marks
      <3> QED
        BY <1>5, <2>2, <3>2 DEF Snc!Marks, Rates, Shots, Death, Toggles
    <2> QED
      BY <1>4, <2>1, <2>2 DEF Snc!Target
  <1>7. KeepsRate(own') /\ Snc!DeathMarked(own')
    BY <1>5, <1>6, RateFrom, DeathFrom
  <1>8. (Snc!TimerFollows(own) /\ Snc!RateHonored /\ Snc!DeathMarked(own) /\ Snc!ClockRuns)'
    BY <1>1, <1>7 DEF KeepsRate, Snc!TimerFollows, Snc!RateHonored, Snc!DeathMarked, Snc!Dead, Snc!ClockRuns, Snc!IInv
  <1>9. Snc!ShotsCounted'
    BY <1>1, <1>5, <1>6, ShotsFrom DEF Snc!IInv, SyncIs, Polled
  <1>10. net.restart \in Nat /\ net.session \in Nat /\ t.markOf \in Nat
    BY <1>1, <1>5 DEF Snc!Server, Snc!Marks
  <1>11. /\ own'.handled = net.restart /\ own'.markOf = t.markOf /\ own'.mark = t.mark /\ own'.spectating = t.spectating
    BY <1>5, <1>6 DEF Toggles
  <1>12. Snc!ToggleFollowed'
    BY <1>1, <1>5, <1>10, <1>11 DEF Snc!ToggleFollowed
  <1> QED
    BY <1>1, <1>6, <1>8, <1>9, <1>12 DEF Snc!IInv, SyncIs

\* A tick of the clock keeps it.
LEMMA SyncTick ==
    ASSUME ClientAssumption, Snc!IInv, Snc!Tick PROVE Snc!IInv'
  <1>1. /\ UNCHANGED <<net, own, pc>> /\ env.ticks < MaxTicks /\ env \in Snc!Player
        /\ env' = [env EXCEPT !.clock = (env.clock + 1) % Wrap, !.ticks = env.ticks + 1]
    BY DEF Snc!IInv, Snc!Tick, Snc!Simulates
  <1>2. /\ Wrap \in Nat /\ Wrap > 1 /\ env.ticks \in Nat /\ MaxTicks \in Nat /\ MaxTicks < Wrap
        /\ env.clock = IF env.ticks = 0 THEN Wrap - 1 ELSE env.ticks - 1
    BY DEF ClientAssumption, Snc!IInv, Snc!ClockRuns, Snc!Player
  <1>3. (env.clock + 1) % Wrap = env.ticks
    <2>1. CASE env.ticks = 0
      BY <1>2, <2>1
    <2>2. CASE env.ticks > 0
      <3>1. env.clock + 1 = env.ticks /\ env.ticks \in 0 .. Wrap - 1
        BY <1>1, <1>2, <2>2
      <3> QED
        BY <1>2, <3>1
    <2> QED
      BY <1>2, <2>1, <2>2
  <1>4. env' = [env EXCEPT !.clock = env.ticks, !.ticks = env.ticks + 1] /\ env.ticks + 1 \in Nat
    <2>1. env.ticks + 1 \in Nat
      BY <1>2
    <2>2. \A c : c = (env.clock + 1) % Wrap => env' = [env EXCEPT !.clock = c, !.ticks = env.ticks + 1]
      BY <1>1
    <2>3. env' = [env EXCEPT !.clock = env.ticks, !.ticks = env.ticks + 1]
      BY <1>3, <2>2
    <2> QED
      BY <2>1, <2>3
  <1>5. env' \in Snc!Player
    BY <1>1, <1>2, <1>4 DEF Snc!Player
  <1>6. /\ env'.clock = env.ticks /\ env'.ticks = env.ticks + 1 /\ env'.ammo = env.ammo /\ env'.hooks = env.hooks
        /\ env'.fired = env.fired /\ env'.cuts = env.cuts /\ env'.kind = env.kind /\ env'.life = env.life
    BY <1>1, <1>4, <1>5 DEF Snc!Player
  <1>7. Snc!ClockRuns'
    BY <1>1, <1>2, <1>6 DEF Snc!ClockRuns
  <1>8. Snc!TimerFollows(own)'
    <2>1. /\ own.last \in (0 .. env.ticks - 1) \cup {0, Wrap - 1} /\ own.at \in (0 .. env.ticks - 1) \cup {0, Wrap - 1}
          /\ own.at # 0 =>
               \/ own.at = Wrap - 1 /\ (own.last = 0 => Interval = 1 /\ env.ticks > 0)
               \/ own.at < Wrap - 1 /\ own.at =< own.last /\ own.last < env.ticks
          /\ "impact" \in env.hooks /\ env.kind = "bullet" => own.at = 0
      BY DEF Snc!IInv, Snc!TimerFollows
    <2>2. /\ {own.last, own.at} \subseteq (0 .. (env.ticks + 1) - 1) \cup {0, Wrap - 1}
          /\ own.at # 0 =>
               \/ own.at = Wrap - 1 /\ (own.last = 0 => Interval = 1 /\ env.ticks + 1 > 0)
               \/ own.at < Wrap - 1 /\ own.at =< own.last /\ own.last < env.ticks + 1
      BY <1>2, <2>1
    <2> QED
      BY <1>1, <1>6, <2>1, <2>2 DEF Snc!TimerFollows
  <1>9. (Snc!ShotsCounted /\ Snc!DeathMarked(own) /\ Snc!RateHonored /\ Snc!ToggleFollowed)'
    BY <1>1, <1>6 DEF Snc!IInv, Snc!ShotsCounted, Snc!Unseen, Snc!DeathMarked, Snc!Dead, Snc!RateHonored, Snc!ToggleFollowed
  <1> QED
    BY <1>1, <1>5, <1>7, <1>8, <1>9 DEF Snc!IInv

\* What the rest of the invariant reads of the player.
LEMMA PlayerMoves ==
    ASSUME Snc!IInv, UNCHANGED <<net, own, pc>>, env' \in Snc!Player,
           env'.clock = env.clock, env'.ticks = env.ticks, env'.hooks = env.hooks, env'.kind = env.kind
    PROVE  Snc!ClockRuns' /\ (Snc!RateHonored /\ Snc!TimerFollows(own) /\ Snc!ToggleFollowed)'
  BY DEF Snc!IInv, Snc!ClockRuns, Snc!RateHonored, Snc!TimerFollows, Snc!ToggleFollowed

\* Getting in or out of a vehicle keeps it.
LEMMA SyncMove ==
    ASSUME Snc!IInv, Snc!Move PROVE Snc!IInv'
  <1>1. PICK place \in {"foot", "driver", "passenger"} : env' = [env EXCEPT !.place = place]
    BY DEF Snc!Move
  <1>2. /\ env' \in Snc!Player /\ UNCHANGED <<net, own, pc>>
        /\ env'.clock = env.clock /\ env'.ticks = env.ticks /\ env'.hooks = env.hooks /\ env'.kind = env.kind
        /\ env'.ammo = env.ammo /\ env'.fired = env.fired /\ env'.cuts = env.cuts /\ env'.life = env.life
    BY <1>1 DEF Snc!IInv, Snc!Move, Snc!Simulates, Snc!Player
  <1>3. (Snc!ShotsCounted /\ Snc!DeathMarked(own))'
    BY <1>2 DEF Snc!IInv, Snc!ShotsCounted, Snc!Unseen, Snc!DeathMarked, Snc!Dead
  <1> QED
    BY <1>2, <1>3, PlayerMoves DEF Snc!IInv

\* One shot is one more in each count at most, and what the poller will see is a shot.
LEMMA HooksReport ==
    ASSUME env \in Snc!Player, NEW o \in Snc!Marks, NEW ok \in BOOLEAN, NEW hit \in BOOLEAN, NEW s,
           s = IF hit THEN Snc!Damage(Snc!Impact(o, ok), ok) ELSE Snc!Impact(o, ok)
    PROVE  /\ s \in Snc!Marks /\ s.sampled = o.sampled /\ s.ammo = o.ammo /\ Death(s) = Death(o) /\ Toggles(s) = Toggles(o)
           /\ s.at = o.at /\ s.rushed = o.rushed
           /\ s.last \in {o.last, env.clock}
           /\ s.last # o.last => "impact" \in env.hooks /\ env.kind = "bullet"
           /\ s.bullets \in {o.bullets, IF "impact" \in env.hooks THEN o.bullets + 1 ELSE o.bullets}
           /\ s.wounds \in {o.wounds, IF "damage" \in env.hooks THEN o.wounds + 1 ELSE o.wounds}
  <1>1. PICK i : i = Snc!Impact(o, ok)
    OBVIOUS
  <1>2. /\ i \in Snc!Marks /\ i.sampled = o.sampled /\ i.ammo = o.ammo /\ Death(i) = Death(o) /\ Toggles(i) = Toggles(o)
        /\ i.at = o.at /\ i.rushed = o.rushed /\ i.wounds = o.wounds
        /\ i.last \in {o.last, env.clock}
        /\ i.last # o.last => "impact" \in env.hooks /\ env.kind = "bullet"
        /\ i.bullets \in {o.bullets, IF "impact" \in env.hooks THEN o.bullets + 1 ELSE o.bullets}
    <2>1. CASE "impact" \in env.hooks /\ o.finalized /\ ok
      <3>1. PICK l : l = IF env.kind = "bullet" THEN env.clock ELSE o.last
        OBVIOUS
      <3>2. i = [o EXCEPT !.bullets = o.bullets + 1, !.last = l]
        BY <1>1, <2>1, <3>1 DEF Snc!Impact
      <3>3. o.bullets + 1 \in Nat /\ l \in Nat
        BY <3>1 DEF Snc!Marks, Snc!Player
      <3>4. i \in Snc!Marks
        BY <3>2, <3>3 DEF Snc!Marks
      <3> QED
        BY <2>1, <3>1, <3>2, <3>4 DEF Snc!Marks, Death, Toggles
    <2>2. CASE ~("impact" \in env.hooks /\ o.finalized /\ ok)
      BY <1>1, <2>2 DEF Snc!Impact
    <2> QED
      BY <2>1, <2>2
  <1>3. CASE hit /\ "damage" \in env.hooks /\ ok
    <2>1. s = [i EXCEPT !.wounds = i.wounds + 1]
      BY <1>1, <1>3 DEF Snc!Damage
    <2>2. i.wounds + 1 \in Nat
      BY <1>2 DEF Snc!Marks
    <2>3. s \in Snc!Marks
      BY <1>2, <2>1, <2>2 DEF Snc!Marks
    <2>4. /\ s.wounds = i.wounds + 1 /\ s.bullets = i.bullets /\ s.last = i.last /\ s.at = i.at /\ s.rushed = i.rushed
          /\ s.sampled = i.sampled /\ s.ammo = i.ammo /\ Death(s) = Death(i) /\ Toggles(s) = Toggles(i)
      BY <1>2, <2>1, <2>3 DEF Snc!Marks, Death, Toggles
    <2> QED
      BY <1>2, <1>3, <2>3, <2>4
  <1>4. CASE ~(hit /\ "damage" \in env.hooks /\ ok)
    <2>1. s = i
      BY <1>1, <1>4 DEF Snc!Damage
    <2> QED
      BY <1>2, <2>1
  <1> QED
    BY <1>3, <1>4

\* A shot, as the hooks or the poller see it, keeps it.
LEMMA SyncShoot ==
    ASSUME ClientAssumption, Snc!IInv, Snc!Shoot PROVE Snc!IInv'
  <1>1. /\ own \in Snc!Marks /\ env \in Snc!Player /\ SyncIs /\ UNCHANGED <<net, pc>>
        /\ env' = [env EXCEPT !.ammo = env.ammo - 1, !.fired = env.fired + 1]
    BY DEF Snc!IInv, SyncIs, Snc!Shoot, Snc!Simulates
  <1>2. PICK ok, hit \in BOOLEAN : own' = IF hit THEN Snc!Damage(Snc!Impact(own, ok), ok) ELSE Snc!Impact(own, ok)
    BY DEF Snc!Shoot
  <1>3. /\ own' \in Snc!Marks /\ own'.sampled = own.sampled /\ own'.ammo = own.ammo
        /\ Death(own') = Death(own) /\ Toggles(own') = Toggles(own)
        /\ own'.at = own.at /\ own'.rushed = own.rushed /\ own'.last \in {own.last, env.clock}
        /\ own'.last # own.last => "impact" \in env.hooks /\ env.kind = "bullet"
        /\ own'.bullets \in {own.bullets, IF "impact" \in env.hooks THEN own.bullets + 1 ELSE own.bullets}
        /\ own'.wounds \in {own.wounds, IF "damage" \in env.hooks THEN own.wounds + 1 ELSE own.wounds}
    BY <1>1, <1>2, HooksReport
  <1>4. env.ammo - 1 \in Int /\ env.fired + 1 \in Nat
    BY <1>1 DEF Snc!Player
  <1>5. env' \in Snc!Player
    BY <1>1, <1>4 DEF Snc!Player
  <1>6. /\ env'.clock = env.clock /\ env'.ticks = env.ticks /\ env'.hooks = env.hooks /\ env'.kind = env.kind
        /\ env'.ammo = env.ammo - 1 /\ env'.fired = env.fired + 1 /\ env'.cuts = env.cuts /\ env'.life = env.life
    BY <1>1, <1>5 DEF Snc!Player
  <1>7. Snc!ShotsCounted'
    <2>1. /\ own.bullets \in Nat /\ own.wounds \in Nat /\ env.fired \in Nat /\ env.cuts \in Nat
          /\ env.ammo \in Int /\ own.ammo \in Int /\ env.hooks \in SUBSET {"impact", "damage"}
      BY <1>1 DEF Snc!Marks, Snc!Player
    <2>2. CASE "impact" \in env.hooks
      <3>1. Snc!Unseen = 0 /\ Snc!Unseen' = 0
        BY <1>6, <2>2 DEF Snc!Unseen
      <3> QED
        BY <1>3, <1>6, <2>1, <3>1 DEF Snc!IInv, Snc!ShotsCounted
    <2>3. CASE "impact" \notin env.hooks
      <3>1. Snc!Unseen' \in {0, 1} /\ Snc!Unseen \in {0, 1}
        BY DEF Snc!Unseen
      <3>2. own'.bullets = own.bullets /\ (env.hooks # {"damage"} => own'.wounds = own.wounds)
        <4>1. env.hooks # {"damage"} => "damage" \notin env.hooks
          BY <2>1, <2>3
        <4> QED
          BY <1>3, <2>3, <4>1
      <3> QED
        BY <1>6, <2>1, <3>1, <3>2 DEF Snc!IInv, Snc!ShotsCounted
    <2> QED
      BY <2>2, <2>3
  <1>8. Snc!TimerFollows(own)'
    <2>1. CASE own'.last = own.last
      BY <1>3, <1>6, <2>1 DEF Snc!IInv, Snc!TimerFollows
    <2>2. CASE own'.last # own.last
      <3>1. own'.last = env.clock /\ own'.at = 0 /\ own.at = 0
        BY <1>3, <2>2 DEF Snc!IInv, Snc!TimerFollows
      <3>2. env.clock \in (0 .. env.ticks - 1) \cup {0, Wrap - 1}
        BY <1>1 DEF SyncIs, Snc!ClockRuns, Snc!Player, ClientAssumption
      <3> QED
        BY <1>6, <3>1, <3>2 DEF Snc!TimerFollows
    <2> QED
      BY <2>1, <2>2
  <1>9. (Snc!ClockRuns /\ Snc!RateHonored /\ Snc!DeathMarked(own) /\ Snc!ToggleFollowed)'
    <2>1. Snc!ToggleFollowed'
      BY <1>1, <1>3, TogglesFrom DEF Snc!IInv
    <2>2. Snc!DeathMarked(own)'
      BY <1>3, <1>6 DEF Snc!IInv, Snc!DeathMarked, Snc!Dead, Death
    <2> QED
      BY <1>3, <1>6, <2>1, <2>2 DEF Snc!IInv, Snc!ClockRuns, Snc!RateHonored
  <1> QED
    BY <1>1, <1>3, <1>5, <1>7, <1>8, <1>9 DEF Snc!IInv

\* A change of the ammunition that is no shot keeps it.
LEMMA SyncSetAmmo ==
    ASSUME Snc!IInv, Snc!SetAmmo PROVE Snc!IInv'
  <1>1. /\ own \in Snc!Marks /\ env \in Snc!Player /\ net \in Snc!Server /\ UNCHANGED <<own, pc>>
        /\ net' = [net EXCEPT !.said = net.said + 1]
    BY DEF Snc!IInv, Snc!SetAmmo
  <1>2. PICK ammo \in 0 .. 2 :
          env' = [env EXCEPT !.ammo = ammo, !.cuts = IF ammo < env.ammo THEN @ + 1 ELSE @]
    BY DEF Snc!SetAmmo
  <1>3. PICK cuts : cuts = IF ammo < env.ammo THEN env.cuts + 1 ELSE env.cuts
    OBVIOUS
  <1>4. env' = [env EXCEPT !.ammo = ammo, !.cuts = cuts]
    BY <1>2, <1>3
  <1>5. ammo \in Int /\ cuts \in Nat /\ net.said + 1 \in Nat
    BY <1>1, <1>3 DEF Snc!Player, Snc!Server
  <1>6. env' \in Snc!Player /\ net' \in Snc!Server
    <2>1. env' \in Snc!Player
      BY <1>1, <1>4, <1>5 DEF Snc!Player
    <2>2. net' \in Snc!Server
      BY <1>1, <1>5 DEF Snc!Server
    <2> QED
      BY <2>1, <2>2
  <1>7. /\ env'.clock = env.clock /\ env'.ticks = env.ticks /\ env'.hooks = env.hooks /\ env'.kind = env.kind
        /\ env'.ammo = ammo /\ env'.fired = env.fired /\ env'.cuts = cuts /\ env'.life = env.life
    BY <1>1, <1>4, <1>6 DEF Snc!Player
  <1>8. net'.seq = net.seq /\ net'.session = net.session /\ net'.restart = net.restart /\ net'.on = net.on
    BY <1>1 DEF Snc!Server
  <1>9. Snc!ShotsCounted'
    <2>1. /\ own.bullets \in Nat /\ own.wounds \in Nat /\ env.fired \in Nat /\ env.cuts \in Nat
          /\ env.ammo \in Int /\ own.ammo \in Int
      BY <1>1 DEF Snc!Marks, Snc!Player
    <2>2. Snc!Unseen' \in {0, 1} /\ Snc!Unseen \in {0, 1}
      BY DEF Snc!Unseen
    <2>3. CASE ammo < env.ammo
      BY <1>1, <1>3, <1>7, <2>1, <2>2, <2>3 DEF Snc!IInv, Snc!ShotsCounted
    <2>4. CASE ~(ammo < env.ammo)
      <3>1. Snc!Unseen' =< Snc!Unseen
        BY <1>1, <1>5, <1>7, <2>1, <2>4 DEF Snc!Unseen
      <3> QED
        BY <1>1, <1>3, <1>7, <2>1, <2>2, <2>4, <3>1 DEF Snc!IInv, Snc!ShotsCounted
    <2> QED
      BY <2>3, <2>4
  <1>10. (Snc!ClockRuns /\ Snc!RateHonored /\ Snc!TimerFollows(own) /\ Snc!DeathMarked(own))'
    BY <1>1, <1>7 DEF Snc!IInv, Snc!ClockRuns, Snc!RateHonored, Snc!TimerFollows, Snc!DeathMarked, Snc!Dead
  <1>11. Snc!ToggleFollowed'
    BY <1>1, <1>8 DEF Snc!IInv, Snc!ToggleFollowed
  <1> QED
    BY <1>1, <1>6, <1>9, <1>10, <1>11 DEF Snc!IInv

\* Dying and coming back keep it.
LEMMA SyncLive ==
    ASSUME Snc!IInv, Snc!Live PROVE Snc!IInv'
  <1>1. own \in Snc!Marks /\ env \in Snc!Player /\ UNCHANGED <<net, pc>>
    BY DEF Snc!IInv, Snc!Live, Snc!Simulates
  <1>2. PICK life \in {"alive", "dying", "down"} :
          /\ env' = [env EXCEPT !.life = life]
          /\ \/ env.life = "alive" /\ life = "dying" /\ own' = [own EXCEPT !.silent = FALSE]
             \/ env.life = "dying" /\ life = "down" /\ own' = own
             \/ Snc!Dead /\ life = "alive" /\ own' = [own EXCEPT !.told = FALSE]
    BY DEF Snc!Live
  <1>3. env' \in Snc!Player
    BY <1>1, <1>2 DEF Snc!Player
  <1>4. /\ env'.clock = env.clock /\ env'.ticks = env.ticks /\ env'.hooks = env.hooks /\ env'.kind = env.kind
        /\ env'.ammo = env.ammo /\ env'.fired = env.fired /\ env'.cuts = env.cuts /\ env'.life = life
    BY <1>1, <1>2 DEF Snc!Player
  <1>5. own' \in Snc!Marks /\ Rates(own') = Rates(own) /\ Shots(own') = Shots(own) /\ Toggles(own') = Toggles(own)
    <2>1. PICK silent, told \in BOOLEAN : own' = [own EXCEPT !.silent = silent, !.told = told]
      <3>1. own = [own EXCEPT !.silent = own.silent, !.told = own.told] /\ own.silent \in BOOLEAN /\ own.told \in BOOLEAN
        BY <1>1 DEF Snc!Marks
      <3>2. [own EXCEPT !.silent = FALSE] = [own EXCEPT !.silent = FALSE, !.told = own.told]
        BY <1>1 DEF Snc!Marks
      <3>3. [own EXCEPT !.told = FALSE] = [own EXCEPT !.silent = own.silent, !.told = FALSE]
        BY <1>1 DEF Snc!Marks
      <3> QED
        BY <1>2, <3>1, <3>2, <3>3
    <2>2. own' \in Snc!Marks
      BY <1>1, <2>1 DEF Snc!Marks
    <2> QED
      BY <1>1, <2>1, <2>2 DEF Snc!Marks, Rates, Shots, Toggles
  <1>6. own'.twice = own.twice /\ own'.reported = own.reported
    BY <1>1, <1>2 DEF Snc!Marks
  <1>7. Snc!DeathMarked(own)'
    <2>1. CASE env.life = "alive" /\ life = "dying" /\ own' = [own EXCEPT !.silent = FALSE]
      <3>1. ~own'.silent /\ own'.told = own.told
        BY <1>1, <2>1 DEF Snc!Marks
      <3> QED
        BY <1>4, <1>6, <2>1, <3>1 DEF Snc!IInv, Snc!DeathMarked, Snc!Dead
    <2>2. CASE env.life = "dying" /\ life = "down" /\ own' = own
      BY <1>4, <2>2 DEF Snc!IInv, Snc!DeathMarked, Snc!Dead
    <2>3. CASE Snc!Dead /\ life = "alive" /\ own' = [own EXCEPT !.told = FALSE]
      <3>1. ~own'.told /\ own'.silent = own.silent
        BY <1>1, <2>3 DEF Snc!Marks
      <3> QED
        BY <1>6, <3>1 DEF Snc!IInv, Snc!DeathMarked
    <2> QED
      BY <1>2, <2>1, <2>2, <2>3
  <1>8. (Snc!ClockRuns /\ Snc!RateHonored /\ Snc!TimerFollows(own) /\ Snc!ShotsCounted)'
    BY <1>4, <1>5 DEF Snc!IInv, Snc!ClockRuns, Snc!RateHonored, Snc!TimerFollows, Snc!ShotsCounted,
                      Snc!Unseen, Rates, Shots
  <1>9. Snc!ToggleFollowed'
    BY <1>1, <1>5, TogglesFrom DEF Snc!IInv
  <1> QED
    BY <1>1, <1>3, <1>5, <1>7, <1>8, <1>9 DEF Snc!IInv

\* It holds at first.
LEMMA SyncInit ==
    ASSUME ClientAssumption, Snc!Init PROVE Snc!IInv
  <1>1. PICK hooks \in SUBSET {"impact", "damage"}, kind \in Snc!Kinds, study \in {"rates", "shots", "death"} :
          env = [place |-> "foot", life |-> "alive", ammo |-> 2, fired |-> 0, cuts |-> 0, ticks |-> 0,
                 clock |-> Wrap - 1, hooks |-> IF study = "shots" THEN hooks ELSE {"impact"},
                 kind |-> IF study = "rates" THEN kind ELSE "bullet", study |-> study]
    BY DEF Snc!Init
  <1>2. Wrap - 1 \in Nat /\ Wrap \in Nat /\ MaxTicks \in Nat
    BY DEF ClientAssumption
  <1>3. net \in Snc!Server
    BY DEF Snc!Init, Snc!Server
  <1>4. own \in Snc!Marks
    BY DEF Snc!Init, Snc!Marks
  <1>5. env \in Snc!Player
    <2>1. PICK h \in SUBSET {"impact", "damage"} : h = IF study = "shots" THEN hooks ELSE {"impact"}
      OBVIOUS
    <2>2. PICK k \in Snc!Kinds : k = IF study = "rates" THEN kind ELSE "bullet"
      BY DEF Snc!Kinds
    <2>3. env = [place |-> "foot", life |-> "alive", ammo |-> 2, fired |-> 0, cuts |-> 0, ticks |-> 0,
                 clock |-> Wrap - 1, hooks |-> h, kind |-> k, study |-> study]
      BY <1>1, <2>1, <2>2
    <2> QED
      BY <1>2, <2>3 DEF Snc!Player
  <1>6. Snc!ClockRuns /\ Snc!RateHonored /\ Snc!TimerFollows(own)
    BY <1>1, <1>2 DEF Snc!Init, Snc!ClockRuns, Snc!RateHonored, Snc!TimerFollows
  <1>7. Snc!ShotsCounted /\ Snc!DeathMarked(own) /\ Snc!ToggleFollowed
    BY <1>1 DEF Snc!Init, Snc!ShotsCounted, Snc!Unseen, Snc!DeathMarked, Snc!ToggleFollowed
  <1> QED
    BY <1>3, <1>4, <1>5, <1>6, <1>7 DEF Snc!IInv

\* Every step of LocalSync keeps it.
LEMMA SyncStep ==
    ASSUME ClientAssumption, Snc!IInv, Snc!Next PROVE Snc!IInv'
  BY SyncServer, SyncForceClass, SyncRefresh, SyncReconnect, SyncBridge, SyncTick, SyncMove, SyncShoot,
     SyncSetAmmo, SyncLive DEF Snc!Next

SyncInv == part = "sync" => Snc!IInv

\* The inductive invariant of LocalSync, for any rates and numbers of events, as long as
\* the clock does not come round a second time.
THEOREM SyncInvariant == Spec => []SyncInv
  <1>1. Init => SyncInv
    BY SyncInit, ClientAssumption DEF Init, SyncInv
  <1>2. SyncInv /\ [Next]_vars => SyncInv'
    <2> SUFFICES ASSUME SyncInv, [Next]_vars, part' = "sync" PROVE Snc!IInv'
      BY DEF SyncInv
    <2>1. CASE UNCHANGED vars
      <3>1. Snc!IInv /\ UNCHANGED <<net, own, env, pc>>
        BY <2>1 DEF vars, SyncInv
      <3> QED
        BY <3>1 DEF Snc!IInv, Snc!ClockRuns, Snc!RateHonored, Snc!TimerFollows, Snc!ShotsCounted,
                    Snc!Unseen, Snc!DeathMarked, Snc!Dead, Snc!ToggleFollowed
    <2>2. CASE Next
      <3>1. part = "sync" /\ Snc!Next
        BY <2>2 DEF Next
      <3> QED
        BY <3>1, SyncStep, ClientAssumption DEF SyncInv
    <2> QED
      BY <2>1, <2>2
  <1> QED
    BY <1>1, <1>2, PTL DEF Spec

\* No two packets of a kind come closer than the interval of the session bridge's timers,
\* though a packet that fails restarts the timer too and tick 0 means "never".
THEOREM RateIsHonored == Spec => []RateHonored
  <1>1. SyncInv => RateHonored
    BY DEF SyncInv, RateHonored, Snc!IInv
  <1> QED
    BY <1>1, SyncInvariant, PTL

\* Neither the two hooks nor the poller that stands in for one of them report a shot or its
\* wound twice, and a death is told once.
THEOREM NothingTwice == Spec => []ReportedOnce
  <1>1. SyncInv => ReportedOnce
    <2> SUFFICES ASSUME SyncInv, part = "sync" PROVE Snc!ShotsOnce /\ Snc!DeathReported
      BY DEF ReportedOnce
    <2>1. own \in Snc!Marks /\ env \in Snc!Player /\ Snc!ShotsCounted /\ Snc!DeathMarked(own)
      BY DEF SyncInv, Snc!IInv
    <2>2. /\ own.bullets \in Nat /\ own.wounds \in Nat /\ env.fired \in Nat /\ env.cuts \in Nat
          /\ Snc!Unseen \in {0, 1}
      BY <2>1 DEF Snc!Marks, Snc!Player, Snc!Unseen
    <2>3. Snc!ShotsOnce
      BY <2>1, <2>2 DEF Snc!ShotsCounted, Snc!ShotsOnce
    <2> QED
      BY <2>1, <2>3 DEF Snc!DeathMarked, Snc!DeathReported
  <1> QED
    BY <1>1, SyncInvariant, PTL

\* After every refresh the player spectates as the server's newest toggle of this session
\* says, but for one whose number is that of an earlier session's last.
THEOREM SpectatesRight == Spec => []SpectatesAsTold
  <1>1. SyncInv => SpectatesAsTold
    <2> SUFFICES ASSUME SyncInv, part = "sync", pc = "refreshed"
                 PROVE  own.spectating = (net.seq # 0 /\ net.on) \/ (own.mark = net.seq /\ own.markOf # net.session)
      BY DEF SpectatesAsTold, Snc!SpectatesAsTold
    <2>1. /\ own \in Snc!Marks /\ net \in Snc!Server /\ Snc!ToggleFollowed
      BY DEF SyncInv, Snc!IInv
    <2>2. own.spectating \in BOOLEAN /\ net.on \in BOOLEAN /\ net.seq \in Nat /\ own.markOf \in Nat /\ net.session \in Nat
      BY <2>1 DEF Snc!Marks, Snc!Server
    <2>3. /\ own.markOf < net.session => ~own.spectating
          /\ own.markOf = net.session => own.mark \in 1 .. net.seq /\ (own.mark = net.seq => own.spectating = net.on)
          /\ own.markOf =< net.session /\ net.seq \in {0, own.mark}
      BY <2>1 DEF Snc!ToggleFollowed
    <2>4. CASE own.markOf = net.session
      <3>1. net.seq # 0 /\ own.spectating = net.on
        BY <2>2, <2>3, <2>4
      <3> QED
        BY <2>2, <3>1
    <2>5. CASE own.markOf # net.session
      <3>1. ~own.spectating
        BY <2>2, <2>3, <2>5
      <3> QED
        BY <2>2, <2>3, <2>5, <3>1
    <2> QED
      BY <2>4, <2>5
  <1> QED
    BY <1>1, SyncInvariant, PTL

-----------------------------------------------------------------------------
(* Hooks. *)

\* The lowest and the highest of the places a hook uses.
LEMMA FirstOf ==
    ASSUME NEW S \in SUBSET Hks!Places, S # {}
    PROVE  /\ Hks!Min(S) \in S /\ Hks!Min(S) \in Hks!Places /\ \A y \in S : Hks!Min(S) =< y
           /\ Hks!Max(S) \in S /\ Hks!Max(S) \in Hks!Places /\ \A y \in S : Hks!Max(S) >= y
  <1>1. (\E x \in S : \A y \in S : x =< y) /\ (\E x \in S : \A y \in S : x >= y)
    <2>1. S = {1} \/ S = {2} \/ S = {1, 2}
      BY DEF Hks!Places
    <2> QED
      BY <2>1
  <1>2. Hks!Min(S) \in S /\ \A y \in S : Hks!Min(S) =< y
    BY <1>1 DEF Hks!Min
  <1>3. Hks!Max(S) \in S /\ \A y \in S : Hks!Max(S) >= y
    BY <1>1 DEF Hks!Max
  <1> QED
    BY <1>2, <1>3

\* The places a hook uses.
LEMMA UsedIs ==
    /\ Hks!Used \subseteq Hks!Places /\ 1 \in Hks!Used /\ Hks!Entrances \subseteq Hks!Used
    /\ env.kind \in Hks!Entries => Hks!Used = {1}
  BY DEF Hks!Used, Hks!Entrances, Hks!Places, Hks!Entries

\* What the eight ways of looking have in common.
LEMMA LooksAre ==
    ASSUME own \in Hks!Hook,
           \/ Hks!LookImpact \/ Hks!LookDamage \/ Hks!LookZones \/ Hks!LookMaterial
           \/ Hks!LookProcess \/ Hks!LookSelect \/ Hks!LookGraphics \/ Hks!LookScripts
    PROVE  /\ pc = "idle" /\ ~own.attempted /\ UNCHANGED <<net, env>>
           /\ \E ready, code \in BOOLEAN, pin \in {"unasked", "failed", "pinned"}, saved \in {own.saved, own.site} :
                /\ own' = [own EXCEPT !.code = code, !.pin = pin, !.saved = saved, !.attempted = TRUE, !.seen = own.site,
                                      !.todo = IF ready THEN Hks!Used ELSE {}]
                /\ pc' = IF ready THEN "write" ELSE "idle"
                /\ env.kind \in Hks!Entries /\ ready => own.site[1] = "gta" /\ pin = "pinned" /\ code
                /\ own.pin = "pinned" => pin = "pinned"
                /\ env.kind \notin Hks!Entries /\ ready /\ env.kind \in Hks!Stubs => code
  <1>1. pc = "idle" /\ ~own.attempted /\ UNCHANGED <<net, env>>
    BY DEF Hks!LookImpact, Hks!LookDamage, Hks!LookZones, Hks!LookMaterial, Hks!LookProcess, Hks!LookSelect,
           Hks!LookGraphics, Hks!LookScripts, Hks!LooksEntry, Hks!Begins
  <1> DEFINE To(ready, code, pin, saved) ==
                 [own EXCEPT !.code = code, !.pin = pin, !.saved = saved, !.attempted = TRUE, !.seen = own.site,
                             !.todo = IF ready THEN Hks!Used ELSE {}]
  <1>2. CASE Hks!LookImpact \/ Hks!LookDamage
    <2>1. env.kind \in Hks!Entries /\ Hks!LooksEntry
      BY <1>2 DEF Hks!LookImpact, Hks!LookDamage, Hks!Entries
    <2>2. PICK made \in BOOLEAN, p \in IF own.pin = "unasked" THEN {"failed", "pinned"} ELSE {own.pin} :
            LET ready == made /\ own.site[1] = "gta"
                pinned == ready /\ p = "pinned"
            IN  Hks!Looks([own EXCEPT !.code = pinned, !.pin = IF ready THEN p ELSE @], pinned)
      BY <2>1 DEF Hks!LooksEntry
    <2>3. PICK ready \in BOOLEAN : ready = (made /\ own.site[1] = "gta" /\ p = "pinned")
      OBVIOUS
    <2>4. PICK pin : pin = IF made /\ own.site[1] = "gta" THEN p ELSE own.pin
      OBVIOUS
    <2>5. pin \in {"unasked", "failed", "pinned"} /\ (own.pin = "pinned" => pin = "pinned") /\ (ready => pin = "pinned")
      BY <2>2, <2>3, <2>4 DEF Hks!Hook
    <2>6. PICK o : o = [own EXCEPT !.code = ready, !.pin = pin]
      OBVIOUS
    <2>7. Hks!Looks(o, ready)
      <3>1. ready = ((made /\ own.site[1] = "gta") /\ p = "pinned")
        BY <2>3
      <3> QED
        BY <2>2, <2>4, <2>6, <3>1
    <2>8. own' = To(ready, ready, pin, own.saved) /\ pc' = IF ready THEN "write" ELSE "idle"
      BY <2>6, <2>7 DEF Hks!Looks, Hks!Hook
    <2> QED
      BY <1>1, <2>1, <2>3, <2>5, <2>8
  <1>5. CASE Hks!LookProcess
    <2>1. PICK ready \in BOOLEAN : Hks!Looks([own EXCEPT !.code = ready, !.saved = IF ready THEN own.site ELSE @], ready)
      BY <1>5 DEF Hks!LookProcess
    <2>2. PICK saved \in {own.saved, own.site} : saved = IF ready THEN own.site ELSE own.saved
      OBVIOUS
    <2>3. PICK o : o = [own EXCEPT !.code = ready, !.saved = saved]
      OBVIOUS
    <2>4. Hks!Looks(o, ready)
      BY <2>1, <2>2, <2>3 DEF Hks!Hook
    <2>5. own' = To(ready, ready, own.pin, saved) /\ pc' = IF ready THEN "write" ELSE "idle"
      BY <2>3, <2>4 DEF Hks!Looks, Hks!Hook
    <2>6. env.kind \notin Hks!Entries
      BY <1>5 DEF Hks!Entries, Hks!LookProcess
    <2>7. own.pin \in {"unasked", "failed", "pinned"}
      BY DEF Hks!Hook
    <2> QED
      BY <1>1, <2>5, <2>6, <2>7
  <1>3. CASE Hks!LookZones \/ Hks!LookSelect \/ Hks!LookGraphics
    <2>1. PICK ready \in BOOLEAN : Hks!Looks([own EXCEPT !.code = ready], ready)
      <3>1. CASE Hks!LookZones
        <4>1. PICK made \in BOOLEAN :
                LET ready == made /\ \A s \in Hks!Used : own.site[s] = "gta"
                IN  Hks!Looks([own EXCEPT !.code = ready], ready)
          BY <3>1 DEF Hks!LookZones
        <4>2. PICK ready \in BOOLEAN : ready = (made /\ \A s \in Hks!Used : own.site[s] = "gta")
          OBVIOUS
        <4> QED
          BY <4>1, <4>2
      <3>2. CASE Hks!LookSelect \/ Hks!LookGraphics
        BY <3>2 DEF Hks!LookSelect, Hks!LookGraphics
      <3> QED
        BY <1>3, <3>1, <3>2
    <2>2. PICK o : o = [own EXCEPT !.code = ready]
      OBVIOUS
    <2>3. own' = To(ready, ready, own.pin, own.saved) /\ pc' = IF ready THEN "write" ELSE "idle"
      BY <2>1, <2>2 DEF Hks!Looks, Hks!Hook
    <2>4. env.kind \notin Hks!Entries
      BY <1>3 DEF Hks!Entries, Hks!LookZones, Hks!LookSelect, Hks!LookGraphics
    <2>5. own.pin \in {"unasked", "failed", "pinned"}
      BY DEF Hks!Hook
    <2> QED
      BY <1>1, <2>3, <2>4, <2>5
  <1>4. CASE Hks!LookMaterial \/ Hks!LookScripts
    <2>1. PICK ready \in BOOLEAN : Hks!Looks(own, ready)
      <3>1. PICK r \in BOOLEAN : r = (own.site[1] = "gta")
        OBVIOUS
      <3> QED
        BY <1>4, <3>1 DEF Hks!LookMaterial, Hks!LookScripts
    <2>2. own' = To(ready, own.code, own.pin, own.saved) /\ pc' = IF ready THEN "write" ELSE "idle"
      BY <2>1 DEF Hks!Looks, Hks!Hook
    <2>3. env.kind \notin Hks!Entries /\ env.kind \notin Hks!Stubs
      BY <1>4 DEF Hks!Entries, Hks!Stubs, Hks!LookMaterial, Hks!LookScripts
    <2>4. own.pin \in {"unasked", "failed", "pinned"} /\ own.code \in BOOLEAN
      BY DEF Hks!Hook
    <2> QED
      BY <1>1, <2>2, <2>3, <2>4
  <1> QED
    BY <1>2, <1>3, <1>4, <1>5

\* Looking at the places keeps the invariant of Hooks.
LEMMA HookLook ==
    ASSUME Hks!Kept,
           \/ Hks!LookImpact \/ Hks!LookDamage \/ Hks!LookZones \/ Hks!LookMaterial
           \/ Hks!LookProcess \/ Hks!LookSelect \/ Hks!LookGraphics \/ Hks!LookScripts
    PROVE  Hks!Kept'
  <1>1. own \in Hks!Hook /\ net \in Hks!Game
    BY DEF Hks!Kept
  <1>2. pc = "idle" /\ ~own.attempted /\ UNCHANGED <<net, env>>
    BY <1>1, LooksAre
  <1>3. PICK ready \in BOOLEAN, code \in BOOLEAN, pin \in {"unasked", "failed", "pinned"}, saved \in {own.saved, own.site} :
          /\ own' = [own EXCEPT !.code = code, !.pin = pin, !.saved = saved, !.attempted = TRUE, !.seen = own.site,
                                !.todo = IF ready THEN Hks!Used ELSE {}]
          /\ pc' = IF ready THEN "write" ELSE "idle"
          /\ env.kind \in Hks!Entries /\ ready => own.site[1] = "gta" /\ pin = "pinned" /\ code
          /\ own.pin = "pinned" => pin = "pinned"
          /\ env.kind \notin Hks!Entries /\ ready /\ env.kind \in Hks!Stubs => code
    BY <1>1, LooksAre
  <1>4. PICK todo : todo = IF ready THEN Hks!Used ELSE {}
    OBVIOUS
  <1>5. todo \in SUBSET Hks!Places /\ todo \subseteq Hks!Used /\ (ready => todo = Hks!Used /\ todo # {}) /\ (~ready => todo = {})
    BY <1>4, UsedIs
  <1>6. own' = [own EXCEPT !.code = code, !.pin = pin, !.saved = saved, !.attempted = TRUE, !.seen = own.site,
                           !.todo = todo]
    BY <1>3, <1>4
  <1>7. own' \in Hks!Hook
    BY <1>1, <1>5, <1>6 DEF Hks!Hook
  <1>8. /\ own'.site = own.site /\ own'.saved = saved /\ own'.installed = own.installed /\ own'.todo = todo
        /\ own'.code = code /\ own'.pin = pin /\ own'.attempted /\ own'.failed = own.failed /\ own'.lost = own.lost
    BY <1>1, <1>6 DEF Hks!Hook
  <1>9. Hks!WorkIsUsed' /\ Hks!LooksFirst'
    BY <1>2, <1>3, <1>5, <1>8 DEF Hks!Kept, Hks!WorkIsUsed, Hks!LooksFirst, Hks!OthersKept, Hks!Used
  <1>10. ASSUME env.kind \in Hks!Entries PROVE Hks!EntryHolds'
    <2>1. ~(net.inside \/ own.site[1] = "ours" \/ net.chain[1] = "ours")
      BY <1>2, <1>10 DEF Hks!Kept, Hks!EntryHolds
    <2>2. own.installed # {} => own.pin = "pinned"
      BY <1>10 DEF Hks!Kept, Hks!EntryHolds
    <2> QED
      BY <1>2, <1>3, <1>5, <1>8, <1>10, <2>1, <2>2 DEF Hks!EntryHolds
  <1>11. ASSUME env.kind \notin Hks!Entries, ~Hks!Excused' PROVE Hks!OtherHolds'
    <2>1. Hks!OtherHolds
      BY <1>2, <1>8, <1>11 DEF Hks!Kept, Hks!Excused
    <2>2. ~net.inside /\ own.installed = {} /\ \A p \in Hks!Places : saved[p] = "gta"
      BY <1>2, <1>3, <2>1 DEF Hks!OtherHolds
    <2>3. pc' = "write" => todo = Hks!Used
      BY <1>3, <1>5
    <2>4. pc' \in {"write", "idle"} /\ (pc' = "write" => ready)
      BY <1>3
    <2> QED
      BY <1>2, <1>3, <1>8, <1>11, <2>1, <2>2, <2>3, <2>4 DEF Hks!OtherHolds, Hks!Used
  <1> QED
    BY <1>1, <1>2, <1>7, <1>9, <1>10, <1>11 DEF Hks!Kept

\* What is written to a place, and what is noted of it.
LEMMA OverwriteIs ==
    ASSUME own \in Hks!Hook, NEW s \in Hks!Places, NEW what \in Hks!Bytes, NEW ok \in BOOLEAN,
           NEW o, o = Hks!Overwrite(own, s, what, ok)
    PROVE  /\ o \in Hks!Hook /\ o.site = [own.site EXCEPT ![s] = IF ok THEN what ELSE @]
           /\ o.failed = (own.failed \/ ~ok)
           /\ o.lost = (own.lost \/ (ok /\ own.site[s] = "other" /\ own.seen[s] = "other"
                                        /\ (what = "ours" => env.kind \in Hks!Replacing)))
           /\ o.saved = own.saved /\ o.seen = own.seen /\ o.installed = own.installed /\ o.todo = own.todo
           /\ o.code = own.code /\ o.attempted = own.attempted /\ o.pin = own.pin /\ o.leaving = own.leaving
  <1>1. PICK f \in BOOLEAN : f = (own.failed \/ ~ok)
    OBVIOUS
  <1>2. PICK l \in BOOLEAN : l = (own.lost \/ (ok /\ own.site[s] = "other" /\ own.seen[s] = "other"
                                                  /\ (what = "ours" => env.kind \in Hks!Replacing)))
    OBVIOUS
  <1>3. PICK site : site = [own.site EXCEPT ![s] = IF ok THEN what ELSE @]
    OBVIOUS
  <1>4. site \in [Hks!Places -> Hks!Bytes]
    BY <1>3 DEF Hks!Hook
  <1>5. o = [own EXCEPT !.site = site, !.failed = f, !.lost = l]
    BY <1>1, <1>2, <1>3 DEF Hks!Overwrite, Hks!Hook
  <1>6. o \in Hks!Hook
    BY <1>4, <1>5 DEF Hks!Hook
  <1> QED
    BY <1>1, <1>2, <1>3, <1>5, <1>6 DEF Hks!Hook

\* Writing a jump keeps it.
LEMMA HookWrite ==
    ASSUME Hks!Kept, Hks!Write PROVE Hks!Kept'
  <1>1. own \in Hks!Hook /\ net \in Hks!Game /\ env \in [kind : Hks!Kinds] /\ pc = "write" /\ UNCHANGED <<net, env>>
    BY DEF Hks!Kept, Hks!Write
  <1>2. PICK s : s = Hks!Min(own.todo)
    OBVIOUS
  <1>3. s \in own.todo /\ s \in Hks!Places /\ s \in Hks!Used
    BY <1>1, <1>2, FirstOf DEF Hks!Hook, Hks!Kept, Hks!WorkIsUsed
  <1>4. PICK ok \in BOOLEAN :
          /\ own' = [Hks!Overwrite(own, s, "ours", ok)
                       EXCEPT !.saved[s] = IF env.kind = "process" THEN @ ELSE own.site[s],
                              !.todo = @ \ {s},
                              !.installed = IF ok THEN @ \cup {s} ELSE @]
          /\ pc' = IF \/ own.todo = {s} \/ (env.kind = "process" /\ ~ok)
                      \/ env.kind = "zones" /\ ~(ok /\ own.site[s] = "gta")
                   THEN "verify" ELSE "write"
    BY <1>2 DEF Hks!Write
  <1>5. PICK o : o = Hks!Overwrite(own, s, "ours", ok)
    OBVIOUS
  <1>6. /\ o \in Hks!Hook /\ o.site = [own.site EXCEPT ![s] = IF ok THEN "ours" ELSE @]
        /\ o.failed = (own.failed \/ ~ok)
        /\ o.lost = (own.lost \/ (ok /\ own.site[s] = "other" /\ own.seen[s] = "other"
                                     /\ ("ours" = "ours" => env.kind \in Hks!Replacing)))
        /\ o.saved = own.saved /\ o.seen = own.seen /\ o.installed = own.installed /\ o.todo = own.todo
        /\ o.code = own.code /\ o.attempted = own.attempted /\ o.pin = own.pin
    <2>1. "ours" \in Hks!Bytes
      BY DEF Hks!Bytes
    <2> QED
      BY <1>1, <1>3, <1>5, <2>1, OverwriteIs
  <1>7. PICK saved : saved = [own.saved EXCEPT ![s] = IF env.kind = "process" THEN @ ELSE own.site[s]]
    OBVIOUS
  <1>8. PICK todo : todo = own.todo \ {s}
    OBVIOUS
  <1>9. PICK inst : inst = IF ok THEN own.installed \cup {s} ELSE own.installed
    OBVIOUS
  <1>10. own' = [o EXCEPT !.saved = saved, !.todo = todo, !.installed = inst]
    BY <1>4, <1>5, <1>6, <1>7, <1>8, <1>9 DEF Hks!Hook
  <1>11. saved \in [Hks!Places -> Hks!Bytes] /\ todo \in SUBSET Hks!Places /\ inst \in SUBSET Hks!Places
    BY <1>1, <1>3, <1>7, <1>8, <1>9 DEF Hks!Hook
  <1>12. own' \in Hks!Hook
    BY <1>6, <1>10, <1>11 DEF Hks!Hook
  <1>13. /\ own'.site = o.site /\ own'.saved = saved /\ own'.todo = todo /\ own'.installed = inst /\ own'.failed = o.failed
         /\ own'.lost = o.lost /\ own'.seen = own.seen /\ own'.code = own.code /\ own'.attempted = own.attempted
         /\ own'.pin = own.pin
    BY <1>6, <1>10, <1>12 DEF Hks!Hook
  <1>14. Hks!WorkIsUsed'
    <2>1. own.todo \subseteq Hks!Used /\ own.installed \subseteq Hks!Used
      BY DEF Hks!Kept, Hks!WorkIsUsed
    <2>2. pc' = "write" => own.todo # {s}
      BY <1>4
    <2>3. todo \subseteq Hks!Used /\ inst \subseteq Hks!Used /\ (pc' = "write" => todo # {}) /\ Hks!Used' = Hks!Used
      BY <1>1, <1>3, <1>8, <1>9, <2>1, <2>2 DEF Hks!Used
    <2> QED
      BY <1>13, <2>3 DEF Hks!WorkIsUsed
  <1>15. Hks!LooksFirst'
    <2>1. pc' # "restore"
      BY <1>4
    <2>2. own'.lost => env.kind \notin Hks!Checking
      BY <1>6, <1>13 DEF Hks!Kept, Hks!LooksFirst, Hks!OthersKept, Hks!Checking, Hks!Replacing, Hks!Entries
    <2> QED
      BY <1>1, <2>1, <2>2 DEF Hks!LooksFirst, Hks!OthersKept
  <1>16. ASSUME env.kind \in Hks!Entries PROVE Hks!EntryHolds'
    <2>1. Hks!EntryHolds /\ s = 1
      BY <1>3, <1>16, UsedIs DEF Hks!Kept
    <2>2. own.pin = "pinned" /\ own.code /\ own.attempted
      BY <1>1, <2>1 DEF Hks!EntryHolds
    <2>3. own'.site[1] \in {own.site[1], "ours"}
      BY <1>1, <1>3, <1>6, <1>13, <2>1 DEF Hks!Hook
    <2>4. own'.pin = "pinned" /\ own'.code /\ own'.attempted /\ pc' \in {"write", "verify"} /\ UNCHANGED net
      BY <1>1, <1>4, <1>13, <2>2
    <2>5. net.inside \/ own'.site[1] = "ours" \/ net.chain[1] = "ours" => own'.site[1] # "gta"
      BY <2>1, <2>3 DEF Hks!EntryHolds
    <2> QED
      BY <2>4, <2>5 DEF Hks!EntryHolds
  <1>17. ASSUME env.kind \notin Hks!Entries, ~Hks!Excused' PROVE Hks!OtherHolds'
    <2>1. ok /\ ~own.failed /\ Hks!OtherHolds
      BY <1>1, <1>6, <1>13, <1>17 DEF Hks!Kept, Hks!Excused
    <2>2. /\ own.todo = Hks!Used \ own.installed /\ own.attempted /\ (env.kind \in Hks!Stubs => own.code)
          /\ \A p \in Hks!Places : /\ own.site[p] = IF p \in own.installed THEN "ours" ELSE "gta"
                                   /\ own.saved[p] = "gta" /\ net.chain[p] = "gta"
      BY <1>1, <2>1 DEF Hks!OtherHolds
    <2>3. s \notin own.installed /\ own.site[s] = "gta"
      BY <1>3, <2>2
    <2>4. inst = own.installed \cup {s} /\ todo = Hks!Used \ inst /\ Hks!Used' = Hks!Used
      BY <1>1, <1>8, <1>9, <2>1, <2>2 DEF Hks!Used
    <2>5. \A p \in Hks!Places : /\ own'.site[p] = IF p \in inst THEN "ours" ELSE "gta"
                                /\ own'.saved[p] = "gta"
      BY <1>1, <1>3, <1>6, <1>7, <1>13, <2>1, <2>2, <2>3, <2>4 DEF Hks!Hook
    <2>6. pc' = "verify" => inst = Hks!Used
      <3>1. pc' = "verify" => own.todo = {s}
        BY <1>4, <2>1, <2>3
      <3> QED
        BY <1>8, <2>4, <3>1, UsedIs DEF Hks!Kept, Hks!WorkIsUsed
    <2>7. pc' \in {"write", "verify"}
      BY <1>4
    <2>8. 2 \in inst /\ env.kind = "process" => 1 \in inst
      <3>1. env.kind = "process" /\ 2 \in own.installed => 1 \in own.installed
        BY <2>1 DEF Hks!OtherHolds
      <3>2. s = 2 => 1 \notin own.todo
        <4>1. own.todo \in SUBSET Hks!Places /\ own.todo # {}
          BY <1>1, <1>3 DEF Hks!Hook
        <4>2. \A y \in own.todo : s =< y
          BY <1>2, <4>1, FirstOf
        <4> QED
          BY <4>2
      <3>3. s = 2 => 1 \in own.installed
        BY <2>2, <3>2, UsedIs
      <3> QED
        BY <2>4, <3>1, <3>3
    <2> QED
      BY <1>1, <1>13, <2>2, <2>4, <2>5, <2>6, <2>7, <2>8 DEF Hks!OtherHolds
  <1> QED
    BY <1>1, <1>12, <1>14, <1>15, <1>16, <1>17 DEF Hks!Kept

\* Looking whether the jump is still there keeps it.
LEMMA HookVerify ==
    ASSUME Hks!Kept, Hks!Verify PROVE Hks!Kept'
  <1>1. /\ own \in Hks!Hook /\ net \in Hks!Game /\ env \in [kind : Hks!Kinds] /\ pc = "verify" /\ UNCHANGED <<net, env>>
        /\ own.installed \subseteq Hks!Used /\ own.todo \subseteq Hks!Used /\ Hks!Used' = Hks!Used
    BY DEF Hks!Kept, Hks!Verify, Hks!WorkIsUsed, Hks!Used
  <1>2. Hks!Ours \in SUBSET Hks!Places /\ Hks!Ours \subseteq own.installed
    BY <1>1 DEF Hks!Ours, Hks!Hook
  <1>3. CASE Hks!VerifyEntry
    <2>1. PICK code \in BOOLEAN : code = (own.site[1] # "gta")
      OBVIOUS
    <2>2. own' = [own EXCEPT !.installed = Hks!Ours, !.code = code] /\ pc' = "idle" /\ env.kind \in Hks!Entries
      BY <1>3, <2>1 DEF Hks!VerifyEntry
    <2>3. own' \in Hks!Hook
      BY <1>1, <1>2, <2>2 DEF Hks!Hook
    <2>4. /\ own'.site = own.site /\ own'.todo = own.todo /\ own'.installed = Hks!Ours /\ own'.code = code
          /\ own'.lost = own.lost /\ own'.attempted = own.attempted /\ own'.pin = own.pin
      BY <1>1, <2>2, <2>3 DEF Hks!Hook
    <2>5. Hks!WorkIsUsed' /\ Hks!LooksFirst'
      BY <1>1, <1>2, <2>2, <2>4 DEF Hks!Kept, Hks!WorkIsUsed, Hks!LooksFirst, Hks!OthersKept
    <2>6. Hks!EntryHolds'
      <3>1. /\ own.pin = "pinned" /\ own.attempted
            /\ net.inside \/ own.site[1] = "ours" \/ net.chain[1] = "ours" => own.site[1] # "gta"
        BY <1>1, <2>2 DEF Hks!Kept, Hks!EntryHolds
      <3>2. own'.pin = "pinned" /\ own'.attempted /\ own'.site[1] = own.site[1] /\ UNCHANGED net
        BY <1>1, <2>4, <3>1
      <3>3. own.site[1] # "gta" => own'.code
        BY <2>1, <2>4
      <3> QED
        BY <2>2, <3>1, <3>2, <3>3 DEF Hks!EntryHolds
    <2> QED
      BY <1>1, <2>2, <2>3, <2>5, <2>6 DEF Hks!Kept
  <1>4. CASE Hks!VerifyZones
    <2>1. env.kind = "zones" /\ env.kind \notin Hks!Entries /\ Hks!Used = Hks!Places
      BY <1>4 DEF Hks!VerifyZones, Hks!Entries, Hks!Used
    <2>2. CASE Hks!Ours = Hks!Places /\ \A s \in Hks!Places : own.saved[s] = "gta"
      <3>1. own' = own /\ pc' = "idle"
        BY <1>4, <2>2 DEF Hks!VerifyZones
      <3>2. ~Hks!Excused' => Hks!OtherHolds'
        BY <1>1, <2>1, <3>1 DEF Hks!Kept, Hks!Excused, Hks!OtherHolds
      <3>3. Hks!WorkIsUsed' /\ Hks!LooksFirst'
        BY <1>1, <3>1 DEF Hks!Kept, Hks!WorkIsUsed, Hks!LooksFirst, Hks!OthersKept
      <3> QED
        BY <1>1, <2>1, <3>1, <3>2, <3>3 DEF Hks!Kept
    <2>3. CASE ~(Hks!Ours = Hks!Places /\ \A s \in Hks!Places : own.saved[s] = "gta")
      <3>1. own' = [own EXCEPT !.seen = own.site, !.todo = Hks!Ours, !.installed = Hks!Ours] /\ pc' = "restore"
        BY <1>4, <2>3 DEF Hks!VerifyZones
      <3>2. own' \in Hks!Hook
        BY <1>1, <1>2, <3>1 DEF Hks!Hook
      <3>3. /\ own'.seen = own.site /\ own'.todo = Hks!Ours /\ own'.installed = Hks!Ours
            /\ own'.lost = own.lost /\ own'.failed = own.failed
        BY <1>1, <3>1, <3>2 DEF Hks!Hook
      <3>4. Hks!WorkIsUsed' /\ Hks!LooksFirst'
        BY <1>1, <1>2, <3>1, <3>3 DEF Hks!Kept, Hks!WorkIsUsed, Hks!LooksFirst, Hks!OthersKept, Hks!Ours
      <3>5. Hks!Excused'
        <4> SUFFICES ASSUME ~Hks!Excused' PROVE FALSE
          OBVIOUS
        <4>1. Hks!OtherHolds
          BY <1>1, <2>1, <3>3 DEF Hks!Kept, Hks!Excused
        <4>2. own.installed = Hks!Places /\ \A s \in Hks!Places : own.site[s] = "ours" /\ own.saved[s] = "gta"
          BY <1>1, <2>1, <4>1 DEF Hks!OtherHolds
        <4>3. Hks!Ours = Hks!Places
          BY <4>2 DEF Hks!Ours
        <4> QED
          BY <2>3, <4>2, <4>3
      <3> QED
        BY <1>1, <2>1, <3>2, <3>4, <3>5 DEF Hks!Kept
    <2> QED
      BY <2>2, <2>3
  <1>6. CASE Hks!VerifyProcess
    <2>1. env.kind = "process" /\ env.kind \notin Hks!Entries /\ env.kind \notin Hks!Checking
      BY <1>6 DEF Hks!VerifyProcess, Hks!Entries, Hks!Checking
    <2>2. CASE own.installed = Hks!Used
      <3>1. own' = own /\ pc' = "idle"
        BY <1>6, <2>2 DEF Hks!VerifyProcess
      <3>2. ~Hks!Excused' => Hks!OtherHolds'
        BY <1>1, <2>1, <3>1 DEF Hks!Kept, Hks!Excused, Hks!OtherHolds
      <3>3. Hks!WorkIsUsed' /\ Hks!LooksFirst'
        BY <1>1, <3>1 DEF Hks!Kept, Hks!WorkIsUsed, Hks!LooksFirst, Hks!OthersKept
      <3> QED
        BY <1>1, <2>1, <3>1, <3>2, <3>3 DEF Hks!Kept
    <2>3. CASE own.installed # Hks!Used
      <3>1. own' = [own EXCEPT !.todo = Hks!Used] /\ pc' = "restore"
        BY <1>6, <2>3 DEF Hks!VerifyProcess
      <3>2. own' \in Hks!Hook
        BY <1>1, <3>1, UsedIs DEF Hks!Hook
      <3>3. own'.todo = Hks!Used /\ own'.installed = own.installed /\ own'.lost = own.lost /\ own'.failed = own.failed
        BY <1>1, <3>1, <3>2 DEF Hks!Hook
      <3>4. Hks!WorkIsUsed' /\ Hks!LooksFirst'
        BY <1>1, <2>1, <3>1, <3>3 DEF Hks!Kept, Hks!WorkIsUsed, Hks!LooksFirst, Hks!OthersKept
      <3>5. Hks!Excused'
        BY <1>1, <2>1, <2>3, <3>3 DEF Hks!Kept, Hks!Excused, Hks!OtherHolds
      <3> QED
        BY <1>1, <2>1, <3>2, <3>4, <3>5 DEF Hks!Kept
    <2> QED
      BY <2>2, <2>3
  <1>5. CASE Hks!VerifyOther
    <2>1. PICK code \in BOOLEAN : code = (own.code /\ own.installed # {})
      OBVIOUS
    <2>2. own' = [own EXCEPT !.code = code] /\ pc' = "idle" /\ env.kind \notin Hks!Entries
      BY <1>5, <2>1 DEF Hks!VerifyOther
    <2>3. own' \in Hks!Hook
      BY <1>1, <2>2 DEF Hks!Hook
    <2>4. /\ own'.site = own.site /\ own'.saved = own.saved /\ own'.todo = own.todo /\ own'.installed = own.installed
          /\ own'.code = code /\ own'.lost = own.lost /\ own'.attempted = own.attempted /\ own'.failed = own.failed
      BY <1>1, <2>2, <2>3 DEF Hks!Hook
    <2>5. Hks!WorkIsUsed' /\ Hks!LooksFirst'
      BY <1>1, <2>2, <2>4 DEF Hks!Kept, Hks!WorkIsUsed, Hks!LooksFirst, Hks!OthersKept
    <2>6. ASSUME ~Hks!Excused' PROVE Hks!OtherHolds'
      <3>1. Hks!OtherHolds
        BY <1>1, <2>2, <2>4, <2>6 DEF Hks!Kept, Hks!Excused
      <3>2. own.installed # {}
        BY <1>1, <3>1, UsedIs DEF Hks!OtherHolds
      <3>3. code = own.code
        BY <1>1, <2>1, <3>2 DEF Hks!Hook
      <3> QED
        BY <1>1, <2>2, <2>4, <3>1, <3>3 DEF Hks!OtherHolds
    <2> QED
      BY <1>1, <2>2, <2>3, <2>5, <2>6 DEF Hks!Kept
  <1> QED
    BY <1>3, <1>4, <1>5, <1>6 DEF Hks!Verify

\* The start of the unload keeps it.
LEMMA HookUnload ==
    ASSUME Hks!Kept, Hks!Unload PROVE Hks!Kept'
  <1>1. /\ own \in Hks!Hook /\ net \in Hks!Game /\ env \in [kind : Hks!Kinds] /\ pc = "idle" /\ own.pin # "pinned"
        /\ UNCHANGED <<net, env>> /\ pc' = "restore"
        /\ own.installed \subseteq Hks!Used /\ Hks!Used' = Hks!Used
    BY DEF Hks!Kept, Hks!Unload, Hks!WorkIsUsed, Hks!Used
  <1>2. PICK work : work = IF env.kind \in Hks!Checking THEN Hks!Ours ELSE own.installed
    OBVIOUS
  <1>3. own' = [own EXCEPT !.leaving = TRUE, !.seen = own.site, !.todo = work, !.installed = work]
    BY <1>1, <1>2 DEF Hks!Unload, Hks!Hook
  <1>4. work \in SUBSET Hks!Places /\ work \subseteq own.installed
    BY <1>1, <1>2 DEF Hks!Ours, Hks!Hook
  <1>5. own' \in Hks!Hook
    BY <1>1, <1>3, <1>4 DEF Hks!Hook
  <1>6. /\ own'.seen = own.site /\ own'.todo = work /\ own'.installed = work /\ own'.lost = own.lost /\ own'.code = own.code
        /\ own'.site = own.site /\ own'.saved = own.saved /\ own'.failed = own.failed /\ own'.pin = own.pin
        /\ own'.attempted = own.attempted /\ own'.leaving
    BY <1>1, <1>3, <1>5 DEF Hks!Hook
  <1>7. Hks!WorkIsUsed' /\ Hks!LooksFirst'
    <2>1. env.kind \in Hks!Checking => \A s \in work : own.site[s] = "ours"
      BY <1>2 DEF Hks!Ours
    <2> QED
      BY <1>1, <1>4, <1>6, <2>1 DEF Hks!Kept, Hks!WorkIsUsed, Hks!LooksFirst, Hks!OthersKept
  <1>8. env.kind \in Hks!Entries => Hks!EntryHolds'
    BY <1>1, <1>4, <1>6 DEF Hks!Kept, Hks!EntryHolds
  <1>9. ASSUME env.kind \notin Hks!Entries, ~Hks!Excused' PROVE Hks!OtherHolds'
    <2>1. Hks!OtherHolds
      BY <1>1, <1>6, <1>9 DEF Hks!Kept, Hks!Excused
    <2>2. Hks!Ours = own.installed
      BY <1>1, <2>1 DEF Hks!Ours, Hks!OtherHolds, Hks!Hook
    <2>3. work = own.installed
      BY <1>2, <2>2
    <2> QED
      BY <1>1, <1>6, <2>1, <2>3 DEF Hks!OtherHolds
  <1> QED
    BY <1>1, <1>5, <1>7, <1>8, <1>9 DEF Hks!Kept

\* Putting back what was there keeps it.
LEMMA HookRestore ==
    ASSUME Hks!Kept, Hks!Restore PROVE Hks!Kept'
  <1>1. /\ own \in Hks!Hook /\ net \in Hks!Game /\ env \in [kind : Hks!Kinds] /\ pc = "restore" /\ UNCHANGED <<net, env>>
        /\ own.installed \subseteq Hks!Used /\ own.todo \subseteq Hks!Used /\ Hks!Used' = Hks!Used
    BY DEF Hks!Kept, Hks!Restore, Hks!WorkIsUsed, Hks!Used
  <1>2. CASE own.todo = {}
    <2>1. own' = own /\ pc' = "free"
      BY <1>2 DEF Hks!Restore
    <2>2. ASSUME env.kind \notin Hks!Entries, ~Hks!Excused' PROVE Hks!OtherHolds'
      BY <1>1, <1>2, <2>1, <2>2 DEF Hks!Kept, Hks!Excused, Hks!OtherHolds
    <2>3. env.kind \in Hks!Entries => Hks!EntryHolds'
      BY <1>1, <2>1 DEF Hks!Kept, Hks!EntryHolds
    <2>4. Hks!WorkIsUsed' /\ Hks!LooksFirst'
      BY <1>1, <2>1 DEF Hks!Kept, Hks!WorkIsUsed, Hks!LooksFirst, Hks!OthersKept
    <2> QED
      BY <1>1, <2>1, <2>2, <2>3, <2>4 DEF Hks!Kept
  <1>3. CASE own.todo # {}
    <2>1. PICK s : s = IF env.kind = "process" /\ own.leaving THEN Hks!Max(own.todo) ELSE Hks!Min(own.todo)
      OBVIOUS
    <2>2. /\ s \in own.todo /\ s \in Hks!Places
          /\ env.kind = "process" /\ own.leaving => \A p \in own.todo : s >= p
      BY <1>1, <1>3, <2>1, FirstOf DEF Hks!Hook
    <2>3. PICK ok \in BOOLEAN :
            own' = [Hks!Overwrite(own, s, own.saved[s], ok)
                      EXCEPT !.todo = @ \ {s},
                             !.installed = IF ok \/ env.kind # "zones" THEN @ \ {s} ELSE @]
      BY <1>3, <2>1 DEF Hks!Restore
    <2>4. pc' = "restore"
      BY <1>1, <1>3 DEF Hks!Restore
    <2>5. PICK o : o = Hks!Overwrite(own, s, own.saved[s], ok)
      OBVIOUS
    <2>6. /\ o \in Hks!Hook /\ o.site = [own.site EXCEPT ![s] = IF ok THEN own.saved[s] ELSE @]
          /\ o.failed = (own.failed \/ ~ok)
          /\ o.lost = (own.lost \/ (ok /\ own.site[s] = "other" /\ own.seen[s] = "other"
                                       /\ (own.saved[s] = "ours" => env.kind \in Hks!Replacing)))
          /\ o.saved = own.saved /\ o.seen = own.seen /\ o.installed = own.installed /\ o.todo = own.todo
          /\ o.code = own.code /\ o.attempted = own.attempted /\ o.pin = own.pin /\ o.leaving = own.leaving
      <3>1. own.saved[s] \in Hks!Bytes
        BY <1>1, <2>2 DEF Hks!Hook
      <3> QED
        BY <1>1, <2>2, <2>5, <3>1, OverwriteIs
    <2>7. PICK todo : todo = own.todo \ {s}
      OBVIOUS
    <2>8. PICK inst : inst = IF ok \/ env.kind # "zones" THEN own.installed \ {s} ELSE own.installed
      OBVIOUS
    <2>9. own' = [o EXCEPT !.todo = todo, !.installed = inst]
      BY <2>3, <2>5, <2>6, <2>7, <2>8 DEF Hks!Hook
    <2>10. todo \in SUBSET Hks!Places /\ inst \in SUBSET Hks!Places /\ todo \subseteq own.todo /\ inst \subseteq own.installed
      BY <1>1, <2>7, <2>8 DEF Hks!Hook
    <2>11. own' \in Hks!Hook
      BY <2>6, <2>9, <2>10 DEF Hks!Hook
    <2>12. /\ own'.site = o.site /\ own'.saved = own.saved /\ own'.todo = todo /\ own'.installed = inst
           /\ own'.failed = o.failed /\ own'.lost = o.lost /\ own'.seen = own.seen /\ own'.code = own.code
           /\ own'.attempted = own.attempted /\ own'.pin = own.pin /\ own'.leaving = own.leaving
      BY <2>6, <2>9, <2>11 DEF Hks!Hook
    <2>13. Hks!WorkIsUsed'
      BY <1>1, <2>4, <2>10, <2>12 DEF Hks!WorkIsUsed
    <2>14. Hks!LooksFirst'
      <3>1. env.kind \in Hks!Checking => \A p \in own.todo : own.seen[p] = "ours"
        BY <1>1 DEF Hks!Kept, Hks!LooksFirst
      <3>2. env.kind \in Hks!Checking => o.lost = own.lost
        BY <1>1, <2>2, <2>6, <3>1 DEF Hks!Hook
      <3>3. own.lost => env.kind \notin Hks!Checking
        BY DEF Hks!Kept, Hks!LooksFirst, Hks!OthersKept
      <3> QED
        BY <1>1, <2>10, <2>12, <3>1, <3>2, <3>3 DEF Hks!LooksFirst, Hks!OthersKept
    <2>15. env.kind \notin Hks!Entries
      BY <1>1, <1>3 DEF Hks!Kept, Hks!EntryHolds
    <2>16. ASSUME ~Hks!Excused' PROVE Hks!OtherHolds'
      <3>1. ok /\ Hks!OtherHolds
        BY <1>1, <2>6, <2>12, <2>15, <2>16 DEF Hks!Kept, Hks!Excused
      <3>2. /\ own.todo = own.installed /\ own.leaving
            /\ \A p \in Hks!Places : /\ own.site[p] = IF p \in own.installed THEN "ours" ELSE "gta"
                                     /\ own.saved[p] = "gta" /\ net.chain[p] = "gta"
            /\ net.inside \/ own.installed # {} => own.attempted /\ (env.kind \in Hks!Stubs => own.code)
        BY <1>1, <3>1 DEF Hks!OtherHolds
      <3>3. inst = own.installed \ {s} /\ todo = inst
        BY <2>7, <2>8, <3>1, <3>2
      <3>4. \A p \in Hks!Places : own'.site[p] = IF p \in inst THEN "ours" ELSE "gta"
        BY <1>1, <2>2, <2>6, <2>12, <3>1, <3>2, <3>3 DEF Hks!Hook
      <3>5. net.inside \/ inst # {} => own.attempted /\ (env.kind \in Hks!Stubs => own.code)
        BY <2>10, <3>2
      <3>6. env.kind = "process" /\ 2 \in inst => 1 \in inst
        <4>1. env.kind = "process" => s >= 2 \/ 2 \notin own.todo
          BY <2>2, <3>2
        <4>2. env.kind = "process" /\ 2 \in own.installed => 1 \in own.installed
          BY <3>1 DEF Hks!OtherHolds
        <4> QED
          BY <2>2, <3>2, <3>3, <4>1, <4>2 DEF Hks!Places
      <3> QED
        BY <1>1, <2>4, <2>12, <3>2, <3>3, <3>4, <3>5, <3>6 DEF Hks!OtherHolds
    <2> QED
      BY <1>1, <2>11, <2>13, <2>14, <2>15, <2>16 DEF Hks!Kept
  <1> QED
    BY <1>2, <1>3

\* Freeing the code keeps it.
LEMMA HookFree ==
    ASSUME Hks!Kept, Hks!Free PROVE Hks!Kept'
  <1>1. /\ own \in Hks!Hook /\ net \in Hks!Game /\ env \in [kind : Hks!Kinds] /\ pc = "free" /\ env' = env
        /\ own.installed \subseteq Hks!Used /\ own.todo \subseteq Hks!Used /\ Hks!Used' = Hks!Used
        /\ pc' \in {"unmapped", "idle"}
    BY DEF Hks!Kept, Hks!Free, Hks!WorkIsUsed, Hks!Used
  <1>2. PICK code \in BOOLEAN :
           code = (own.code /\ (own.installed # {} \/ (env.kind = "process" /\ ~own.leaving)))
    OBVIOUS
  <1>3. PICK late \in BOOLEAN : late = (net.late \/ net.inside)
    OBVIOUS
  <1>4. own' = [own EXCEPT !.code = code] /\ net' = [net EXCEPT !.late = late]
    BY <1>2, <1>3 DEF Hks!Free
  <1>5. own' \in Hks!Hook /\ net' \in Hks!Game
    BY <1>1, <1>4 DEF Hks!Hook, Hks!Game
  <1>6. /\ own'.site = own.site /\ own'.saved = own.saved /\ own'.todo = own.todo /\ own'.installed = own.installed
        /\ own'.lost = own.lost /\ own'.failed = own.failed /\ own'.pin = own.pin
    BY <1>1, <1>4, <1>5 DEF Hks!Hook
  <1>7. net'.late = late /\ net'.inside = net.inside /\ net'.taken = net.taken /\ net'.chain = net.chain
    BY <1>1, <1>4, <1>5 DEF Hks!Game
  <1>8. Hks!WorkIsUsed' /\ Hks!LooksFirst'
    BY <1>1, <1>6 DEF Hks!Kept, Hks!WorkIsUsed, Hks!LooksFirst, Hks!OthersKept
  <1>9. env.kind \in Hks!Entries => Hks!EntryHolds'
    BY <1>1, <1>6, <1>7 DEF Hks!Kept, Hks!EntryHolds
  <1>10. ASSUME env.kind \notin Hks!Entries, ~Hks!Excused' PROVE Hks!OtherHolds'
    <2>1. ~net.inside /\ Hks!OtherHolds
      BY <1>1, <1>3, <1>6, <1>7, <1>10 DEF Hks!Kept, Hks!Excused
    <2> QED
      BY <1>1, <1>6, <1>7, <2>1 DEF Hks!OtherHolds
  <1> QED
    BY <1>1, <1>5, <1>8, <1>9, <1>10 DEF Hks!Kept

\* GTA entering and leaving the code keeps it.
LEMMA HookGame ==
    ASSUME Hks!Kept, Hks!Enter \/ Hks!Leave PROVE Hks!Kept'
  <1>1. /\ own \in Hks!Hook /\ net \in Hks!Game /\ env \in [kind : Hks!Kinds] /\ UNCHANGED <<own, env, pc>>
        /\ net' = [net EXCEPT !.inside = TRUE] \/ net' = [net EXCEPT !.inside = FALSE]
    BY DEF Hks!Kept, Hks!Enter, Hks!Leave
  <1>2. net' \in Hks!Game /\ net'.late = net.late /\ net'.taken = net.taken /\ net'.chain = net.chain
    BY <1>1 DEF Hks!Game
  <1>3. net'.inside => net.inside \/ \E s \in Hks!Used : Hks!Reached(s)
    BY <1>1, UsedIs DEF Hks!Enter, Hks!Leave, Hks!Game
  <1>4. Hks!WorkIsUsed' /\ Hks!LooksFirst'
    BY <1>1 DEF Hks!Kept, Hks!WorkIsUsed, Hks!LooksFirst, Hks!OthersKept, Hks!Used
  <1>5. ASSUME env.kind \in Hks!Entries PROVE Hks!EntryHolds'
    <2>1. net'.inside => net.inside \/ own.site[1] = "ours" \/ net.chain[1] = "ours"
      BY <1>3, <1>5, UsedIs DEF Hks!Reached
    <2> QED
      BY <1>1, <1>2, <1>5, <2>1 DEF Hks!Kept, Hks!EntryHolds
  <1>6. ASSUME env.kind \notin Hks!Entries, ~Hks!Excused' PROVE Hks!OtherHolds'
    <2>1. Hks!OtherHolds
      BY <1>1, <1>2, <1>6 DEF Hks!Kept, Hks!Excused
    <2>2. net'.inside => net.inside \/ own.installed # {}
      BY <1>3, <2>1, UsedIs DEF Hks!OtherHolds, Hks!Reached
    <2>3. pc = "unmapped" => ~net'.inside
      BY <2>1, <2>2 DEF Hks!OtherHolds
    <2> QED
      BY <1>1, <1>2, <2>1, <2>2, <2>3 DEF Hks!OtherHolds, Hks!Used
  <1> QED
    BY <1>1, <1>2, <1>4, <1>5, <1>6 DEF Hks!Kept

\* Another mod, in or over a place, keeps it.
LEMMA HookOtherMod ==
    ASSUME Hks!Kept, Hks!OtherMod PROVE Hks!Kept'
  <1>1. /\ own \in Hks!Hook /\ net \in Hks!Game /\ env \in [kind : Hks!Kinds] /\ UNCHANGED <<env, pc>>
        /\ Hks!Used' = Hks!Used
    BY DEF Hks!Kept, Hks!OtherMod, Hks!Used
  <1>2. PICK s \in Hks!Used :
          /\ own.site[s] # "other"
          /\ net' = [net EXCEPT !.taken = @ + 1, !.chain[s] = own.site[s]]
          /\ own' = [own EXCEPT !.site[s] = "other"]
    BY DEF Hks!OtherMod
  <1>3. s \in Hks!Places
    BY UsedIs
  <1>4. PICK site : site = [own.site EXCEPT ![s] = "other"]
    OBVIOUS
  <1>5. PICK chain : chain = [net.chain EXCEPT ![s] = own.site[s]]
    OBVIOUS
  <1>6. net.taken + 1 \in Nat /\ site \in [Hks!Places -> Hks!Bytes] /\ chain \in [Hks!Places -> Hks!Bytes]
    BY <1>1, <1>3, <1>4, <1>5 DEF Hks!Hook, Hks!Game, Hks!Bytes
  <1>7. net' = [net EXCEPT !.taken = net.taken + 1, !.chain = chain] /\ own' = [own EXCEPT !.site = site]
    BY <1>2, <1>4, <1>5
  <1>8. net' \in Hks!Game /\ own' \in Hks!Hook
    BY <1>1, <1>6, <1>7 DEF Hks!Game, Hks!Hook
  <1>9. net'.taken = net.taken + 1 /\ net'.chain = chain /\ net'.inside = net.inside
    BY <1>1, <1>7, <1>8 DEF Hks!Game
  <1>10. /\ own'.site = site /\ own'.todo = own.todo /\ own'.installed = own.installed /\ own'.code = own.code
         /\ own'.lost = own.lost /\ own'.pin = own.pin /\ own'.attempted = own.attempted /\ own'.seen = own.seen
    BY <1>1, <1>7, <1>8 DEF Hks!Hook
  <1>11. Hks!WorkIsUsed' /\ Hks!LooksFirst'
    BY <1>1, <1>10 DEF Hks!Kept, Hks!WorkIsUsed, Hks!LooksFirst, Hks!OthersKept
  <1>12. ASSUME env.kind \in Hks!Entries PROVE Hks!EntryHolds'
    <2>1. s = 1 /\ 1 \in Hks!Places
      BY <1>12, <1>3, UsedIs
    <2>2. site[1] = "other" /\ chain[1] = own.site[1]
      BY <1>1, <1>4, <1>5, <2>1 DEF Hks!Hook, Hks!Game
    <2> QED
      BY <1>1, <1>9, <1>10, <1>12, <2>2 DEF Hks!Kept, Hks!EntryHolds
  <1>13. Hks!Excused'
    BY <1>1, <1>9 DEF Hks!Excused, Hks!Game
  <1> QED
    BY <1>1, <1>8, <1>11, <1>12, <1>13 DEF Hks!Kept

\* It holds at first.
LEMMA HookInit ==
    ASSUME Hks!Init PROVE Hks!IInv
  <1>1. net = [inside |-> FALSE, late |-> FALSE, taken |-> 0, chain |-> [s \in Hks!Places |-> "gta"]] /\ pc = "idle"
    BY DEF Hks!Init
  <1>2. PICK gta : gta = [s \in Hks!Places |-> "gta"]
    OBVIOUS
  <1>3. gta \in [Hks!Places -> Hks!Bytes] /\ \A s \in Hks!Places : gta[s] = "gta"
    BY <1>2 DEF Hks!Bytes
  <1>4. net \in Hks!Game /\ ~net.inside /\ net.chain = gta
    BY <1>1, <1>2, <1>3 DEF Hks!Game
  <1>5. /\ own \in Hks!Hook /\ own.site = gta /\ own.saved = gta /\ own.installed = {} /\ own.todo = {}
        /\ ~own.lost
    BY <1>2, <1>3 DEF Hks!Init, Hks!Hook
  <1>6. env \in [kind : Hks!Kinds] /\ 1 \in Hks!Places
    BY DEF Hks!Init, Hks!Places
  <1>7. Hks!WorkIsUsed /\ Hks!LooksFirst /\ Hks!EntryHolds /\ Hks!OtherHolds
    BY <1>1, <1>3, <1>4, <1>5, <1>6 DEF Hks!WorkIsUsed, Hks!LooksFirst, Hks!OthersKept, Hks!EntryHolds, Hks!OtherHolds
  <1>8. Hks!Standing
    BY <1>1, <1>3, <1>4, <1>5 DEF Hks!Standing, Hks!Places
  <1> QED
    BY <1>4, <1>5, <1>6, <1>7, <1>8 DEF Hks!IInv, Hks!Kept

\* Every step of Hooks keeps it.
LEMMA HookKept ==
    ASSUME Hks!Kept, Hks!Next PROVE Hks!Kept'
  BY HookLook, HookWrite, HookVerify, HookUnload, HookRestore, HookFree, HookGame, HookOtherMod DEF Hks!Next

\* The hooks whose code stands until the unload.
Stands == env.kind \notin Hks!Entries \cup {"zones"} /\ ~own.leaving

\* Looking, writing and verifying never take the code away from who can reach it.
LEMMA StandingLook ==
    ASSUME Hks!Kept, Stands, Hks!Standing,
           \/ Hks!LookImpact \/ Hks!LookDamage \/ Hks!LookZones \/ Hks!LookMaterial
           \/ Hks!LookProcess \/ Hks!LookSelect \/ Hks!LookGraphics \/ Hks!LookScripts
    PROVE  Hks!Standing'
  <1>1. own \in Hks!Hook /\ net \in Hks!Game
    BY DEF Hks!Kept
  <1>2. pc = "idle" /\ ~own.attempted /\ UNCHANGED <<net, env>>
    BY <1>1, LooksAre
  <1>3. PICK ready \in BOOLEAN, code \in BOOLEAN, pin \in {"unasked", "failed", "pinned"}, saved \in {own.saved, own.site} :
          /\ own' = [own EXCEPT !.code = code, !.pin = pin, !.saved = saved, !.attempted = TRUE, !.seen = own.site,
                                !.todo = IF ready THEN Hks!Used ELSE {}]
          /\ pc' = IF ready THEN "write" ELSE "idle"
          /\ env.kind \in Hks!Entries /\ ready => own.site[1] = "gta" /\ pin = "pinned" /\ code
          /\ own.pin = "pinned" => pin = "pinned"
          /\ env.kind \notin Hks!Entries /\ ready /\ env.kind \in Hks!Stubs => code
    BY <1>1, LooksAre
  <1>4. PICK todo : todo = IF ready THEN Hks!Used ELSE {}
    OBVIOUS
  <1>5. own' = [own EXCEPT !.code = code, !.pin = pin, !.saved = saved, !.attempted = TRUE, !.seen = own.site,
                           !.todo = todo]
    BY <1>3, <1>4
  <1>6. /\ own'.site = own.site /\ own'.saved = saved /\ own'.installed = own.installed /\ own'.todo = todo
        /\ own'.code = code /\ own'.attempted
    BY <1>1, <1>5 DEF Hks!Hook
  <1>7. own.installed = {} /\ ~net.inside /\ \A p \in Hks!Places : own.site[p] # "ours" /\ net.chain[p] # "ours"
    BY <1>2 DEF Hks!Standing
  <1>8. env.kind = "process" => saved[2] # "ours"
    BY <1>3, <1>7 DEF Hks!Standing, Hks!Places
  <1>9. pc' \in {"write", "idle"} /\ (pc' = "write" => todo = Hks!Used /\ (env.kind \in Hks!Stubs => code))
    BY <1>3, <1>4 DEF Stands
  <1>10. env'.kind = env.kind /\ Hks!Used' = Hks!Used /\ net' = net
    BY <1>2 DEF Hks!Used
  <1> QED
    BY <1>6, <1>7, <1>8, <1>9, <1>10 DEF Hks!Standing

LEMMA StandingWrite ==
    ASSUME Hks!Kept, Stands, Hks!Standing, Hks!Write
    PROVE  Hks!Standing'
  <1>1. own \in Hks!Hook /\ net \in Hks!Game /\ pc = "write" /\ UNCHANGED <<net, env>>
    BY DEF Hks!Kept, Hks!Write
  <1>2. PICK s : s = Hks!Min(own.todo)
    OBVIOUS
  <1>3. /\ s \in own.todo /\ s \in Hks!Places /\ s \in Hks!Used /\ \A y \in own.todo : s =< y
    <2>1. own.todo \in SUBSET Hks!Places /\ own.todo # {} /\ own.todo \subseteq Hks!Used
      BY <1>1 DEF Hks!Hook, Hks!Kept, Hks!WorkIsUsed
    <2> QED
      BY <1>2, <2>1, FirstOf
  <1>4. PICK ok \in BOOLEAN :
          /\ own' = [Hks!Overwrite(own, s, "ours", ok)
                       EXCEPT !.saved[s] = IF env.kind = "process" THEN @ ELSE own.site[s],
                              !.todo = @ \ {s},
                              !.installed = IF ok THEN @ \cup {s} ELSE @]
          /\ pc' = IF \/ own.todo = {s} \/ (env.kind = "process" /\ ~ok)
                      \/ env.kind = "zones" /\ ~(ok /\ own.site[s] = "gta")
                   THEN "verify" ELSE "write"
    BY <1>2 DEF Hks!Write
  <1>5. PICK o : o = Hks!Overwrite(own, s, "ours", ok)
    OBVIOUS
  <1>6. /\ o \in Hks!Hook /\ o.site = [own.site EXCEPT ![s] = IF ok THEN "ours" ELSE @]
        /\ o.saved = own.saved /\ o.installed = own.installed /\ o.todo = own.todo
        /\ o.code = own.code /\ o.attempted = own.attempted
    <2>1. "ours" \in Hks!Bytes
      BY DEF Hks!Bytes
    <2> QED
      BY <1>1, <1>3, <1>5, <2>1, OverwriteIs
  <1>7. PICK saved : saved = [own.saved EXCEPT ![s] = IF env.kind = "process" THEN @ ELSE own.site[s]]
    OBVIOUS
  <1>8. PICK todo : todo = own.todo \ {s}
    OBVIOUS
  <1>9. PICK inst : inst = IF ok THEN own.installed \cup {s} ELSE own.installed
    OBVIOUS
  <1>10. own' = [o EXCEPT !.saved = saved, !.todo = todo, !.installed = inst]
    BY <1>4, <1>5, <1>6, <1>7, <1>8, <1>9 DEF Hks!Hook
  <1>11. /\ own'.site = o.site /\ own'.saved = saved /\ own'.todo = todo /\ own'.installed = inst
         /\ own'.code = own.code /\ own'.attempted = own.attempted
    BY <1>6, <1>10 DEF Hks!Hook
  <1>12. own.attempted /\ (env.kind \in Hks!Stubs => own.code)
    BY <1>1 DEF Hks!Standing
  <1>13. PICK was : was = {p \in Hks!Places : own.site[p] = "ours" \/ net.chain[p] = "ours"}
    OBVIOUS
  <1>14. PICK is : is = {p \in Hks!Places : own'.site[p] = "ours" \/ net'.chain[p] = "ours"}
    OBVIOUS
  <1>15. is \subseteq was \cup {s} /\ (~ok => is = was)
    BY <1>1, <1>3, <1>6, <1>11, <1>13, <1>14 DEF Hks!Hook
  <1>16. was \subseteq Hks!Used /\ (was # {} \/ net.inside => env.kind = "process" \/ own.installed # {})
    BY <1>13 DEF Hks!Standing
  <1>17. is \subseteq Hks!Used /\ (is # {} \/ net.inside => env.kind = "process" \/ inst # {})
    BY <1>3, <1>9, <1>15, <1>16
  <1>18. ASSUME env.kind = "process"
         PROVE  /\ ~net.inside /\ (2 \in is => inst = Hks!Used /\ pc' = "verify")
                /\ (1 \in inst => own'.site[1] # "gta") /\ (2 \in inst => inst = Hks!Used /\ pc' = "verify")
                /\ (pc' = "write" => todo = Hks!Used \ inst)
                /\ saved[2] # "ours"
    <2>1. /\ ~net.inside /\ 2 \notin was /\ 2 \notin own.installed /\ own.todo = Hks!Used \ own.installed
          /\ (1 \in own.installed => own.site[1] # "gta") /\ own.saved[2] # "ours"
      BY <1>1, <1>13, <1>18 DEF Hks!Standing
    <2>2. Hks!Used = {1, 2}
      BY <1>18 DEF Hks!Used, Hks!Places
    <2>3. saved = own.saved
      BY <1>1, <1>7, <1>18 DEF Hks!Hook
    <2>4. CASE s = 1
      <3>1. 1 \notin own.installed
        BY <1>3, <2>1, <2>4
      <3>2. ok => own'.site[1] = "ours"
        BY <1>1, <1>3, <1>6, <1>11, <2>4 DEF Hks!Hook
      <3>3. 2 \notin is /\ 2 \notin inst
        BY <1>9, <1>15, <2>1, <2>4
      <3>4. pc' = "write" => ok
        BY <1>4, <1>18
      <3> QED
        BY <1>8, <1>9, <2>1, <2>3, <3>1, <3>2, <3>3, <3>4
    <2>5. CASE s = 2
      <3>1. 1 \in own.installed
        BY <1>3, <2>1, <2>2, <2>5
      <3>2. own.todo = {s}
        BY <2>1, <2>2, <2>5, <3>1
      <3>3. pc' = "verify"
        BY <1>4, <3>2
      <3>4. own'.site[1] = own.site[1]
        BY <1>1, <1>6, <1>11, <2>5 DEF Hks!Hook, Hks!Places
      <3>5. ok => inst = Hks!Used
        BY <1>9, <2>1, <2>2, <2>5, <3>1 DEF Hks!Kept, Hks!WorkIsUsed
      <3>6. ~ok => 2 \notin is /\ 2 \notin inst
        BY <1>9, <1>15, <2>1
      <3> QED
        BY <2>1, <2>3, <3>1, <3>3, <3>4, <3>5, <3>6
    <2> QED
      BY <1>3, <2>4, <2>5 DEF Hks!Places
  <1>19. pc' \in {"write", "verify"} /\ net' = net /\ env'.kind = env.kind /\ Hks!Used' = Hks!Used
    BY <1>1, <1>4 DEF Hks!Used
  <1> QED
    BY <1>11, <1>12, <1>14, <1>17, <1>18, <1>19 DEF Hks!Standing

LEMMA StandingVerify ==
    ASSUME Hks!Kept, Stands, Hks!Standing, Hks!Verify
    PROVE  Hks!Standing'
  <1>1. own \in Hks!Hook /\ net \in Hks!Game /\ pc = "verify" /\ UNCHANGED <<net, env>> /\ Hks!Used' = Hks!Used
    BY DEF Hks!Kept, Hks!Verify, Hks!Used
  <1>2. env.kind \notin Hks!Entries /\ env.kind # "zones"
    BY DEF Stands
  <1>3. CASE Hks!VerifyProcess
    <2>1. env.kind = "process"
      BY <1>3 DEF Hks!VerifyProcess
    <2>2. CASE own.installed = Hks!Used
      <3>1. own' = own /\ pc' = "idle"
        BY <1>3, <2>2 DEF Hks!VerifyProcess
      <3> QED
        BY <1>1, <2>1, <2>2, <3>1 DEF Hks!Standing
    <2>3. CASE own.installed # Hks!Used
      <3>1. own' = [own EXCEPT !.todo = Hks!Used] /\ pc' = "restore"
        BY <1>3, <2>3 DEF Hks!VerifyProcess
      <3>2. /\ own'.todo = Hks!Used /\ own'.installed = own.installed /\ own'.site = own.site /\ own'.saved = own.saved
            /\ own'.code = own.code /\ own'.attempted = own.attempted
        BY <1>1, <3>1 DEF Hks!Hook
      <3>3. own.installed \subseteq Hks!Used
        BY DEF Hks!Kept, Hks!WorkIsUsed
      <3> QED
        BY <1>1, <2>1, <2>3, <3>1, <3>2, <3>3 DEF Hks!Standing
    <2> QED
      BY <2>2, <2>3
  <1>4. CASE Hks!VerifyOther
    <2>1. PICK code \in BOOLEAN : code = (own.code /\ own.installed # {})
      OBVIOUS
    <2>2. own' = [own EXCEPT !.code = code] /\ pc' = "idle" /\ env.kind # "process"
      BY <1>4, <2>1 DEF Hks!VerifyOther
    <2>3. /\ own'.todo = own.todo /\ own'.installed = own.installed /\ own'.site = own.site /\ own'.saved = own.saved
          /\ own'.code = code /\ own'.attempted = own.attempted
      BY <1>1, <2>2 DEF Hks!Hook
    <2>4. own.attempted /\ (env.kind \in Hks!Stubs => own.code)
      BY <1>1 DEF Hks!Standing
    <2>5. own.installed # {} => (env.kind \in Hks!Stubs => code)
      BY <2>1, <2>4
    <2> QED
      BY <1>1, <2>2, <2>3, <2>4, <2>5 DEF Hks!Standing
  <1> QED
    BY <1>2, <1>3, <1>4 DEF Hks!Verify, Hks!VerifyEntry, Hks!VerifyZones

\* Until the unload only the process hook is taken back, before its jump can be reached.
LEMMA StandingRestore ==
    ASSUME Hks!Kept, Stands, Hks!Standing, Hks!Restore \/ Hks!Free
    PROVE  Hks!Standing'
  <1>1. own \in Hks!Hook /\ net \in Hks!Game /\ env' = env /\ Hks!Used' = Hks!Used /\ pc \in {"restore", "free"}
    BY DEF Hks!Kept, Hks!Restore, Hks!Free, Hks!Used
  <1>2. /\ env.kind = "process" /\ ~own.leaving /\ own.attempted /\ (env.kind \in Hks!Stubs => own.code)
        /\ ~net.inside /\ own.site[2] # "ours" /\ net.chain[2] # "ours" /\ own.saved[2] # "ours"
        /\ (pc = "restore" => own.installed \subseteq own.todo) /\ (pc = "free" => own.installed = {})
    BY <1>1 DEF Stands, Hks!Standing, Hks!Places
  <1>3. Hks!Used = Hks!Places
    BY <1>2 DEF Hks!Used
  <1>4. CASE Hks!Free
    <2>1. pc = "free"
      BY <1>4 DEF Hks!Free
    <2>2. PICK code \in BOOLEAN :
             code = (own.code /\ (own.installed # {} \/ (env.kind = "process" /\ ~own.leaving)))
      OBVIOUS
    <2>3. PICK late \in BOOLEAN : late = (net.late \/ net.inside)
      OBVIOUS
    <2>4. own' = [own EXCEPT !.code = code] /\ net' = [net EXCEPT !.late = late] /\ pc' = "idle"
      BY <1>2, <1>4, <2>2, <2>3 DEF Hks!Free
    <2>5. /\ own'.installed = own.installed /\ own'.site = own.site /\ own'.saved = own.saved
          /\ own'.code = code /\ own'.attempted = own.attempted
          /\ net'.inside = net.inside /\ net'.chain = net.chain
      BY <1>1, <2>4 DEF Hks!Hook, Hks!Game
    <2>6. env.kind \in Hks!Stubs => code
      BY <1>2, <2>2
    <2> QED
      BY <1>1, <1>2, <1>3, <2>1, <2>4, <2>5, <2>6 DEF Hks!Standing
  <1>5. CASE Hks!Restore /\ own.todo = {}
    <2>1. own' = own /\ pc' = "free" /\ net' = net /\ pc = "restore"
      BY <1>5 DEF Hks!Restore
    <2>2. own.installed = {}
      BY <1>2, <1>5, <2>1
    <2> QED
      BY <1>1, <1>2, <1>3, <2>1, <2>2 DEF Hks!Standing
  <1>6. CASE Hks!Restore /\ own.todo # {}
    <2>1. PICK s : s = Hks!Min(own.todo)
      OBVIOUS
    <2>2. s \in own.todo /\ s \in Hks!Places
      BY <1>1, <1>6, <2>1, FirstOf DEF Hks!Hook
    <2>3. PICK ok \in BOOLEAN :
            own' = [Hks!Overwrite(own, s, own.saved[s], ok)
                      EXCEPT !.todo = @ \ {s},
                             !.installed = IF ok \/ env.kind # "zones" THEN @ \ {s} ELSE @]
      BY <1>2, <1>6, <2>1 DEF Hks!Restore
    <2>4. pc' = "restore" /\ net' = net /\ pc = "restore"
      BY <1>6 DEF Hks!Restore
    <2>5. PICK o : o = Hks!Overwrite(own, s, own.saved[s], ok)
      OBVIOUS
    <2>6. /\ o \in Hks!Hook /\ o.site = [own.site EXCEPT ![s] = IF ok THEN own.saved[s] ELSE @]
          /\ o.saved = own.saved /\ o.installed = own.installed /\ o.todo = own.todo
          /\ o.code = own.code /\ o.attempted = own.attempted
      <3>1. own.saved[s] \in Hks!Bytes
        BY <1>1, <2>2 DEF Hks!Hook
      <3> QED
        BY <1>1, <2>2, <2>5, <3>1, OverwriteIs
    <2>7. PICK todo : todo = own.todo \ {s}
      OBVIOUS
    <2>8. PICK inst : inst = own.installed \ {s}
      OBVIOUS
    <2>9. own' = [o EXCEPT !.todo = todo, !.installed = inst]
      BY <1>2, <2>3, <2>5, <2>6, <2>7, <2>8 DEF Hks!Hook
    <2>10. /\ own'.site = o.site /\ own'.saved = own.saved /\ own'.todo = todo /\ own'.installed = inst
           /\ own'.code = own.code /\ own'.attempted = own.attempted
      BY <2>6, <2>9 DEF Hks!Hook
    <2>11. (inst \subseteq todo /\ 2 \notin inst) \/ 2 \in inst
      BY <1>2, <2>4, <2>7, <2>8
    <2>12. own'.site[2] # "ours"
      BY <1>1, <1>2, <2>2, <2>6, <2>10 DEF Hks!Hook, Hks!Places
    <2>13. 2 \notin own.installed /\ 2 \notin inst
      BY <1>2, <2>4, <2>8 DEF Hks!Standing
    <2> QED
      BY <1>1, <1>2, <1>3, <2>4, <2>10, <2>11, <2>12, <2>13 DEF Hks!Standing
  <1> QED
    BY <1>4, <1>5, <1>6

\* GTA enters where it is led, and another mod leads to what it found.
LEMMA StandingElse ==
    ASSUME Hks!Kept, Stands, Hks!Standing, Hks!Enter \/ Hks!Leave \/ Hks!OtherMod
    PROVE  Hks!Standing'
  <1>1. own \in Hks!Hook /\ net \in Hks!Game /\ UNCHANGED <<env, pc>> /\ Hks!Used' = Hks!Used
    BY DEF Hks!Kept, Hks!Enter, Hks!Leave, Hks!OtherMod, Hks!Used
  <1>2. CASE Hks!Enter
    <2>1. own' = own /\ net' = [net EXCEPT !.inside = TRUE]
      BY <1>2 DEF Hks!Enter
    <2>2. net'.inside /\ net'.chain = net.chain
      BY <1>1, <2>1 DEF Hks!Game
    <2>3. PICK s \in Hks!Entrances : own.site[s] = "ours" \/ net.chain[s] = "ours"
      BY <1>2 DEF Hks!Enter, Hks!Reached
    <2>4. s \in Hks!Places /\ (env.kind = "process" => s = 2)
      BY UsedIs DEF Hks!Entrances
    <2> QED
      BY <1>1, <2>1, <2>2, <2>3, <2>4 DEF Hks!Standing
  <1>3. CASE Hks!Leave
    <2>1. own' = own /\ net' = [net EXCEPT !.inside = FALSE]
      BY <1>3 DEF Hks!Leave
    <2>2. ~net'.inside /\ net'.chain = net.chain
      BY <1>1, <2>1 DEF Hks!Game
    <2> QED
      BY <1>1, <2>1, <2>2 DEF Hks!Standing
  <1>4. CASE Hks!OtherMod
    <2>1. PICK s \in Hks!Used :
            /\ own.site[s] # "other"
            /\ net' = [net EXCEPT !.taken = @ + 1, !.chain[s] = own.site[s]]
            /\ own' = [own EXCEPT !.site[s] = "other"]
      BY <1>4 DEF Hks!OtherMod
    <2>2. s \in Hks!Places
      BY UsedIs
    <2>3. PICK site : site = [own.site EXCEPT ![s] = "other"]
      OBVIOUS
    <2>4. PICK chain : chain = [net.chain EXCEPT ![s] = own.site[s]]
      OBVIOUS
    <2>5. net' = [net EXCEPT !.taken = net.taken + 1, !.chain = chain] /\ own' = [own EXCEPT !.site = site]
      BY <2>1, <2>3, <2>4
    <2>6. /\ own'.site = site /\ own'.saved = own.saved /\ own'.todo = own.todo /\ own'.installed = own.installed
          /\ own'.code = own.code /\ own'.attempted = own.attempted
          /\ net'.inside = net.inside /\ net'.chain = chain
      BY <1>1, <2>5 DEF Hks!Hook, Hks!Game
    <2>7. /\ \A p \in Hks!Places : site[p] = "ours" \/ chain[p] = "ours" => own.site[p] = "ours" \/ net.chain[p] = "ours"
          /\ own.site[1] # "gta" => site[1] # "gta"
      BY <1>1, <2>2, <2>3, <2>4 DEF Hks!Hook, Hks!Game, Hks!Places
    <2>8. PICK was : was = {p \in Hks!Places : own.site[p] = "ours" \/ net.chain[p] = "ours"}
      OBVIOUS
    <2>9. PICK is : is = {p \in Hks!Places : own'.site[p] = "ours" \/ net'.chain[p] = "ours"}
      OBVIOUS
    <2>10. is \subseteq was
      BY <2>6, <2>7, <2>8, <2>9
    <2> QED
      BY <1>1, <2>6, <2>7, <2>8, <2>9, <2>10 DEF Hks!Standing
  <1> QED
    BY <1>2, <1>3, <1>4

LEMMA HookStep ==
    ASSUME Hks!IInv, Hks!Next PROVE Hks!IInv'
  <1>1. Hks!Kept /\ Hks!Kept' /\ own \in Hks!Hook /\ own' \in Hks!Hook
    BY HookKept DEF Hks!IInv, Hks!Kept
  <1>2. ASSUME Stands' PROVE Hks!Standing'
    <2>1. env' = env
      BY DEF Hks!Next, Hks!LookImpact, Hks!LookDamage, Hks!LookZones, Hks!LookMaterial, Hks!LookProcess, Hks!LookSelect,
             Hks!LookGraphics, Hks!LookScripts, Hks!LooksEntry, Hks!Begins, Hks!Write, Hks!Verify, Hks!Unload,
             Hks!Restore, Hks!Free, Hks!Enter, Hks!Leave, Hks!OtherMod
    <2>2. ~Hks!Unload
      <3>1. Hks!Unload => own'.leaving
        BY <1>1 DEF Hks!Unload, Hks!Hook
      <3> QED
        BY <1>2, <3>1 DEF Stands
    <2>3. own.leaving => own'.leaving
      <3>1. CASE \/ Hks!LookImpact \/ Hks!LookDamage \/ Hks!LookZones \/ Hks!LookMaterial
                 \/ Hks!LookProcess \/ Hks!LookSelect \/ Hks!LookGraphics \/ Hks!LookScripts
        <4>1. PICK ready \in BOOLEAN, code \in BOOLEAN, pin \in {"unasked", "failed", "pinned"}, saved \in {own.saved, own.site} :
                /\ own' = [own EXCEPT !.code = code, !.pin = pin, !.saved = saved, !.attempted = TRUE, !.seen = own.site,
                                      !.todo = IF ready THEN Hks!Used ELSE {}]
                /\ pc' = IF ready THEN "write" ELSE "idle"
                /\ env.kind \in Hks!Entries /\ ready => own.site[1] = "gta" /\ pin = "pinned" /\ code
                /\ own.pin = "pinned" => pin = "pinned"
                /\ env.kind \notin Hks!Entries /\ ready /\ env.kind \in Hks!Stubs => code
          BY <1>1, <3>1, LooksAre
        <4>2. PICK todo : todo = IF ready THEN Hks!Used ELSE {}
          OBVIOUS
        <4>3. own' = [own EXCEPT !.code = code, !.pin = pin, !.saved = saved, !.attempted = TRUE, !.seen = own.site,
                                 !.todo = todo]
          BY <4>1, <4>2
        <4> QED
          BY <1>1, <4>3 DEF Hks!Hook
      <3>2. ASSUME NEW s, NEW what, NEW ok PROVE Hks!Overwrite(own, s, what, ok).leaving = own.leaving
        BY <1>1 DEF Hks!Overwrite, Hks!Hook
      <3>3. CASE Hks!Write
        <4>1. PICK s : s = Hks!Min(own.todo)
          OBVIOUS
        <4>3. PICK ok \in BOOLEAN :
                 own' = [Hks!Overwrite(own, s, "ours", ok)
                           EXCEPT !.saved[s] = IF env.kind = "process" THEN @ ELSE own.site[s],
                                  !.todo = @ \ {s},
                                  !.installed = IF ok THEN @ \cup {s} ELSE @]
          BY <3>3, <4>1 DEF Hks!Write
        <4>4. PICK o : o = Hks!Overwrite(own, s, "ours", ok)
          OBVIOUS
        <4>5. o.leaving = own.leaving /\ "leaving" \in DOMAIN o
          BY <1>1, <3>2, <4>4 DEF Hks!Overwrite, Hks!Hook
        <4> QED
          BY <4>3, <4>4, <4>5
      <3>4. CASE Hks!Verify
        BY <1>1, <3>4 DEF Hks!Verify, Hks!VerifyEntry, Hks!VerifyZones, Hks!VerifyProcess, Hks!VerifyOther, Hks!Hook
      <3>5. CASE Hks!Restore
        <4>1. PICK s : s = IF env.kind = "process" /\ own.leaving THEN Hks!Max(own.todo) ELSE Hks!Min(own.todo)
          OBVIOUS
        <4>3. CASE own' # own
          <5>1. PICK ok \in BOOLEAN :
                   own' = [Hks!Overwrite(own, s, own.saved[s], ok)
                             EXCEPT !.todo = @ \ {s},
                                    !.installed = IF ok \/ env.kind # "zones" THEN @ \ {s} ELSE @]
            BY <3>5, <4>1, <4>3 DEF Hks!Restore
          <5>2. PICK what : what = own.saved[s]
            OBVIOUS
          <5>3. PICK o : o = Hks!Overwrite(own, s, what, ok)
            OBVIOUS
          <5>4. o.leaving = own.leaving /\ "leaving" \in DOMAIN o
            BY <1>1, <3>2, <5>3 DEF Hks!Overwrite, Hks!Hook
          <5> QED
            BY <5>1, <5>2, <5>3, <5>4
        <4> QED
          BY <4>3
      <3>6. CASE Hks!Free \/ Hks!Enter \/ Hks!Leave \/ Hks!OtherMod
        BY <1>1, <3>6 DEF Hks!Free, Hks!Enter, Hks!Leave, Hks!OtherMod, Hks!Hook
      <3> QED
        BY <2>2, <3>1, <3>3, <3>4, <3>5, <3>6 DEF Hks!Next
    <2>4. Stands /\ Hks!Standing
      BY <1>2, <2>1, <2>3 DEF Stands, Hks!IInv
    <2> QED
      BY <1>1, <2>2, <2>4, StandingLook, StandingWrite, StandingVerify, StandingRestore, StandingElse DEF Hks!Next
  <1> QED
    BY <1>1, <1>2 DEF Hks!IInv, Stands

HookInv == part = "hooks" => Hks!IInv

\* The inductive invariant of Hooks, for any number of places another mod takes.
THEOREM HookInvariant == Spec => []HookInv
  <1>1. Init => HookInv
    BY HookInit DEF Init, HookInv
  <1>2. HookInv /\ [Next]_vars => HookInv'
    <2> SUFFICES ASSUME HookInv, [Next]_vars, part' = "hooks" PROVE Hks!IInv'
      BY DEF HookInv
    <2>1. CASE UNCHANGED vars
      <3>1. Hks!IInv /\ UNCHANGED <<net, own, env, pc>>
        BY <2>1 DEF vars, HookInv
      <3> QED
        BY <3>1 DEF Hks!IInv, Hks!Kept, Hks!WorkIsUsed, Hks!LooksFirst, Hks!OthersKept, Hks!EntryHolds, Hks!OtherHolds,
                    Hks!Standing, Hks!Excused, Hks!Used
    <2>2. CASE Next
      <3>1. part = "hooks" /\ Hks!Next
        BY <2>2 DEF Next
      <3> QED
        BY <3>1, HookStep DEF HookInv
    <2> QED
      BY <2>1, <2>2
  <1> QED
    BY <1>1, <1>2, PTL DEF Spec

\* Whoever is in a weapon hook or can reach it finds its code, whatever happens.  Whoever is
\* in one of the others or can reach it finds its code, and the process hook's jump its word,
\* until the DLL is unloaded, whatever other mods take and whichever page refuses to be
\* written, but for the zones' two calls, which are freed when one of them fails; from the
\* unload on, and with the zones, it takes another mod, a write that failed or GTA's thread
\* inside when the code was freed, for one to be reached after its code is gone.
THEOREM HooksAreSafe == Spec => []HookIsSafe
  <1>1. HookInv => HookIsSafe
    <2> SUFFICES ASSUME HookInv, part = "hooks", net.inside \/ \E s \in Hks!Entrances : Hks!Reached(s),
                        ~(env.kind \notin Hks!Entries /\ (own.leaving \/ env.kind = "zones") /\ Hks!Excused)
                 PROVE  /\ pc # "unmapped" /\ (env.kind \in Hks!Stubs => own.code)
                        /\ env.kind = "process" /\ Hks!Reached(2) => own.site[1] # "gta"
      BY DEF HookIsSafe, Hks!HookIsSafe, Hks!Excused
    <2>4. Hks!IInv /\ Hks!Kept
      BY DEF HookInv, Hks!IInv
    <2>5. net.inside \/ \E s \in Hks!Used : own.site[s] = "ours" \/ net.chain[s] = "ours"
      BY UsedIs DEF Hks!Reached
    <2>1. CASE env.kind \in Hks!Entries
      <3>1. net.inside \/ own.site[1] = "ours" \/ net.chain[1] = "ours"
        BY <2>1, <2>5, UsedIs
      <3>2. env.kind # "process"
        BY <2>1 DEF Hks!Entries
      <3> QED
        BY <2>1, <2>4, <3>1, <3>2 DEF Hks!Kept, Hks!EntryHolds
    <2>2. CASE env.kind \notin Hks!Entries /\ ~Hks!Excused
      <3>1. Hks!OtherHolds
        BY <2>2, <2>4 DEF Hks!Kept
      <3>2. net.inside \/ own.installed # {}
        BY <2>5, <3>1, UsedIs DEF Hks!OtherHolds
      <3>3. env.kind = "process" /\ Hks!Reached(2) => own.site[1] # "gta"
        BY <3>1 DEF Hks!OtherHolds, Hks!Reached, Hks!Places
      <3> QED
        BY <3>1, <3>2, <3>3 DEF Hks!OtherHolds
    <2>3. CASE env.kind \notin Hks!Entries \cup {"zones"} /\ ~own.leaving
      <3>1. Hks!Standing
        BY <2>3, <2>4 DEF Hks!IInv
      <3>2. net.inside \/ \E s \in Hks!Places : own.site[s] = "ours" \/ net.chain[s] = "ours"
        BY <2>5, UsedIs
      <3>3. own.attempted /\ (env.kind \in Hks!Stubs => own.code)
        BY <3>1, <3>2 DEF Hks!Standing
      <3>4. pc # "unmapped"
        BY <3>1 DEF Hks!Standing
      <3>5. ASSUME env.kind = "process", Hks!Reached(2) PROVE own.site[1] # "gta"
        <4>1. 2 \in {s \in Hks!Places : own.site[s] = "ours" \/ net.chain[s] = "ours"}
          BY <3>5 DEF Hks!Reached, Hks!Places
        <4>2. own.installed = Hks!Used /\ pc \in {"idle", "verify"}
          BY <3>1, <3>5, <4>1 DEF Hks!Standing
        <4> QED
          BY <3>1, <3>5, <4>2, UsedIs DEF Hks!Standing
      <3> QED
        BY <3>3, <3>4, <3>5
    <2> QED
      BY <2>1, <2>2, <2>3
  <1> QED
    BY <1>1, HookInvariant, PTL

-----------------------------------------------------------------------------
(* The import table of ArchiveFs. *)

\* The start reads the archive, which nobody can notice, and then looks at the table.
LEMMA TableStart ==
    ASSUME Arc!IInv, Arc!Load \/ Arc!LoadFails \/ Arc!Validate \/ Arc!Ready \/ Arc!Stop
    PROVE  Arc!IInv'
  <1>1. /\ Arc!Fields /\ Arc!TableCounted /\ Arc!NobodyIn /\ Arc!TableIsWhole
        /\ UNCHANGED env /\ net.installed \in 0 .. 6
    BY DEF Arc!IInv, Arc!Fields, Arc!Load, Arc!LoadFails, Arc!Validate, Arc!Ready, Arc!Stop
  <1>2. CASE Arc!Load
    <2>1. /\ pc = "stopped" /\ ~own.active /\ pc' \in {"validate", "fail"}
          /\ \E b \in BOOLEAN : net' = [net EXCEPT !.fits = b]
          /\ \E d : own' = [own EXCEPT !.data = d]
      BY <1>2 DEF Arc!Load
    <2>2. /\ net' \in [installed : 0 .. 6, refused : SUBSET (1 .. 6), fits : BOOLEAN]
          /\ net'.installed = net.installed /\ net'.refused = net.refused
          /\ DOMAIN own' = DOMAIN own /\ own'.active = own.active
      BY <1>1, <2>1 DEF Arc!Fields
    <2> QED
      BY <1>1, <2>1, <2>2 DEF Arc!IInv, Arc!Fields, Arc!TableCounted, Arc!NobodyIn, Arc!TableIsWhole
  <1>3. CASE Arc!LoadFails
    <2>1. /\ pc = "stopped" /\ pc' = "fail" /\ UNCHANGED net /\ \E d : own' = [own EXCEPT !.data = d]
      BY <1>3 DEF Arc!LoadFails
    <2>2. DOMAIN own' = DOMAIN own /\ own'.active = own.active
      BY <1>1, <2>1 DEF Arc!Fields
    <2> QED
      BY <1>1, <2>1, <2>2 DEF Arc!IInv, Arc!Fields, Arc!TableCounted, Arc!NobodyIn, Arc!TableIsWhole
  <1>4. CASE Arc!Validate
    <2>1. /\ pc = "validate" /\ pc' \in {"fail", "install"} /\ UNCHANGED net
          /\ own' = own \/ own' = [own EXCEPT !.lock = TRUE]
      BY <1>4 DEF Arc!Validate
    <2>2. DOMAIN own' = DOMAIN own /\ own'.active = own.active
      BY <1>1, <2>1 DEF Arc!Fields
    <2> QED
      BY <1>1, <2>1, <2>2 DEF Arc!IInv, Arc!Fields, Arc!TableCounted, Arc!NobodyIn, Arc!TableIsWhole
  <1>5. CASE Arc!Ready
    <2>1. pc = "install" /\ pc' = "ready" /\ net.installed = 6 /\ UNCHANGED net /\ own' = [own EXCEPT !.active = TRUE]
      BY <1>5 DEF Arc!Ready
    <2>2. DOMAIN own' = DOMAIN own /\ own'.active = TRUE
      BY <1>1, <2>1 DEF Arc!Fields
    <2> QED
      BY <1>1, <2>1, <2>2 DEF Arc!IInv, Arc!Fields, Arc!TableCounted, Arc!NobodyIn, Arc!TableIsWhole
  <1>6. CASE Arc!Stop
    <2>1. pc = "ready" /\ pc' = "stop" /\ UNCHANGED net /\ own' = [own EXCEPT !.active = FALSE]
      BY <1>6 DEF Arc!Stop
    <2>2. DOMAIN own' = DOMAIN own /\ own'.active = FALSE
      BY <1>1, <2>1 DEF Arc!Fields
    <2> QED
      BY <1>1, <2>1, <2>2 DEF Arc!IInv, Arc!Fields, Arc!TableCounted, Arc!NobodyIn, Arc!TableIsWhole
  <1> QED
    BY <1>2, <1>3, <1>4, <1>5, <1>6

\* An entry is written only over what was read there, if it is written.
LEMMA SlotWritten ==
    ASSUME Arc!Fields, NEW i \in 1 .. 6, NEW expected, NEW replacement \in {"system", "ours"}, NEW ok \in BOOLEAN,
           env' = Arc!WriteSlot(i, expected, replacement, ok)
    PROVE  /\ DOMAIN env' = DOMAIN env /\ env'.mod = env.mod /\ env'.lost = env.lost /\ env'.call = env.call
           /\ env'.table \in [1 .. 6 -> {"system", "ours", "mod", "mod over ours"}]
           /\ \A k \in 1 .. 6 : k # i => env'.table[k] = env.table[k]
           /\ env'.table[i] = IF ok /\ env.table[i] = expected THEN replacement ELSE env.table[i]
  BY DEF Arc!Fields, Arc!WriteSlot

\* The next entry is taken and counted, or the start fails and nothing was taken.
LEMMA TableInstall ==
    ASSUME Arc!IInv, Arc!Install
    PROVE  Arc!IInv'
  <1>1. /\ Arc!Fields /\ Arc!TableCounted /\ Arc!NobodyIn /\ Arc!TableIsWhole
        /\ pc = "install" /\ UNCHANGED own /\ ~own.active /\ net.installed < 6
    BY DEF Arc!IInv, Arc!Install, Arc!TableCounted
  <1>4. net.installed \in 0 .. 6
    BY <1>1 DEF Arc!Fields
  <1>2. CASE pc' = "fail" /\ UNCHANGED <<net, env>>
    BY <1>1, <1>2 DEF Arc!IInv, Arc!Fields, Arc!TableCounted, Arc!NobodyIn, Arc!TableIsWhole
  <1>3. CASE ~(pc' = "fail" /\ UNCHANGED <<net, env>>)
    <2> DEFINE i == net.installed + 1
    <2>1. PICK ok \in BOOLEAN : /\ env' = Arc!WriteSlot(i, "system", "ours", ok) /\ env' # env
                               /\ net' = [net EXCEPT !.installed = i] /\ UNCHANGED pc
      BY <1>3 DEF Arc!Install
    <2>2. i \in 1 .. 6 /\ i \in 0 .. 6 /\ i = net.installed + 1
      BY <1>1, <1>4
    <2> HIDE DEF i
    <2>3. /\ net' \in [installed : 0 .. 6, refused : SUBSET (1 .. 6), fits : BOOLEAN]
          /\ net'.installed = i /\ net'.refused = net.refused
      BY <1>1, <2>1, <2>2 DEF Arc!Fields
    <2>4. env.table[i] = "system"
      BY <2>1 DEF Arc!WriteSlot
    <2>5. /\ DOMAIN env' = DOMAIN env /\ env'.mod = env.mod /\ env'.lost = env.lost /\ env'.call = env.call
          /\ env'.table \in [1 .. 6 -> {"system", "ours", "mod", "mod over ours"}]
          /\ \A k \in 1 .. 6 : k # i => env'.table[k] = env.table[k]
      BY <1>1, <2>1, <2>2, SlotWritten
    <2>6. Arc!Fields'
      BY <1>1, <2>3, <2>5 DEF Arc!Fields
    <2>7. \A k \in 1 .. 6 : env'.table[k] = "ours" => k =< i \/ k \in net'.refused
      <3>1. \A k \in 1 .. 6 : env.table[k] = "ours" => k =< net.installed \/ k \in net.refused
        BY <1>1 DEF Arc!TableCounted
      <3>2. \A k \in 1 .. 6 : env'.table[k] = "ours" => k = i \/ k =< net.installed \/ k \in net'.refused
        BY <2>3, <2>5, <3>1
      <3> QED
        BY <1>4, <2>2, <3>2
    <2>8. env'.mod # 0 => env'.table[env'.mod] \in {"mod", "mod over ours"}
      <3>3. env.mod \in 0 .. 6
        BY <1>1 DEF Arc!Fields
      <3>1. env.mod # 0 => env.mod \in 1 .. 6
        BY <3>3
      <3>2. env.mod # 0 => env.table[env.mod] \in {"mod", "mod over ours"}
        BY <1>1 DEF Arc!TableIsWhole
      <3> QED
        BY <2>4, <2>5, <3>1, <3>2
    <2> QED
      BY <1>1, <2>1, <2>3, <2>5, <2>6, <2>7, <2>8 DEF Arc!IInv, Arc!TableCounted, Arc!NobodyIn, Arc!TableIsWhole
  <1> QED
    BY <1>2, <1>3

\* The last entry counted is not ours any more, or its page has refused.
LEMMA TableRestore ==
    ASSUME Arc!IInv, Arc!Restore
    PROVE  Arc!IInv'
  <1> DEFINE i == net.installed
  <1>1. /\ Arc!Fields /\ Arc!TableCounted /\ Arc!NobodyIn /\ Arc!TableIsWhole
        /\ pc \in {"fail", "stop"} /\ i > 0 /\ UNCHANGED pc
        /\ own' = [own EXCEPT !.active = FALSE]
    BY DEF Arc!IInv, Arc!Restore
  <1>10. PICK ok \in BOOLEAN :
           /\ env' = Arc!WriteSlot(i, "ours", "system", ok)
           /\ net' = [net EXCEPT !.installed = @ - 1, !.refused = IF ok THEN @ ELSE @ \cup {i}]
    BY DEF Arc!Restore
  <1>8. i \in 0 .. 6
    BY <1>1 DEF Arc!Fields
  <1>9. i \in 1 .. 6 /\ i - 1 \in 0 .. 6
    BY <1>1, <1>8
  <1>11. PICK refused : refused = IF ok THEN net.refused ELSE net.refused \cup {i}
    OBVIOUS
  <1>12. net' = [net EXCEPT !.installed = i - 1, !.refused = refused]
    BY <1>10, <1>11
  <1> HIDE DEF i
  <1>13. refused \in SUBSET (1 .. 6)
    BY <1>1, <1>9, <1>11 DEF Arc!Fields
  <1>2. /\ net' \in [installed : 0 .. 6, refused : SUBSET (1 .. 6), fits : BOOLEAN]
        /\ net'.installed = i - 1 /\ net'.refused = refused
        /\ DOMAIN own' = DOMAIN own /\ own'.active = FALSE
    BY <1>1, <1>9, <1>12, <1>13 DEF Arc!Fields
  <1>3. /\ DOMAIN env' = DOMAIN env /\ env'.mod = env.mod /\ env'.lost = env.lost /\ env'.call = env.call
        /\ env'.table \in [1 .. 6 -> {"system", "ours", "mod", "mod over ours"}]
        /\ \A k \in 1 .. 6 : k # i => env'.table[k] = env.table[k]
        /\ env'.table[i] = IF ok /\ env.table[i] = "ours" THEN "system" ELSE env.table[i]
    BY <1>1, <1>9, <1>10, SlotWritten
  <1>4. Arc!Fields'
    BY <1>1, <1>2, <1>3 DEF Arc!Fields
  <1>5. \A k \in 1 .. 6 : env.table[k] = "ours" => k =< i \/ k \in net.refused
    BY <1>1 DEF Arc!TableCounted, i
  <1>6. \A k \in 1 .. 6 : env'.table[k] = "ours" => k =< i - 1 \/ k \in refused
    <2>1. \A k \in 1 .. 6 : env'.table[k] = "ours" => env.table[k] = "ours" /\ (k # i \/ ~ok)
      BY <1>3
    <2>2. \A k \in 1 .. 6 : env'.table[k] = "ours" => k \in refused \/ (k # i /\ k =< i)
      BY <1>5, <1>11, <2>1
    <2> QED
      BY <1>9, <2>2
  <1>7. env'.mod # 0 => env'.table[env'.mod] \in {"mod", "mod over ours"}
    <2>3. env.mod \in 0 .. 6
      BY <1>1 DEF Arc!Fields
    <2>1. env.mod # 0 => env.mod \in 1 .. 6
      BY <2>3
    <2>2. env.mod # 0 => env.table[env.mod] \in {"mod", "mod over ours"}
      BY <1>1 DEF Arc!TableIsWhole
    <2> QED
      BY <1>3, <2>1, <2>2
  <1> QED
    BY <1>1, <1>2, <1>3, <1>4, <1>6, <1>7 DEF Arc!IInv, Arc!TableCounted, Arc!NobodyIn, Arc!TableIsWhole

\* What is freed is freed when no entry is left; another mod takes one entry once.
LEMMA TableFree ==
    ASSUME Arc!IInv, Arc!Free
    PROVE  Arc!IInv'
  <1>1. /\ Arc!Fields /\ Arc!TableCounted /\ Arc!NobodyIn /\ Arc!TableIsWhole
        /\ pc \in {"fail", "stop"} /\ net.installed = 0 /\ UNCHANGED <<net, env>>
        /\ pc' \in {"failed", "gone"} /\ (pc' = "failed" => pc = "fail")
        /\ own' = [own EXCEPT !.active = FALSE, !.lock = FALSE, !.data = {}, !.next = 0,
                              !.records = [s \in 1 .. Slots |-> Arc!None]]
    BY DEF Arc!IInv, Arc!Free
  <1>2. DOMAIN own' = DOMAIN own /\ own'.active = FALSE
    BY <1>1 DEF Arc!Fields
  <1>3. \A i \in 1 .. 6 : env.table[i] = "ours" => i \in net.refused
    BY <1>1 DEF Arc!TableCounted
  <1> QED
    BY <1>1, <1>2, <1>3 DEF Arc!IInv, Arc!Fields, Arc!TableCounted, Arc!NobodyIn, Arc!TableIsWhole

\* Another mod takes an entry, whosever it is.
LEMMA TableMod ==
    ASSUME Arc!IInv, Arc!Mod
    PROVE  Arc!IInv'
  <1>1. /\ Arc!Fields /\ Arc!TableCounted /\ Arc!NobodyIn /\ Arc!TableIsWhole
        /\ UNCHANGED <<net, own, pc>>
    BY DEF Arc!IInv, Arc!Mod
  <1>2. PICK i \in 1 .. 6 : env' = [env EXCEPT !.mod = i, !.table[i] = IF @ = "ours" THEN "mod over ours" ELSE "mod"]
    BY DEF Arc!Mod
  <1>3. /\ DOMAIN env' = DOMAIN env /\ env'.mod = i /\ env'.lost = env.lost /\ env'.call = env.call
        /\ env'.table = [env.table EXCEPT ![i] = IF @ = "ours" THEN "mod over ours" ELSE "mod"]
    BY <1>1, <1>2 DEF Arc!Fields
  <1>4. /\ env'.table \in [1 .. 6 -> {"system", "ours", "mod", "mod over ours"}]
        /\ \A k \in 1 .. 6 : env'.table[k] = "ours" => env.table[k] = "ours"
        /\ env'.table[i] \in {"mod", "mod over ours"}
    BY <1>1, <1>3 DEF Arc!Fields
  <1>6. i \in 0 .. 6
    OBVIOUS
  <1>5. Arc!Fields'
    BY <1>1, <1>3, <1>4, <1>6 DEF Arc!Fields
  <1> QED
    BY <1>1, <1>3, <1>4, <1>5 DEF Arc!IInv, Arc!TableCounted, Arc!NobodyIn, Arc!TableIsWhole

\* A call comes in only while the archive is served or after the stop.
LEMMA TableCall ==
    ASSUME Arc!IInv, NEW t \in Threads, Arc!Enter(t) \/ Arc!Serve(t)
    PROVE  Arc!IInv'
  <1>1. /\ Arc!Fields /\ Arc!TableCounted /\ Arc!NobodyIn /\ Arc!TableIsWhole
        /\ UNCHANGED <<net, pc>>
    BY DEF Arc!IInv, Arc!Enter, Arc!Serve
  <1>2. pc \notin {"stopped", "validate", "install", "fail", "failed"}
    BY <1>1 DEF Arc!Enter, Arc!Serve, Arc!NobodyIn, Arc!TableCounted
  <1>3. DOMAIN env' = DOMAIN env /\ env'.table = env.table /\ env'.mod = env.mod
    <2>1. CASE Arc!Enter(t)
      BY <1>1, <2>1 DEF Arc!Fields, Arc!Enter
    <2>2. CASE Arc!Serve(t)
      BY <1>1, <2>2 DEF Arc!Fields, Arc!Serve, Arc!OpenServed, Arc!FileServed
    <2> QED
      BY <2>1, <2>2
  <1>4. DOMAIN own' = DOMAIN own /\ own'.active = own.active
    <2>1. CASE Arc!Enter(t)
      BY <2>1 DEF Arc!Enter
    <2>2. CASE Arc!Serve(t)
      BY <1>1, <2>2 DEF Arc!Fields, Arc!Serve, Arc!OpenServed, Arc!FileServed
    <2> QED
      BY <2>1, <2>2
  <1> QED
    BY <1>1, <1>2, <1>3, <1>4 DEF Arc!IInv, Arc!Fields, Arc!TableCounted, Arc!NobodyIn, Arc!TableIsWhole

\* It holds at first.
LEMMA TableInit ==
    ASSUME Arc!Init PROVE Arc!IInv
  <1>1. /\ net = [installed |-> 0, refused |-> {}, fits |-> TRUE] /\ pc = "stopped"
        /\ own = [active |-> FALSE, lock |-> FALSE, data |-> {}, next |-> 1, records |-> [s \in 1 .. Slots |-> Arc!None]]
    BY DEF Arc!Init
  <1>2. PICK study : env = [study |-> study, table |-> [i \in 1 .. 6 |-> "system"], mod |-> 0, lost |-> FALSE,
                            call |-> [t \in Threads |-> Arc!Idle], held |-> [t \in Threads |-> {}]]
    BY DEF Arc!Init
  <1>3. Arc!Fields
    BY <1>1, <1>2 DEF Arc!Fields
  <1> QED
    BY <1>1, <1>2, <1>3 DEF Arc!IInv, Arc!TableCounted, Arc!NobodyIn, Arc!TableIsWhole

TableInv == part = "archive" => Arc!IInv

\* The inductive invariant of the import table, for any number of open files and threads.
THEOREM TableInvariant == Spec => []TableInv
  <1>1. Init => TableInv
    BY TableInit DEF Init, TableInv
  <1>2. TableInv /\ [Next]_vars => TableInv'
    <2> SUFFICES ASSUME TableInv, [Next]_vars, part' = "archive" PROVE Arc!IInv'
      BY DEF TableInv
    <2>1. CASE UNCHANGED vars
      <3>1. Arc!IInv /\ UNCHANGED <<net, own, env, pc>>
        BY <2>1 DEF vars, TableInv
      <3> QED
        BY <3>1 DEF Arc!IInv, Arc!Fields, Arc!TableCounted, Arc!NobodyIn, Arc!TableIsWhole
    <2>2. CASE Next
      <3>1. Arc!IInv /\ Arc!Next
        BY <2>2 DEF Next, TableInv
      <3> QED
        BY <3>1, TableStart, TableInstall, TableRestore, TableFree, TableMod, TableCall DEF Arc!Next
    <2> QED
      BY <2>1, <2>2
  <1> QED
    BY <1>1, <1>2, PTL DEF Spec

\* A hook that looks before it writes never overwrites what another mod had put there when
\* it looked, and no entry of the import table is taken from another mod; the table is taken
\* as a whole and given back, when the start fails or the library stops, as far as its pages
\* let themselves be written, whichever refuse; and a start that fails loses no call.
THEOREM PatchesAreKept == Spec => []PatchesBehave
  <1>1. HookInv /\ TableInv => PatchesBehave
    BY DEF HookInv, TableInv, PatchesBehave, Hks!IInv, Hks!Kept, Hks!LooksFirst, Arc!IInv
  <1> QED
    BY <1>1, HookInvariant, TableInvariant, PTL

-----------------------------------------------------------------------------
(* The threads of Sockets. *)

\* Who holds a socket that is open.
HeldBy(s, p, given, listener) ==
    s # 0 /\ (s \in given \/ s = listener \/ \E t \in Threads : p[t].socket = s)

Returned == \A s : s \in env.open <=> HeldBy(s, pc, env.given, own.listener)
ListsKept == \A t \in Threads : t \in env.lists => pc[t].at \in {"next"} \cup Skt!Connecting

\* What the invariant says, in the form the steps use.
LEMMA SocketsAre ==
    ASSUME Skt!IInv
    PROVE  /\ net \in Skt!Resolver /\ own \in Skt!Manager /\ env \in Skt!World /\ pc \in [Threads -> Skt!Place]
           /\ Skt!OneLooks /\ Skt!OneHolder /\ ~env.unready /\ Returned /\ ListsKept
  <1>1. /\ net \in Skt!Resolver /\ own \in Skt!Manager /\ env \in Skt!World /\ pc \in [Threads -> Skt!Place]
        /\ Skt!OneLooks /\ Skt!OneHolder /\ ~env.unready
    BY DEF Skt!IInv, Skt!Fields, Skt!ResolverIsReady
  <1>2. env.open = (env.given \cup {pc[t].socket : t \in Threads} \cup {own.listener}) \ {0}
    BY DEF Skt!IInv, Skt!SocketsReturn
  <1>3. Returned
    BY <1>2 DEF Returned, HeldBy
  <1>4. ListsKept
    BY DEF Skt!IInv, Skt!SocketsReturn, ListsKept, Skt!Connecting
  <1> QED
    BY <1>1, <1>3, <1>4

\* What it takes for the invariant of Sockets to hold of the state that follows.
LEMMA SocketsWere ==
    ASSUME net' \in Skt!Resolver, own' \in Skt!Manager, env' \in Skt!World, pc' \in [Threads -> Skt!Place],
           Skt!OneLooks', Skt!OneHolder', ~env'.unready, ListsKept',
           \A s : s \in env'.open <=> HeldBy(s, pc', env'.given, own'.listener)
    PROVE  Skt!IInv'
  <1>1. env'.open = (env'.given \cup {pc'[t].socket : t \in Threads} \cup {own'.listener}) \ {0}
    BY DEF HeldBy
  <1>2. Skt!SocketsReturn'
    BY <1>1 DEF Skt!SocketsReturn, ListsKept, Skt!Connecting
  <1> QED
    BY <1>2 DEF Skt!IInv, Skt!Fields, Skt!ResolverIsReady

\* One thread goes to another place.
LEMMA Turns ==
    ASSUME pc \in [Threads -> Skt!Place], NEW t \in Threads, NEW p \in Skt!Place, pc' = [pc EXCEPT ![t] = p]
    PROVE  pc' \in [Threads -> Skt!Place] /\ pc'[t] = p /\ \A u \in Threads : u # t => pc'[u] = pc[u]
  OBVIOUS

\* It keeps the socket it has, and so who holds what.
LEMMA HoldersKept ==
    ASSUME Skt!IInv, NEW t \in Threads, NEW p \in Skt!Place, pc' = [pc EXCEPT ![t] = p],
           p.socket = pc[t].socket, p.at \in Skt!Connecting <=> pc[t].at \in Skt!Connecting, UNCHANGED own,
           env'.open = env.open, env'.given = env.given, env'.made = env.made
    PROVE  /\ Skt!OneHolder'
           /\ \A s : s \in env'.open <=> HeldBy(s, pc', env'.given, own'.listener)
  <1>1. Skt!OneHolder /\ Returned /\ pc \in [Threads -> Skt!Place]
    BY SocketsAre
  <1>2. pc'[t] = p /\ \A u \in Threads : u # t => pc'[u] = pc[u]
    BY <1>1, Turns
  <1>3. \A u \in Threads : pc'[u].socket = pc[u].socket /\ (pc'[u].at \in Skt!Connecting <=> pc[u].at \in Skt!Connecting)
    BY <1>2
  <1>4. Skt!OneHolder'
    BY <1>1, <1>3 DEF Skt!OneHolder, Skt!Connecting
  <1>5. \A s : s \in env'.open <=> HeldBy(s, pc', env'.given, own'.listener)
    BY <1>1, <1>3 DEF Returned, HeldBy
  <1> QED
    BY <1>4, <1>5

\* Nothing changes but where it is, and what it knows of its addresses.
LEMMA Moving ==
    ASSUME Skt!IInv, NEW t \in Threads, NEW p \in Skt!Place, pc' = [pc EXCEPT ![t] = p],
           p.socket = pc[t].socket, p.at \in Skt!Connecting <=> pc[t].at \in Skt!Connecting,
           p.at \in Skt!Looking => pc[t].at \in Skt!Looking, p.at = "resolve" => net.resolver = 2,
           net' \in Skt!Resolver, net'.resolver = net.resolver, net'.found = net.found, UNCHANGED own,
           env' \in Skt!World, env'.open = env.open, env'.given = env.given, env'.made = env.made, ~env'.unready,
           \A u \in env'.lists : IF u = t THEN p.at \in {"next"} \cup Skt!Connecting ELSE u \in env.lists
    PROVE  Skt!IInv'
  <1>1. Skt!OneLooks /\ ListsKept /\ own \in Skt!Manager /\ pc \in [Threads -> Skt!Place]
    BY SocketsAre
  <1>2. pc' \in [Threads -> Skt!Place] /\ pc'[t] = p /\ \A u \in Threads : u # t => pc'[u] = pc[u]
    BY <1>1, Turns
  <1>3. Skt!OneHolder' /\ \A s : s \in env'.open <=> HeldBy(s, pc', env'.given, own'.listener)
    BY HoldersKept
  <1>4. Skt!OneLooks'
    BY <1>1, <1>2 DEF Skt!OneLooks, Skt!Looking
  <1>5. ListsKept'
    BY <1>1, <1>2 DEF ListsKept
  <1> QED
    BY <1>1, <1>2, <1>3, <1>4, <1>5, SocketsWere

\* The look for the resolver: one thread claims it, and publishes what it has found.
LEMMA LooksUp ==
    ASSUME Skt!IInv, NEW t \in Threads, Skt!Claim(t) \/ Skt!Look(t) \/ Skt!Publish(t)
    PROVE  Skt!IInv'
  <1>1. /\ Skt!OneLooks /\ ListsKept /\ own \in Skt!Manager /\ pc \in [Threads -> Skt!Place] /\ net \in Skt!Resolver
        /\ env \in Skt!World /\ ~env.unready /\ UNCHANGED <<own, env>> /\ Skt!OneHolder
    BY SocketsAre DEF Skt!Claim, Skt!Look, Skt!Publish
  <1>2. pc[t] \in Skt!Place /\ (pc[t].socket # 0 <=> pc[t].at \in Skt!Connecting)
    BY <1>1 DEF Skt!OneHolder, Skt!Connecting
  <1>3. Skt!Home \in Skt!Place
    BY DEF Skt!Home, Skt!Place, Skt!Stages
  <1>4. PICK p \in Skt!Place : /\ pc' = [pc EXCEPT ![t] = p] /\ p.socket = pc[t].socket
                               /\ (p.at \in Skt!Connecting <=> pc[t].at \in Skt!Connecting)
                               /\ Skt!Claim(t) => p.at = "look"
                               /\ Skt!Look(t) => p.at = "publish"
                               /\ Skt!Publish(t) => p.at = IF net.found THEN "resolve" ELSE "home"
                               /\ pc[t].at \notin {"next"} \cup Skt!Connecting
    <2>1. CASE Skt!Claim(t)
      <3>1. pc[t].at = "ensure" /\ pc' = [pc EXCEPT ![t] = [pc[t] EXCEPT !.at = "look"]]
        BY <1>1, <2>1 DEF Skt!Claim, Skt!Moves
      <3>2. [pc[t] EXCEPT !.at = "look"] \in Skt!Place
        BY <1>2 DEF Skt!Place, Skt!Stages
      <3> QED
        BY <1>2, <2>1, <3>1, <3>2 DEF Skt!Place, Skt!Connecting, Skt!Claim, Skt!Look, Skt!Publish
    <2>2. CASE Skt!Look(t)
      <3>1. pc[t].at = "look" /\ pc' = [pc EXCEPT ![t] = [pc[t] EXCEPT !.at = "publish"]]
        BY <1>1, <2>2 DEF Skt!Look, Skt!Moves
      <3>2. [pc[t] EXCEPT !.at = "publish"] \in Skt!Place
        BY <1>2 DEF Skt!Place, Skt!Stages
      <3> QED
        BY <1>2, <2>2, <3>1, <3>2 DEF Skt!Place, Skt!Connecting, Skt!Claim, Skt!Look, Skt!Publish
    <2>3. CASE Skt!Publish(t)
      <3>1. /\ pc[t].at = "publish"
            /\ net.found => pc' = [pc EXCEPT ![t] = [pc[t] EXCEPT !.at = "resolve"]]
            /\ ~net.found => pc' = [pc EXCEPT ![t] = Skt!Home]
        BY <1>1, <2>3 DEF Skt!Publish, Skt!Moves, Skt!Leaves
      <3>2. [pc[t] EXCEPT !.at = "resolve"] \in Skt!Place
        BY <1>2 DEF Skt!Place, Skt!Stages
      <3>3. pc[t].socket = 0 /\ Skt!Home.socket = 0 /\ Skt!Home.at = "home"
        BY <1>2, <3>1 DEF Skt!Connecting, Skt!Home
      <3>4. CASE net.found
        BY <1>2, <2>3, <3>1, <3>2, <3>4 DEF Skt!Place, Skt!Connecting, Skt!Claim, Skt!Look, Skt!Publish
      <3>5. CASE ~net.found
        BY <1>2, <1>3, <2>3, <3>1, <3>3, <3>5 DEF Skt!Place, Skt!Connecting, Skt!Claim, Skt!Look, Skt!Publish
      <3> QED
        BY <3>4, <3>5
    <2> QED
      BY <2>1, <2>2, <2>3
  <1>5. pc' \in [Threads -> Skt!Place] /\ pc'[t] = p /\ \A u \in Threads : u # t => pc'[u] = pc[u]
    BY <1>1, <1>4, Turns
  <1>6. Skt!OneHolder' /\ \A s : s \in env'.open <=> HeldBy(s, pc', env'.given, own'.listener)
    BY <1>1, <1>4, HoldersKept
  <1>7. ListsKept'
    BY <1>1, <1>4, <1>5 DEF ListsKept
  <1>8. net' \in Skt!Resolver /\ Skt!OneLooks'
    <2>1. CASE Skt!Claim(t)
      <3>1. net.resolver = 0 /\ net' = [net EXCEPT !.resolver = 1] /\ p.at = "look"
        BY <1>4, <2>1 DEF Skt!Claim
      <3>2. net' \in Skt!Resolver /\ net'.resolver = 1
        BY <1>1, <3>1 DEF Skt!Resolver
      <3>3. \A u \in Threads : pc[u].at \notin Skt!Looking \cup {"resolve"}
        BY <1>1, <3>1 DEF Skt!OneLooks, Skt!Looking
      <3> QED
        BY <1>5, <3>1, <3>2, <3>3 DEF Skt!OneLooks, Skt!Looking
    <2>2. CASE Skt!Look(t)
      <3>1. pc[t].at = "look" /\ p.at = "publish" /\ \E found \in BOOLEAN : net' = [net EXCEPT !.found = found]
        BY <1>4, <2>2 DEF Skt!Look
      <3>2. net' \in Skt!Resolver /\ net'.resolver = net.resolver
        BY <1>1, <3>1 DEF Skt!Resolver
      <3>3. net.resolver = 1 /\ \A u \in Threads : pc[u].at \in Skt!Looking => u = t
        BY <1>1, <3>1 DEF Skt!OneLooks, Skt!Looking
      <3>4. \A u \in Threads : pc[u].at # "resolve"
        BY <1>1, <3>3 DEF Skt!OneLooks
      <3> QED
        BY <1>5, <3>1, <3>2, <3>3, <3>4 DEF Skt!OneLooks, Skt!Looking
    <2>3. CASE Skt!Publish(t)
      <3>1. /\ pc[t].at = "publish" /\ p.at = IF net.found THEN "resolve" ELSE "home"
            /\ net' = [net EXCEPT !.resolver = IF net.found THEN 2 ELSE -1]
        BY <1>4, <2>3 DEF Skt!Publish
      <3>2. net' \in Skt!Resolver /\ net'.resolver = (IF net.found THEN 2 ELSE -1) /\ net'.found = net.found
        BY <1>1, <3>1 DEF Skt!Resolver
      <3>3. net.resolver = 1 /\ \A u \in Threads : pc[u].at \in Skt!Looking => u = t
        BY <1>1, <3>1 DEF Skt!OneLooks, Skt!Looking
      <3>4. \A u \in Threads : pc[u].at # "resolve"
        BY <1>1, <3>3 DEF Skt!OneLooks
      <3>5. \A u \in Threads : pc'[u].at \notin Skt!Looking
        BY <1>5, <3>1, <3>3 DEF Skt!Looking
      <3>6. \A u \in Threads : pc'[u].at = "resolve" => net.found
        BY <1>5, <3>1, <3>4
      <3> QED
        BY <3>2, <3>5, <3>6 DEF Skt!OneLooks, Skt!Looking
    <2> QED
      BY <2>1, <2>2, <2>3
  <1> QED
    BY <1>1, <1>5, <1>6, <1>7, <1>8, SocketsWere

\* Windows' sockets are started once, which nothing else depends on.
LEMMA StartedIs ==
    ASSUME net \in Skt!Resolver, Skt!Started
    PROVE  net' \in Skt!Resolver /\ net'.resolver = net.resolver /\ net'.found = net.found
  BY DEF Skt!Started, Skt!Resolver

\* A new socket, and one that is closed.
LEMMA OpenedIs ==
    ASSUME env \in Skt!World, NEW e, e = Skt!Opened
    PROVE  /\ e \in Skt!World /\ e.open = env.open \cup {env.made + 1} /\ e.made = env.made + 1
           /\ e.given = env.given /\ e.lists = env.lists /\ e.unready = env.unready
  <1>1. env.made + 1 \in Nat /\ env.open \cup {env.made + 1} \in SUBSET Nat
    BY DEF Skt!World
  <1>2. e = [env EXCEPT !.open = env.open \cup {env.made + 1}, !.made = env.made + 1]
    BY DEF Skt!Opened, Skt!NewSocket, Skt!World
  <1> QED
    BY <1>1, <1>2 DEF Skt!World

\* A socket that is closed is open no longer, and nothing else changes.
LEMMA ClosedIs ==
    ASSUME NEW w \in Skt!World, NEW s, NEW e, e = Skt!Closed(w, s)
    PROVE  /\ e \in Skt!World /\ e.open = w.open \ {s}
           /\ e.made = w.made /\ e.given = w.given /\ e.lists = w.lists /\ e.unready = w.unready
  BY DEF Skt!Closed, Skt!World

\* The steps of a thread that neither open nor close a socket.
LEMMA Moves ==
    ASSUME ClientAssumption, Skt!IInv, NEW t \in Threads,
           \/ Skt!Enter(t) \/ Skt!PassEnsure(t) \/ Skt!Resolve(t)
           \/ /\ Skt!NextAddress(t) /\ pc'[t].socket = pc[t].socket
           \/ /\ Skt!SetMode(t) /\ Skt!Moves(t, "connect") /\ UNCHANGED env
           \/ /\ Skt!Connect(t) /\ Skt!Moves(t, "select") /\ UNCHANGED env
    PROVE  Skt!IInv'
  <1>1. /\ net \in Skt!Resolver /\ own \in Skt!Manager /\ env \in Skt!World /\ pc \in [Threads -> Skt!Place]
        /\ Skt!OneLooks /\ Skt!OneHolder /\ ~env.unready /\ ListsKept
    BY SocketsAre
  <1>2. pc[t] \in Skt!Place /\ (pc[t].socket # 0 <=> pc[t].at \in Skt!Connecting)
    BY <1>1 DEF Skt!OneHolder
  <1>3. /\ Skt!Home \in Skt!Place /\ Skt!Home.at = "home" /\ Skt!Home.socket = 0
        /\ \A way \in {"limit", "blocking"} :
             LET h == [Skt!Home EXCEPT !.at = "ensure", !.way = way]
             IN  h \in Skt!Place /\ h.at = "ensure" /\ h.socket = 0
    BY DEF Skt!Home, Skt!Place, Skt!Stages
  <1>4. \A at \in Skt!Stages : LET p == [pc[t] EXCEPT !.at = at]
                               IN  p \in Skt!Place /\ p.at = at /\ p.socket = pc[t].socket
    BY <1>2 DEF Skt!Place
  <1>5. \A u \in env.lists : u \in Threads /\ (u = t => pc[t].at \in {"next"} \cup Skt!Connecting)
    BY <1>1 DEF ListsKept, Skt!World
  <1>6. CASE Skt!Enter(t)
    <2>1. pc[t].at = "home" /\ Skt!Started /\ UNCHANGED <<own, env>>
      BY <1>6 DEF Skt!Enter
    <2>2. PICK way \in {"limit", "blocking"} : pc' = [pc EXCEPT ![t] = [Skt!Home EXCEPT !.at = "ensure", !.way = way]]
      BY <1>6 DEF Skt!Enter
    <2>3. PICK p \in Skt!Place : pc' = [pc EXCEPT ![t] = p] /\ p.at = "ensure" /\ p.socket = 0
      BY <1>3, <2>2
    <2>4. pc[t].socket = 0 /\ t \notin env.lists
      BY <1>2, <1>5, <2>1 DEF Skt!Connecting
    <2>5. net' \in Skt!Resolver /\ net'.resolver = net.resolver /\ net'.found = net.found
      BY <1>1, <2>1, StartedIs
    <2> QED
      BY <1>1, <2>1, <2>3, <2>4, <2>5, Moving DEF Skt!Connecting, Skt!Looking
  <1>7. CASE Skt!PassEnsure(t)
    <2>1. pc[t].at = "ensure" /\ net.resolver \in {2, -1} /\ UNCHANGED <<net, own, env>>
      BY <1>7 DEF Skt!PassEnsure
    <2>2. pc[t].socket = 0 /\ t \notin env.lists
      BY <1>2, <1>5, <2>1 DEF Skt!Connecting
    <2>3. PICK p \in Skt!Place : /\ pc' = [pc EXCEPT ![t] = p] /\ p.socket = 0
                                 /\ p.at \in {"home", "resolve"} /\ (p.at = "resolve" => net.resolver = 2)
      <3>1. CASE net.resolver = 2
        <4>1. pc' = [pc EXCEPT ![t] = [pc[t] EXCEPT !.at = "resolve"]] /\ "resolve" \in Skt!Stages
          BY <1>1, <1>7, <3>1 DEF Skt!PassEnsure, Skt!Moves, Skt!Stages
        <4> QED
          BY <1>4, <2>2, <3>1, <4>1
      <3>2. CASE net.resolver # 2
        <4>1. pc' = [pc EXCEPT ![t] = Skt!Home]
          BY <1>7, <3>2 DEF Skt!PassEnsure, Skt!Leaves
        <4> QED
          BY <1>3, <4>1
      <3> QED
        BY <3>1, <3>2
    <2> QED
      BY <1>1, <2>1, <2>2, <2>3, Moving DEF Skt!Connecting, Skt!Looking
  <1>8. CASE Skt!Resolve(t)
    <2>1. pc[t].at = "resolve" /\ UNCHANGED <<net, own>> /\ net.found
      BY <1>1, <1>8 DEF Skt!Resolve, Skt!OneLooks
    <2>2. pc[t].socket = 0 /\ t \notin env.lists
      BY <1>2, <1>5, <2>1 DEF Skt!Connecting
    <2>3. CASE Skt!Leaves(t) /\ env' = [env EXCEPT !.unready = @ \/ ~net.found]
      <3>1. pc' = [pc EXCEPT ![t] = Skt!Home]
        BY <2>3 DEF Skt!Leaves
      <3>2. env' = [env EXCEPT !.unready = FALSE]
        BY <1>1, <2>1, <2>3
      <3>3. /\ env' \in Skt!World /\ env'.open = env.open /\ env'.given = env.given /\ env'.made = env.made
            /\ ~env'.unready /\ env'.lists = env.lists
        BY <1>1, <3>2 DEF Skt!World
      <3> QED
        BY <1>1, <1>3, <2>1, <2>2, <3>1, <3>3, Moving DEF Skt!Connecting, Skt!Looking
    <2>4. CASE ~(Skt!Leaves(t) /\ env' = [env EXCEPT !.unready = @ \/ ~net.found])
      <3>1. PICK n \in 1 .. Addresses :
              /\ pc' = [pc EXCEPT ![t].at = "next", ![t].left = n]
              /\ env' = [env EXCEPT !.lists = @ \cup {t}, !.unready = @ \/ ~net.found]
        BY <1>8, <2>4 DEF Skt!Resolve
      <3>2. env' = [env EXCEPT !.lists = env.lists \cup {t}, !.unready = FALSE] /\ env.lists \cup {t} \in SUBSET Threads
        BY <1>1, <2>1, <3>1, <1>5
      <3>3. /\ env' \in Skt!World /\ env'.open = env.open /\ env'.given = env.given /\ env'.made = env.made
            /\ ~env'.unready /\ env'.lists = env.lists \cup {t}
        BY <1>1, <3>2 DEF Skt!World
      <3>4. n \in Nat
        BY DEF ClientAssumption
      <3>5. PICK p : p = [pc[t] EXCEPT !.at = "next", !.left = n]
        OBVIOUS
      <3>6. p \in Skt!Place /\ p.at = "next" /\ p.socket = 0
        BY <1>2, <2>2, <3>4, <3>5 DEF Skt!Place, Skt!Stages
      <3>7. pc' = [pc EXCEPT ![t] = p]
        BY <1>1, <3>1, <3>5
      <3>8. \A u \in env'.lists : IF u = t THEN p.at \in {"next"} \cup Skt!Connecting ELSE u \in env.lists
        BY <3>3, <3>6
      <3>9. p.socket = pc[t].socket /\ p.at \notin Skt!Connecting \cup Skt!Looking /\ p.at # "resolve" /\ pc[t].at \notin Skt!Connecting
        BY <2>1, <2>2, <3>6 DEF Skt!Connecting, Skt!Looking
      <3> QED
        BY <1>1, <2>1, <3>3, <3>6, <3>7, <3>8, <3>9, Moving
    <2> QED
      BY <2>3, <2>4
  <1>9. CASE Skt!NextAddress(t) /\ pc'[t].socket = pc[t].socket
    <2>1. pc[t].at = "next" /\ UNCHANGED <<net, own>> /\ pc[t].socket = 0 /\ pc[t].left \in Nat
      BY <1>2, <1>9 DEF Skt!NextAddress, Skt!Connecting, Skt!Place
    <2>2. CASE pc[t].left = 0 /\ Skt!Leaves(t) /\ env' = [env EXCEPT !.lists = @ \ {t}]
      <3>1. pc' = [pc EXCEPT ![t] = Skt!Home]
        BY <2>2 DEF Skt!Leaves
      <3>3. /\ env' \in Skt!World /\ env'.open = env.open /\ env'.given = env.given /\ env'.made = env.made
            /\ ~env'.unready /\ env'.lists = env.lists \ {t}
        BY <1>1, <2>2 DEF Skt!World
      <3> QED
        BY <1>1, <1>3, <2>1, <3>1, <3>3, Moving DEF Skt!Connecting, Skt!Looking
    <2>3. CASE pc[t].left > 0 /\ pc' = [pc EXCEPT ![t].left = @ - 1] /\ UNCHANGED env
      <3>1. PICK p : p = [pc[t] EXCEPT !.left = pc[t].left - 1]
        OBVIOUS
      <3>2. pc[t].left - 1 \in Nat
        BY <2>1, <2>3
      <3>3. p \in Skt!Place /\ p.at = "next" /\ p.socket = 0
        BY <1>2, <2>1, <3>1, <3>2 DEF Skt!Place
      <3>4. pc' = [pc EXCEPT ![t] = p]
        BY <1>1, <2>3, <3>1
      <3>8. \A u \in env'.lists : IF u = t THEN p.at \in {"next"} \cup Skt!Connecting ELSE u \in env.lists
        BY <2>3, <3>3
      <3>9. p.socket = pc[t].socket /\ p.at \notin Skt!Connecting \cup Skt!Looking /\ p.at # "resolve" /\ pc[t].at \notin Skt!Connecting
        BY <2>1, <3>3 DEF Skt!Connecting, Skt!Looking
      <3> QED
        BY <1>1, <2>1, <2>3, <3>3, <3>4, <3>8, <3>9, Moving
    <2>4. CASE pc' = [pc EXCEPT ![t] = [@ EXCEPT !.left = pc[t].left - 1, !.socket = env.made + 1, !.at = "mode"]]
      <3>1. pc'[t].socket = env.made + 1
        BY <1>1, <1>2, <2>4 DEF Skt!Place
      <3>2. env.made \in Nat
        BY <1>1 DEF Skt!World
      <3>3. env.made + 1 # 0
        BY <3>2
      <3> QED
        BY <1>9, <2>1, <3>1, <3>2, <3>3
    <2> QED
      <3>1. \/ pc[t].left = 0 /\ Skt!Leaves(t) /\ env' = [env EXCEPT !.lists = @ \ {t}]
            \/ pc[t].left > 0 /\ pc' = [pc EXCEPT ![t].left = @ - 1] /\ UNCHANGED env
            \/ pc' = [pc EXCEPT ![t] = [@ EXCEPT !.left = pc[t].left - 1, !.socket = env.made + 1, !.at = "mode"]]
        BY <1>9 DEF Skt!NextAddress, Skt!NewSocket
      <3> QED
        BY <2>2, <2>3, <2>4, <3>1
  <1>10. CASE Skt!SetMode(t) /\ Skt!Moves(t, "connect") /\ UNCHANGED env
    <2>1. pc[t].at = "mode" /\ UNCHANGED <<net, own>>
      BY <1>10 DEF Skt!SetMode
    <2>2. pc' = [pc EXCEPT ![t] = [pc[t] EXCEPT !.at = "connect"]] /\ "connect" \in Skt!Stages
      BY <1>1, <1>10 DEF Skt!Moves, Skt!Stages
    <2>3. PICK p \in Skt!Place : pc' = [pc EXCEPT ![t] = p] /\ p.at = "connect" /\ p.socket = pc[t].socket
      BY <1>4, <2>2
    <2> QED
      BY <1>1, <1>5, <1>10, <2>1, <2>3, Moving DEF Skt!Connecting, Skt!Looking
  <1>11. CASE Skt!Connect(t) /\ Skt!Moves(t, "select") /\ UNCHANGED env
    <2>1. pc[t].at = "connect" /\ UNCHANGED <<net, own>>
      BY <1>11 DEF Skt!Connect
    <2>2. pc' = [pc EXCEPT ![t] = [pc[t] EXCEPT !.at = "select"]] /\ "select" \in Skt!Stages
      BY <1>1, <1>11 DEF Skt!Moves, Skt!Stages
    <2>3. PICK p \in Skt!Place : pc' = [pc EXCEPT ![t] = p] /\ p.at = "select" /\ p.socket = pc[t].socket
      BY <1>4, <2>2
    <2> QED
      BY <1>1, <1>5, <1>11, <2>1, <2>3, Moving DEF Skt!Connecting, Skt!Looking
  <1> QED
    BY <1>6, <1>7, <1>8, <1>9, <1>10, <1>11

\* A thread that opens a socket holds it: it is none of those made before.
LEMMA Opens ==
    ASSUME Skt!IInv, NEW t \in Threads, Skt!NextAddress(t), pc'[t].socket # pc[t].socket
    PROVE  Skt!IInv'
  <1>1. /\ net \in Skt!Resolver /\ own \in Skt!Manager /\ env \in Skt!World /\ pc \in [Threads -> Skt!Place]
        /\ Skt!OneLooks /\ Skt!OneHolder /\ ~env.unready /\ ListsKept /\ Returned
    BY SocketsAre
  <1>2. /\ pc[t] \in Skt!Place /\ pc[t].at = "next" /\ pc[t].socket = 0 /\ UNCHANGED <<net, own>> /\ pc[t].left \in Nat
    BY <1>1 DEF Skt!OneHolder, Skt!NextAddress, Skt!Connecting, Skt!Place
  <1> DEFINE n == env.made + 1
  <1>3. env.made \in Nat /\ n \in Nat /\ n # 0 /\ env.made < n
    BY <1>1 DEF Skt!World
  <1>4. /\ pc[t].left > 0 /\ env' = Skt!Opened
        /\ pc' = [pc EXCEPT ![t] = [@ EXCEPT !.left = pc[t].left - 1, !.socket = n, !.at = "mode"]]
    <2>1. CASE pc[t].left = 0 /\ Skt!Leaves(t)
      <3>1. pc'[t].socket = 0
        BY <1>1, <2>1 DEF Skt!Leaves, Skt!Home
      <3> QED
        BY <1>2, <3>1
    <2>2. CASE pc' = [pc EXCEPT ![t].left = @ - 1]
      <3>1. pc'[t].socket = pc[t].socket
        BY <1>1, <2>2 DEF Skt!Place
      <3> QED
        BY <3>1
    <2>3. \/ pc[t].left = 0 /\ Skt!Leaves(t)
          \/ pc' = [pc EXCEPT ![t].left = @ - 1]
          \/ /\ pc[t].left > 0 /\ env' = Skt!Opened
             /\ pc' = [pc EXCEPT ![t] = [@ EXCEPT !.left = pc[t].left - 1, !.socket = n, !.at = "mode"]]
      BY DEF Skt!NextAddress, Skt!NewSocket
    <2> QED
      BY <2>1, <2>2, <2>3
  <1>5. /\ env' \in Skt!World /\ env'.open = env.open \cup {n} /\ env'.made = n
        /\ env'.given = env.given /\ env'.lists = env.lists /\ env'.unready = env.unready
    BY <1>1, <1>4, OpenedIs
  <1> HIDE DEF n
  <1>6. PICK p : p = [pc[t] EXCEPT !.left = pc[t].left - 1, !.socket = n, !.at = "mode"]
    OBVIOUS
  <1>7. pc[t].left - 1 \in Nat
    BY <1>2, <1>4
  <1>8. p \in Skt!Place /\ p.at = "mode" /\ p.socket = n
    BY <1>2, <1>3, <1>6, <1>7 DEF Skt!Place, Skt!Stages
  <1>16. pc' = [pc EXCEPT ![t] = p]
    BY <1>1, <1>4, <1>6
  <1>9. pc' \in [Threads -> Skt!Place] /\ pc'[t] = p /\ \A u \in Threads : u # t => pc'[u] = pc[u]
    BY <1>1, <1>8, <1>16, Turns
  <1>10. Skt!OneLooks'
    BY <1>1, <1>2, <1>8, <1>9 DEF Skt!OneLooks, Skt!Looking
  <1>11. ListsKept'
    BY <1>1, <1>5, <1>8, <1>9 DEF ListsKept, Skt!Connecting
  <1>12. /\ \A u \in Threads : pc[u].socket \in Nat /\ (pc[u].socket # 0 => pc[u].socket =< env.made)
         /\ env.given \subseteq 1 .. env.made /\ own.listener \in 0 .. env.made
    BY <1>1 DEF Skt!OneHolder, Skt!Place
  <1>13. n \notin env.given /\ n # own.listener /\ \A u \in Threads : pc[u].socket # n
    BY <1>3, <1>12
  <1>14. Skt!OneHolder'
    <2>1. \A u \in Threads : pc'[u].socket # 0 <=> pc'[u].at \in Skt!Connecting
      BY <1>1, <1>3, <1>8, <1>9 DEF Skt!OneHolder, Skt!Connecting
    <2>2. \A u \in Threads : pc'[u].socket # 0 => pc'[u].socket =< n
      BY <1>3, <1>8, <1>9, <1>12
    <2>3. \A u \in Threads : pc'[u].socket # 0 =>
            /\ pc'[u].socket \notin env.given \cup {own.listener}
            /\ \A v \in Threads : pc'[v].socket = pc'[u].socket => v = u
      BY <1>1, <1>8, <1>9, <1>13 DEF Skt!OneHolder
    <2>4. env.given \subseteq 1 .. n /\ own.listener \in 0 .. n
      BY <1>3, <1>12
    <2> QED
      BY <1>1, <1>2, <1>5, <2>1, <2>2, <2>3, <2>4 DEF Skt!OneHolder
  <1>15. \A s : s \in env'.open <=> HeldBy(s, pc', env'.given, own'.listener)
    BY <1>1, <1>2, <1>3, <1>5, <1>8, <1>9 DEF Returned, HeldBy
  <1> QED
    BY <1>1, <1>2, <1>5, <1>9, <1>10, <1>11, <1>14, <1>15, SocketsWere

\* A thread that lets its socket go closes it or hands it out.
LEMMA LetsGo ==
    ASSUME Skt!IInv, NEW t \in Threads, pc[t].at \in Skt!Connecting, UNCHANGED <<net, own>>,
           NEW p \in Skt!Place, pc' = [pc EXCEPT ![t] = p], p.socket = 0, p.at \in {"home", "next"},
           env' \in Skt!World, env'.made = env.made, env'.unready = env.unready,
           \/ env'.open = env.open \ {pc[t].socket} /\ env'.given = env.given
           \/ env'.open = env.open /\ env'.given = env.given \cup {pc[t].socket},
           env'.lists \subseteq env.lists, p.at = "home" => t \notin env'.lists
    PROVE  Skt!IInv'
  <1>1. /\ net \in Skt!Resolver /\ own \in Skt!Manager /\ env \in Skt!World /\ pc \in [Threads -> Skt!Place]
        /\ Skt!OneLooks /\ Skt!OneHolder /\ ~env.unready /\ ListsKept /\ Returned
    BY SocketsAre
  <1>2. pc' \in [Threads -> Skt!Place] /\ pc'[t] = p /\ \A u \in Threads : u # t => pc'[u] = pc[u]
    BY <1>1, Turns
  <1> DEFINE n == pc[t].socket
  <1>3. /\ n # 0 /\ n =< env.made /\ n \notin env.given /\ n # own.listener
        /\ \A u \in Threads : pc[u].socket = n => u = t
    BY <1>1 DEF Skt!OneHolder
  <1>4. n \in Nat /\ env.made \in Nat
    BY <1>1 DEF Skt!Place, Skt!World
  <1>5. n \in 1 .. env.made
    BY <1>3, <1>4
  <1> HIDE DEF n
  <1>6. Skt!OneLooks'
    BY <1>1, <1>2 DEF Skt!OneLooks, Skt!Looking
  <1>7. ListsKept'
    BY <1>1, <1>2 DEF ListsKept
  <1>8. env'.given \subseteq env.given \cup {n}
    BY DEF n
  <1>9. \A u \in Threads : pc'[u].socket # 0 => u # t /\ pc'[u].socket = pc[u].socket /\ pc[u].socket # n
    BY <1>2, <1>3
  <1>10. Skt!OneHolder'
    <2>1. \A u \in Threads : pc'[u].socket # 0 <=> pc'[u].at \in Skt!Connecting
      BY <1>1, <1>2 DEF Skt!OneHolder, Skt!Connecting
    <2>2. \A u \in Threads : pc'[u].socket # 0 =>
            /\ pc'[u].socket =< env'.made /\ pc'[u].socket \notin env'.given \cup {own.listener}
            /\ \A v \in Threads : pc'[v].socket = pc'[u].socket => v = u
      BY <1>1, <1>2, <1>8, <1>9 DEF Skt!OneHolder
    <2>3. env'.given \subseteq 1 .. env.made /\ own.listener \in (0 .. env.made) \ env'.given
      BY <1>1, <1>3, <1>5, <1>8 DEF Skt!OneHolder
    <2> QED
      BY <1>1, <2>1, <2>2, <2>3 DEF Skt!OneHolder
  <1>11. \A s : s \in env'.open <=> HeldBy(s, pc', env'.given, own'.listener)
    <2>1. CASE env'.open = env.open \ {n} /\ env'.given = env.given
      BY <1>1, <1>2, <1>3, <1>9, <2>1 DEF Returned, HeldBy
    <2>2. CASE env'.open = env.open /\ env'.given = env.given \cup {n}
      <3>1. \A s : HeldBy(s, pc', env'.given, own'.listener) => HeldBy(s, pc, env.given, own.listener)
        BY <1>2, <1>3, <1>9, <2>2 DEF HeldBy, n
      <3>2. \A s : HeldBy(s, pc, env.given, own.listener) => HeldBy(s, pc', env'.given, own'.listener)
        BY <1>2, <1>3, <2>2 DEF HeldBy, n
      <3> QED
        BY <1>1, <2>2, <3>1, <3>2 DEF Returned
    <2> QED
      BY <2>1, <2>2 DEF n
  <1> QED
    BY <1>1, <1>2, <1>6, <1>7, <1>10, <1>11, SocketsWere

\* The steps of a thread that let its socket go.
LEMMA Ends ==
    ASSUME Skt!IInv, NEW t \in Threads,
           \/ Skt!SetMode(t) /\ ~(Skt!Moves(t, "connect") /\ UNCHANGED env)
           \/ Skt!Connect(t) /\ ~(Skt!Moves(t, "select") /\ UNCHANGED env)
           \/ Skt!Select(t)
    PROVE  Skt!IInv'
  <1>1. /\ env \in Skt!World /\ pc \in [Threads -> Skt!Place] /\ pc[t] \in Skt!Place
    BY SocketsAre
  <1>2. pc[t].at \in Skt!Connecting /\ UNCHANGED <<net, own>>
    BY DEF Skt!SetMode, Skt!Connect, Skt!Select, Skt!Connecting
  <1>3. CASE Skt!GivesUp(t)
    <2>1. /\ env' \in Skt!World /\ env'.open = env.open \ {pc[t].socket}
          /\ env'.made = env.made /\ env'.given = env.given /\ env'.lists = env.lists /\ env'.unready = env.unready
      BY <1>1, <1>3, ClosedIs DEF Skt!GivesUp
    <2>2. PICK p : p = [pc[t] EXCEPT !.at = "next", !.socket = 0]
      OBVIOUS
    <2>3. p \in Skt!Place /\ p.at = "next" /\ p.socket = 0
      BY <1>1, <2>2 DEF Skt!Place, Skt!Stages
    <2>4. pc' = [pc EXCEPT ![t] = p]
      BY <1>1, <1>3, <2>2 DEF Skt!GivesUp
    <2> QED
      BY <1>2, <2>1, <2>3, <2>4, LetsGo
  <1>4. CASE Skt!Succeeds(t)
    <2>1. /\ env' \in Skt!World /\ env'.given = env.given \cup {pc[t].socket} /\ env'.lists = env.lists \ {t}
          /\ env'.made = env.made /\ env'.open = env.open /\ env'.unready = env.unready
      BY <1>1, <1>4 DEF Skt!Succeeds, Skt!World, Skt!Place
    <2>2. Skt!Home \in Skt!Place /\ Skt!Home.at = "home" /\ Skt!Home.socket = 0
      BY DEF Skt!Home, Skt!Place, Skt!Stages
    <2>3. pc' = [pc EXCEPT ![t] = Skt!Home]
      BY <1>4 DEF Skt!Succeeds, Skt!Leaves
    <2> QED
      BY <1>2, <2>1, <2>2, <2>3, LetsGo
  <1>5. Skt!GivesUp(t) \/ Skt!Succeeds(t)
    BY DEF Skt!SetMode, Skt!Connect, Skt!Select, Skt!GivesUp
  <1> QED
    BY <1>3, <1>4, <1>5

\* What the manager and its callers do leaves the threads where they are.
LEMMA ThreadsStay ==
    ASSUME Skt!IInv, UNCHANGED pc, net' \in Skt!Resolver, net'.resolver = net.resolver, net'.found = net.found,
           env'.lists = env.lists
    PROVE  Skt!OneLooks' /\ ListsKept'
  <1>1. Skt!OneLooks /\ ListsKept
    BY SocketsAre
  <1> QED
    BY <1>1 DEF Skt!OneLooks, ListsKept

\* A new socket is the listener or the caller's, or it is closed again.
LEMMA ManagerOpens ==
    ASSUME Skt!IInv, Skt!StartListener \/ Skt!MgrConnect \/ Skt!CreateUdpBound
    PROVE  Skt!IInv'
  <1>1. /\ net \in Skt!Resolver /\ own \in Skt!Manager /\ env \in Skt!World /\ pc \in [Threads -> Skt!Place]
        /\ Skt!OneHolder /\ ~env.unready /\ Returned /\ UNCHANGED pc
    BY SocketsAre DEF Skt!StartListener, Skt!MgrConnect, Skt!CreateUdpBound
  <1> DEFINE n == env.made + 1
  <1>2. n = Skt!NewSocket
    BY DEF Skt!NewSocket
  <1>3. env.made \in Nat /\ n \in Nat /\ n # 0 /\ env.made < n
    BY <1>1 DEF Skt!World
  <1>4. PICK e : e = Skt!Opened
    OBVIOUS
  <1>5. /\ e \in Skt!World /\ e.open = env.open \cup {n} /\ e.made = n
        /\ e.given = env.given /\ e.lists = env.lists /\ e.unready = env.unready
    BY <1>1, <1>4, OpenedIs
  <1> HIDE DEF n
  <1>6. /\ \A u \in Threads : pc[u].socket \in Nat /\ (pc[u].socket # 0 => pc[u].socket =< env.made)
        /\ env.given \subseteq 1 .. env.made /\ own.listener \in 0 .. env.made
    BY <1>1 DEF Skt!OneHolder, Skt!Place
  <1>7. n \notin env.given /\ n # own.listener /\ \A u \in Threads : pc[u].socket # n
    BY <1>3, <1>6
  <1>8. /\ \A u \in Threads : pc[u].socket # 0 => pc[u].socket =< n
        /\ env.given \subseteq 1 .. n /\ own.listener \in 0 .. n /\ n \in 1 .. n /\ n \in 0 .. n
    BY <1>3, <1>6
  <1>16. n \notin env.open
    BY <1>1, <1>3, <1>7 DEF Returned, HeldBy
  <1>9. net' \in Skt!Resolver /\ net'.resolver = net.resolver /\ net'.found = net.found
    BY <1>1, StartedIs DEF Skt!StartListener, Skt!MgrConnect, Skt!CreateUdpBound
  <1>10. CASE env' = Skt!Closed(e, n) /\ UNCHANGED own
    <2>1. /\ env' \in Skt!World /\ env'.open = e.open \ {n} /\ env'.made = n
          /\ env'.given = env.given /\ env'.lists = env.lists /\ env'.unready = env.unready
      BY <1>5, <1>10, ClosedIs
    <2>2. Skt!OneHolder'
      BY <1>1, <1>8, <1>10, <2>1 DEF Skt!OneHolder
    <2>3. env'.open = env.open
      BY <1>5, <1>16, <2>1
    <2>4. \A s : s \in env'.open <=> HeldBy(s, pc', env'.given, own'.listener)
      BY <1>1, <1>10, <2>1, <2>3 DEF Returned
    <2> QED
      BY <1>1, <1>9, <1>10, <2>1, <2>2, <2>4, ThreadsStay, SocketsWere
  <1>11. CASE env' = [e EXCEPT !.given = @ \cup {n}] /\ UNCHANGED own
    <2>1. env' = [e EXCEPT !.given = env.given \cup {n}] /\ env.given \cup {n} \in SUBSET Nat
      BY <1>1, <1>3, <1>5, <1>11 DEF Skt!World
    <2>2. /\ env' \in Skt!World /\ env'.open = env.open \cup {n} /\ env'.made = n
          /\ env'.given = env.given \cup {n} /\ env'.lists = env.lists /\ env'.unready = env.unready
      BY <1>5, <2>1 DEF Skt!World
    <2>3. Skt!OneHolder'
      BY <1>1, <1>7, <1>8, <1>11, <2>2 DEF Skt!OneHolder
    <2>4. \A s : s \in env'.open <=> HeldBy(s, pc', env'.given, own'.listener)
      BY <1>1, <1>3, <1>11, <2>2 DEF Returned, HeldBy
    <2> QED
      BY <1>1, <1>9, <1>11, <2>2, <2>3, <2>4, ThreadsStay, SocketsWere
  <1>12. CASE env' = e /\ own.initialized /\ ~own.running /\ own' = [own EXCEPT !.running = TRUE, !.listener = n]
    <2>1. own' \in Skt!Manager /\ own'.running /\ own'.listener = n /\ own'.initialized /\ own.listener = 0
      BY <1>1, <1>3, <1>12 DEF Skt!Manager, Skt!OneHolder
    <2>2. \A u \in Threads : pc[u].socket # 0 => pc[u].socket \notin env.given
      BY <1>1 DEF Skt!OneHolder
    <2>3. Skt!OneHolder'
      BY <1>1, <1>3, <1>5, <1>7, <1>8, <1>12, <2>1, <2>2 DEF Skt!OneHolder
    <2>4. \A s : s \in env'.open <=> HeldBy(s, pc', env'.given, own'.listener)
      BY <1>1, <1>3, <1>5, <1>12, <2>1 DEF Returned, HeldBy
    <2> QED
      BY <1>1, <1>5, <1>9, <1>12, <2>1, <2>3, <2>4, ThreadsStay, SocketsWere
  <1>13. CASE Skt!StartListener
    BY <1>2, <1>4, <1>10, <1>12, <1>13 DEF Skt!StartListener
  <1>14. CASE Skt!MgrConnect
    BY <1>2, <1>4, <1>10, <1>11, <1>14 DEF Skt!MgrConnect
  <1>15. CASE Skt!CreateUdpBound
    BY <1>2, <1>4, <1>10, <1>11, <1>15 DEF Skt!CreateUdpBound
  <1> QED
    BY <1>13, <1>14, <1>15

\* The manager begins without a listener, and stops and ends by closing the one it has.
LEMMA ManagerEnds ==
    ASSUME Skt!IInv, Skt!MgrInit \/ Skt!MgrStop \/ Skt!MgrDestroy
    PROVE  Skt!IInv'
  <1>1. /\ net \in Skt!Resolver /\ own \in Skt!Manager /\ env \in Skt!World /\ pc \in [Threads -> Skt!Place]
        /\ Skt!OneHolder /\ ~env.unready /\ Returned /\ UNCHANGED pc
    BY SocketsAre DEF Skt!MgrInit, Skt!MgrStop, Skt!MgrDestroy
  <1>2. own' \in Skt!Manager /\ ~own'.running /\ own'.listener = 0
    <2>1. CASE Skt!MgrInit
      BY <1>1, <2>1 DEF Skt!MgrInit, Skt!Manager
    <2>2. CASE Skt!MgrStop
      BY <1>1, <2>2 DEF Skt!MgrStop, Skt!Stopped, Skt!Manager
    <2>3. CASE Skt!MgrDestroy
      <3>1. PICK o : o = Skt!Stopped(own)
        OBVIOUS
      <3>2. o \in Skt!Manager /\ ~o.running /\ o.listener = 0
        BY <1>1, <3>1 DEF Skt!Stopped, Skt!Manager
      <3>3. own' = [o EXCEPT !.initialized = FALSE, !.raknet = FALSE]
        BY <2>3, <3>1 DEF Skt!MgrDestroy
      <3> QED
        BY <3>2, <3>3 DEF Skt!Manager
    <2> QED
      BY <2>1, <2>2, <2>3
  <1>3. net' \in Skt!Resolver /\ net'.resolver = net.resolver /\ net'.found = net.found
    BY <1>1, StartedIs DEF Skt!MgrInit, Skt!MgrStop, Skt!MgrDestroy
  <1>4. /\ env' \in Skt!World /\ env'.open = env.open \ {own.listener}
        /\ env'.made = env.made /\ env'.given = env.given /\ env'.lists = env.lists /\ env'.unready = env.unready
    <2>1. CASE Skt!MgrInit
      <3>1. UNCHANGED env /\ own.listener = 0
        BY <1>1, <2>1 DEF Skt!MgrInit, Skt!OneHolder
      <3>2. 0 \notin env.open
        BY <1>1 DEF Returned, HeldBy
      <3> QED
        BY <1>1, <3>1, <3>2
    <2>2. CASE Skt!MgrStop \/ Skt!MgrDestroy
      BY <1>1, <2>2, ClosedIs DEF Skt!MgrStop, Skt!MgrDestroy
    <2> QED
      BY <2>1, <2>2
  <1>5. env.made \in Nat /\ 0 \in 0 .. env.made /\ 0 \notin env.given
    <2>1. env.made \in Nat /\ env.given \subseteq 1 .. env.made
      BY <1>1 DEF Skt!World, Skt!OneHolder
    <2> QED
      BY <2>1
  <1>6. Skt!OneHolder'
    BY <1>1, <1>2, <1>4, <1>5 DEF Skt!OneHolder
  <1>7. own.listener # 0 => own.listener \notin env.given /\ \A u \in Threads : pc[u].socket # own.listener
    BY <1>1 DEF Skt!OneHolder
  <1>8. \A s : s \in env'.open <=> HeldBy(s, pc', env'.given, own'.listener)
    BY <1>1, <1>2, <1>4, <1>7 DEF Returned, HeldBy
  <1> QED
    BY <1>1, <1>2, <1>3, <1>4, <1>6, <1>8, ThreadsStay, SocketsWere

\* Whoever was given a socket closes it.
LEMMA CallerCloses ==
    ASSUME Skt!IInv, Skt!CloseGiven
    PROVE  Skt!IInv'
  <1>1. /\ net \in Skt!Resolver /\ own \in Skt!Manager /\ env \in Skt!World /\ pc \in [Threads -> Skt!Place]
        /\ Skt!OneHolder /\ ~env.unready /\ Returned /\ UNCHANGED <<net, own, pc>>
    BY SocketsAre DEF Skt!CloseGiven
  <1>2. PICK s \in env.given : env' = [Skt!Closed(env, s) EXCEPT !.given = @ \ {s}]
    BY DEF Skt!CloseGiven
  <1>3. PICK e : e = Skt!Closed(env, s)
    OBVIOUS
  <1>4. /\ e \in Skt!World /\ e.open = env.open \ {s}
        /\ e.made = env.made /\ e.given = env.given /\ e.lists = env.lists /\ e.unready = env.unready
    BY <1>1, <1>3, ClosedIs
  <1>5. /\ env' \in Skt!World /\ env'.open = env.open \ {s} /\ env'.given = env.given \ {s}
        /\ env'.made = env.made /\ env'.lists = env.lists /\ env'.unready = env.unready
    BY <1>2, <1>3, <1>4 DEF Skt!World
  <1>6. s # own.listener /\ \A u \in Threads : pc[u].socket # 0 => pc[u].socket # s
    BY <1>1 DEF Skt!OneHolder
  <1>7. Skt!OneHolder'
    BY <1>1, <1>5 DEF Skt!OneHolder
  <1>8. \A x : x \in env'.open <=> HeldBy(x, pc', env'.given, own'.listener)
    BY <1>1, <1>5, <1>6 DEF Returned, HeldBy
  <1> QED
    BY <1>1, <1>5, <1>7, <1>8, ThreadsStay, SocketsWere

\* It holds at first.
LEMMA SocketsInit ==
    ASSUME Skt!Init PROVE Skt!IInv
  <1>1. /\ net = [resolver |-> 0, found |-> FALSE, started |-> FALSE]
        /\ own = [initialized |-> FALSE, running |-> FALSE, listener |-> 0, raknet |-> FALSE]
        /\ env = [open |-> {}, given |-> {}, lists |-> {}, made |-> 0, unready |-> FALSE]
        /\ pc = [t \in Threads |-> [at |-> "home", socket |-> 0, left |-> 0, way |-> "none"]]
    BY DEF Skt!Init, Skt!Home
  <1>2. Skt!Fields
    BY <1>1 DEF Skt!Fields, Skt!Resolver, Skt!Manager, Skt!World, Skt!Place, Skt!Stages
  <1>3. \A t \in Threads : pc[t].at = "home" /\ pc[t].socket = 0
    BY <1>1
  <1>4. Skt!OneLooks
    BY <1>1, <1>3 DEF Skt!OneLooks, Skt!Looking
  <1>5. Skt!OneHolder
    BY <1>1, <1>3 DEF Skt!OneHolder, Skt!Connecting
  <1>6. Skt!SocketsReturn /\ Skt!ResolverIsReady
    BY <1>1, <1>3 DEF Skt!SocketsReturn, Skt!ResolverIsReady
  <1> QED
    BY <1>2, <1>4, <1>5, <1>6 DEF Skt!IInv

\* Every step of Sockets keeps it.
LEMMA SocketsStep ==
    ASSUME ClientAssumption, Skt!IInv, Skt!Next PROVE Skt!IInv'
  <1>1. ASSUME NEW t \in Threads,
               \/ Skt!Enter(t) \/ Skt!Claim(t) \/ Skt!Look(t) \/ Skt!Publish(t) \/ Skt!PassEnsure(t) \/ Skt!Resolve(t)
               \/ Skt!NextAddress(t) \/ Skt!SetMode(t) \/ Skt!Connect(t) \/ Skt!Select(t)
        PROVE  Skt!IInv'
    <2>1. CASE Skt!NextAddress(t)
      BY <2>1, Moves, Opens
    <2>2. CASE Skt!SetMode(t)
      BY <2>2, Moves, Ends
    <2>3. CASE Skt!Connect(t)
      BY <2>3, Moves, Ends
    <2>4. CASE Skt!Enter(t) \/ Skt!PassEnsure(t) \/ Skt!Resolve(t)
      BY <2>4, Moves
    <2>5. CASE Skt!Claim(t) \/ Skt!Look(t) \/ Skt!Publish(t)
      BY <2>5, LooksUp
    <2>6. CASE Skt!Select(t)
      BY <2>6, Ends
    <2> QED
      BY <1>1, <2>1, <2>2, <2>3, <2>4, <2>5, <2>6
  <1> QED
    BY <1>1, ManagerOpens, ManagerEnds, CallerCloses DEF Skt!Next

SocketsInv == part = "sockets" => Skt!IInv

\* The inductive invariant of Sockets, for any number of threads, addresses and sockets.
THEOREM SocketsInvariant == Spec => []SocketsInv
  <1>1. Init => SocketsInv
    BY SocketsInit DEF Init, SocketsInv
  <1>2. SocketsInv /\ [Next]_vars => SocketsInv'
    <2> SUFFICES ASSUME SocketsInv, [Next]_vars, part' = "sockets" PROVE Skt!IInv'
      BY DEF SocketsInv
    <2>1. CASE UNCHANGED vars
      <3>1. Skt!IInv /\ UNCHANGED <<net, own, env, pc>>
        BY <2>1 DEF vars, SocketsInv
      <3> QED
        BY <3>1 DEF Skt!IInv, Skt!Fields, Skt!OneLooks, Skt!OneHolder, Skt!ResolverIsReady, Skt!SocketsReturn
    <2>2. CASE Next
      <3>1. Skt!IInv /\ Skt!Next
        BY <2>2 DEF Next, SocketsInv
      <3> QED
        BY <3>1, SocketsStep, ClientAssumption
    <2> QED
      BY <2>1, <2>2
  <1> QED
    BY <1>1, <1>2, PTL DEF Spec

-----------------------------------------------------------------------------
(* Launch. *)

\* The loader goes on, the threads stay.
LEMMA LoaderGoes ==
    ASSUME pc \in Lch!Places, NEW l, l \in Lch!Attaching \cup {"out", "ready", "terminated", "join", "uninstall", "shutdown"},
           pc' = [pc EXCEPT !.loader = l]
    PROVE  /\ pc' \in Lch!Places /\ pc'.loader = l /\ pc'.monitor = pc.monitor /\ pc'.game = pc.game
           /\ \A t \in Lch!Runners : pc'[t] = pc[t]
  BY DEF Lch!Places, Lch!Runners

\* A thread goes on, the loader and the other one stay.
LEMMA RunnerGoes ==
    ASSUME pc \in Lch!Places, NEW t \in Lch!Runners, NEW to, Lch!Goes(t, to),
           to \in {"stuff", "load", "look", "make"} \/ to = Lch!Rest(t)
             \/ (t = "monitor" /\ to \in {"wait", "check", "start", "tick", "done"})
    PROVE  /\ pc' \in Lch!Places /\ pc'.loader = pc.loader /\ pc'[t] = to
           /\ \A u \in Lch!Runners : u # t => pc'[u] = pc[u]
           /\ t = "monitor" => pc'.game = pc.game /\ pc'.monitor = to
           /\ t = "game" => pc'.monitor = pc.monitor /\ pc'.game = to
  <1>1. CASE t = "monitor"
    <2>1. pc' = [pc EXCEPT !.monitor = to]
      BY <1>1 DEF Lch!Goes
    <2> QED
      BY <1>1, <2>1 DEF Lch!Places, Lch!Runners, Lch!Rest
  <1>2. CASE t = "game"
    <2>1. pc' = [pc EXCEPT !.game = to]
      BY <1>2 DEF Lch!Goes
    <2> QED
      BY <1>2, <2>1 DEF Lch!Places, Lch!Runners, Lch!Rest
  <1> QED
    BY <1>1, <1>2 DEF Lch!Runners

\* The guard and the managers while the loader goes on.
LEMMA GuardStays ==
    ASSUME Lch!GuardHeld, UNCHANGED net, pc.loader # "out" \/ pc'.loader = "out",
           \A t \in Lch!Runners : pc'[t] = pc[t]
    PROVE  Lch!GuardHeld'
  BY DEF Lch!GuardHeld

\* A phase of process_attach: it has got something, and goes on to the next.
LEMMA Attaches ==
    ASSUME Lch!IInv, pc.loader \in Lch!Attaching, NEW phase \in 0 .. 7, NEW got \in SUBSET Lch!Things,
           NEW next \in Lch!Attaching, Lch!Enters(phase, got, next)
    PROVE  /\ Lch!Fields' /\ Lch!ThreadsOut' /\ (env'.drive => Lch!GuardHeld')
           /\ pc'.loader = next /\ own'.held = own.held \cup got /\ own'.phase = phase /\ ~own'.late
  <1>1. /\ net \in Lch!Network /\ own \in Lch!Library /\ env \in Lch!Options /\ pc \in Lch!Places
        /\ Lch!ThreadsOut /\ UNCHANGED <<net, env>> /\ (env.drive => Lch!GuardHeld)
    BY DEF Lch!IInv, Lch!Fields, Lch!Enters
  <1>2. ~own.late /\ pc.monitor = "none" /\ pc.game = "out"
    BY <1>1 DEF Lch!ThreadsOut, Lch!Attaching, Lch!Library
  <1>3. own' = [own EXCEPT !.phase = phase, !.held = own.held \cup got] /\ pc' = [pc EXCEPT !.loader = next]
    BY DEF Lch!Enters
  <1>4. own.held \cup got \in SUBSET Lch!Things
    BY <1>1 DEF Lch!Library
  <1>5. /\ own' \in Lch!Library /\ own'.held = own.held \cup got /\ own'.phase = phase /\ ~own'.late
    BY <1>1, <1>2, <1>3, <1>4 DEF Lch!Library
  <1>6. /\ pc' \in Lch!Places /\ pc'.loader = next /\ pc'.monitor = "none" /\ pc'.game = "out"
        /\ \A t \in Lch!Runners : pc'[t] = pc[t]
    BY <1>1, <1>2, <1>3, LoaderGoes
  <1>7. env'.drive => Lch!GuardHeld'
    BY <1>1, <1>6, GuardStays DEF Lch!Attaching
  <1>8. Lch!ThreadsOut'
    BY <1>5, <1>6 DEF Lch!ThreadsOut, Lch!Attaching
  <1> QED
    BY <1>1, <1>5, <1>6, <1>7, <1>8 DEF Lch!Fields

\* A phase that fails frees everything the phases before it have got.
LEMMA RollsBack ==
    ASSUME Lch!IInv, pc.loader \in {"settings", "configure", "bootstrap", "network", "monitor"}, Lch!Fails
    PROVE  Lch!IInv'
  <1>1. /\ net \in Lch!Network /\ own \in Lch!Library /\ env \in Lch!Options /\ pc \in Lch!Places
        /\ Lch!ThreadsOut /\ Lch!HeldByPhase /\ UNCHANGED <<net, env>> /\ (env.drive => Lch!GuardHeld)
    BY DEF Lch!IInv, Lch!Fields, Lch!Fails
  <1>2. ~own.late /\ pc.monitor = "none" /\ pc.game = "out" /\ own.phase \in 0 .. 7
    BY <1>1 DEF Lch!ThreadsOut, Lch!Attaching, Lch!Library
  <1> DEFINE freed == Lch!Hooks \cup Lch!Modules \cup {"time", "wanted"}
                        \cup (IF own.phase >= 5 THEN {"network"} ELSE {})
                        \cup (IF own.phase >= 4 THEN Lch!Bootstrap ELSE {})
                        \cup (IF own.phase >= 2 THEN {"filter"} ELSE {})
  <1>3. own' = [own EXCEPT !.held = own.held \ freed, !.phase = 0] /\ pc' = [pc EXCEPT !.loader = "out"]
    BY DEF Lch!Fails, Lch!Rollback
  <1>4. own.held \ Lch!Permanent \subseteq freed
    <2>1. CASE pc.loader \in {"settings", "configure", "bootstrap"}
      <3>1. own.held \ Lch!Permanent \subseteq {"filter"} /\ own.phase >= 2
        BY <1>1, <2>1 DEF Lch!HeldByPhase
      <3> QED
        BY <3>1
    <2>2. CASE pc.loader = "network"
      <3>1. own.held \ Lch!Permanent \subseteq {"filter", "select"} \cup Lch!Bootstrap /\ own.phase >= 4
        BY <1>1, <2>2 DEF Lch!HeldByPhase
      <3>2. own.phase >= 2
        BY <1>2, <3>1
      <3> QED
        BY <3>1, <3>2 DEF Lch!Hooks
    <2>3. CASE pc.loader = "monitor"
      <3>1. own.held \ Lch!Permanent \subseteq {"filter", "select", "network"} \cup Lch!Bootstrap /\ own.phase >= 5
        BY <1>1, <2>3 DEF Lch!HeldByPhase
      <3>2. own.phase >= 2 /\ own.phase >= 4
        BY <1>2, <3>1
      <3> QED
        BY <3>1, <3>2 DEF Lch!Hooks
    <2> QED
      BY <2>1, <2>2, <2>3
  <1> HIDE DEF freed
  <1>5. own.held \ freed \in SUBSET Lch!Things
    BY <1>1 DEF Lch!Library
  <1>12. PICK z \in 0 .. 7 : z = 0
    OBVIOUS
  <1>13. own' \in Lch!Library
    BY <1>1, <1>3, <1>5, <1>12 DEF Lch!Library
  <1>6. own' \in Lch!Library /\ own'.held = own.held \ freed /\ own'.phase = 0 /\ ~own'.late
    BY <1>1, <1>2, <1>3, <1>13 DEF Lch!Library
  <1>7. own'.held \ Lch!Permanent = {}
    BY <1>4, <1>6
  <1>8. /\ pc' \in Lch!Places /\ pc'.loader = "out" /\ pc'.monitor = "none" /\ pc'.game = "out"
        /\ \A t \in Lch!Runners : pc'[t] = pc[t]
    BY <1>1, <1>2, <1>3, LoaderGoes
  <1>9. env'.drive => Lch!GuardHeld'
    BY <1>1, <1>8, GuardStays
  <1>10. Lch!ThreadsOut'
    BY <1>6, <1>8 DEF Lch!ThreadsOut, Lch!Attaching
  <1>11. Lch!HeldByPhase'
    BY <1>6, <1>7, <1>8 DEF Lch!HeldByPhase
  <1> QED
    BY <1>1, <1>6, <1>8, <1>9, <1>10, <1>11 DEF Lch!IInv, Lch!Fields

\* The phases of process_attach up to the monitor thread.
LEMMA AttachKeeps ==
    ASSUME Lch!IInv, Lch!Filter \/ Lch!Settings \/ Lch!Configure \/ Lch!StartBootstrap \/ Lch!InitNetwork
    PROVE  Lch!IInv'
  <1>1. Lch!HeldByPhase /\ Lch!ThreadsOut /\ own \in Lch!Library
    BY DEF Lch!IInv, Lch!Fields
  <1>2. CASE Lch!Filter
    <2>1. pc.loader = "filter" /\ Lch!Enters(2, {"filter"}, "settings")
      BY <1>2 DEF Lch!Filter
    <2>2. /\ Lch!Fields' /\ Lch!ThreadsOut' /\ (env'.drive => Lch!GuardHeld')
          /\ pc'.loader = "settings" /\ own'.held = own.held \cup {"filter"} /\ own'.phase = 2 /\ ~own'.late
      BY <2>1, Attaches DEF Lch!Attaching, Lch!Things
    <2>3. own.held \ Lch!Permanent = {}
      BY <1>1, <2>1 DEF Lch!HeldByPhase, Lch!ThreadsOut, Lch!Library
    <2>4. own'.held \ Lch!Permanent \subseteq {"filter"}
      BY <2>2, <2>3
    <2>5. Lch!HeldByPhase'
      BY <2>2, <2>4 DEF Lch!HeldByPhase
    <2> QED
      BY <2>2, <2>5 DEF Lch!IInv
  <1>3. CASE Lch!Settings /\ ~Lch!Fails
    <2>1. pc.loader = "settings" /\ Lch!Enters(3, {}, "configure") /\ {} \in SUBSET Lch!Things
      BY <1>3 DEF Lch!Settings
    <2>2. /\ Lch!Fields' /\ Lch!ThreadsOut' /\ (env'.drive => Lch!GuardHeld')
          /\ pc'.loader = "configure" /\ own'.held = own.held \cup {} /\ own'.phase = 3 /\ ~own'.late
      <3>1. 3 \in 0 .. 7 /\ "configure" \in Lch!Attaching /\ pc.loader \in Lch!Attaching
        BY <2>1 DEF Lch!Attaching
      <3> QED
        BY <2>1, <3>1, Attaches
    <2>3. own.held \ Lch!Permanent \subseteq {"filter"}
      BY <1>1, <2>1 DEF Lch!HeldByPhase
    <2>4. own'.held \ Lch!Permanent \subseteq {"filter"}
      BY <2>2, <2>3
    <2>5. Lch!HeldByPhase'
      BY <2>2, <2>4 DEF Lch!HeldByPhase
    <2> QED
      BY <2>2, <2>5 DEF Lch!IInv
  <1>4. CASE Lch!Configure /\ ~Lch!Fails
    <2>1. /\ pc.loader = "configure" /\ Lch!Enters(own.phase, {}, "bootstrap")
          /\ own.phase \in 0 .. 7 /\ {} \in SUBSET Lch!Things
      BY <1>1, <1>4 DEF Lch!Configure, Lch!Library
    <2>2. /\ Lch!Fields' /\ Lch!ThreadsOut' /\ (env'.drive => Lch!GuardHeld')
          /\ pc'.loader = "bootstrap" /\ own'.held = own.held \cup {} /\ own'.phase = own.phase /\ ~own'.late
      BY <2>1, Attaches DEF Lch!Attaching
    <2>3. own.held \ Lch!Permanent \subseteq {"filter"} /\ own.phase >= 2
      BY <1>1, <2>1 DEF Lch!HeldByPhase
    <2>4. own'.held \ Lch!Permanent \subseteq {"filter"} /\ own'.phase >= 2
      BY <2>2, <2>3
    <2>5. Lch!HeldByPhase'
      BY <2>2, <2>4 DEF Lch!HeldByPhase
    <2> QED
      BY <2>2, <2>5 DEF Lch!IInv
  <1>5. CASE Lch!StartBootstrap /\ ~Lch!Fails
    <2>1. PICK got \in SUBSET (Lch!Bootstrap \cup {"select"}) :
            pc.loader = "bootstrap" /\ Lch!Enters(4, got \cup {"unlock"}, "network")
      BY <1>5 DEF Lch!StartBootstrap
    <2>2. got \cup {"unlock"} \in SUBSET Lch!Things
      BY DEF Lch!Things, Lch!Hooks, Lch!Permanent
    <2>3. /\ Lch!Fields' /\ Lch!ThreadsOut' /\ (env'.drive => Lch!GuardHeld')
          /\ pc'.loader = "network" /\ own'.held = own.held \cup (got \cup {"unlock"}) /\ own'.phase = 4 /\ ~own'.late
      BY <2>1, <2>2, Attaches DEF Lch!Attaching
    <2>4. own.held \ Lch!Permanent \subseteq {"filter"} /\ "unlock" \in Lch!Permanent
      BY <1>1, <2>1 DEF Lch!HeldByPhase, Lch!Permanent
    <2>5. own'.held \ Lch!Permanent \subseteq {"filter", "select"} \cup Lch!Bootstrap
      BY <2>3, <2>4
    <2>6. Lch!HeldByPhase'
      BY <2>3, <2>5 DEF Lch!HeldByPhase
    <2> QED
      BY <2>3, <2>6 DEF Lch!IInv
  <1>6. CASE Lch!InitNetwork /\ ~Lch!Fails
    <2>1. pc.loader = "network" /\ Lch!Enters(5, {"network"}, "monitor")
      BY <1>6 DEF Lch!InitNetwork
    <2>2. /\ Lch!Fields' /\ Lch!ThreadsOut' /\ (env'.drive => Lch!GuardHeld')
          /\ pc'.loader = "monitor" /\ own'.held = own.held \cup {"network"} /\ own'.phase = 5 /\ ~own'.late
      BY <2>1, Attaches DEF Lch!Attaching, Lch!Things
    <2>3. own.held \ Lch!Permanent \subseteq {"filter", "select"} \cup Lch!Bootstrap
      BY <1>1, <2>1 DEF Lch!HeldByPhase
    <2>4. own'.held \ Lch!Permanent \subseteq {"filter", "select", "network"} \cup Lch!Bootstrap
      BY <2>2, <2>3
    <2>5. Lch!HeldByPhase'
      BY <2>2, <2>4 DEF Lch!HeldByPhase
    <2> QED
      BY <2>2, <2>5 DEF Lch!IInv
  <1>7. CASE Lch!Fails /\ ~Lch!Filter
    <2>1. pc.loader \in {"settings", "configure", "bootstrap", "network", "monitor"}
      BY <1>7 DEF Lch!Settings, Lch!Configure, Lch!StartBootstrap, Lch!InitNetwork
    <2> QED
      BY <1>7, <2>1, RollsBack
  <1> QED
    BY <1>2, <1>3, <1>4, <1>5, <1>6, <1>7

\* The DLL is loaded, again or for the first time, and nothing is left of before.
LEMMA LoadKeeps ==
    ASSUME Lch!IInv, Lch!Guard
    PROVE  Lch!IInv'
  <1>1. /\ own \in Lch!Library /\ env \in Lch!Options /\ Lch!HeldByPhase /\ UNCHANGED env
        /\ pc.loader = "out" /\ ~own.late /\ net' = Lch!NoNetwork
        /\ own' = [own EXCEPT !.phase = 1, !.loads = @ + 1]
        /\ pc' = [loader |-> "filter", monitor |-> "none", game |-> "out"]
    BY DEF Lch!IInv, Lch!Fields, Lch!Guard
  <1>2. own.loads + 1 \in Int /\ own' = [own EXCEPT !.phase = 1, !.loads = own.loads + 1]
    BY <1>1 DEF Lch!Library
  <1>3. PICK one \in 0 .. 7 : one = 1
    OBVIOUS
  <1>4. own' \in Lch!Library
    BY <1>1, <1>2, <1>3 DEF Lch!Library
  <1>5. own'.held = own.held /\ ~own'.late
    BY <1>1, <1>2, <1>4 DEF Lch!Library
  <1>6. pc' \in Lch!Places /\ pc'.loader = "filter" /\ pc'.monitor = "none" /\ pc'.game = "out"
    BY <1>1 DEF Lch!Places, Lch!Attaching
  <1>7. /\ net' \in Lch!Network /\ ~net'.bare /\ ~net'.inited /\ net'.made = 0
        /\ \A t \in Lch!Runners : ~net'.saw[t]
    BY <1>1 DEF Lch!NoNetwork, Lch!Network, Lch!Runners
  <1>8. \A t \in Lch!Runners : pc'[t] \notin {"load", "look", "make"}
    BY <1>1 DEF Lch!Runners
  <1>9. Lch!GuardHeld'
    BY <1>7, <1>8 DEF Lch!GuardHeld
  <1>10. Lch!HeldByPhase'
    BY <1>1, <1>5, <1>6 DEF Lch!HeldByPhase
  <1>11. Lch!ThreadsOut'
    BY <1>5, <1>6 DEF Lch!ThreadsOut, Lch!Attaching
  <1> QED
    BY <1>1, <1>4, <1>6, <1>7, <1>9, <1>10, <1>11 DEF Lch!IInv, Lch!Fields

\* The monitor thread starts, or not.
LEMMA MonitorStarts ==
    ASSUME Lch!IInv, Lch!StartMonitor
    PROVE  Lch!IInv'
  <1>1. /\ net \in Lch!Network /\ own \in Lch!Library /\ env \in Lch!Options /\ pc \in Lch!Places
        /\ Lch!ThreadsOut /\ UNCHANGED <<net, env>> /\ (env.drive => Lch!GuardHeld) /\ pc.loader = "monitor"
    BY DEF Lch!IInv, Lch!Fields, Lch!StartMonitor, Lch!Fails
  <1>2. ~own.late /\ pc.monitor = "none" /\ pc.game = "out"
    BY <1>1 DEF Lch!ThreadsOut, Lch!Attaching, Lch!Library
  <1>3. CASE Lch!Fails
    BY <1>1, <1>3, RollsBack
  <1>4. CASE ~Lch!Fails
    <2>1. /\ own' = [own EXCEPT !.phase = 7, !.initialized = TRUE, !.held = own.held \cup {"event", "thread"}]
          /\ pc' = [pc EXCEPT !.loader = "ready", !.monitor = "init"]
      BY <1>4 DEF Lch!StartMonitor
    <2>2. own.held \cup {"event", "thread"} \in SUBSET Lch!Things
      BY <1>1 DEF Lch!Library, Lch!Things
    <2>3. PICK seven \in 0 .. 7 : seven = 7
      OBVIOUS
    <2>4. own' \in Lch!Library
      BY <1>1, <2>1, <2>2, <2>3 DEF Lch!Library
    <2>5. ~own'.late
      BY <1>1, <1>2, <2>1, <2>4 DEF Lch!Library
    <2>6. pc' \in Lch!Places /\ pc'.loader = "ready" /\ pc'.monitor = "init" /\ pc'.game = "out"
      BY <1>1, <1>2, <2>1 DEF Lch!Places
    <2>7. \A t \in Lch!Runners : pc[t] # "make" /\ pc'[t] \notin {"load", "look", "make"}
      BY <1>2, <2>6 DEF Lch!Runners
    <2>8. env.drive => Lch!GuardHeld'
      BY <1>1, <2>7 DEF Lch!GuardHeld
    <2>9. Lch!HeldByPhase'
      BY <2>6 DEF Lch!HeldByPhase
    <2>10. Lch!ThreadsOut'
      BY <2>5, <2>6 DEF Lch!ThreadsOut, Lch!Attaching
    <2> QED
      BY <1>1, <2>4, <2>6, <2>8, <2>9, <2>10 DEF Lch!IInv, Lch!Fields
  <1> QED
    BY <1>3, <1>4

\* The process ends, or the stop is signalled: nothing is given back yet.
LEMMA StopKeeps ==
    ASSUME Lch!IInv, Lch!Terminate \/ Lch!Signal
    PROVE  Lch!IInv'
  <1>1. /\ net \in Lch!Network /\ own \in Lch!Library /\ env \in Lch!Options /\ pc \in Lch!Places
        /\ Lch!ThreadsOut /\ UNCHANGED <<net, env>> /\ (env.drive => Lch!GuardHeld) /\ pc.loader = "ready"
    BY DEF Lch!IInv, Lch!Fields, Lch!Terminate, Lch!Signal
  <1>2. own' \in Lch!Library /\ own'.late = own.late
    <2>1. own' = own \/ own' = [own EXCEPT !.signal = TRUE]
      BY DEF Lch!Terminate, Lch!Signal
    <2> QED
      BY <1>1, <2>1 DEF Lch!Library
  <1>3. PICK l \in {"terminated", "join"} : pc' = [pc EXCEPT !.loader = l]
    BY DEF Lch!Terminate, Lch!Signal
  <1>4. /\ pc' \in Lch!Places /\ pc'.loader = l /\ \A t \in Lch!Runners : pc'[t] = pc[t]
    BY <1>1, <1>3, LoaderGoes
  <1>5. env.drive => Lch!GuardHeld'
    BY <1>1, <1>4, GuardStays
  <1>6. ~own.late
    BY <1>1 DEF Lch!ThreadsOut
  <1>7. Lch!ThreadsOut' /\ Lch!HeldByPhase'
    BY <1>2, <1>4, <1>6 DEF Lch!ThreadsOut, Lch!HeldByPhase, Lch!Attaching
  <1> QED
    BY <1>1, <1>2, <1>4, <1>5, <1>7 DEF Lch!IInv, Lch!Fields

\* The join ends in time or is late; then the hooks go, with a callback inside or without.
LEMMA DetachKeeps ==
    ASSUME Lch!IInv, Lch!Join \/ Lch!Uninstall
    PROVE  Lch!IInv'
  <1>1. /\ net \in Lch!Network /\ own \in Lch!Library /\ env \in Lch!Options /\ pc \in Lch!Places
        /\ Lch!ThreadsOut /\ Lch!HeldByPhase /\ UNCHANGED <<net, env>> /\ (env.drive => Lch!GuardHeld)
    BY DEF Lch!IInv, Lch!Fields, Lch!Join, Lch!Uninstall
  <1>2. CASE Lch!Join
    <2>1. PICK late \in BOOLEAN : late = (own.late \/ pc.monitor # "done")
      OBVIOUS
    <2>2. /\ own' = [own EXCEPT !.held = own.held \ {"event", "thread"}, !.late = late]
          /\ pc' = [pc EXCEPT !.loader = "uninstall"] /\ pc.loader = "join"
      BY <1>2, <2>1 DEF Lch!Join
    <2>3. own' \in Lch!Library /\ own'.held = own.held \ {"event", "thread"} /\ own'.late = late
      BY <1>1, <2>2 DEF Lch!Library
    <2>4. /\ pc' \in Lch!Places /\ pc'.loader = "uninstall" /\ pc'.monitor = pc.monitor /\ pc'.game = pc.game
          /\ \A t \in Lch!Runners : pc'[t] = pc[t]
      BY <1>1, <2>2, LoaderGoes
    <2>5. env.drive => Lch!GuardHeld'
      BY <1>1, <2>2, <2>4, GuardStays
    <2>6. Lch!ThreadsOut'
      BY <2>1, <2>3, <2>4 DEF Lch!ThreadsOut, Lch!Attaching
    <2>7. Lch!HeldByPhase'
      BY <2>3, <2>4 DEF Lch!HeldByPhase
    <2> QED
      BY <1>1, <2>3, <2>4, <2>5, <2>6, <2>7 DEF Lch!IInv, Lch!Fields
  <1>3. CASE Lch!Uninstall
    <2>1. PICK late \in BOOLEAN : late = (own.late \/ pc.game # "out")
      OBVIOUS
    <2>2. /\ own' = [own EXCEPT !.held = own.held \ (Lch!Hooks \cup {"time", "wanted"}), !.late = late]
          /\ pc' = [pc EXCEPT !.loader = "shutdown"] /\ pc.loader = "uninstall"
      BY <1>3, <2>1 DEF Lch!Uninstall
    <2>3. own.held \subseteq Lch!Things /\ own.held \ (Lch!Hooks \cup {"time", "wanted"}) \in SUBSET Lch!Things
      BY <1>1 DEF Lch!Library
    <2>4. own' \in Lch!Library /\ own'.held = own.held \ (Lch!Hooks \cup {"time", "wanted"}) /\ own'.late = late
      BY <1>1, <2>2, <2>3 DEF Lch!Library
    <2>5. /\ pc' \in Lch!Places /\ pc'.loader = "shutdown" /\ pc'.monitor = pc.monitor /\ pc'.game = pc.game
          /\ \A t \in Lch!Runners : pc'[t] = pc[t]
      BY <1>1, <2>2, LoaderGoes
    <2>6. env.drive => Lch!GuardHeld'
      BY <1>1, <2>2, <2>5, GuardStays
    <2>7. Lch!ThreadsOut'
      BY <1>1, <2>1, <2>2, <2>4, <2>5 DEF Lch!ThreadsOut, Lch!Attaching
    <2>8. (own.held \ Lch!Permanent) \cap {"event", "thread"} = {}
      BY <1>1, <2>2 DEF Lch!HeldByPhase
    <2>9. /\ (own'.held \ Lch!Permanent) \cap {"event", "thread"} = {}
          /\ own'.held \ Lch!Permanent \subseteq Lch!Modules \cup Lch!Bootstrap \cup {"network", "filter"}
      BY <2>3, <2>4, <2>8 DEF Lch!Things
    <2>10. Lch!HeldByPhase'
      BY <2>5, <2>9 DEF Lch!HeldByPhase
    <2> QED
      BY <1>1, <2>4, <2>5, <2>6, <2>7, <2>10 DEF Lch!IInv, Lch!Fields
  <1> QED
    BY <1>2, <1>3

\* The rest goes, and with it the manager if there is one.
LEMMA ShutdownKeeps ==
    ASSUME Lch!IInv, Lch!Shutdown
    PROVE  Lch!IInv'
  <1>1. /\ net \in Lch!Network /\ own \in Lch!Library /\ env \in Lch!Options /\ pc \in Lch!Places
        /\ Lch!ThreadsOut /\ Lch!HeldByPhase /\ (env.drive => Lch!GuardHeld)
        /\ pc.loader = "shutdown" /\ pc' = [pc EXCEPT !.loader = "out"] /\ env' = [env EXCEPT !.calls = FALSE]
        /\ net' = [Lch!NoNetwork EXCEPT !.made = IF net.inited THEN net.made - 1 ELSE net.made]
    BY DEF Lch!IInv, Lch!Fields, Lch!Shutdown
  <1> DEFINE rest == own.held \ (Lch!Modules \cup Lch!Bootstrap \cup {"network", "filter"})
  <1>2. own' = [own EXCEPT !.held = rest, !.phase = 0, !.initialized = FALSE, !.signal = FALSE]
    BY DEF Lch!Shutdown
  <1>3. rest \in SUBSET Lch!Things
    BY <1>1 DEF Lch!Library
  <1>4. ~own.late => rest \ Lch!Permanent = {}
    BY <1>1 DEF Lch!HeldByPhase
  <1> HIDE DEF rest
  <1>5. PICK z \in 0 .. 7 : z = 0
    OBVIOUS
  <1>6. own' \in Lch!Library
    BY <1>1, <1>2, <1>3, <1>5 DEF Lch!Library
  <1>7. own'.held = rest /\ own'.phase = 0 /\ own'.late = own.late
    BY <1>1, <1>2, <1>6 DEF Lch!Library
  <1>8. /\ pc' \in Lch!Places /\ pc'.loader = "out" /\ pc'.monitor = pc.monitor /\ pc'.game = pc.game
    BY <1>1, LoaderGoes
  <1>9. env' \in Lch!Options /\ env'.drive = env.drive
    BY <1>1 DEF Lch!Options
  <1>10. PICK made : made = IF net.inited THEN net.made - 1 ELSE net.made
    OBVIOUS
  <1>11. made \in Int
    BY <1>1, <1>10 DEF Lch!Network
  <1>12. /\ net' \in Lch!Network /\ ~net'.bare /\ ~net'.inited /\ net'.made = made
         /\ \A t \in Lch!Runners : ~net'.saw[t]
    BY <1>1, <1>10, <1>11 DEF Lch!NoNetwork, Lch!Network, Lch!Runners
  <1>13. env.drive => made = 0
    BY <1>1, <1>10 DEF Lch!GuardHeld, Lch!Network
  <1>14. env'.drive => Lch!GuardHeld'
    BY <1>8, <1>9, <1>12, <1>13 DEF Lch!GuardHeld
  <1>15. Lch!ThreadsOut'
    BY <1>1, <1>7, <1>8 DEF Lch!ThreadsOut, Lch!Attaching
  <1>16. Lch!HeldByPhase'
    BY <1>4, <1>7, <1>8 DEF Lch!HeldByPhase
  <1> QED
    BY <1>6, <1>8, <1>9, <1>12, <1>14, <1>15, <1>16 DEF Lch!IInv, Lch!Fields

\* While the loader attaches no thread is in our code; while it detaches in time at most
\* GTA's, until the hooks are out.
Awake(t) ==
    /\ pc.loader \notin Lch!Attaching \cup {"out"}
    /\ pc.loader \in {"uninstall", "shutdown"} /\ ~own.late => t = "game" /\ pc.loader = "uninstall"

\* A thread in our code is one of those that may be there.
LEMMA WhoIsAwake ==
    ASSUME Lch!IInv, Lch!Mapped, NEW t \in Lch!Runners, pc[t] \notin {"none", "out", "done"}
    PROVE  Awake(t)
  <1>1. Lch!ThreadsOut /\ pc.loader # "out"
    BY DEF Lch!IInv, Lch!Mapped
  <1>2. pc.monitor = "none" /\ pc.game = "out" => FALSE
    BY DEF Lch!Runners
  <1>3. pc.monitor = "done" => t = "game" /\ pc.game # "out"
    BY DEF Lch!Runners
  <1> QED
    BY <1>1, <1>2, <1>3 DEF Lch!ThreadsOut, Awake

\* A thread goes on and may get something, but never the event or the thread of the monitor.
LEMMA RunnerKeeps ==
    ASSUME Lch!IInv, NEW t \in Lch!Runners, Awake(t), NEW to, Lch!Goes(t, to),
           to \in {"stuff", "load", "look", "make"} \/ to = Lch!Rest(t)
             \/ (t = "monitor" /\ to \in {"wait", "check", "start", "tick", "done"}),
           NEW got \in SUBSET (Lch!Things \ {"event", "thread"}),
           own' = own \/ own' = [own EXCEPT !.held = own.held \cup got]
    PROVE  /\ own' \in Lch!Library /\ Lch!HeldByPhase' /\ Lch!ThreadsOut'
           /\ pc' \in Lch!Places /\ pc'.loader = pc.loader /\ pc'[t] = to
           /\ \A u \in Lch!Runners : u # t => pc'[u] = pc[u]
  <1>1. own \in Lch!Library /\ pc \in Lch!Places /\ Lch!HeldByPhase /\ Lch!ThreadsOut
    BY DEF Lch!IInv, Lch!Fields
  <1>2. own.held \cup got \in SUBSET Lch!Things
    BY <1>1 DEF Lch!Library
  <1>3. own' \in Lch!Library /\ own'.held \subseteq own.held \cup got /\ own'.late = own.late
    BY <1>1, <1>2 DEF Lch!Library
  <1>4. /\ pc' \in Lch!Places /\ pc'.loader = pc.loader /\ pc'[t] = to
        /\ \A u \in Lch!Runners : u # t => pc'[u] = pc[u]
        /\ t = "monitor" => pc'.game = pc.game /\ pc'.monitor = to
        /\ t = "game" => pc'.monitor = pc.monitor /\ pc'.game = to
    BY <1>1, RunnerGoes
  <1>5. Lch!ThreadsOut'
    BY <1>1, <1>3, <1>4 DEF Lch!ThreadsOut, Awake
  <1>6. pc.loader \in {"uninstall", "shutdown"} => (own.held \ Lch!Permanent) \cap {"event", "thread"} = {}
    BY <1>1 DEF Lch!HeldByPhase
  <1>7. pc.loader \in {"uninstall", "shutdown"} => (own'.held \ Lch!Permanent) \cap {"event", "thread"} = {}
    BY <1>3, <1>6
  <1>8. pc'.loader \notin Lch!Attaching \cup {"out"} /\ (pc'.loader = "shutdown" => own'.late)
    BY <1>1, <1>3, <1>4 DEF Awake, Lch!Library
  <1>9. Lch!HeldByPhase'
    BY <1>4, <1>7, <1>8 DEF Lch!HeldByPhase, Lch!Attaching
  <1> QED
    BY <1>3, <1>4, <1>5, <1>9

\* The guard and the managers, while a thread is elsewhere.
LEMMA GuardElsewhere ==
    ASSUME Lch!GuardHeld, UNCHANGED net, NEW t \in Lch!Runners, pc'.loader = pc.loader,
           \A u \in Lch!Runners : u # t => pc'[u] = pc[u],
           \/ pc[t] \notin {"load", "look", "make"} /\ pc'[t] \notin {"load", "look", "make"}
           \/ pc[t] = "load" /\ pc'[t] = "look"
    PROVE  Lch!GuardHeld'
  BY DEF Lch!GuardHeld

\* The steps of the monitor and of GTA's thread away from the guard.
LEMMA ThreadsKeep ==
    ASSUME Lch!IInv,
           \/ \E t \in Lch!Runners : Lch!LoadModules(t)
           \/ Lch!MonitorInit \/ Lch!MonitorWait \/ Lch!MonitorCheck \/ Lch!MonitorStart
           \/ Lch!MonitorTick /\ ~Lch!Goes("monitor", "look")
           \/ Lch!Callback
    PROVE  Lch!IInv'
  <1>1. /\ net \in Lch!Network /\ env \in Lch!Options /\ own \in Lch!Library /\ pc \in Lch!Places
        /\ Lch!HeldByPhase /\ Lch!ThreadsOut /\ (env.drive => Lch!GuardHeld) /\ UNCHANGED net
    BY DEF Lch!IInv, Lch!Fields, Lch!LoadModules, Lch!MonitorInit, Lch!MonitorWait, Lch!MonitorCheck,
           Lch!MonitorStart, Lch!MonitorTick, Lch!Callback
  <1>2. env' \in Lch!Options /\ env'.drive = env.drive
    BY <1>1 DEF Lch!LoadModules, Lch!MonitorInit, Lch!MonitorWait, Lch!MonitorCheck,
           Lch!MonitorStart, Lch!MonitorTick, Lch!Callback, Lch!Options
  <1>3. ASSUME NEW t \in Lch!Runners, Awake(t), NEW to, Lch!Goes(t, to),
               to \in {"stuff"} \/ to = Lch!Rest(t) \/ (pc[t] = "load" /\ to = "look")
                 \/ (t = "monitor" /\ to \in {"wait", "check", "start", "tick", "done"}),
               pc[t] \in {"load"} => to = "look", pc[t] \notin {"look", "make"},
               NEW got \in SUBSET (Lch!Things \ {"event", "thread"}),
               own' = own \/ own' = [own EXCEPT !.held = own.held \cup got]
        PROVE  Lch!IInv'
    <2>1. /\ own' \in Lch!Library /\ Lch!HeldByPhase' /\ Lch!ThreadsOut'
          /\ pc' \in Lch!Places /\ pc'.loader = pc.loader /\ pc'[t] = to
          /\ \A u \in Lch!Runners : u # t => pc'[u] = pc[u]
      BY <1>3, RunnerKeeps
    <2>2. \/ pc[t] \notin {"load", "look", "make"} /\ pc'[t] \notin {"load", "look", "make"}
          \/ pc[t] = "load" /\ pc'[t] = "look"
      BY <1>3, <2>1 DEF Lch!Rest
    <2>3. env'.drive => Lch!GuardHeld'
      BY <1>1, <1>2, <2>1, <2>2, GuardElsewhere
    <2> QED
      BY <1>1, <1>2, <2>1, <2>3 DEF Lch!IInv, Lch!Fields
  <1>4. "monitor" \in Lch!Runners /\ "game" \in Lch!Runners /\ {} \in SUBSET (Lch!Things \ {"event", "thread"})
    BY DEF Lch!Runners
  <1>5. ASSUME NEW t \in Lch!Runners, Lch!LoadModules(t) PROVE Lch!IInv'
    <2>1. pc[t] = "load" /\ Lch!Mapped /\ Lch!Goes(t, "look")
      BY <1>5 DEF Lch!LoadModules
    <2>2. PICK got \in {{}, Lch!Modules} :
            own' = [own EXCEPT !.held = own.held \cup got \cup (IF env.online THEN {"time"} ELSE {})]
      BY <1>5 DEF Lch!LoadModules
    <2>3. got \cup (IF env.online THEN {"time"} ELSE {}) \in SUBSET (Lch!Things \ {"event", "thread"})
      BY DEF Lch!Things, Lch!Modules
    <2>4. own' = [own EXCEPT !.held = own.held \cup (got \cup (IF env.online THEN {"time"} ELSE {}))]
      BY <2>2
    <2>5. Awake(t)
      BY <2>1, WhoIsAwake
    <2> QED
      BY <1>3, <2>1, <2>3, <2>4, <2>5
  <1>6. CASE Lch!MonitorInit
    <2>1. /\ pc["monitor"] = "init" /\ Lch!Mapped /\ Lch!Goes("monitor", "wait")
          /\ own' = [own EXCEPT !.held = own.held \cup {"pregame"}]
      BY <1>6 DEF Lch!MonitorInit
    <2>2. {"pregame"} \in SUBSET (Lch!Things \ {"event", "thread"})
      BY DEF Lch!Things, Lch!Permanent
    <2>3. Awake("monitor")
      BY <1>4, <2>1, WhoIsAwake
    <2> QED
      BY <1>3, <1>4, <2>1, <2>2, <2>3
  <1>7. CASE Lch!MonitorWait \/ Lch!MonitorCheck
    <2>1. PICK to \in {"check", "start", "tick"} :
            /\ pc["monitor"] \in {"wait", "check"} /\ Lch!Mapped /\ Lch!Goes("monitor", to) /\ UNCHANGED own
      BY <1>7 DEF Lch!MonitorWait, Lch!MonitorCheck
    <2>2. Awake("monitor")
      BY <1>4, <2>1, WhoIsAwake
    <2> QED
      BY <1>3, <1>4, <2>1, <2>2
  <1>8. CASE Lch!MonitorStart
    <2>1. PICK got \in SUBSET {"hooks", "entry", "graphics"} :
            /\ pc["monitor"] = "start" /\ Lch!Mapped /\ Lch!Goes("monitor", "stuff")
            /\ own' = [own EXCEPT !.held = own.held \cup got \cup {"ingame", "wanted"}]
      BY <1>8 DEF Lch!MonitorStart
    <2>2. got \cup {"ingame", "wanted"} \in SUBSET (Lch!Things \ {"event", "thread"})
      BY DEF Lch!Things, Lch!Permanent, Lch!Hooks
    <2>3. own' = [own EXCEPT !.held = own.held \cup (got \cup {"ingame", "wanted"})]
      BY <2>1
    <2>4. Awake("monitor")
      BY <1>4, <2>1, WhoIsAwake
    <2> QED
      BY <1>3, <1>4, <2>1, <2>2, <2>3, <2>4
  <1>9. CASE Lch!MonitorTick /\ ~Lch!Goes("monitor", "look")
    <2>1. PICK to \in {"done", "stuff"} :
            /\ pc["monitor"] = "tick" /\ Lch!Mapped /\ Lch!Goes("monitor", to) /\ UNCHANGED own
      BY <1>9 DEF Lch!MonitorTick
    <2>2. Awake("monitor")
      BY <1>4, <2>1, WhoIsAwake
    <2> QED
      BY <1>3, <1>4, <2>1, <2>2
  <1>10. CASE Lch!Callback
    <2>1. /\ pc.game = "out" /\ Lch!Mapped /\ Lch!Goes("game", "stuff") /\ UNCHANGED own /\ "graphics" \in own.held
      BY <1>10 DEF Lch!Callback
    <2>2. "graphics" \in own.held \ Lch!Permanent
      BY <2>1 DEF Lch!Permanent
    <2>3. pc.loader \notin Lch!Attaching
      <3>1. pc.loader \in Lch!Attaching => ~own.late
        BY <1>1 DEF Lch!ThreadsOut, Lch!Attaching, Lch!Library
      <3> QED
        BY <1>1, <2>2, <3>1 DEF Lch!HeldByPhase, Lch!Attaching, Lch!Bootstrap
    <2>4. pc.loader = "shutdown" => own.late
      BY <1>1, <2>2 DEF Lch!HeldByPhase, Lch!Modules, Lch!Bootstrap, Lch!Library
    <2>5. Awake("game")
      BY <2>1, <2>3, <2>4 DEF Awake, Lch!Mapped
    <2> QED
      BY <1>3, <1>4, <2>1, <2>5
  <1> QED
    BY <1>5, <1>6, <1>7, <1>8, <1>9, <1>10

\* Whoever takes the guard is alone, looks for a manager and makes one, and gives it back.
LEMMA MakingKeeps ==
    ASSUME Lch!IInv, NEW t \in Lch!Runners, Lch!TakeGuard(t) \/ Lch!Look(t) \/ Lch!Make(t)
    PROVE  Lch!IInv'
  <1>1. /\ net \in Lch!Network /\ env \in Lch!Options /\ own \in Lch!Library /\ pc \in Lch!Places
        /\ (env.drive => Lch!GuardHeld) /\ UNCHANGED <<own, env>> /\ Lch!Mapped
    BY DEF Lch!IInv, Lch!Fields, Lch!TakeGuard, Lch!Look, Lch!Make
  <1>2. Awake(t)
    BY <1>1, WhoIsAwake DEF Lch!TakeGuard, Lch!Look, Lch!Make
  <1>3. pc.loader # "out" /\ Lch!Rest(t) \notin {"load", "look", "make"}
    BY <1>2 DEF Awake, Lch!Rest
  <1>4. ASSUME NEW to, Lch!Goes(t, to), to \in {"load", "look", "make"} \/ to = Lch!Rest(t),
               net' \in Lch!Network,
               env.drive => \/ UNCHANGED net /\ pc[t] \notin {"load", "look", "make"} /\ to \notin {"load", "look", "make"}
                            \/ pc'.loader = pc.loader /\ pc'[t] = to /\ (\A u \in Lch!Runners : u # t => pc'[u] = pc[u]) => Lch!GuardHeld'
        PROVE  Lch!IInv'
    <2>1. {} \in SUBSET (Lch!Things \ {"event", "thread"})
      OBVIOUS
    <2>2. /\ own' \in Lch!Library /\ Lch!HeldByPhase' /\ Lch!ThreadsOut'
          /\ pc' \in Lch!Places /\ pc'.loader = pc.loader /\ pc'[t] = to
          /\ \A u \in Lch!Runners : u # t => pc'[u] = pc[u]
      BY <1>1, <1>2, <1>4, <2>1, RunnerKeeps
    <2>3. env'.drive => Lch!GuardHeld'
      BY <1>1, <1>4, <2>2, GuardElsewhere
    <2> QED
      BY <1>1, <1>4, <2>2, <2>3 DEF Lch!IInv, Lch!Fields
  <1>5. CASE Lch!TakeGuard(t)
    <2>1. pc[t] = "stuff" /\ net' = [net EXCEPT !.guard = TRUE]
      BY <1>5 DEF Lch!TakeGuard
    <2>2. /\ net' \in Lch!Network /\ net'.guard /\ net'.bare = net.bare /\ net'.inited = net.inited
          /\ net'.made = net.made /\ net'.saw = net.saw
      BY <1>1, <2>1 DEF Lch!Network
    <2>3. CASE net.guard
      <3>1. Lch!Goes(t, Lch!Rest(t))
        BY <1>5, <2>3 DEF Lch!TakeGuard
      <3>2. UNCHANGED net
        BY <1>1, <2>1, <2>3 DEF Lch!Network
      <3> QED
        BY <1>1, <1>3, <1>4, <2>1, <3>1, <3>2
    <2>4. CASE ~net.guard
      <3>1. Lch!Goes(t, "load")
        BY <1>5, <2>4 DEF Lch!TakeGuard
      <3>2. env.drive => \A u \in Lch!Runners : pc[u] \notin {"load", "look", "make"} /\ ~net.saw[u]
        BY <1>1, <1>3, <2>4 DEF Lch!GuardHeld
      <3>3. ASSUME env.drive, pc'.loader = pc.loader, pc'[t] = "load", \A u \in Lch!Runners : u # t => pc'[u] = pc[u]
            PROVE  Lch!GuardHeld'
        BY <1>1, <2>2, <3>2, <3>3 DEF Lch!GuardHeld
      <3> QED
        BY <1>4, <2>2, <3>1, <3>3
    <2> QED
      BY <2>3, <2>4
  <1>6. CASE Lch!Look(t)
    <2>1. PICK b \in BOOLEAN : b = (env.online /\ ~net.inited)
      BY <1>1 DEF Lch!Options, Lch!Network
    <2>2. pc[t] = "look" /\ net' = [net EXCEPT !.saw[t] = b] /\ Lch!Goes(t, "make")
      BY <1>6, <2>1 DEF Lch!Look
    <2>3. net' = [net EXCEPT !.saw = [net.saw EXCEPT ![t] = b]]
      BY <1>1, <2>2 DEF Lch!Network
    <2>4. [net.saw EXCEPT ![t] = b] \in [Lch!Runners -> BOOLEAN]
      BY <1>1 DEF Lch!Network
    <2>5. /\ net' \in Lch!Network /\ net'.guard = net.guard /\ net'.bare = net.bare /\ net'.inited = net.inited
          /\ net'.made = net.made /\ net'.saw = [net.saw EXCEPT ![t] = b]
      BY <1>1, <2>3, <2>4 DEF Lch!Network
    <2>6. net'.saw[t] = b /\ \A u \in Lch!Runners : u # t => net'.saw[u] = net.saw[u]
      BY <1>1, <2>5 DEF Lch!Network
    <2>7. ASSUME env.drive, pc'.loader = pc.loader, pc'[t] = "make", \A u \in Lch!Runners : u # t => pc'[u] = pc[u]
          PROVE  Lch!GuardHeld'
      <3>1. /\ Lch!GuardHeld /\ net.guard
            /\ \A u \in Lch!Runners : u # t => pc[u] \notin {"load", "look", "make"} /\ ~net.saw[u]
        BY <1>1, <1>3, <2>2, <2>7 DEF Lch!GuardHeld
      <3>2. \A u \in Lch!Runners : net'.saw[u] => pc'[u] = "make" /\ ~net'.inited
        BY <2>1, <2>5, <2>6, <2>7, <3>1
      <3>3. \A u \in Lch!Runners : pc'[u] \in {"load", "look", "make"} => u = t
        BY <2>7, <3>1
      <3> QED
        BY <2>5, <3>1, <3>2, <3>3 DEF Lch!GuardHeld
    <2> QED
      BY <1>4, <2>2, <2>5, <2>7
  <1>7. CASE Lch!Make(t)
    <2>1. PICK ok \in BOOLEAN :
            net' = [net EXCEPT !.saw[t] = FALSE,
                               !.made = IF net.saw[t] /\ ok THEN net.made + 1 ELSE net.made,
                               !.inited = net.inited \/ (net.saw[t] /\ ok),
                               !.guard = IF t = "monitor" /\ net.bare THEN net.guard ELSE FALSE,
                               !.bare = IF t = "monitor" /\ net.bare THEN FALSE ELSE net.bare]
      BY <1>7 DEF Lch!Make
    <2>2. pc[t] = "make" /\ Lch!Goes(t, Lch!Rest(t))
      BY <1>7 DEF Lch!Make
    <2>3. PICK makes \in BOOLEAN : makes = (net.saw[t] /\ ok)
      OBVIOUS
    <2>4. PICK guard \in BOOLEAN : guard = IF t = "monitor" /\ net.bare THEN net.guard ELSE FALSE
      BY <1>1 DEF Lch!Network
    <2>5. PICK bare \in BOOLEAN : bare = IF t = "monitor" /\ net.bare THEN FALSE ELSE net.bare
      BY <1>1 DEF Lch!Network
    <2>6. PICK inited \in BOOLEAN : inited = (net.inited \/ makes)
      BY <1>1 DEF Lch!Network
    <2>7. PICK made : made = IF makes THEN net.made + 1 ELSE net.made
      OBVIOUS
    <2>8. PICK saw \in [Lch!Runners -> BOOLEAN] : saw = [net.saw EXCEPT ![t] = FALSE]
      BY <1>1 DEF Lch!Network
    <2>9. net.made \in Int /\ made \in Int
      <3>1. net.made \in Int
        BY <1>1 DEF Lch!Network
      <3> QED
        BY <2>7, <3>1
    <2>10. net' = [guard |-> guard, inited |-> inited, made |-> made, saw |-> saw, bare |-> bare]
      BY <1>1, <2>1, <2>3, <2>4, <2>5, <2>6, <2>7, <2>8 DEF Lch!Network
    <2>11. /\ net' \in Lch!Network /\ net'.guard = guard /\ net'.bare = bare /\ net'.inited = inited
           /\ net'.made = made /\ net'.saw = saw
      BY <2>9, <2>10 DEF Lch!Network
    <2>12. saw[t] = FALSE /\ \A u \in Lch!Runners : u # t => saw[u] = net.saw[u]
      BY <1>1, <2>8 DEF Lch!Network
    <2>13. ASSUME env.drive
           PROVE  /\ ~bare /\ (IF inited THEN made = 1 ELSE made = 0)
                  /\ \A u \in Lch!Runners : u # t => pc[u] \notin {"load", "look", "make"} /\ ~net.saw[u]
      <3>1. Lch!GuardHeld
        BY <1>1, <2>13
      <3>2. \A u \in Lch!Runners : u # t => pc[u] \notin {"load", "look", "make"} /\ ~net.saw[u]
        BY <1>3, <2>2, <3>1 DEF Lch!GuardHeld
      <3>3. ~net.bare /\ (makes => ~net.inited) /\ (IF net.inited THEN net.made = 1 ELSE net.made = 0)
        BY <2>3, <3>1 DEF Lch!GuardHeld
      <3>4. IF inited THEN made = 1 ELSE made = 0
        <4>1. CASE makes
          <5>1. net.made = 0 /\ inited
            BY <2>6, <3>3, <4>1
          <5>2. made = 1
            BY <2>7, <4>1, <5>1
          <5> QED
            BY <5>1, <5>2
        <4>2. CASE ~makes
          BY <2>6, <2>7, <3>3, <4>2
        <4> QED
          BY <4>1, <4>2
      <3> QED
        BY <2>5, <3>2, <3>3, <3>4
    <2>14. ASSUME env.drive, pc'.loader = pc.loader, pc'[t] = Lch!Rest(t), \A u \in Lch!Runners : u # t => pc'[u] = pc[u]
           PROVE  Lch!GuardHeld'
      BY <1>3, <2>11, <2>12, <2>13, <2>14 DEF Lch!GuardHeld
    <2> QED
      BY <1>4, <2>2, <2>11, <2>14
  <1> QED
    BY <1>5, <1>6, <1>7

\* Where the monitor drives the network without the guard nothing is promised of managers.
LEMMA BareKeeps ==
    ASSUME Lch!IInv, Lch!MonitorTick, Lch!Goes("monitor", "look")
    PROVE  Lch!IInv'
  <1>1. /\ net \in Lch!Network /\ env \in Lch!Options /\ own \in Lch!Library /\ pc \in Lch!Places
        /\ UNCHANGED <<own, env>> /\ Lch!Mapped /\ pc["monitor"] = "tick" /\ "monitor" \in Lch!Runners
    BY DEF Lch!IInv, Lch!Fields, Lch!MonitorTick, Lch!Runners
  <1>2. Awake("monitor")
    BY <1>1, WhoIsAwake
  <1>3. {} \in SUBSET (Lch!Things \ {"event", "thread"})
    OBVIOUS
  <1>4. /\ own' \in Lch!Library /\ Lch!HeldByPhase' /\ Lch!ThreadsOut'
        /\ pc' \in Lch!Places /\ pc'.loader = pc.loader /\ pc'["monitor"] = "look"
    BY <1>1, <1>2, <1>3, RunnerKeeps
  <1>5. ~env.drive /\ net' = [net EXCEPT !.bare = TRUE]
    <2>1. ASSUME NEW to \in {"done", "stuff"}, Lch!Goes("monitor", to) PROVE FALSE
      <3>1. pc'.monitor = to /\ pc'.monitor = "look"
        BY <1>1, <2>1 DEF Lch!Goes, Lch!Places
      <3> QED
        BY <2>1, <3>1
    <2> QED
      BY <2>1 DEF Lch!MonitorTick
  <1>6. net' \in Lch!Network
    BY <1>1, <1>5 DEF Lch!Network
  <1> QED
    BY <1>1, <1>4, <1>5, <1>6 DEF Lch!IInv, Lch!Fields

\* It holds at first.
LEMMA LaunchInit ==
    ASSUME Lch!Init PROVE Lch!IInv
  <1>1. /\ net = [guard |-> FALSE, inited |-> FALSE, made |-> 0, saw |-> [t \in Lch!Runners |-> FALSE], bare |-> FALSE]
        /\ own = [phase |-> 0, initialized |-> FALSE, held |-> {}, signal |-> FALSE, late |-> FALSE, loads |-> 0]
        /\ pc = [loader |-> "out", monitor |-> "none", game |-> "out"]
    BY DEF Lch!Init, Lch!NoNetwork
  <1>2. env \in Lch!Options
    BY DEF Lch!Init, Lch!Options
  <1>3. net \in Lch!Network /\ pc \in Lch!Places
    BY <1>1 DEF Lch!Network, Lch!Places
  <1>4. own \in Lch!Library
    <2>1. PICK z \in 0 .. 7 : z = 0
      OBVIOUS
    <2> QED
      BY <1>1, <2>1 DEF Lch!Library
  <1>5. Lch!HeldByPhase /\ Lch!ThreadsOut
    BY <1>1 DEF Lch!HeldByPhase, Lch!ThreadsOut, Lch!Attaching
  <1>6. Lch!GuardHeld
    BY <1>1 DEF Lch!GuardHeld, Lch!Runners
  <1> QED
    BY <1>2, <1>3, <1>4, <1>5, <1>6 DEF Lch!IInv, Lch!Fields

LaunchInv == part = "launch" => Lch!IInv

\* The inductive invariant of Launch, for any number of loads.
THEOREM LaunchInvariant == Spec => []LaunchInv
  <1>1. Init => LaunchInv
    BY LaunchInit DEF Init, LaunchInv
  <1>2. LaunchInv /\ [Next]_vars => LaunchInv'
    <2> SUFFICES ASSUME LaunchInv, [Next]_vars, part' = "launch" PROVE Lch!IInv'
      BY DEF LaunchInv
    <2>1. CASE UNCHANGED vars
      <3>1. Lch!IInv /\ UNCHANGED <<net, own, env, pc>>
        BY <2>1 DEF vars, LaunchInv
      <3> QED
        BY <3>1 DEF Lch!IInv, Lch!Fields, Lch!HeldByPhase, Lch!ThreadsOut, Lch!GuardHeld
    <2>2. CASE Next
      <3>1. Lch!IInv /\ Lch!Next
        BY <2>2 DEF Next, LaunchInv
      <3>2. ASSUME NEW t \in Lch!Runners, Lch!TakeGuard(t) \/ Lch!LoadModules(t) \/ Lch!Look(t) \/ Lch!Make(t)
            PROVE  Lch!IInv'
        <4>1. CASE Lch!LoadModules(t)
          BY <3>1, <4>1, ThreadsKeep
        <4> QED
          BY <3>1, <3>2, <4>1, MakingKeeps
      <3> QED
        BY <3>1, <3>2, LoadKeeps, AttachKeeps, MonitorStarts, StopKeeps, DetachKeeps, ShutdownKeeps, ThreadsKeep,
           BareKeeps DEF Lch!Next
    <2> QED
      BY <2>1, <2>2
  <1> QED
    BY <1>1, <1>2, PTL DEF Spec

\* Where the two threads make the manager under the guard, there is none before they start
\* and none after the detach.
Unmade == env.drive /\ pc.loader \in Lch!Attaching \cup {"out"} => net.made = 0

\* The loader frees the manager that the threads have made, and only while they may run is
\* one made.
LEMMA UnmadeStep ==
    ASSUME Lch!IInv, Unmade, Lch!Next
    PROVE  Unmade'
  <1>1. /\ net \in Lch!Network /\ own \in Lch!Library /\ env \in Lch!Options /\ pc \in Lch!Places
        /\ Lch!ThreadsOut /\ (env.drive => Lch!GuardHeld)
    BY DEF Lch!IInv, Lch!Fields
  <1>2. CASE UNCHANGED <<net, env>> /\ (pc.loader \notin Lch!Attaching \cup {"out"}
                                      => pc'.loader \notin Lch!Attaching \cup {"out"})
    BY <1>2 DEF Unmade
  <1>3. CASE Lch!Guard
    <2>1. net'.made = 0
      BY <1>3 DEF Lch!Guard, Lch!NoNetwork
    <2> QED
      BY <2>1 DEF Unmade
  <1>4. CASE Lch!Filter \/ Lch!Settings \/ Lch!Configure \/ Lch!StartBootstrap \/ Lch!InitNetwork \/ Lch!StartMonitor
    <2>1. pc.loader \in Lch!Attaching /\ UNCHANGED <<net, env>>
      BY <1>4 DEF Lch!Filter, Lch!Settings, Lch!Configure, Lch!StartBootstrap, Lch!InitNetwork, Lch!StartMonitor,
         Lch!Enters, Lch!Fails, Lch!Attaching
    <2> QED
      BY <1>2, <2>1
  <1>5. CASE Lch!Terminate \/ Lch!Signal \/ Lch!Join \/ Lch!Uninstall
    <2>1. PICK to \in {"terminated", "join", "uninstall", "shutdown"} :
             pc' = [pc EXCEPT !.loader = to] /\ UNCHANGED <<net, env>>
      BY <1>5 DEF Lch!Terminate, Lch!Signal, Lch!Join, Lch!Uninstall
    <2>2. pc'.loader = to
      BY <1>1, <2>1 DEF Lch!Places
    <2> QED
      BY <1>2, <2>1, <2>2 DEF Lch!Attaching
  <1>6. CASE Lch!Shutdown
    <2>1. net' = [Lch!NoNetwork EXCEPT !.made = IF net.inited THEN net.made - 1 ELSE net.made]
      BY <1>6 DEF Lch!Shutdown
    <2>2. net'.made = IF net.inited THEN net.made - 1 ELSE net.made
      BY <2>1 DEF Lch!NoNetwork
    <2>3. env' = [env EXCEPT !.calls = FALSE]
      BY <1>6 DEF Lch!Shutdown
    <2>4. env'.drive = env.drive
      BY <1>1, <2>3 DEF Lch!Options
    <2>5. env.drive => net'.made = 0
      BY <1>1, <2>2 DEF Lch!GuardHeld
    <2> QED
      BY <2>4, <2>5 DEF Unmade
  <1>7. ASSUME NEW t \in Lch!Runners, pc[t] \in {"stuff", "load", "look", "make", "init", "wait", "check", "start", "tick"},
               Lch!Mapped, NEW to, Lch!Goes(t, to)
        PROVE  pc.loader \notin Lch!Attaching \cup {"out"} /\ pc'.loader = pc.loader
    <2>1. pc.loader # "out" /\ pc'.loader = pc.loader
      <3>1. t \in {"monitor", "game"}
        BY DEF Lch!Runners
      <3> QED
        BY <1>1, <1>7, <3>1 DEF Lch!Mapped, Lch!Goes, Lch!Places
    <2>2. pc.loader \notin Lch!Attaching
      BY <1>1, <1>7 DEF Lch!ThreadsOut, Lch!Runners
    <2> QED
      BY <2>1, <2>2
  <1>8. ASSUME NEW t \in Lch!Runners, Lch!TakeGuard(t) \/ Lch!LoadModules(t) \/ Lch!Look(t) \/ Lch!Make(t)
        PROVE  Unmade'
    <2>1. Lch!Mapped /\ pc[t] \in {"stuff", "load", "look", "make"}
      BY <1>8 DEF Lch!TakeGuard, Lch!LoadModules, Lch!Look, Lch!Make
    <2>2. PICK to : Lch!Goes(t, to)
      BY <1>8 DEF Lch!TakeGuard, Lch!LoadModules, Lch!Look, Lch!Make
    <2>3. pc'.loader \notin Lch!Attaching \cup {"out"}
      BY <1>7, <2>1, <2>2
    <2> QED
      BY <2>3 DEF Unmade
  <1>9. CASE Lch!MonitorInit \/ Lch!MonitorWait \/ Lch!MonitorCheck \/ Lch!MonitorStart \/ Lch!MonitorTick
    <2>1. Lch!Mapped /\ pc["monitor"] \in {"init", "wait", "check", "start", "tick"} /\ "monitor" \in Lch!Runners
      BY <1>9 DEF Lch!MonitorInit, Lch!MonitorWait, Lch!MonitorCheck, Lch!MonitorStart, Lch!MonitorTick, Lch!Runners
    <2>2. PICK to : Lch!Goes("monitor", to)
      BY <1>9 DEF Lch!MonitorInit, Lch!MonitorWait, Lch!MonitorCheck, Lch!MonitorStart, Lch!MonitorTick
    <2>3. pc'.loader \notin Lch!Attaching \cup {"out"}
      BY <1>7, <2>1, <2>2
    <2> QED
      BY <2>3 DEF Unmade
  <1>10. CASE Lch!Callback
    <2>1. env' = [env EXCEPT !.calls = TRUE] /\ net' = net /\ Lch!Goes("game", "stuff")
      BY <1>10 DEF Lch!Callback
    <2>2. env'.drive = env.drive
      BY <1>1, <2>1 DEF Lch!Options
    <2>3. pc'.loader = pc.loader
      BY <1>1, <2>1 DEF Lch!Goes, Lch!Places
    <2> QED
      BY <2>1, <2>2, <2>3 DEF Unmade
  <1> QED
    BY <1>3, <1>4, <1>5, <1>6, <1>8, <1>9, <1>10 DEF Lch!Next

UnmadeInv == part = "launch" => Unmade

\* No manager is left over from an attach that failed or from an unload.
THEOREM ManagerFreed == Spec => []UnmadeInv
  <1>1. Init => UnmadeInv
    BY DEF Init, UnmadeInv, Unmade, Lch!Init, Lch!NoNetwork
  <1>2. LaunchInv /\ UnmadeInv /\ [Next]_vars => UnmadeInv'
    <2> SUFFICES ASSUME LaunchInv, UnmadeInv, [Next]_vars, part' = "launch" PROVE Unmade'
      BY DEF UnmadeInv
    <2>1. CASE UNCHANGED vars
      BY <2>1 DEF vars, UnmadeInv, Unmade
    <2>2. CASE Next
      <3>1. Lch!IInv /\ Unmade /\ Lch!Next
        BY <2>2 DEF Next, LaunchInv, UnmadeInv
      <3> QED
        BY <3>1, UnmadeStep
    <2> QED
      BY <2>1, <2>2
  <1> QED
    BY <1>1, <1>2, LaunchInvariant, PTL DEF Spec

-----------------------------------------------------------------------------
(* Assets: the list of models asked for. *)

\* A model is added, or only the mark of a text draw moves.
Longer(n, m, mark) == [n EXCEPT !.queue = Append(n.queue, m), !.seq = n.seq + 1, !.preview = mark]
Marked(n) == [n EXCEPT !.preview = n.seq]
HasRoom(n) == Len(n.queue) < PendingMax
IsMark(n, mark) == mark = n.preview \/ mark = n.seq + 1

\* What is added is wanted, and the list has room for it.
LEMMA LongerKeeps ==
    ASSUME NEW n \in Ast!List, NEW o, NEW slot, Ast!Listed(n, o, slot),
           NEW m \in Ast!Models, ~Ast!Refuses(o, slot, m), HasRoom(n),
           NEW mark, IsMark(n, mark), NEW r, r = Longer(n, m, mark)
    PROVE  /\ r \in Ast!List /\ Ast!Listed(r, o, slot) /\ r.applied = n.applied /\ r.preview = mark
           /\ r.seq = n.seq + 1 /\ Ast!Queued(r, m)
  <1>1. PICK q, l : q = n.queue /\ l = Len(n.queue)
    OBVIOUS
  <1>2. q \in Seq(Ast!Models) /\ l \in Nat /\ l = Len(q) /\ n.seq \in Nat /\ n.applied \in Nat /\ n.preview \in Nat
    BY <1>1 DEF Ast!List
  <1>3. PICK p, s : p = Append(q, m) /\ s = n.seq + 1
    OBVIOUS
  <1>4. /\ p \in Seq(Ast!Models) /\ Len(p) = l + 1 /\ p[l + 1] = m /\ \A i \in 1 .. l : p[i] = q[i]
        /\ p # <<>>
    BY <1>2, <1>3
  <1>5. s \in Nat /\ mark \in Nat /\ mark =< s /\ n.applied < s
    <2>1. n.applied =< n.seq /\ n.preview =< n.seq
      BY DEF Ast!Listed
    <2> QED
      BY <1>2, <1>3, <2>1 DEF IsMark
  <1>6. r = [n EXCEPT !.queue = p, !.seq = s, !.preview = mark]
    BY <1>1, <1>3 DEF Longer
  <1>7. r \in Ast!List
    BY <1>4, <1>5, <1>6 DEF Ast!List
  <1>8. r.queue = p /\ r.seq = s /\ r.preview = mark /\ r.applied = n.applied
    BY <1>6, <1>7 DEF Ast!List
  <1>9. Len(p) =< PendingMax
    BY <1>1, <1>2, <1>4, ClientAssumption DEF HasRoom
  <1>10. \A i \in 1 .. Len(p) : ~Ast!Refuses(o, slot, p[i])
    <2> SUFFICES ASSUME NEW i \in 1 .. Len(p) PROVE ~Ast!Refuses(o, slot, p[i])
      OBVIOUS
    <2>1. CASE i = l + 1
      BY <1>4, <2>1
    <2>2. CASE i # l + 1
      <3>1. i \in 1 .. Len(n.queue) /\ p[i] = n.queue[i]
        BY <1>1, <1>2, <1>4, <2>2
      <3> QED
        BY <3>1 DEF Ast!Listed
    <2> QED
      BY <2>1, <2>2
  <1>11. Ast!Listed(r, o, slot)
    <2>1. Len(r.queue) =< PendingMax /\ r.applied =< r.seq /\ r.preview =< r.seq
      BY <1>2, <1>5, <1>8, <1>9
    <2>2. r.queue # <<>> /\ r.applied # r.seq
      BY <1>2, <1>4, <1>5, <1>8
    <2> QED
      BY <1>8, <1>10, <2>1, <2>2 DEF Ast!Listed
  <1>12. Ast!Queued(r, m)
    BY <1>2, <1>4, <1>8 DEF Ast!Queued
  <1> QED
    BY <1>3, <1>7, <1>8, <1>11, <1>12

\* A mark is set while something is in the list.
LEMMA MarkedKeeps ==
    ASSUME NEW n \in Ast!List, NEW o, NEW slot, Ast!Listed(n, o, slot),
           NEW m, Ast!Queued(n, m), NEW r, r = Marked(n)
    PROVE  /\ r \in Ast!List /\ Ast!Listed(r, o, slot) /\ r.applied = n.applied
           /\ r.preview > r.applied /\ Ast!Queued(r, m)
  <1>1. r = [n EXCEPT !.preview = n.seq] /\ n.seq \in Nat /\ n.applied \in Nat /\ n.queue \in Seq(Ast!Models)
    BY DEF Marked, Ast!List
  <1>2. r \in Ast!List
    BY <1>1 DEF Ast!List
  <1>3. r.queue = n.queue /\ r.seq = n.seq /\ r.applied = n.applied /\ r.preview = n.seq
    BY <1>1, <1>2 DEF Ast!List
  <1>4. n.queue # <<>>
    <2>1. PICK i \in 1 .. Len(n.queue) : n.queue[i] = m
      BY DEF Ast!Queued
    <2> QED
      BY <1>1, <2>1
  <1>5. n.applied =< n.seq /\ n.applied # n.seq
    BY <1>4 DEF Ast!Listed
  <1>6. Ast!Listed(r, o, slot)
    BY <1>1, <1>3 DEF Ast!Listed
  <1>7. r.preview > r.applied
    BY <1>1, <1>3, <1>5
  <1>8. Ast!Queued(r, m)
    BY <1>3 DEF Ast!Queued
  <1> QED
    BY <1>2, <1>3, <1>6, <1>7, <1>8

\* Who asks.
ForObject(n, o, slot, m) == Ast!Ask(n, o, slot, m, FALSE)
ForTextDraw(n, o, slot, m) == Ast!Ask(n, o, slot, m, TRUE)

\* An object asks.
LEMMA AskKeeps ==
    ASSUME NEW n \in Ast!List, NEW o, NEW slot, Ast!Listed(n, o, slot),
           NEW m \in Ast!Models, NEW r, r = ForObject(n, o, slot, m)
    PROVE  r \in Ast!List /\ Ast!Listed(r, o, slot) /\ r.applied = n.applied /\ r.preview = n.preview
  <1>1. CASE r = n
    BY <1>1
  <1>2. CASE r = [n EXCEPT !.preview = n.preview]
    <2>1. r = n
      BY <1>2 DEF Ast!List
    <2> QED
      BY <2>1
  <1>3. CASE ~Ast!Refuses(o, slot, m) /\ ~Ast!Queued(n, m) /\ HasRoom(n)
    <2>1. PICK mark : mark = n.preview
      OBVIOUS
    <2>2. r = [n EXCEPT !.queue = Append(@, m), !.seq = @ + 1, !.preview = IF FALSE THEN n.seq + 1 ELSE @]
      <3>1. ~(Len(n.queue) >= PendingMax)
        BY <1>3, ClientAssumption DEF Ast!List, HasRoom
      <3> QED
        BY <1>3, <3>1 DEF ForObject, Ast!Ask
    <2>3. PICK x : x = Longer(n, m, mark)
      OBVIOUS
    <2>4. IsMark(n, mark)
      BY <2>1 DEF IsMark
    <2>5. x \in Ast!List /\ Ast!Listed(x, o, slot) /\ x.applied = n.applied /\ x.preview = mark
      BY <1>3, <2>3, <2>4, LongerKeeps
    <2>6. r = x
      BY <2>1, <2>2, <2>3 DEF Longer
    <2> QED
      BY <2>1, <2>5, <2>6
  <1> QED
    <2>1. CASE Len(n.queue) >= PendingMax
      BY <1>1, <1>2, <2>1 DEF ForObject, Ast!Ask
    <2>2. CASE ~(Len(n.queue) >= PendingMax)
      <3>1. HasRoom(n)
        BY <2>2, ClientAssumption DEF Ast!List, HasRoom
      <3> QED
        BY <1>1, <1>2, <1>3, <3>1 DEF ForObject, Ast!Ask
    <2> QED
      BY <2>1, <2>2

\* A text draw asks: it leaves a mark if its model is in the list then, and none if not.
LEMMA AskPreviewKeeps ==
    ASSUME NEW n \in Ast!List, NEW o, NEW slot, Ast!Listed(n, o, slot),
           NEW m \in Ast!Models, NEW r, r = ForTextDraw(n, o, slot, m)
    PROVE  /\ r \in Ast!List /\ Ast!Listed(r, o, slot) /\ r.applied = n.applied
           /\ Ast!Queued(r, m) => r.preview > r.applied
           /\ ~Ast!Queued(r, m) => r.preview = n.preview
  <1>1. CASE Ast!Refuses(o, slot, m)
    <2>1. r = n
      BY <1>1 DEF ForTextDraw, Ast!Ask
    <2>2. ~Ast!Queued(n, m)
      BY <1>1 DEF Ast!Queued, Ast!Listed
    <2> QED
      BY <2>1, <2>2
  <1>2. CASE ~Ast!Refuses(o, slot, m) /\ Ast!Queued(n, m)
    <2>1. r = Marked(n)
      BY <1>2 DEF ForTextDraw, Ast!Ask, Marked
    <2> QED
      BY <1>2, <2>1, MarkedKeeps
  <1>3. CASE ~Ast!Refuses(o, slot, m) /\ ~Ast!Queued(n, m) /\ Len(n.queue) >= PendingMax
    <2>1. r = n
      BY <1>3 DEF ForTextDraw, Ast!Ask
    <2> QED
      BY <1>3, <2>1
  <1>4. CASE ~Ast!Refuses(o, slot, m) /\ ~Ast!Queued(n, m) /\ ~(Len(n.queue) >= PendingMax)
    <2>1. PICK mark : mark = n.seq + 1
      OBVIOUS
    <2>2. PICK x : x = Longer(n, m, mark)
      OBVIOUS
    <2>3. IsMark(n, mark) /\ HasRoom(n) /\ mark > n.applied
      <3>1. n.applied =< n.seq
        BY DEF Ast!Listed
      <3> QED
        BY <1>4, <2>1, <3>1, ClientAssumption DEF IsMark, HasRoom, Ast!List
    <2>4. x \in Ast!List /\ Ast!Listed(x, o, slot) /\ x.applied = n.applied /\ x.preview = mark /\ Ast!Queued(x, m)
      BY <1>4, <2>2, <2>3, LongerKeeps
    <2>5. r = x
      BY <1>4, <2>1, <2>2 DEF ForTextDraw, Longer, Ast!Ask
    <2> QED
      BY <2>3, <2>4, <2>5
  <1> QED
    BY <1>1, <1>2, <1>3, <1>4

\* An object that waits for a model whose files are there asks again.
Again(n, o, slot, m) == IF m \in env.wanted /\ Ast!FilesReady(m) THEN Ast!Ask(n, o, slot, m, FALSE) ELSE n

FlushLoop(g, n, o, slot) ==
    g = [i \in 0 .. Len(Ast!Order) |->
           IF i = 0 THEN n
           ELSE IF Ast!Order[i] \in env.wanted /\ Ast!FilesReady(Ast!Order[i])
                THEN Ast!Ask(g[i - 1], o, slot, Ast!Order[i], FALSE)
                ELSE g[i - 1]]

\* The loop is the three models in their order.
LEMMA FlushIs ==
    ASSUME NEW n, NEW o, NEW slot, NEW a, a = Again(n, o, slot, "timed"),
           NEW b, b = Again(a, o, slot, "low1"), NEW c, c = Again(b, o, slot, "low2")
    PROVE  Ast!Flush(n, o, slot) = c
  <1>1. Len(Ast!Order) = 3 /\ Ast!Order[1] = "timed" /\ Ast!Order[2] = "low1" /\ Ast!Order[3] = "low2"
    BY DEF Ast!Order
  <1> DEFINE Loop(g) == g = [i \in 0 .. 3 |-> IF i = 0 THEN n ELSE Again(g[i - 1], o, slot, Ast!Order[i])]
             h == [i \in 0 .. 3 |-> IF i = 0 THEN n ELSE IF i = 1 THEN a ELSE IF i = 2 THEN b ELSE c]
  <1>2. Loop(h)
    <2>1. ASSUME NEW i \in 0 .. 3 PROVE h[i] = IF i = 0 THEN n ELSE Again(h[i - 1], o, slot, Ast!Order[i])
      BY <1>1
    <2> QED
      BY <2>1
  <1>3. \E g : Loop(g)
    <2> HIDE DEF Loop, h
    <2> QED
      BY <1>2
  <1>4. \A g : Loop(g) <=> FlushLoop(g, n, o, slot)
    BY <1>1 DEF FlushLoop, Again
  <1> DEFINE chosen == CHOOSE g : FlushLoop(g, n, o, slot)
  <1>5. FlushLoop(chosen, n, o, slot)
    <2> HIDE DEF Loop
    <2> QED
      BY <1>3, <1>4
  <1>6. Ast!Flush(n, o, slot) = chosen[3]
    BY <1>1 DEF Ast!Flush, FlushLoop
  <1>7. Loop(chosen)
    <2> HIDE DEF Loop, chosen
    <2> QED
      BY <1>4, <1>5
  <1>8. chosen[3] = c
    <2> HIDE DEF chosen
    <2>1. chosen[0] = n
      BY <1>7
    <2>2. chosen[1] = a
      BY <1>1, <1>7, <2>1
    <2>3. chosen[2] = b
      BY <1>1, <1>7, <2>2
    <2> QED
      BY <1>1, <1>7, <2>3
  <1> QED
    BY <1>6, <1>8

\* What asking keeps.
Asked(n, o, slot, r) ==
    r \in Ast!List /\ Ast!Listed(r, o, slot) /\ r.applied = n.applied /\ r.preview = n.preview

\* Asking again keeps the list, what has been seen to and the mark.
LEMMA AgainKeeps ==
    ASSUME NEW n \in Ast!List, NEW o, NEW slot, Ast!Listed(n, o, slot), NEW m \in Ast!Models
    PROVE  \E r : r = Again(n, o, slot, m) /\ Asked(n, o, slot, r)
  <1>1. PICK x : x = ForObject(n, o, slot, m)
    OBVIOUS
  <1>2. Asked(n, o, slot, x)
    BY <1>1, AskKeeps DEF Asked
  <1>3. PICK r : r = Again(n, o, slot, m)
    OBVIOUS
  <1>4. r = x \/ r = n
    BY <1>1, <1>3 DEF Again, ForObject
  <1>5. Asked(n, o, slot, n)
    BY DEF Asked
  <1> QED
    BY <1>2, <1>3, <1>4, <1>5

LEMMA FlushKeeps ==
    ASSUME NEW n \in Ast!List, NEW o, NEW slot, Ast!Listed(n, o, slot)
    PROVE  \E r : r = Ast!Flush(n, o, slot) /\ Asked(n, o, slot, r)
  <1>1. "timed" \in Ast!Models /\ "low1" \in Ast!Models /\ "low2" \in Ast!Models
    BY DEF Ast!Models, Ast!Low
  <1>2. PICK a : a = Again(n, o, slot, "timed") /\ Asked(n, o, slot, a)
    BY <1>1, AgainKeeps
  <1>3. PICK b : b = Again(a, o, slot, "low1") /\ Asked(a, o, slot, b)
    BY <1>1, <1>2, AgainKeeps DEF Asked
  <1>4. PICK c : c = Again(b, o, slot, "low2") /\ Asked(b, o, slot, c)
    BY <1>1, <1>3, AgainKeeps DEF Asked
  <1>5. Ast!Flush(n, o, slot) = c
    BY <1>2, <1>3, <1>4, FlushIs
  <1>6. Asked(n, o, slot, c)
    BY <1>2, <1>3, <1>4 DEF Asked
  <1> QED
    BY <1>5, <1>6

-----------------------------------------------------------------------------
(* Assets: model infos. *)

\* What registration changes.
Work == [infos : SUBSET Ast!Models, blocked : SUBSET Ast!Models,
         slot : [Ast!Models -> {"empty", "heap", "native", "bare"}], store : 0 .. TimeStore,
         registered : BOOLEAN, already : BOOLEAN]

Sound(s) == s \in Work /\ Ast!Placed(s.infos, s.slot)

\* What is there stays there, and nothing comes without a note of it.
More(slot, new) == \A m \in Ast!Models : Ast!Available(slot, m) => Ast!Available(new, m)
Noted(s, r) ==
    /\ More(s.slot, r.slot) /\ (s.registered => r.registered)
    /\ r.registered \/ More(r.slot, s.slot)

LEMMA NotedTwice ==
    ASSUME NEW s, NEW r, NEW t, Noted(s, r), Noted(r, t)
    PROVE  Noted(s, t)
  BY DEF Noted, More

LEMMA NotedSame ==
    ASSUME NEW s
    PROVE  Noted(s, s)
  BY DEF Noted, More

\* A model info on the heap.
LEMMA HeapIs ==
    ASSUME NEW s, Sound(s), NEW m \in Ast!Low, NEW r, r = [s EXCEPT !.slot[m] = "heap", !.infos = s.infos \cup {m}]
    PROVE  Sound(r) /\ More(s.slot, r.slot) /\ r.registered = s.registered
  <1>1. PICK slot, infos : slot = [s.slot EXCEPT ![m] = "heap"] /\ infos = s.infos \cup {m}
    OBVIOUS
  <1>2. s \in Work /\ m \in Ast!Models /\ s.slot \in [Ast!Models -> {"empty", "heap", "native", "bare"}]
    BY DEF Sound, Work, Ast!Models
  <1>3. slot \in [Ast!Models -> {"empty", "heap", "native", "bare"}] /\ infos \subseteq Ast!Models
    BY <1>1, <1>2 DEF Work
  <1>4. r = [s EXCEPT !.slot = slot, !.infos = infos]
    BY <1>1
  <1>5. r \in Work
    BY <1>2, <1>3, <1>4 DEF Work
  <1>6. r.slot = slot /\ r.infos = infos /\ r.registered = s.registered
    BY <1>2, <1>4 DEF Work
  <1>7. \A k \in Ast!Models : slot[k] = IF k = m THEN "heap" ELSE s.slot[k]
    BY <1>1, <1>2
  <1>8. Ast!Placed(infos, slot)
    BY <1>1, <1>2, <1>7 DEF Sound, Ast!Placed, Ast!Models
  <1>9. More(s.slot, slot)
    BY <1>7 DEF More, Ast!Available
  <1> QED
    BY <1>5, <1>6, <1>8, <1>9 DEF Sound

\* A model info of GTA's, whole or without a key.
LEMMA NativeIs ==
    ASSUME NEW s, Sound(s), s.store < TimeStore, ~Ast!Available(s.slot, "timed"), NEW how \in {"native", "bare"},
           NEW r, r = [s EXCEPT !.slot["timed"] = how, !.store = s.store + 1]
    PROVE  Sound(r) /\ More(s.slot, r.slot) /\ r.registered = s.registered
  <1>1. PICK slot, store : slot = [s.slot EXCEPT !["timed"] = how] /\ store = s.store + 1
    OBVIOUS
  <1>2. /\ s \in Work /\ "timed" \in Ast!Models /\ "timed" \notin Ast!Low
        /\ s.slot \in [Ast!Models -> {"empty", "heap", "native", "bare"}]
    BY DEF Sound, Work, Ast!Models, Ast!Low
  <1>3. slot \in [Ast!Models -> {"empty", "heap", "native", "bare"}]
    BY <1>1, <1>2
  <1>4. store \in 0 .. TimeStore
    BY <1>1, <1>2, ClientAssumption DEF Work
  <1>5. r = [s EXCEPT !.slot = slot, !.store = store]
    BY <1>1
  <1>6. r \in Work
    BY <1>2, <1>3, <1>4, <1>5 DEF Work
  <1>7. r.slot = slot /\ r.infos = s.infos /\ r.registered = s.registered
    BY <1>2, <1>5 DEF Work
  <1>8. \A k \in Ast!Models : slot[k] = IF k = "timed" THEN how ELSE s.slot[k]
    BY <1>1, <1>2
  <1>9. Ast!Placed(s.infos, slot)
    <2>1. s.infos \subseteq Ast!Low /\ "timed" \notin s.infos /\ how # "heap"
      BY <1>2 DEF Sound, Ast!Placed
    <2>2. \A k \in Ast!Low : k \in Ast!Models /\ k # "timed"
      BY <1>2 DEF Ast!Models
    <2>3. ASSUME NEW k \in Ast!Models PROVE slot[k] = "heap" <=> k \in s.infos
      BY <1>8, <2>1 DEF Sound, Ast!Placed
    <2>4. ASSUME NEW k \in Ast!Low PROVE slot[k] \in {"empty", "heap"}
      BY <1>8, <2>2 DEF Sound, Ast!Placed
    <2> QED
      BY <2>1, <2>3, <2>4 DEF Ast!Placed
  <1>10. More(s.slot, slot)
    BY <1>8 DEF More, Ast!Available
  <1> QED
    BY <1>6, <1>7, <1>9, <1>10 DEF Sound

\* Registration keeps what is there, and an attempt that fails leaves the table as it was.
LEMMA RegisterIs ==
    ASSUME NEW s, Sound(s), NEW m \in Ast!Models, NEW bad
    PROVE  \E r : /\ r = Ast!Register(s, m, bad) /\ Sound(r) /\ More(s.slot, r.slot) /\ r.registered = s.registered
                  /\ Ast!Available(r.slot, m) \/ More(r.slot, s.slot)
  <1>1. PICK r : r = Ast!Register(s, m, bad)
    OBVIOUS
  <1>2. CASE r = s
    BY <1>1, <1>2 DEF More
  <1>3. CASE ~Ast!Available(s.slot, m) /\ m \in Ast!Low /\ r # s
    <2>1. r = [s EXCEPT !.slot[m] = "heap", !.infos = s.infos \cup {m}]
      BY <1>1, <1>3 DEF Ast!Register, Ast!RegisterHeap, Ast!Low
    <2>2. Sound(r) /\ More(s.slot, r.slot) /\ r.registered = s.registered
      BY <1>3, <2>1, HeapIs
    <2>3. Ast!Available(r.slot, m)
      <3>1. r.slot = [s.slot EXCEPT ![m] = "heap"]
        BY <2>1 DEF Sound, Work
      <3>2. s.slot \in [Ast!Models -> {"empty", "heap", "native", "bare"}]
        BY DEF Sound, Work
      <3> QED
        BY <3>1, <3>2 DEF Ast!Available
    <2> QED
      BY <1>1, <2>2, <2>3
  <1>4. CASE ~Ast!Available(s.slot, m) /\ m = "timed" /\ r # s
    <2>1. CASE s.store >= TimeStore
      <3>1. r = [s EXCEPT !.blocked = s.blocked \cup {m}]
        BY <1>1, <1>4, <2>1 DEF Ast!Register, Ast!RegisterTimed
      <3>2. s \in Work /\ r \in Work
        BY <3>1 DEF Sound, Work
      <3>3. r.slot = s.slot /\ r.infos = s.infos /\ r.registered = s.registered
        BY <3>1, <3>2 DEF Work
      <3> QED
        BY <1>1, <3>2, <3>3 DEF Sound, More
    <2>2. CASE ~(s.store >= TimeStore)
      <3>1. PICK how \in {"native", "bare"} : r = [s EXCEPT !.slot["timed"] = how, !.store = s.store + 1]
        <4>1. CASE m \in bad
          BY <1>1, <1>4, <2>2, <4>1 DEF Ast!Register, Ast!RegisterTimed
        <4>2. CASE m \notin bad
          BY <1>1, <1>4, <2>2, <4>2 DEF Ast!Register, Ast!RegisterTimed
        <4> QED
          BY <4>1, <4>2
      <3>2. s.store < TimeStore
        BY <2>2, ClientAssumption DEF Sound, Work
      <3>3. Sound(r) /\ More(s.slot, r.slot) /\ r.registered = s.registered
        BY <1>4, <3>1, <3>2, NativeIs
      <3>4. Ast!Available(r.slot, m) \/ More(r.slot, s.slot)
        <4>1. r.slot = [s.slot EXCEPT !["timed"] = how]
          BY <3>1 DEF Sound, Work
        <4>2. s.slot \in [Ast!Models -> {"empty", "heap", "native", "bare"}]
          BY DEF Sound, Work
        <4>3. CASE how = "native"
          BY <1>4, <4>1, <4>2, <4>3 DEF Ast!Available
        <4>4. CASE how = "bare"
          BY <1>4, <4>1, <4>2, <4>4 DEF Ast!Available, More
        <4> QED
          BY <4>3, <4>4
      <3> QED
        BY <1>1, <3>3, <3>4
    <2> QED
      BY <2>1, <2>2
  <1>5. r = s \/ ~Ast!Available(s.slot, m)
    BY <1>1 DEF Ast!Register
  <1>6. m \in Ast!Low \/ m = "timed"
    BY DEF Ast!Models
  <1> QED
    BY <1>2, <1>3, <1>4, <1>5, <1>6

\* A note changes no model.
LEMMA AlreadyIs ==
    ASSUME NEW s, Sound(s), NEW r, r = [s EXCEPT !.already = TRUE]
    PROVE  Sound(r) /\ r.slot = s.slot /\ r.registered = s.registered
  <1>1. s \in Work
    BY DEF Sound
  <1>2. r \in Work
    BY <1>1 DEF Work
  <1>3. r.infos = s.infos /\ r.slot = s.slot /\ r.registered = s.registered
    BY <1>1, <1>2 DEF Work
  <1> QED
    BY <1>2, <1>3 DEF Sound

LEMMA RegisteredIs ==
    ASSUME NEW s, Sound(s), NEW r, r = [s EXCEPT !.registered = TRUE]
    PROVE  Sound(r) /\ r.slot = s.slot /\ r.registered
  <1>1. s \in Work
    BY DEF Sound
  <1>2. r \in Work
    BY <1>1 DEF Work
  <1>3. r.infos = s.infos /\ r.slot = s.slot /\ r.registered
    BY <1>1, <1>2 DEF Work
  <1> QED
    BY <1>2, <1>3 DEF Sound

\* The rest of the low range comes along at most.
LEMMA PreloadIs ==
    ASSUME NEW s, Sound(s), NEW m \in Ast!Models, NEW bad, NEW source
    PROVE  \E r : /\ r = Ast!PreloadLow(s, m, bad, source) /\ Sound(r) /\ More(s.slot, r.slot)
                  /\ r.registered = s.registered
  <1>1. PICK rest : rest = CHOOSE x \in Ast!Low : x # m
    OBVIOUS
  <1>2. rest \in Ast!Low /\ rest \in Ast!Models
    <2>1. \E x \in Ast!Low : x # m
      BY DEF Ast!Low
    <2> QED
      BY <1>1, <2>1 DEF Ast!Models
  <1>3. PICK t : t = Ast!Register(s, rest, bad) /\ Sound(t) /\ More(s.slot, t.slot) /\ t.registered = s.registered
    BY <1>2, RegisterIs
  <1>4. PICK r : r = Ast!PreloadLow(s, m, bad, source)
    OBVIOUS
  <1>5. r = s \/ r = t
    BY <1>1, <1>3, <1>4 DEF Ast!PreloadLow
  <1>6. More(s.slot, s.slot)
    BY DEF More
  <1> QED
    BY <1>3, <1>4, <1>5, <1>6

\* A model of the list: what comes is noted.
LEMMA DrainOneIs ==
    ASSUME NEW s, Sound(s), NEW m \in Ast!Models, NEW bad, NEW source
    PROVE  \E r : r = Ast!DrainOne(s, m, bad, source) /\ Sound(r) /\ Noted(s, r)
  <1>1. PICK r : r = Ast!DrainOne(s, m, bad, source)
    OBVIOUS
  <1>2. CASE r = s
    BY <1>1, <1>2, NotedSame
  <1>3. CASE r = [s EXCEPT !.already = TRUE]
    <2>1. Sound(r) /\ r.slot = s.slot /\ r.registered = s.registered
      BY <1>3, AlreadyIs
    <2>2. Noted(s, r)
      BY <2>1 DEF Noted, More
    <2> QED
      BY <1>1, <2>1, <2>2
  <1>4. PICK one : /\ one = Ast!Register(s, m, bad) /\ Sound(one) /\ More(s.slot, one.slot)
                   /\ one.registered = s.registered
                   /\ Ast!Available(one.slot, m) \/ More(one.slot, s.slot)
    BY RegisterIs
  <1>5. CASE r = one /\ ~Ast!Available(one.slot, m)
    <2>1. Noted(s, r)
      BY <1>4, <1>5 DEF Noted
    <2> QED
      BY <1>1, <1>4, <1>5, <2>1
  <1>6. PICK two : two = [one EXCEPT !.registered = TRUE]
    OBVIOUS
  <1>7. Sound(two) /\ two.slot = one.slot /\ two.registered
    <2>1. Sound(one)
      BY <1>4
    <2> QED
      BY <1>6, <2>1, RegisteredIs
  <1>8. PICK all : /\ all = Ast!PreloadLow(two, m, bad, source) /\ Sound(all) /\ More(two.slot, all.slot)
                   /\ all.registered = two.registered
    <2>1. Sound(two)
      BY <1>7
    <2> QED
      BY <2>1, PreloadIs
  <1>9. CASE r = all
    <2>1. More(s.slot, all.slot)
      <3>1. More(s.slot, two.slot) /\ More(two.slot, all.slot)
        BY <1>4, <1>7, <1>8
      <3> QED
        BY <3>1 DEF More
    <2>2. Noted(s, r)
      BY <1>7, <1>8, <1>9, <2>1 DEF Noted
    <2> QED
      BY <1>1, <1>8, <1>9, <2>2
  <1> QED
    <2>1. \/ r = s
          \/ r = [s EXCEPT !.already = TRUE]
          \/ r = one /\ ~Ast!Available(one.slot, m)
          \/ r = all
      <3>1. CASE ~Ast!Allowed(m)
        BY <1>1, <3>1 DEF Ast!DrainOne
      <3>2. CASE Ast!Allowed(m) /\ Ast!Available(s.slot, m)
        BY <1>1, <3>2 DEF Ast!DrainOne
      <3>3. CASE Ast!Allowed(m) /\ ~Ast!Available(s.slot, m) /\ ~Ast!FilesReady(m)
        BY <1>1, <3>3 DEF Ast!DrainOne
      <3>4. CASE Ast!Allowed(m) /\ ~Ast!Available(s.slot, m) /\ Ast!FilesReady(m)
        <4>1. r = IF Ast!Available(one.slot, m) THEN Ast!PreloadLow(two, m, bad, source) ELSE one
          BY <1>1, <1>4, <1>6, <3>4 DEF Ast!DrainOne
        <4> QED
          BY <1>8, <4>1
      <3> QED
        BY <3>1, <3>2, <3>3, <3>4
    <2> QED
      BY <1>2, <1>3, <1>5, <1>9, <2>1

\* The loop over the list, up to place n.
DrainLoop(g, s, bad, source, n) ==
    g = [i \in 0 .. n |-> IF i = 0 THEN s ELSE Ast!DrainOne(g[i - 1], net.queue[i], bad, source)]

\* There is such a function for every n, so the recursive definition has a value.
LEMMA DrainLoopIs ==
    ASSUME NEW s, NEW bad, NEW source, NEW last, last \in Nat, last = Len(net.queue)
    PROVE  \E g : DrainLoop(g, s, bad, source, last) /\ Ast!DrainList(s, bad, source) = g[last]
  <1> DEFINE S == {n \in Nat : \E g : DrainLoop(g, s, bad, source, n)}
  <1>1. 0 \in S
    <2>1. DrainLoop([i \in 0 .. 0 |-> s], s, bad, source, 0)
      BY DEF DrainLoop
    <2> QED
      BY <2>1
  <1>2. ASSUME NEW n \in Nat, n \in S PROVE n + 1 \in S
    <2>1. PICK g : DrainLoop(g, s, bad, source, n)
      BY <1>2
    <2> DEFINE Drain(x, i) == Ast!DrainOne(x, net.queue[i], bad, source)
               h == [i \in 0 .. n + 1 |-> IF i = n + 1 THEN Drain(g[n], n + 1) ELSE g[i]]
    <2>2. g = [i \in 0 .. n |-> IF i = 0 THEN s ELSE Drain(g[i - 1], i)]
      BY <2>1 DEF DrainLoop
    <2>3. ASSUME NEW i \in 0 .. n + 1 PROVE h[i] = IF i = 0 THEN s ELSE Drain(h[i - 1], i)
      <3> HIDE DEF Drain
      <3>1. CASE i = 0
        BY <3>1, <2>2
      <3>2. CASE i # 0 /\ i # n + 1
        <4>1. i \in 0 .. n /\ i - 1 \in 0 .. n /\ i - 1 \in 0 .. n + 1 /\ i - 1 # n + 1
          BY <3>2
        <4> QED
          BY <3>2, <4>1, <2>2
      <3>3. CASE i = n + 1
        BY <3>3
      <3> QED
        BY <3>1, <3>2, <3>3
    <2>4. DrainLoop(h, s, bad, source, n + 1)
      BY <2>3 DEF DrainLoop
    <2>5. \E k : DrainLoop(k, s, bad, source, n + 1)
      <3> HIDE DEF h
      <3> QED
        BY <2>4
    <2> QED
      BY <2>5
  <1>3. \E g : DrainLoop(g, s, bad, source, last)
    <2>1. Nat \subseteq S
      BY <1>1, <1>2, Steps
    <2> QED
      BY <2>1
  <1> DEFINE chosen == CHOOSE g : DrainLoop(g, s, bad, source, last)
  <1>4. DrainLoop(chosen, s, bad, source, last)
    BY <1>3
  <1>5. Ast!DrainList(s, bad, source) = chosen[last]
    BY DEF Ast!DrainList, DrainLoop
  <1> HIDE DEF chosen
  <1> QED
    BY <1>4, <1>5

\* The whole list.
LEMMA DrainListIs ==
    ASSUME NEW s, Sound(s), net \in Ast!List, NEW bad, NEW source
    PROVE  \E r : r = Ast!DrainList(s, bad, source) /\ Sound(r) /\ Noted(s, r)
  <1>1. PICK last : last = Len(net.queue) /\ last \in Nat
    BY DEF Ast!List
  <1>2. PICK g : DrainLoop(g, s, bad, source, last) /\ Ast!DrainList(s, bad, source) = g[last]
    BY <1>1, DrainLoopIs
  <1> DEFINE S == {n \in Nat : n =< last => Sound(g[n]) /\ Noted(s, g[n])}
  <1>3. 0 \in S
    <2>1. g[0] = s
      BY <1>1, <1>2 DEF DrainLoop
    <2> QED
      BY <2>1, NotedSame
  <1>4. ASSUME NEW n \in Nat, n \in S PROVE n + 1 \in S
    <2> SUFFICES ASSUME n + 1 =< last PROVE Sound(g[n + 1]) /\ Noted(s, g[n + 1])
      OBVIOUS
    <2>1. n =< last /\ n + 1 \in 0 .. last /\ n + 1 # 0 /\ (n + 1) - 1 = n /\ n + 1 \in 1 .. Len(net.queue)
      BY <1>1
    <2>2. Sound(g[n]) /\ Noted(s, g[n])
      BY <1>4, <2>1
    <2>3. PICK i : i = n + 1
      OBVIOUS
    <2>4. PICK m : m = net.queue[i]
      OBVIOUS
    <2>5. m \in Ast!Models
      BY <2>1, <2>3, <2>4 DEF Ast!List
    <2>6. PICK x : x = g[n]
      OBVIOUS
    <2>7. g[i] = Ast!DrainOne(x, m, bad, source)
      <3>1. \A k \in 0 .. last : k # 0 => g[k] = Ast!DrainOne(g[k - 1], net.queue[k], bad, source)
        BY <1>2 DEF DrainLoop
      <3>2. i \in 0 .. last /\ i # 0 /\ i - 1 = n
        BY <2>1, <2>3
      <3>3. PICK k : k = i - 1
        OBVIOUS
      <3>4. g[i] = Ast!DrainOne(g[k], net.queue[i], bad, source)
        BY <3>1, <3>2, <3>3
      <3> QED
        BY <2>4, <2>6, <3>2, <3>3, <3>4
    <2>8. PICK r : r = Ast!DrainOne(x, m, bad, source) /\ Sound(r) /\ Noted(x, r)
      BY <2>2, <2>5, <2>6, DrainOneIs
    <2>9. g[n + 1] = r
      BY <2>3, <2>7, <2>8
    <2>10. Noted(s, r)
      BY <2>2, <2>6, <2>8, NotedTwice
    <2> QED
      BY <2>8, <2>9, <2>10
  <1>5. Nat \subseteq S
    <2> HIDE DEF S
    <2> QED
      BY <1>3, <1>4, Steps
  <1>6. Sound(g[last]) /\ Noted(s, g[last])
    BY <1>1, <1>5
  <1> QED
    BY <1>2, <1>6

BulkLoop(g, s, bad) ==
    g = [i \in 0 .. Len(Ast!Order) |-> IF i = 0 THEN s ELSE Ast!Register(g[i - 1], Ast!Order[i], bad)]

\* The bulk is the three models in their order.
LEMMA BulkLoopIs ==
    ASSUME own.bulk = "untried", NEW s, NEW bad, NEW a, a = Ast!Register(s, "timed", bad),
           NEW b, b = Ast!Register(a, "low1", bad), NEW c, c = Ast!Register(b, "low2", bad)
    PROVE  Ast!Bulk(s, bad) = c
  <1>1. Len(Ast!Order) = 3 /\ Ast!Order[1] = "timed" /\ Ast!Order[2] = "low1" /\ Ast!Order[3] = "low2"
    BY DEF Ast!Order
  <1> DEFINE Loop(g) == g = [i \in 0 .. 3 |-> IF i = 0 THEN s ELSE Ast!Register(g[i - 1], Ast!Order[i], bad)]
             h == [i \in 0 .. 3 |-> IF i = 0 THEN s ELSE IF i = 1 THEN a ELSE IF i = 2 THEN b ELSE c]
  <1>2. Loop(h)
    <2>1. ASSUME NEW i \in 0 .. 3 PROVE h[i] = IF i = 0 THEN s ELSE Ast!Register(h[i - 1], Ast!Order[i], bad)
      BY <1>1
    <2> QED
      BY <2>1
  <1>3. \E g : Loop(g)
    <2> HIDE DEF Loop, h
    <2> QED
      BY <1>2
  <1>4. \A g : Loop(g) <=> BulkLoop(g, s, bad)
    BY <1>1 DEF BulkLoop
  <1> DEFINE chosen == CHOOSE g : BulkLoop(g, s, bad)
  <1>5. BulkLoop(chosen, s, bad)
    <2> HIDE DEF Loop
    <2> QED
      BY <1>3, <1>4
  <1>6. Ast!Bulk(s, bad) = chosen[3]
    BY <1>1 DEF Ast!Bulk, BulkLoop
  <1>7. Loop(chosen)
    <2> HIDE DEF Loop, chosen
    <2> QED
      BY <1>4, <1>5
  <1>8. chosen[3] = c
    <2> HIDE DEF chosen
    <2>1. chosen[0] = s
      BY <1>7
    <2>2. chosen[1] = a
      BY <1>1, <1>7, <2>1
    <2>3. chosen[2] = b
      BY <1>1, <1>7, <2>2
    <2> QED
      BY <1>1, <1>7, <2>3
  <1> QED
    BY <1>6, <1>8

\* The bulk, once.
LEMMA BulkIs ==
    ASSUME NEW s, Sound(s), NEW bad
    PROVE  \E r : /\ r = Ast!Bulk(s, bad) /\ Sound(r) /\ More(s.slot, r.slot) /\ r.registered = s.registered
                  /\ own.bulk # "untried" => r = s
  <1>1. CASE own.bulk # "untried"
    <2>1. Ast!Bulk(s, bad) = s
      BY <1>1 DEF Ast!Bulk
    <2> QED
      BY <2>1 DEF More
  <1>2. CASE own.bulk = "untried"
    <2>1. "timed" \in Ast!Models /\ "low1" \in Ast!Models /\ "low2" \in Ast!Models
      BY DEF Ast!Models, Ast!Low
    <2>2. PICK a : a = Ast!Register(s, "timed", bad) /\ Sound(a) /\ More(s.slot, a.slot) /\ a.registered = s.registered
      BY <2>1, RegisterIs
    <2>3. PICK b : b = Ast!Register(a, "low1", bad) /\ Sound(b) /\ More(a.slot, b.slot) /\ b.registered = a.registered
      BY <2>1, <2>2, RegisterIs
    <2>4. PICK c : c = Ast!Register(b, "low2", bad) /\ Sound(c) /\ More(b.slot, c.slot) /\ c.registered = b.registered
      BY <2>1, <2>3, RegisterIs
    <2>5. Ast!Bulk(s, bad) = c
      BY <1>2, <2>2, <2>3, <2>4, BulkLoopIs
    <2>6. More(s.slot, c.slot)
      BY <2>2, <2>3, <2>4 DEF More
    <2> QED
      BY <1>2, <2>2, <2>3, <2>4, <2>5, <2>6
  <1> QED
    BY <1>1, <1>2

-----------------------------------------------------------------------------
(* Assets: GTA's streaming. *)

Tables(image, table) ==
    /\ image \in [Ast!Archives -> -2 .. Images] /\ table \in Seq(Ast!Images_) /\ Ast!Streamed(image, table, 0)

\* The archive has been tried, and the other number is what it was.
Added(st, x, r) ==
    /\ Tables(r.image, r.table) /\ r.image[x] # -1
    /\ \A y \in Ast!Archives : st.image[y] # -1 => r.image[y] = st.image[y]

\* The directory's number is the place of the archive's own path or no place.
LEMMA AddImageIs ==
    ASSUME NEW st, Tables(st.image, st.table), NEW x \in Ast!Archives
    PROVE  Added(st, x, Ast!AddImage(st, x))
  <1>1. CASE st.image[x] # -1
    <2>1. Ast!AddImage(st, x) = st
      BY <1>1 DEF Ast!AddImage
    <2> QED
      BY <1>1, <2>1 DEF Added
  <1>2. CASE st.image[x] = -1
    <2>1. PICK image, table, l : image = st.image /\ table = st.table /\ l = Len(table)
      OBVIOUS
    <2>2. /\ image \in [Ast!Archives -> -2 .. Images] /\ table \in Seq(Ast!Images_) /\ l \in Nat /\ l >= 1 /\ l =< Images
          /\ Images \in Nat /\ x \in Ast!Images_ /\ \A y \in Ast!Archives : image[y] =< l /\ (image[y] > 0 => table[image[y]] = y)
      <3>1. image \in [Ast!Archives -> -2 .. Images] /\ table \in Seq(Ast!Images_)
        BY <2>1 DEF Tables
      <3>2. l \in 1 .. Images /\ Images \in Nat
        BY <2>1, ClientAssumption DEF Tables, Ast!Streamed
      <3>3. \A y \in Ast!Archives : image[y] =< l /\ (image[y] > 0 => table[image[y]] = y)
        BY <2>1 DEF Tables, Ast!Streamed
      <3>4. x \in Ast!Images_
        BY DEF Ast!Images_
      <3> QED
        BY <3>1, <3>2, <3>3, <3>4
    <2>3. CASE l < Images
      <3>1. PICK new : new = Append(table, x)
        OBVIOUS
      <3>2. new \in Seq(Ast!Images_) /\ Len(new) = l + 1 /\ new[l + 1] = x /\ \A i \in 1 .. l : new[i] = table[i]
        BY <2>1, <2>2, <3>1
      <3>3. PICK told : told = [image EXCEPT ![x] = l + 1]
        OBVIOUS
      <3>4. told \in [Ast!Archives -> -2 .. Images] /\ \A y \in Ast!Archives : told[y] = IF y = x THEN l + 1 ELSE image[y]
        BY <2>2, <2>3, <3>3
      <3>5. PICK r : r = Ast!AddImage(st, x)
        OBVIOUS
      <3>6. r = [table |-> new, image |-> told]
        <4>1. Ast!AddToList(st.table, x) = [table |-> new, id |-> l]
          BY <2>1, <2>3, <3>1 DEF Ast!AddToList
        <4> QED
          BY <1>2, <2>1, <3>2, <3>3, <3>5, <4>1 DEF Ast!AddImage
      <3>7. Ast!Streamed(told, new, 0)
        <4>1. ASSUME NEW y \in Ast!Archives PROVE told[y] =< l + 1 /\ (told[y] > 0 => new[told[y]] = y)
          <5>1. CASE y = x
            BY <2>2, <3>2, <3>4, <5>1
          <5>2. CASE y # x
            <6>1. told[y] = image[y] /\ image[y] \in -2 .. Images /\ image[y] =< l
              BY <2>2, <3>4, <5>2
            <6>2. image[y] > 0 => image[y] \in 1 .. l /\ table[image[y]] = y
              BY <2>2, <6>1
            <6> QED
              BY <2>2, <3>2, <6>1, <6>2
          <5> QED
            BY <5>1, <5>2
        <4> QED
          BY <2>2, <2>3, <3>2, <4>1 DEF Ast!Streamed
      <3>8. Tables(told, new) /\ told[x] # -1
        BY <2>2, <3>2, <3>4, <3>7 DEF Tables
      <3>9. \A y \in Ast!Archives : st.image[y] # -1 => told[y] = st.image[y]
        BY <1>2, <2>1, <3>4
      <3> QED
        BY <3>5, <3>6, <3>8, <3>9 DEF Added
    <2>4. CASE ~(l < Images)
      <3>1. PICK told : told = [image EXCEPT ![x] = IF table[1] = x THEN 1 ELSE -2]
        OBVIOUS
      <3>2. /\ told \in [Ast!Archives -> -2 .. Images]
            /\ \A y \in Ast!Archives : told[y] = IF y = x THEN (IF table[1] = x THEN 1 ELSE -2) ELSE image[y]
        BY <2>2, <3>1
      <3>3. PICK r : r = Ast!AddImage(st, x)
        OBVIOUS
      <3>4. r = [table |-> table, image |-> told]
        <4>1. Ast!AddToList(st.table, x) = [table |-> table, id |-> 0]
          BY <2>1, <2>4 DEF Ast!AddToList
        <4> QED
          BY <1>2, <2>1, <3>1, <3>3, <4>1 DEF Ast!AddImage
      <3>5. Ast!Streamed(told, table, 0)
        <4>1. ASSUME NEW y \in Ast!Archives PROVE told[y] =< l /\ (told[y] > 0 => table[told[y]] = y)
          BY <2>2, <3>2
        <4> QED
          BY <2>1, <2>2, <4>1 DEF Ast!Streamed
      <3>6. Tables(told, table) /\ told[x] # -1
        <4>1. told[x] = 1 \/ told[x] = -2
          BY <3>2
        <4>2. told[x] # -1
          BY <4>1
        <4> QED
          BY <2>2, <3>2, <3>5, <4>2 DEF Tables
      <3>7. \A y \in Ast!Archives : st.image[y] # -1 => told[y] = st.image[y]
        BY <1>2, <2>1, <3>2
      <3> QED
        BY <3>3, <3>4, <3>6, <3>7 DEF Added
    <2> QED
      BY <2>3, <2>4
  <1> QED
    BY <1>1, <1>2

\* ModelsUsable of what a drain leaves.
Usable(slot, image, passes, known, bound, col) ==
    /\ passes \in 1 .. ReloadLimit =>
         \A m \in Ast!Models :
           Ast!Available(slot, m) /\ m \in env.dff /\ image[Ast!Archive(m)] > 0 => m \in known
    /\ col => \A m \in Ast!Models : Ast!Available(slot, m) => m \in bound

\* What streaming leaves behind a registration.
Streams(slot, st) ==
    /\ Tables(st.image, st.table) /\ st.passes \in 0 .. ReloadLimit + 1 /\ st.col \in BOOLEAN
    /\ st.known \subseteq Ast!Models /\ st.bound \subseteq Ast!Models
    /\ st.passes > 0 => \A x \in Ast!Archives : st.image[x] # -1
    /\ Usable(slot, st.image, st.passes, st.known, st.bound, st.col)

StreamingIsSound ==
    /\ own \in Ast!Notes /\ env \in Ast!World
    /\ Ast!Streamed(own.image, env.table, own.passes) /\ Ast!ModelsUsable

\* The archives' numbers after they have been added.
LEMMA BothAdded ==
    ASSUME StreamingIsSound
    PROVE  \E st : /\ st = Ast!AddImage(Ast!AddImage([table |-> env.table, image |-> own.image], "custom"), "samp")
                   /\ Tables(st.image, st.table) /\ \A x \in Ast!Archives : st.image[x] # -1
                   /\ own.passes > 0 => \A x \in Ast!Archives : st.image[x] = own.image[x]
  <1>1. PICK old : old = [table |-> env.table, image |-> own.image]
    OBVIOUS
  <1>2. "custom" \in Ast!Archives /\ "samp" \in Ast!Archives /\ \A x \in Ast!Archives : x = "custom" \/ x = "samp"
    BY DEF Ast!Archives
  <1>3. Tables(old.image, old.table)
    <2>1. old.image = own.image /\ old.table = env.table
      BY <1>1
    <2>2. own.image \in [Ast!Archives -> -2 .. Images] /\ env.table \in Seq(Ast!Images_)
      BY DEF StreamingIsSound, Ast!Notes, Ast!World
    <2> QED
      BY <2>1, <2>2 DEF StreamingIsSound, Tables, Ast!Streamed
  <1>4. PICK a : /\ a = Ast!AddImage(old, "custom") /\ Tables(a.image, a.table) /\ a.image["custom"] # -1
                 /\ \A y \in Ast!Archives : old.image[y] # -1 => a.image[y] = old.image[y]
    <2>1. Added(old, "custom", Ast!AddImage(old, "custom"))
      BY <1>2, <1>3, AddImageIs
    <2> QED
      BY <2>1 DEF Added
  <1>5. PICK b : /\ b = Ast!AddImage(a, "samp") /\ Tables(b.image, b.table) /\ b.image["samp"] # -1
                 /\ \A y \in Ast!Archives : a.image[y] # -1 => b.image[y] = a.image[y]
    <2>1. Added(a, "samp", Ast!AddImage(a, "samp"))
      BY <1>2, <1>4, AddImageIs
    <2> QED
      BY <2>1 DEF Added
  <1>6. ASSUME NEW x \in Ast!Archives PROVE b.image[x] # -1
    <2>1. CASE x = "custom"
      BY <1>2, <1>4, <1>5, <2>1
    <2>2. CASE x = "samp"
      BY <1>5, <2>2
    <2> QED
      BY <1>2, <2>1, <2>2
  <1>7. ASSUME own.passes > 0, NEW x \in Ast!Archives PROVE b.image[x] = own.image[x]
    <2>1. old.image = own.image /\ own.image[x] # -1
      BY <1>1, <1>7 DEF StreamingIsSound, Ast!Streamed
    <2> QED
      BY <1>4, <1>5, <2>1
  <1>8. b = Ast!AddImage(Ast!AddImage([table |-> env.table, image |-> own.image], "custom"), "samp")
    BY <1>1, <1>4, <1>5
  <1> QED
    BY <1>5, <1>6, <1>7, <1>8

\* Streaming makes what is there usable: there is a pass, or nothing is new.
LEMMA StreamingIs ==
    ASSUME StreamingIsSound, NEW s, Sound(s), NEW force, force \/ More(s.slot, env.slot), NEW read \in BOOLEAN
    PROVE  Streams(s.slot, Ast!Streaming(s, force, read))
  <1>1. PICK st : /\ st = Ast!AddImage(Ast!AddImage([table |-> env.table, image |-> own.image], "custom"), "samp")
                  /\ Tables(st.image, st.table) /\ \A x \in Ast!Archives : st.image[x] # -1
                  /\ own.passes > 0 => \A x \in Ast!Archives : st.image[x] = own.image[x]
    BY BothAdded
  <1>2. PICK open, there, pass : /\ open = {x \in Ast!Archives : st.image[x] > 0}
                                 /\ there = {m \in Ast!Models : Ast!Available(s.slot, m)}
                                 /\ pass = Ast!DirectoryPass(open, force)
    OBVIOUS
  <1>3. PICK r : r = Ast!Streaming(s, force, read)
    OBVIOUS
  <1>4. /\ r.table = st.table /\ r.image = st.image /\ r.col = read
        /\ r.passes = IF pass THEN own.passes + 1 ELSE own.passes
        /\ r.known = IF pass THEN env.known \cup {m \in there \cap env.dff : Ast!Archive(m) \in open} ELSE env.known
        /\ r.bound = IF read THEN env.bound \cup there ELSE env.bound
    BY <1>1, <1>2, <1>3 DEF Ast!Streaming, Ast!Known, Ast!Bound
  <1>5. own.passes \in 0 .. ReloadLimit + 1 /\ ReloadLimit \in Nat
    BY ClientAssumption DEF StreamingIsSound, Ast!Notes
  <1>6. pass <=> open # {} /\ (own.passes = 0 \/ (force /\ own.passes =< ReloadLimit))
    BY <1>2 DEF Ast!DirectoryPass
  <1>7. r.passes \in 0 .. ReloadLimit + 1
    BY <1>4, <1>5, <1>6
  <1>8. /\ env.known \subseteq Ast!Models /\ env.bound \subseteq Ast!Models /\ there \subseteq Ast!Models
        /\ env.dff \subseteq Ast!Models
    BY <1>2 DEF StreamingIsSound, Ast!World
  <1>9. r.known \subseteq Ast!Models /\ r.bound \subseteq Ast!Models
    BY <1>4, <1>8
  <1>10. ASSUME r.passes \in 1 .. ReloadLimit, NEW m \in Ast!Models,
                Ast!Available(s.slot, m), m \in env.dff, r.image[Ast!Archive(m)] > 0
         PROVE  m \in r.known
    <2>1. Ast!Archive(m) \in Ast!Archives /\ Ast!Archive(m) \in open /\ m \in there
      BY <1>2, <1>4, <1>10 DEF Ast!Archive, Ast!Archives
    <2>2. CASE pass
      BY <1>4, <1>10, <2>1, <2>2
    <2>3. CASE ~pass
      <3>1. r.passes = own.passes /\ own.passes \in 1 .. ReloadLimit /\ r.known = env.known
        BY <1>4, <1>10, <2>3
      <3>2. ~force
        BY <1>6, <2>1, <2>3, <3>1
      <3>3. Ast!Available(env.slot, m)
        BY <1>10, <3>2 DEF More
      <3>4. own.image[Ast!Archive(m)] > 0
        <4>1. own.passes > 0
          BY <3>1
        <4>2. st.image[Ast!Archive(m)] = own.image[Ast!Archive(m)]
          BY <1>1, <2>1, <4>1
        <4> QED
          BY <1>4, <1>10, <4>2
      <3> QED
        BY <1>10, <3>1, <3>3, <3>4 DEF StreamingIsSound, Ast!ModelsUsable
    <2> QED
      BY <2>2, <2>3
  <1>11. ASSUME r.col, NEW m \in Ast!Models, Ast!Available(s.slot, m) PROVE m \in r.bound
    BY <1>2, <1>4, <1>11
  <1>12. Usable(s.slot, r.image, r.passes, r.known, r.bound, r.col)
    BY <1>10, <1>11 DEF Usable
  <1> QED
    BY <1>1, <1>3, <1>4, <1>7, <1>9, <1>12 DEF Streams

\* Without streaming nothing is new.
LEMMA NoStreamingIs ==
    ASSUME StreamingIsSound, NEW s, More(s.slot, env.slot)
    PROVE  Streams(s.slot, Ast!NoStreaming)
  <1>1. PICK r : r = Ast!NoStreaming
    OBVIOUS
  <1>2. /\ r.table = env.table /\ r.image = own.image /\ r.passes = own.passes /\ r.known = env.known
        /\ r.bound = env.bound /\ r.col = own.col
    BY <1>1 DEF Ast!NoStreaming
  <1>3. /\ own.image \in [Ast!Archives -> -2 .. Images] /\ own.passes \in 0 .. ReloadLimit + 1 /\ own.col \in BOOLEAN
        /\ env.table \in Seq(Ast!Images_) /\ env.known \subseteq Ast!Models /\ env.bound \subseteq Ast!Models
    BY DEF StreamingIsSound, Ast!Notes, Ast!World
  <1>4. Tables(own.image, env.table) /\ (own.passes > 0 => \A x \in Ast!Archives : own.image[x] # -1)
    BY <1>3 DEF StreamingIsSound, Tables, Ast!Streamed
  <1>5. Usable(s.slot, own.image, own.passes, env.known, env.bound, own.col)
    BY DEF StreamingIsSound, Ast!ModelsUsable, Usable, More
  <1> QED
    BY <1>1, <1>2, <1>3, <1>4, <1>5 DEF Streams

-----------------------------------------------------------------------------
(* Assets: the actions. *)

\* IInv, of what the variables become.
LEMMA AssetsNext ==
    ASSUME NEW n \in Ast!List, NEW o \in Ast!Notes, NEW e \in Ast!World, net' = n, own' = o, env' = e,
           pc' \in {"gate", "loading", "ready"}, e.config = env.config, e.dff = env.dff,
           Ast!Placed(o.infos, e.slot), Ast!Listed(n, o, e.slot), Ast!Streamed(o.image, e.table, o.passes),
           n.preview > n.applied <=> e.asked # {},
           Usable(e.slot, o.image, o.passes, e.known, e.bound, o.col)
    PROVE  Ast!IInv'
  <1>1. Ast!Fields'
    BY DEF Ast!Fields, Ast!List, Ast!Notes, Ast!World, Ast!Models, Ast!Low, Ast!Images_, Ast!Archives
  <1>2. Ast!Placed(own.infos, env.slot)'
    BY DEF Ast!Placed, Ast!Models, Ast!Low
  <1>3. Ast!Listed(net, own, env.slot)'
    BY DEF Ast!Listed, Ast!Refuses, Ast!Available, Ast!Allowed
  <1>4. Ast!Streamed(own.image, env.table, own.passes)'
    BY DEF Ast!Streamed, Ast!Archives
  <1>5. Ast!PreviewOpensGate'
    BY DEF Ast!PreviewOpensGate
  <1>6. Ast!ModelsUsable'
    BY DEF Ast!ModelsUsable, Usable, Ast!Available, Ast!Archive, Ast!Models, Ast!Low
  <1> QED
    BY <1>1, <1>2, <1>3, <1>4, <1>5, <1>6 DEF Ast!IInv

\* What a drain writes back.
LEMMA KeepIs ==
    ASSUME own \in Ast!Notes, env \in Ast!World, NEW s, Sound(s), NEW st, Streams(s.slot, st),
           NEW bulk \in {"untried", "some", "nothing"}, NEW cost \in Nat, Ast!Keep(s, st, bulk, cost)
    PROVE  \E o \in Ast!Notes, e \in Ast!World :
             /\ own' = o /\ env' = e /\ e.config = env.config /\ e.dff = env.dff /\ e.asked = {} /\ e.slot = s.slot
             /\ Ast!Placed(o.infos, e.slot) /\ Ast!Streamed(o.image, e.table, o.passes)
             /\ Usable(e.slot, o.image, o.passes, e.known, e.bound, o.col)
  <1>1. PICK o : o = [own EXCEPT !.infos = s.infos, !.blocked = s.blocked, !.image = st.image,
                                 !.passes = st.passes, !.bulk = bulk, !.col = st.col]
    OBVIOUS
  <1>2. PICK faults : faults = env.faults + cost
    OBVIOUS
  <1>3. PICK e : e = [env EXCEPT !.slot = s.slot, !.store = s.store, !.table = st.table, !.known = st.known,
                                 !.bound = st.bound, !.asked = {}, !.faults = faults]
    OBVIOUS
  <1>4. own' = o /\ env' = e
    BY <1>1, <1>2, <1>3 DEF Ast!Keep
  <1>5. /\ s.infos \subseteq Ast!Models /\ s.blocked \subseteq Ast!Models /\ s.store \in 0 .. TimeStore
        /\ s.slot \in [Ast!Models -> {"empty", "heap", "native", "bare"}]
    BY DEF Sound, Work
  <1>6. /\ st.image \in [Ast!Archives -> -2 .. Images] /\ st.table \in Seq(Ast!Images_)
        /\ st.passes \in 0 .. ReloadLimit + 1 /\ st.col \in BOOLEAN
        /\ st.known \subseteq Ast!Models /\ st.bound \subseteq Ast!Models
    BY DEF Streams, Tables
  <1>7. o = [infos |-> s.infos, blocked |-> s.blocked, image |-> st.image, passes |-> st.passes,
             bulk |-> bulk, col |-> st.col]
    BY <1>1 DEF Ast!Notes
  <1>8. o \in Ast!Notes
    BY <1>5, <1>6, <1>7 DEF Ast!Notes
  <1>9. o.infos = s.infos /\ o.image = st.image /\ o.passes = st.passes /\ o.col = st.col
    BY <1>7
  <1>10. PICK half : half = [env EXCEPT !.slot = s.slot, !.store = s.store, !.table = st.table, !.known = st.known]
    OBVIOUS
  <1>11. half \in Ast!World
    BY <1>5, <1>6, <1>10 DEF Ast!World
  <1>12. /\ half.slot = s.slot /\ half.table = st.table /\ half.known = st.known
         /\ half.config = env.config /\ half.dff = env.dff /\ half.faults = env.faults
    BY <1>10, <1>11 DEF Ast!World
  <1>13. e = [half EXCEPT !.bound = st.bound, !.asked = {}, !.faults = faults]
    BY <1>3, <1>10
  <1>14. faults \in Nat
    BY <1>2 DEF Ast!World
  <1>15. e \in Ast!World
    BY <1>6, <1>11, <1>13, <1>14 DEF Ast!World
  <1>16. /\ e.slot = s.slot /\ e.table = st.table /\ e.known = st.known /\ e.bound = st.bound
         /\ e.config = env.config /\ e.dff = env.dff /\ e.asked = {}
    BY <1>11, <1>12, <1>13, <1>15 DEF Ast!World
  <1>17. Ast!Placed(s.infos, s.slot)
    BY DEF Sound
  <1>18. Ast!Streamed(st.image, st.table, st.passes)
    BY DEF Streams, Tables, Ast!Streamed
  <1>19. Usable(s.slot, st.image, st.passes, st.known, st.bound, st.col)
    BY DEF Streams
  <1> QED
    BY <1>4, <1>8, <1>9, <1>15, <1>16, <1>17, <1>18, <1>19

\* Attempts that fail are counted.
LEMMA CostIs ==
    ASSUME NEW f \in Ast!Faults
    PROVE  Ast!Cost(f) \in Nat
  <1>1. f.bad \subseteq Ast!Models
    BY DEF Ast!Faults
  <1>2. IsFiniteSet(Ast!Models)
    <2>1. Ast!Models = (({} \cup {"low1"}) \cup {"low2"}) \cup {"timed"}
      BY DEF Ast!Models, Ast!Low
    <2> QED
      BY <2>1, FS_EmptySet, FS_AddElement
  <1>3. IsFiniteSet(f.bad)
    BY <1>1, <1>2, FS_Subset
  <1>4. Cardinality(f.bad) \in Nat
    BY <1>3, FS_CardinalityType
  <1>5. Ast!Cardinality(f.bad) \in Nat
    BY <1>4 DEF Ast!Cardinality, Cardinality
  <1> QED
    BY <1>5 DEF Ast!Cost

\* What a drain starts from.
LEMMA NowIs ==
    ASSUME Ast!IInv
    PROVE  Sound(Ast!Now) /\ Ast!Now.slot = env.slot /\ ~Ast!Now.registered /\ StreamingIsSound
  <1>1. own \in Ast!Notes /\ env \in Ast!World
    BY DEF Ast!IInv, Ast!Fields
  <1>2. /\ Ast!Now.infos = own.infos /\ Ast!Now.slot = env.slot /\ Ast!Now.registered = FALSE
        /\ Ast!Now \in Work
    BY <1>1 DEF Ast!Now, Work, Ast!Notes, Ast!World
  <1>3. Ast!Placed(own.infos, env.slot)
    BY DEF Ast!IInv
  <1>4. StreamingIsSound
    BY <1>1 DEF StreamingIsSound, Ast!IInv
  <1> QED
    BY <1>2, <1>3, <1>4 DEF Sound

\* The bulk is done once: if it brought nothing, nothing was there.
LEMMA BulkDoneIs ==
    ASSUME own.bulk \in {"untried", "some", "nothing"}, NEW s, NEW r,
           own.bulk # "untried" => r = s, More(s.slot, r.slot)
    PROVE  /\ Ast!BulkDone(r) \in {"untried", "some", "nothing"}
           /\ Ast!BulkDone(r) = "some" \/ More(r.slot, s.slot)
  BY DEF Ast!BulkDone, More

\* The list is empty after a drain, but for what objects ask for again.
LEMMA AfterDrainKeeps ==
    ASSUME net \in Ast!List, Ast!Listed(net, own, env.slot), NEW slot,
           Ast!AfterDrain([net EXCEPT !.queue = <<>>, !.applied = net.seq], slot), NEW o, own' = o
    PROVE  \E n \in Ast!List : net' = n /\ Ast!Listed(n, o, slot) /\ ~(n.preview > n.applied)
  <1>1. PICK n : n = [net EXCEPT !.queue = <<>>, !.applied = net.seq]
    OBVIOUS
  <1>2. net.seq \in Nat /\ net.preview \in Nat /\ net.preview =< net.seq
    BY DEF Ast!List, Ast!Listed
  <1>3. n \in Ast!List
    <2>1. PICK none, seq : none = <<>> /\ seq = net.seq
      OBVIOUS
    <2>2. none \in Seq(Ast!Models) /\ seq \in Nat
      BY <1>2, <2>1
    <2>3. n = [net EXCEPT !.queue = none, !.applied = seq]
      BY <1>1, <2>1
    <2> QED
      BY <2>2, <2>3 DEF Ast!List
  <1>4. n.queue = <<>> /\ n.applied = net.seq /\ n.seq = net.seq /\ n.preview = net.preview
    BY <1>1, <1>3 DEF Ast!List
  <1>5. Ast!Listed(n, o, slot)
    <2>1. Len(n.queue) = 0 /\ 0 =< PendingMax
      BY <1>4, ClientAssumption
    <2>2. n.applied =< n.seq /\ n.preview =< n.seq
      BY <1>2, <1>4
    <2> QED
      BY <1>4, <2>1, <2>2 DEF Ast!Listed
  <1>6. ~(n.preview > n.applied)
    BY <1>2, <1>4
  <1>7. CASE net' = n
    BY <1>3, <1>5, <1>6, <1>7
  <1>8. CASE net' = Ast!Flush(n, o, slot)
    <2>1. PICK r : r = Ast!Flush(n, o, slot) /\ Asked(n, o, slot, r)
      BY <1>3, <1>5, FlushKeeps
    <2>2. net' = r /\ r \in Ast!List /\ Ast!Listed(r, o, slot) /\ r.applied = n.applied /\ r.preview = n.preview
      BY <1>8, <2>1 DEF Asked
    <2> QED
      BY <1>6, <2>2
  <1>9. net' = n \/ net' = Ast!Flush(n, o, slot)
    BY <1>1 DEF Ast!AfterDrain
  <1> QED
    BY <1>7, <1>8, <1>9

\* A drain that is written back keeps all of it.
LEMMA WrittenKeeps ==
    ASSUME Ast!IInv, NEW last, Sound(last), NEW st, Streams(last.slot, st), NEW bulk \in {"untried", "some", "nothing"},
           NEW cost \in Nat, Ast!Keep(last, st, bulk, cost), pc' \in {"gate", "loading", "ready"},
           \/ Ast!AfterDrain([net EXCEPT !.queue = <<>>, !.applied = net.seq], last.slot)
           \/ net.queue = <<>> /\ net' = net
    PROVE  Ast!IInv'
  <1>1. net \in Ast!List /\ own \in Ast!Notes /\ env \in Ast!World /\ Ast!Listed(net, own, env.slot)
    BY DEF Ast!IInv, Ast!Fields
  <1>2. PICK o \in Ast!Notes, e \in Ast!World :
             /\ own' = o /\ env' = e /\ e.config = env.config /\ e.dff = env.dff /\ e.asked = {} /\ e.slot = last.slot
             /\ Ast!Placed(o.infos, e.slot) /\ Ast!Streamed(o.image, e.table, o.passes)
             /\ Usable(e.slot, o.image, o.passes, e.known, e.bound, o.col)
    BY <1>1, KeepIs
  <1>3. PICK n \in Ast!List : net' = n /\ Ast!Listed(n, o, e.slot) /\ ~(n.preview > n.applied)
    <2>1. CASE Ast!AfterDrain([net EXCEPT !.queue = <<>>, !.applied = net.seq], last.slot)
      BY <1>1, <1>2, <2>1, AfterDrainKeeps
    <2>2. CASE net.queue = <<>> /\ net' = net
      <3>1. net.applied = net.seq /\ net.preview =< net.seq /\ net.seq \in Nat /\ net.preview \in Nat
        BY <1>1, <2>2 DEF Ast!Listed, Ast!List
      <3>2. Ast!Listed(net, o, e.slot)
        BY <1>1, <2>2, <3>1 DEF Ast!Listed
      <3>3. ~(net.preview > net.applied)
        BY <3>1
      <3> QED
        BY <1>1, <2>2, <3>2, <3>3
    <2> QED
      BY <2>1, <2>2
  <1> QED
    BY <1>2, <1>3, AssetsNext

LEMMA DrainedKeeps ==
    ASSUME Ast!IInv, NEW source, Ast!Drained(Ast!Now, source), pc' \in {"gate", "loading", "ready"}
    PROVE  Ast!IInv'
  <1>1. net \in Ast!List /\ own.bulk \in {"untried", "some", "nothing"}
    BY DEF Ast!IInv, Ast!Fields, Ast!Notes
  <1>2. PICK now : now = Ast!Now
    OBVIOUS
  <1>3. Sound(now) /\ now.slot = env.slot /\ ~now.registered /\ StreamingIsSound
    BY <1>2, NowIs
  <1>4. PICK f \in Ast!Faults :
          LET full == env.config = "bulk"
              first == IF full THEN Ast!Bulk(now, f.bad) ELSE now
              last == Ast!DrainList(first, f.bad, source)
              bulk == IF full THEN Ast!BulkDone(first) ELSE own.bulk
              st == IF last.registered \/ last.already \/ full
                    THEN Ast!Streaming(last, last.registered \/ bulk = "some", f.read) ELSE Ast!NoStreaming
          IN  /\ Ast!Keep(last, st, bulk, Ast!Cost(f))
              /\ Ast!AfterDrain([net EXCEPT !.queue = <<>>, !.applied = net.seq], last.slot)
    BY <1>2 DEF Ast!Drained
  <1>5. PICK all : /\ all = Ast!Bulk(now, f.bad) /\ Sound(all) /\ More(now.slot, all.slot)
                   /\ all.registered = now.registered /\ (own.bulk # "untried" => all = now)
    BY <1>3, BulkIs
  <1>6. PICK first : first = IF env.config = "bulk" THEN all ELSE now
    OBVIOUS
  <1>7. PICK bulk : bulk = IF env.config = "bulk" THEN Ast!BulkDone(first) ELSE own.bulk
    OBVIOUS
  <1>8. Sound(first) /\ bulk \in {"untried", "some", "nothing"} /\ (bulk = "some" \/ More(first.slot, env.slot))
    <2>1. CASE env.config = "bulk"
      <3>1. /\ Ast!BulkDone(all) \in {"untried", "some", "nothing"}
            /\ Ast!BulkDone(all) = "some" \/ More(all.slot, now.slot)
        BY <1>1, <1>5, BulkDoneIs
      <3> QED
        BY <1>3, <1>5, <1>6, <1>7, <2>1, <3>1
    <2>2. CASE env.config # "bulk"
      BY <1>1, <1>3, <1>6, <1>7, <2>2 DEF More
    <2> QED
      BY <2>1, <2>2
  <1>9. env.config # "bulk" => More(first.slot, env.slot)
    BY <1>3, <1>6 DEF More
  <1>10. PICK last : last = Ast!DrainList(first, f.bad, source) /\ Sound(last) /\ Noted(first, last)
    BY <1>1, <1>8, DrainListIs
  <1>11. PICK force : force = (last.registered \/ bulk = "some")
    OBVIOUS
  <1>12. force \/ More(last.slot, env.slot)
    BY <1>8, <1>10, <1>11 DEF Noted, More
  <1>13. f.read \in BOOLEAN
    BY DEF Ast!Faults
  <1>14. PICK st : st = IF last.registered \/ last.already \/ env.config = "bulk"
                        THEN Ast!Streaming(last, force, f.read) ELSE Ast!NoStreaming
    OBVIOUS
  <1>15. Streams(last.slot, st)
    <2>1. CASE last.registered \/ last.already \/ env.config = "bulk"
      <3>1. Streams(last.slot, Ast!Streaming(last, force, f.read))
        BY <1>3, <1>10, <1>12, <1>13, StreamingIs
      <3> QED
        BY <1>14, <2>1, <3>1
    <2>2. CASE ~(last.registered \/ last.already \/ env.config = "bulk")
      <3>1. More(last.slot, env.slot)
        BY <1>9, <1>10, <2>2 DEF Noted, More
      <3>2. Streams(last.slot, Ast!NoStreaming)
        BY <1>3, <3>1, NoStreamingIs
      <3> QED
        BY <1>14, <2>2, <3>2
    <2> QED
      BY <2>1, <2>2
  <1>16. /\ Ast!Keep(last, st, bulk, Ast!Cost(f))
         /\ Ast!AfterDrain([net EXCEPT !.queue = <<>>, !.applied = net.seq], last.slot)
    BY <1>4, <1>5, <1>6, <1>7, <1>10, <1>11, <1>14
  <1>17. Ast!Cost(f) \in Nat
    BY CostIs
  <1> QED
    BY <1>8, <1>10, <1>15, <1>16, <1>17, WrittenKeeps

\* The list or the surroundings change, and the models, archives and files do not.
LEMMA OthersKeep ==
    ASSUME Ast!IInv, own' = own, NEW n \in Ast!List, net' = n, NEW e \in Ast!World, env' = e,
           pc' \in {"gate", "loading", "ready"}, e.config = env.config, e.dff = env.dff, e.slot = env.slot,
           e.known = env.known, e.bound = env.bound, Ast!Listed(n, own, env.slot),
           Ast!Streamed(own.image, e.table, own.passes), n.preview > n.applied <=> e.asked # {}
    PROVE  Ast!IInv'
  <1>1. own \in Ast!Notes /\ Ast!Placed(own.infos, e.slot)
    BY DEF Ast!IInv, Ast!Fields
  <1>2. Usable(e.slot, own.image, own.passes, e.known, e.bound, own.col)
    BY DEF Ast!IInv, Ast!ModelsUsable, Usable
  <1>3. Ast!Listed(n, own, e.slot)
    OBVIOUS
  <1> QED
    BY <1>1, <1>2, <1>3, AssetsNext

LEMMA CreateObjectKeeps ==
    ASSUME Ast!IInv, NEW m \in Ast!Models, Ast!CreateObject(m)
    PROVE  Ast!IInv'
  <1>1. /\ net \in Ast!List /\ env \in Ast!World /\ pc \in {"gate", "loading", "ready"}
        /\ Ast!Listed(net, own, env.slot) /\ Ast!Streamed(own.image, env.table, own.passes)
        /\ net.preview > net.applied <=> env.asked # {}
    BY DEF Ast!IInv, Ast!Fields, Ast!PreviewOpensGate
  <1>2. PICK n : n = ForObject(net, own, env.slot, m)
    OBVIOUS
  <1>3. n \in Ast!List /\ Ast!Listed(n, own, env.slot) /\ n.applied = net.applied /\ n.preview = net.preview
    BY <1>1, <1>2, AskKeeps
  <1>4. PICK e : e = [env EXCEPT !.wanted = env.wanted \cup {m}]
    OBVIOUS
  <1>5. e \in Ast!World
    BY <1>1, <1>4 DEF Ast!World
  <1>6. /\ e.config = env.config /\ e.dff = env.dff /\ e.slot = env.slot /\ e.known = env.known
        /\ e.bound = env.bound /\ e.table = env.table /\ e.asked = env.asked
    BY <1>1, <1>4 DEF Ast!World
  <1>7. net' = n /\ own' = own /\ env' = e /\ pc' = pc
    BY <1>2, <1>4 DEF Ast!CreateObject, ForObject
  <1> QED
    BY <1>1, <1>3, <1>5, <1>6, <1>7, OthersKeep

LEMMA ShowPreviewKeeps ==
    ASSUME Ast!IInv, NEW m \in Ast!Models, Ast!ShowPreview(m)
    PROVE  Ast!IInv'
  <1>1. /\ net \in Ast!List /\ env \in Ast!World /\ pc \in {"gate", "loading", "ready"}
        /\ Ast!Listed(net, own, env.slot) /\ Ast!Streamed(own.image, env.table, own.passes)
        /\ net.preview > net.applied <=> env.asked # {}
    BY DEF Ast!IInv, Ast!Fields, Ast!PreviewOpensGate
  <1>2. PICK n : n = ForTextDraw(net, own, env.slot, m)
    OBVIOUS
  <1>3. /\ n \in Ast!List /\ Ast!Listed(n, own, env.slot) /\ n.applied = net.applied
        /\ Ast!Queued(n, m) => n.preview > n.applied
        /\ ~Ast!Queued(n, m) => n.preview = net.preview
    BY <1>1, <1>2, AskPreviewKeeps
  <1>4. PICK e : e = [env EXCEPT !.asked = IF Ast!Queued(n, m) THEN env.asked \cup {m} ELSE env.asked]
    OBVIOUS
  <1>5. e \in Ast!World
    BY <1>1, <1>4 DEF Ast!World
  <1>6. /\ e.config = env.config /\ e.dff = env.dff /\ e.slot = env.slot /\ e.known = env.known
        /\ e.bound = env.bound /\ e.table = env.table
        /\ e.asked = IF Ast!Queued(n, m) THEN env.asked \cup {m} ELSE env.asked
    BY <1>1, <1>4 DEF Ast!World
  <1>7. net' = n /\ own' = own /\ env' = e /\ pc' = pc
    BY <1>2, <1>4 DEF Ast!ShowPreview, ForTextDraw, Ast!Queued
  <1>8. n.preview > n.applied <=> e.asked # {}
    <2>1. CASE Ast!Queued(n, m)
      BY <1>3, <1>6, <2>1
    <2>2. CASE ~Ast!Queued(n, m)
      BY <1>1, <1>3, <1>6, <2>2
    <2> QED
      BY <2>1, <2>2
  <1> QED
    BY <1>1, <1>3, <1>5, <1>6, <1>7, <1>8, OthersKeep

LEMMA FlushPendingKeeps ==
    ASSUME Ast!IInv, Ast!FlushPending
    PROVE  Ast!IInv'
  <1>1. /\ net \in Ast!List /\ env \in Ast!World /\ pc \in {"gate", "loading", "ready"}
        /\ Ast!Listed(net, own, env.slot) /\ Ast!Streamed(own.image, env.table, own.passes)
        /\ net.preview > net.applied <=> env.asked # {}
    BY DEF Ast!IInv, Ast!Fields, Ast!PreviewOpensGate
  <1>2. PICK n : n = Ast!Flush(net, own, env.slot) /\ Asked(net, own, env.slot, n)
    BY <1>1, FlushKeeps
  <1>3. n \in Ast!List /\ Ast!Listed(n, own, env.slot) /\ n.applied = net.applied /\ n.preview = net.preview
    BY <1>2 DEF Asked
  <1>4. net' = n /\ own' = own /\ env' = env /\ pc' = pc
    BY <1>2 DEF Ast!FlushPending
  <1> QED
    BY <1>1, <1>3, <1>4, OthersKeep

LEMMA SpawnFinalizeKeeps ==
    ASSUME Ast!IInv, Ast!SpawnFinalize
    PROVE  Ast!IInv'
  <1>1. /\ net \in Ast!List /\ env \in Ast!World /\ own.bulk \in {"untried", "some", "nothing"}
        /\ Ast!Listed(net, own, env.slot) /\ Ast!Streamed(own.image, env.table, own.passes)
        /\ net.preview > net.applied <=> env.asked # {}
    BY DEF Ast!IInv, Ast!Fields, Ast!Notes, Ast!PreviewOpensGate
  <1>2. pc' \in {"gate", "loading", "ready"}
    BY DEF Ast!SpawnFinalize
  <1>3. CASE Ast!Drained(Ast!Now, "spawn_finalize")
    BY <1>2, <1>3, DrainedKeeps
  <1>4. CASE UNCHANGED <<net, own, env>>
    BY <1>1, <1>2, <1>4, OthersKeep
  <1>5. CASE /\ net.queue = <<>> /\ net' = net
             /\ \E f \in Ast!Faults :
                  LET s == Ast!Bulk(Ast!Now, f.bad)
                  IN  Ast!Keep(s, Ast!Streaming(s, Ast!BulkDone(s) = "some", f.read), Ast!BulkDone(s), Ast!Cost(f))
    <2>1. PICK now : now = Ast!Now
      OBVIOUS
    <2>2. Sound(now) /\ now.slot = env.slot /\ StreamingIsSound
      BY <2>1, NowIs
    <2>3. PICK f \in Ast!Faults :
             LET s == Ast!Bulk(now, f.bad)
             IN  Ast!Keep(s, Ast!Streaming(s, Ast!BulkDone(s) = "some", f.read), Ast!BulkDone(s), Ast!Cost(f))
      BY <1>5, <2>1
    <2>4. PICK s : /\ s = Ast!Bulk(now, f.bad) /\ Sound(s) /\ More(now.slot, s.slot)
                   /\ s.registered = now.registered /\ (own.bulk # "untried" => s = now)
      BY <2>2, BulkIs
    <2>5. PICK bulk : bulk = Ast!BulkDone(s)
      OBVIOUS
    <2>6. bulk \in {"untried", "some", "nothing"} /\ (bulk = "some" \/ More(s.slot, env.slot))
      <3>1. /\ Ast!BulkDone(s) \in {"untried", "some", "nothing"}
            /\ Ast!BulkDone(s) = "some" \/ More(s.slot, now.slot)
        BY <1>1, <2>4, BulkDoneIs
      <3> QED
        BY <2>2, <2>5, <3>1
    <2>7. PICK force : force = (bulk = "some")
      OBVIOUS
    <2>8. PICK st : st = Ast!Streaming(s, force, f.read)
      OBVIOUS
    <2>9. Streams(s.slot, st)
      <3>1. f.read \in BOOLEAN
        BY DEF Ast!Faults
      <3>2. force \/ More(s.slot, env.slot)
        BY <2>6, <2>7
      <3>3. Streams(s.slot, Ast!Streaming(s, force, f.read))
        BY <2>2, <2>4, <3>1, <3>2, StreamingIs
      <3> QED
        BY <2>8, <3>3
    <2>10. Ast!Keep(s, st, bulk, Ast!Cost(f))
      BY <2>3, <2>4, <2>5, <2>7, <2>8
    <2>11. Ast!Cost(f) \in Nat
      BY CostIs
    <2> QED
      BY <1>2, <1>5, <2>4, <2>6, <2>9, <2>10, <2>11, WrittenKeeps
  <1> QED
    BY <1>3, <1>4, <1>5 DEF Ast!SpawnFinalize

\* Blocked models may be asked for again.
LEMMA ConnectResetKeeps ==
    ASSUME Ast!IInv, Ast!ConnectReset
    PROVE  Ast!IInv'
  <1>1. /\ net \in Ast!List /\ own \in Ast!Notes /\ env \in Ast!World
        /\ Ast!Listed(net, own, env.slot) /\ Ast!Streamed(own.image, env.table, own.passes)
        /\ net.preview > net.applied <=> env.asked # {}
    BY DEF Ast!IInv, Ast!Fields, Ast!PreviewOpensGate
  <1>2. PICK o : o = [own EXCEPT !.blocked = {}]
    OBVIOUS
  <1>3. o \in Ast!Notes
    BY <1>1, <1>2 DEF Ast!Notes
  <1>4. /\ o.infos = own.infos /\ o.blocked = {} /\ o.image = own.image /\ o.passes = own.passes /\ o.col = own.col
    BY <1>1, <1>2 DEF Ast!Notes
  <1>5. PICK restarts : restarts = env.restarts + 1
    OBVIOUS
  <1>6. restarts \in Nat
    BY <1>1, <1>5 DEF Ast!World
  <1>7. PICK e : e = [env EXCEPT !.wanted = {}, !.restarts = restarts]
    OBVIOUS
  <1>8. e \in Ast!World
    BY <1>1, <1>6, <1>7 DEF Ast!World
  <1>9. /\ e.config = env.config /\ e.dff = env.dff /\ e.slot = env.slot /\ e.known = env.known
        /\ e.bound = env.bound /\ e.table = env.table /\ e.asked = env.asked
    BY <1>1, <1>7 DEF Ast!World
  <1>10. net' = net /\ own' = o /\ env' = e /\ pc' = "loading"
    BY <1>2, <1>5, <1>7 DEF Ast!ConnectReset
  <1>11. Ast!Listed(net, o, e.slot)
    BY <1>1, <1>4, <1>9 DEF Ast!Listed, Ast!Refuses
  <1>12. Ast!Placed(o.infos, e.slot) /\ Ast!Streamed(o.image, e.table, o.passes)
    BY <1>1, <1>4, <1>9 DEF Ast!IInv
  <1>13. Usable(e.slot, o.image, o.passes, e.known, e.bound, o.col)
    BY <1>4, <1>9 DEF Ast!IInv, Ast!ModelsUsable, Usable
  <1> QED
    BY <1>1, <1>3, <1>8, <1>9, <1>10, <1>11, <1>12, <1>13, AssetsNext

LEMMA TexturesKeep ==
    ASSUME Ast!IInv, Ast!TexturesArrive
    PROVE  Ast!IInv'
  <1>1. /\ net \in Ast!List /\ env \in Ast!World /\ pc \in {"gate", "loading", "ready"}
        /\ Ast!Listed(net, own, env.slot) /\ Ast!Streamed(own.image, env.table, own.passes)
        /\ net.preview > net.applied <=> env.asked # {}
    BY DEF Ast!IInv, Ast!Fields, Ast!PreviewOpensGate
  <1>2. PICK e : e = [env EXCEPT !.txd = Ast!Models]
    OBVIOUS
  <1>3. e \in Ast!World
    BY <1>1, <1>2 DEF Ast!World
  <1>4. /\ e.config = env.config /\ e.dff = env.dff /\ e.slot = env.slot /\ e.known = env.known
        /\ e.bound = env.bound /\ e.table = env.table /\ e.asked = env.asked
    BY <1>1, <1>2 DEF Ast!World
  <1>5. net' = net /\ own' = own /\ env' = e /\ pc' = pc
    BY <1>2 DEF Ast!TexturesArrive
  <1> QED
    BY <1>1, <1>3, <1>4, <1>5, OthersKeep

\* An archive of another mod is added behind the library's.
LEMMA OtherModKeeps ==
    ASSUME Ast!IInv, Ast!OtherModAddsImage
    PROVE  Ast!IInv'
  <1>1. /\ net \in Ast!List /\ own \in Ast!Notes /\ env \in Ast!World /\ pc \in {"gate", "loading", "ready"}
        /\ Ast!Listed(net, own, env.slot) /\ Ast!Streamed(own.image, env.table, own.passes)
        /\ net.preview > net.applied <=> env.asked # {}
    BY DEF Ast!IInv, Ast!Fields, Ast!PreviewOpensGate
  <1>2. PICK table, l : table = env.table /\ l = Len(table)
    OBVIOUS
  <1>3. table \in Seq(Ast!Images_) /\ l \in Nat /\ l < Images /\ Images \in Nat /\ "other" \in Ast!Images_
    BY <1>1, <1>2, ClientAssumption DEF Ast!World, Ast!OtherModAddsImage, Ast!Images_
  <1>4. PICK new : new = Append(table, "other")
    OBVIOUS
  <1>5. new \in Seq(Ast!Images_) /\ Len(new) = l + 1 /\ \A i \in 1 .. l : new[i] = table[i]
    BY <1>2, <1>3, <1>4
  <1>6. PICK e : e = [env EXCEPT !.table = new]
    OBVIOUS
  <1>7. e \in Ast!World
    BY <1>1, <1>5, <1>6 DEF Ast!World
  <1>8. /\ e.config = env.config /\ e.dff = env.dff /\ e.slot = env.slot /\ e.known = env.known
        /\ e.bound = env.bound /\ e.asked = env.asked /\ e.table = new
    BY <1>1, <1>6 DEF Ast!World
  <1>9. net' = net /\ own' = own /\ env' = e /\ pc' = pc
    BY <1>2, <1>4, <1>6 DEF Ast!OtherModAddsImage
  <1>10. Ast!Streamed(own.image, new, own.passes)
    <2>1. ASSUME NEW x \in Ast!Archives PROVE own.image[x] =< l + 1 /\ (own.image[x] > 0 => new[own.image[x]] = x)
      <3>1. own.image[x] \in -2 .. Images /\ own.image[x] =< l /\ (own.image[x] > 0 => table[own.image[x]] = x)
        BY <1>1, <1>2 DEF Ast!Streamed, Ast!Notes
      <3>2. own.image[x] > 0 => own.image[x] \in 1 .. l
        BY <1>3, <3>1
      <3> QED
        BY <1>3, <1>5, <3>1, <3>2
    <2>2. Len(new) \in 1 .. Images
      BY <1>3, <1>5
    <2>3. own.passes > 0 => \A x \in Ast!Archives : own.image[x] # -1
      BY <1>1 DEF Ast!Streamed
    <2> QED
      BY <1>5, <2>1, <2>2, <2>3 DEF Ast!Streamed
  <1> QED
    BY <1>1, <1>7, <1>8, <1>9, <1>10, OthersKeep

LEMMA AssetsInit ==
    ASSUME Ast!Init
    PROVE  Ast!IInv
  <1>1. net = [queue |-> <<>>, seq |-> 0, applied |-> 0, preview |-> 0] /\ <<>> \in Seq(Ast!Models)
    BY DEF Ast!Init
  <1>2. net \in Ast!List
    BY <1>1 DEF Ast!List
  <1>3. own = [infos |-> {}, blocked |-> {}, image |-> [x \in Ast!Archives |-> -1],
               passes |-> 0, bulk |-> "untried", col |-> FALSE]
    BY DEF Ast!Init
  <1>4. [x \in Ast!Archives |-> -1] \in [Ast!Archives -> -2 .. Images]
    BY ClientAssumption
  <1>5. own \in Ast!Notes
    BY <1>3, <1>4, ClientAssumption DEF Ast!Notes
  <1>6. PICK slot, table : slot = [m \in Ast!Models |-> "empty"] /\ table = <<"gta3">>
    OBVIOUS
  <1>7. /\ slot \in [Ast!Models -> {"empty", "heap", "native", "bare"}] /\ \A m \in Ast!Models : slot[m] = "empty"
        /\ table \in Seq(Ast!Images_) /\ Len(table) = 1
    BY <1>6 DEF Ast!Images_
  <1>8. env \in [config : {"stock", "server", "hidden", "bulk"}, dff : {Ast!Models, {"low1", "timed"}},
                 txd : {Ast!Models, {"timed"}}, slot : {slot}, store : {0},
                 table : {table}, known : {{}}, bound : {{}}, wanted : {{}}, asked : {{}},
                 faults : {0}, restarts : {0}]
    BY <1>6 DEF Ast!Init
  <1>9. env.slot = slot /\ env.table = table /\ env.asked = {}
    BY <1>8
  <1>10. {"low1", "timed"} \subseteq Ast!Models /\ {"timed"} \subseteq Ast!Models /\ TimeStore \in Nat
    BY ClientAssumption DEF Ast!Models, Ast!Low
  <1>11. env \in Ast!World
    BY <1>7, <1>8, <1>10 DEF Ast!World
  <1>12. Ast!Fields
    BY <1>2, <1>5, <1>11 DEF Ast!Init, Ast!Fields
  <1>13. Ast!Placed(own.infos, env.slot)
    BY <1>3, <1>7, <1>9 DEF Ast!Placed, Ast!Models
  <1>14. Ast!Listed(net, own, env.slot)
    BY <1>1, ClientAssumption DEF Ast!Listed
  <1>15. Ast!Streamed(own.image, env.table, own.passes)
    <2>1. own.passes = 0 /\ \A x \in Ast!Archives : own.image[x] = -1
      BY <1>3
    <2>2. Len(env.table) = 1 /\ Images \in Nat \ {0}
      BY <1>7, <1>9, ClientAssumption
    <2> QED
      BY <2>1, <2>2 DEF Ast!Streamed
  <1>16. Ast!PreviewOpensGate
    BY <1>1, <1>9 DEF Ast!PreviewOpensGate
  <1>17. Ast!ModelsUsable
    <2>1. own.passes = 0 /\ ~own.col
      BY <1>3
    <2> QED
      BY <2>1, ClientAssumption DEF Ast!ModelsUsable
  <1> QED
    BY <1>12, <1>13, <1>14, <1>15, <1>16, <1>17 DEF Ast!IInv

\* Every action keeps the invariant.
LEMMA AssetsStep ==
    ASSUME Ast!IInv, Ast!Next
    PROVE  Ast!IInv'
  <1>1. ASSUME NEW m \in Ast!Models, Ast!CreateObject(m) PROVE Ast!IInv'
    BY <1>1, CreateObjectKeeps
  <1>2. ASSUME NEW m \in Ast!Models, Ast!ShowPreview(m) PROVE Ast!IInv'
    BY <1>2, ShowPreviewKeeps
  <1>3. CASE Ast!Drain
    <2>1. Ast!Drained(Ast!Now, "object_bridge") /\ pc' \in {"gate", "loading", "ready"}
      BY <1>3 DEF Ast!Drain, Ast!IInv, Ast!Fields
    <2> QED
      BY <2>1, DrainedKeeps
  <1>4. CASE Ast!SceneReady
    <2>1. UNCHANGED <<net, own, env>> /\ pc' \in {"gate", "loading", "ready"}
      BY <1>4 DEF Ast!SceneReady
    <2>2. /\ net \in Ast!List /\ env \in Ast!World /\ Ast!Listed(net, own, env.slot)
          /\ Ast!Streamed(own.image, env.table, own.passes) /\ (net.preview > net.applied <=> env.asked # {})
      BY DEF Ast!IInv, Ast!Fields, Ast!PreviewOpensGate
    <2> QED
      BY <2>1, <2>2, OthersKeep
  <1> QED
    BY <1>1, <1>2, <1>3, <1>4, FlushPendingKeeps, SpawnFinalizeKeeps, ConnectResetKeeps, TexturesKeep, OtherModKeeps
       DEF Ast!Next

AssetsInv == part = "assets" => Ast!IInv

THEOREM AssetsInvariant == Spec => []AssetsInv
  <1>1. Init => AssetsInv
    BY AssetsInit DEF Init, AssetsInv
  <1>2. AssetsInv /\ [Next]_vars => AssetsInv'
    <2> SUFFICES ASSUME AssetsInv, [Next]_vars, part' = "assets" PROVE Ast!IInv'
      BY DEF AssetsInv
    <2>1. CASE UNCHANGED vars
      <3>1. Ast!IInv /\ UNCHANGED <<net, own, env>> /\ pc' = pc
        BY <2>1 DEF vars, AssetsInv
      <3>2. /\ net \in Ast!List /\ env \in Ast!World /\ pc \in {"gate", "loading", "ready"}
            /\ Ast!Listed(net, own, env.slot) /\ Ast!Streamed(own.image, env.table, own.passes)
            /\ (net.preview > net.applied <=> env.asked # {})
        BY <3>1 DEF Ast!IInv, Ast!Fields, Ast!PreviewOpensGate
      <3> QED
        BY <3>1, <3>2, OthersKeep
    <2>2. CASE Next
      <3>1. Ast!IInv /\ Ast!Next
        BY <2>2 DEF Next, AssetsInv
      <3> QED
        BY <3>1, AssetsStep
    <2> QED
      BY <2>1, <2>2
  <1> QED
    BY <1>1, <1>2, PTL DEF Spec

\* A model that is there has its place on the disk and its collision, GTA's tables and the
\* library's notes of them agree, and the list is drained before the first class scene
\* exactly for a text draw.
THEOREM ModelsAreUsable == Spec => []ModelsUsable
  <1>1. ASSUME AssetsInv PROVE ModelsUsable
    <2> SUFFICES ASSUME part = "assets" PROVE Ast!ModelsUsable /\ Ast!TablesAgree /\ Ast!PreviewOpensGate
      BY DEF ModelsUsable
    <2>1. Ast!IInv
      BY <1>1 DEF AssetsInv
    <2>2. Ast!TablesAgree
      BY <2>1 DEF Ast!IInv, Ast!Placed, Ast!Streamed, Ast!TablesAgree
    <2> QED
      BY <2>1, <2>2 DEF Ast!IInv
  <1> QED
    BY <1>1, AssetsInvariant, PTL

-----------------------------------------------------------------------------
(* ArchiveFs: handles. *)

\* There are more handles than records: one is not open.
LEMMA OneIsFree ==
    ASSUME ClientAssumption
    PROVE  \E g \in 1 .. FakeHandles : \A s \in 1 .. Slots : own.records[s].handle # g
  <1>1. Slots \in Nat /\ FakeHandles \in Nat /\ Slots < FakeHandles
    BY DEF ClientAssumption
  <1> DEFINE f == [s \in 1 .. Slots |-> own.records[s].handle]
             T == {f[s] : s \in 1 .. Slots}
  <1>2. f \in Surjection(1 .. Slots, T)
    BY DEF Surjection
  <1>3. IsFiniteSet(1 .. Slots) /\ Cardinality(1 .. Slots) = Slots
    BY <1>1, FS_Interval
  <1>4. Cardinality(1 .. FakeHandles) = FakeHandles
    BY <1>1, FS_Interval
  <1>5. IsFiniteSet(T) /\ Cardinality(T) =< Slots
    <2> HIDE DEF f, T
    <2> QED
      BY <1>2, <1>3, FS_Surjection
  <1>6. ~(1 .. FakeHandles \subseteq T)
    <2> HIDE DEF T
    <2> SUFFICES ASSUME 1 .. FakeHandles \subseteq T PROVE FALSE
      OBVIOUS
    <2>1. Cardinality(1 .. FakeHandles) =< Cardinality(T)
      BY <1>5, FS_Subset
    <2>2. Cardinality(T) \in Nat
      BY <1>5, FS_CardinalityType
    <2> QED
      BY <1>1, <1>4, <1>5, <2>1, <2>2
  <1> QED
    BY <1>6

\* A record of a handle is found, and only if there is one.
LEMMA FindRecordIs ==
    ASSUME ClientAssumption, NEW h
    PROVE  /\ Arc!FindRecord(h) \in 0 .. Slots
           /\ Arc!FindRecord(h) # 0 => own.records[Arc!FindRecord(h)] # Arc!None /\ own.records[Arc!FindRecord(h)].handle = h
           /\ \A s \in 1 .. Slots : own.records[s] # Arc!None /\ own.records[s].handle = h => Arc!FindRecord(h) # 0
  <1>1. PICK found : found = {s \in Arc!Records : own.records[s].handle = h}
    OBVIOUS
  <1>2. /\ found \subseteq 1 .. Slots /\ \A s \in found : own.records[s] # Arc!None /\ own.records[s].handle = h
        /\ \A s \in 1 .. Slots : own.records[s] # Arc!None /\ own.records[s].handle = h => s \in found
    BY <1>1 DEF Arc!Records
  <1>3. CASE found = {}
    <2>1. Arc!FindRecord(h) = 0
      BY <1>1, <1>3 DEF Arc!FindRecord
    <2> QED
      BY <1>2, <1>3, <2>1, ClientAssumption
  <1>4. CASE found # {}
    <2>1. \E s \in found : \A r \in found : s =< r
      BY <1>2, <1>4, Smallest
    <2>2. Arc!FindRecord(h) = CHOOSE s \in found : \A r \in found : s =< r
      BY <1>1, <1>4 DEF Arc!FindRecord
    <2>3. Arc!FindRecord(h) \in found
      BY <2>1, <2>2
    <2>4. PICK x : x = Arc!FindRecord(h)
      OBVIOUS
    <2>5. x \in 1 .. Slots /\ own.records[x] # Arc!None /\ own.records[x].handle = h
      BY <1>2, <2>3, <2>4
    <2>6. x \in 0 .. Slots /\ x # 0
      BY <2>5, ClientAssumption
    <2> QED
      BY <2>4, <2>5, <2>6
  <1> QED
    BY <1>3, <1>4

\* The handle n behind h, in the circle of handles.
Behind(h, n) == IF h + n =< FakeHandles THEN h + n ELSE h + n - FakeHandles

LEMMA NextIs ==
    ASSUME ClientAssumption, NEW h \in 1 .. FakeHandles
    PROVE  Arc!Next1(h) = (IF h = FakeHandles THEN 1 ELSE h + 1) /\ Arc!Next1(h) \in 1 .. FakeHandles
  <1>1. FakeHandles \in Nat \ {0} /\ FakeHandles > 1
    BY DEF ClientAssumption
  <1>2. CASE h = FakeHandles
    <2>1. h % FakeHandles = 0
      BY <1>1, <1>2
    <2> QED
      BY <1>1, <1>2, <2>1 DEF Arc!Next1
  <1>3. CASE h # FakeHandles
    <2>1. h \in 0 .. FakeHandles - 1
      BY <1>1, <1>3
    <2>2. h % FakeHandles = h
      BY <1>1, <2>1
    <2> QED
      BY <1>1, <1>3, <2>2 DEF Arc!Next1
  <1> QED
    BY <1>2, <1>3

LEMMA BehindNext ==
    ASSUME ClientAssumption, NEW h \in 1 .. FakeHandles, NEW n \in Nat, n < FakeHandles
    PROVE  Behind(h, n) \in 1 .. FakeHandles /\ Arc!Next1(Behind(h, n)) = Behind(h, n + 1)
  <1>1. FakeHandles \in Nat
    BY DEF ClientAssumption
  <1>2. PICK b : b = Behind(h, n)
    OBVIOUS
  <1>3. b \in 1 .. FakeHandles
    BY <1>1, <1>2 DEF Behind
  <1>4. Arc!Next1(b) = IF b = FakeHandles THEN 1 ELSE b + 1
    BY <1>3, NextIs
  <1>5. Behind(h, n + 1) = IF b = FakeHandles THEN 1 ELSE b + 1
    BY <1>1, <1>2 DEF Behind
  <1> QED
    BY <1>2, <1>3, <1>4, <1>5

\* Every handle is behind h, at less than a round.
LEMMA AllBehind ==
    ASSUME ClientAssumption, NEW h \in 1 .. FakeHandles, NEW g \in 1 .. FakeHandles
    PROVE  \E n \in 0 .. FakeHandles - 1 : Behind(h, n) = g
  <1>1. FakeHandles \in Nat
    BY DEF ClientAssumption
  <1>2. CASE g >= h
    <2>1. g - h \in 0 .. FakeHandles - 1 /\ Behind(h, g - h) = g
      BY <1>1, <1>2 DEF Behind
    <2> QED
      BY <2>1
  <1>3. CASE g < h
    <2>1. g - h + FakeHandles \in 0 .. FakeHandles - 1 /\ Behind(h, g - h + FakeHandles) = g
      BY <1>1, <1>3 DEF Behind
    <2> QED
      BY <2>1
  <1> QED
    BY <1>2, <1>3

\* The search for a handle, n steps on.
SeekLoop(g, h, n) ==
    g = [i \in 0 .. n |->
           IF i = 0 THEN h
           ELSE IF Arc!FindRecord(g[i - 1]) = 0 THEN g[i - 1] ELSE Arc!Next1(g[i - 1])]

LEMMA SeekLoopIs ==
    ASSUME ClientAssumption, NEW h
    PROVE  \E g : SeekLoop(g, h, FakeHandles) /\ Arc!FreshHandle(h) = g[FakeHandles]
  <1> DEFINE S == {n \in Nat : \E g : SeekLoop(g, h, n)}
  <1>1. 0 \in S
    <2>1. SeekLoop([i \in 0 .. 0 |-> h], h, 0)
      BY DEF SeekLoop
    <2> QED
      BY <2>1
  <1>2. ASSUME NEW n \in Nat, n \in S PROVE n + 1 \in S
    <2>1. PICK g : SeekLoop(g, h, n)
      BY <1>2
    <2> DEFINE Seek(x) == IF Arc!FindRecord(x) = 0 THEN x ELSE Arc!Next1(x)
               k == [i \in 0 .. n + 1 |-> IF i = n + 1 THEN Seek(g[n]) ELSE g[i]]
    <2>2. g = [i \in 0 .. n |-> IF i = 0 THEN h ELSE Seek(g[i - 1])]
      BY <2>1 DEF SeekLoop
    <2>3. ASSUME NEW i \in 0 .. n + 1 PROVE k[i] = IF i = 0 THEN h ELSE Seek(k[i - 1])
      <3> HIDE DEF Seek
      <3>1. CASE i = 0
        BY <3>1, <2>2
      <3>2. CASE i # 0 /\ i # n + 1
        <4>1. i \in 0 .. n /\ i - 1 \in 0 .. n /\ i - 1 \in 0 .. n + 1 /\ i - 1 # n + 1
          BY <3>2
        <4> QED
          BY <3>2, <4>1, <2>2
      <3>3. CASE i = n + 1
        BY <3>3
      <3> QED
        BY <3>1, <3>2, <3>3
    <2>4. SeekLoop(k, h, n + 1)
      BY <2>3 DEF SeekLoop
    <2>5. \E j : SeekLoop(j, h, n + 1)
      <3> HIDE DEF k
      <3> QED
        BY <2>4
    <2> QED
      BY <2>5
  <1>3. \E g : SeekLoop(g, h, FakeHandles)
    <2>1. Nat \subseteq S
      BY <1>1, <1>2, Steps
    <2> QED
      BY <2>1, ClientAssumption
  <1> DEFINE chosen == CHOOSE g : SeekLoop(g, h, FakeHandles)
  <1>4. SeekLoop(chosen, h, FakeHandles)
    BY <1>3
  <1>5. Arc!FreshHandle(h) = chosen[FakeHandles]
    BY DEF Arc!FreshHandle, SeekLoop
  <1> HIDE DEF chosen
  <1> QED
    BY <1>4, <1>5

\* The search ends at a handle that is not open.
LEMMA FreshIs ==
    ASSUME ClientAssumption, NEW h \in 1 .. FakeHandles
    PROVE  Arc!FreshHandle(h) \in 1 .. FakeHandles /\ Arc!FindRecord(Arc!FreshHandle(h)) = 0
  <1>1. PICK g : SeekLoop(g, h, FakeHandles) /\ Arc!FreshHandle(h) = g[FakeHandles]
    BY SeekLoopIs
  <1>2. PICK last : last = FakeHandles /\ last \in Nat /\ last > 1
    BY DEF ClientAssumption
  <1> DEFINE Sought(n) == \/ Arc!FindRecord(g[n]) = 0
                          \/ g[n] = Behind(h, n) /\ \A k \in 0 .. n - 1 : Arc!FindRecord(Behind(h, k)) # 0
             S == {n \in Nat : n =< last => g[n] \in 1 .. FakeHandles /\ Sought(n)}
  <1>3. 0 \in S
    <2>1. g[0] = h
      BY <1>1, <1>2 DEF SeekLoop
    <2>2. Behind(h, 0) = h
      BY <1>2 DEF Behind
    <2> QED
      BY <2>1, <2>2
  <1>4. ASSUME NEW n \in Nat, n \in S PROVE n + 1 \in S
    <2> SUFFICES ASSUME n + 1 =< last PROVE g[n + 1] \in 1 .. FakeHandles /\ Sought(n + 1)
      OBVIOUS
    <2>1. n =< last /\ n < FakeHandles /\ n + 1 \in 0 .. FakeHandles /\ n + 1 # 0 /\ (n + 1) - 1 = n
      BY <1>2
    <2>2. g[n] \in 1 .. FakeHandles /\ Sought(n)
      BY <1>4, <2>1
    <2>3. g[n + 1] = IF Arc!FindRecord(g[n]) = 0 THEN g[n] ELSE Arc!Next1(g[n])
      <3>1. \A k \in 0 .. FakeHandles : k # 0 =>
              g[k] = IF Arc!FindRecord(g[k - 1]) = 0 THEN g[k - 1] ELSE Arc!Next1(g[k - 1])
        BY <1>1 DEF SeekLoop
      <3> QED
        BY <2>1, <3>1
    <2>4. CASE Arc!FindRecord(g[n]) = 0
      BY <2>2, <2>3, <2>4
    <2>5. CASE Arc!FindRecord(g[n]) # 0
      <3>1. g[n] = Behind(h, n) /\ \A k \in 0 .. n - 1 : Arc!FindRecord(Behind(h, k)) # 0
        BY <2>2, <2>5
      <3>2. g[n + 1] = Behind(h, n + 1)
        BY <2>1, <2>3, <2>5, <3>1, BehindNext
      <3>3. \A k \in 0 .. (n + 1) - 1 : Arc!FindRecord(Behind(h, k)) # 0
        <4> SUFFICES ASSUME NEW k \in 0 .. (n + 1) - 1 PROVE Arc!FindRecord(Behind(h, k)) # 0
          OBVIOUS
        <4>1. k = n \/ k \in 0 .. n - 1
          OBVIOUS
        <4> QED
          BY <2>5, <3>1, <4>1
      <3>4. g[n + 1] \in 1 .. FakeHandles
        BY <2>2, <2>3, <2>5, NextIs
      <3> QED
        BY <3>2, <3>3, <3>4
    <2> QED
      BY <2>4, <2>5
  <1>5. Nat \subseteq S
    <2> HIDE DEF S
    <2> QED
      BY <1>3, <1>4, Steps
  <1>6. g[last] \in 1 .. FakeHandles /\ Sought(last)
    BY <1>2, <1>5
  <1>7. PICK free \in 1 .. FakeHandles : \A s \in 1 .. Slots : own.records[s].handle # free
    BY OneIsFree
  <1>8. Arc!FindRecord(free) = 0
    <2>1. /\ Arc!FindRecord(free) \in 0 .. Slots
          /\ Arc!FindRecord(free) # 0 => own.records[Arc!FindRecord(free)].handle = free
      BY FindRecordIs
    <2>2. Arc!FindRecord(free) # 0 => Arc!FindRecord(free) \in 1 .. Slots
      BY <2>1, ClientAssumption
    <2> QED
      BY <1>7, <2>1, <2>2
  <1>9. PICK n \in 0 .. FakeHandles - 1 : Behind(h, n) = free
    BY AllBehind
  <1>10. Arc!FindRecord(g[last]) = 0
    BY <1>2, <1>6, <1>8, <1>9
  <1> QED
    BY <1>1, <1>2, <1>6, <1>10

(* ArchiveFs: the chain of files. *)

\* One step along the chain.
ChainStep(follows, w) ==
    IF w.at = 0 \/ w.offset < 0 THEN w
    ELSE IF follows[w.at] = w.at \/ Arc!Sizes[w.at] > Arc!Room - w.offset THEN [w EXCEPT !.offset = -1]
    ELSE [at |-> follows[w.at], offset |-> w.offset + Arc!Sizes[w.at]]

Walks == [at : 0 .. 3, offset : Int]

ChainLoop(g, follows, entry) ==
    g = [n \in 0 .. 3 |->
           IF n = 0 THEN [at |-> follows[entry], offset |-> 0]
           ELSE IF g[n - 1].at = 0 \/ g[n - 1].offset < 0 THEN g[n - 1]
           ELSE IF follows[g[n - 1].at] = g[n - 1].at \/ Arc!Sizes[g[n - 1].at] > Arc!Room - g[n - 1].offset
                THEN [g[n - 1] EXCEPT !.offset = -1]
           ELSE [at |-> follows[g[n - 1].at], offset |-> g[n - 1].offset + Arc!Sizes[g[n - 1].at]]]

\* A step stays in the table.
LEMMA ChainStepIs ==
    ASSUME NEW follows \in Arc!Chains, NEW w \in Walks
    PROVE  ChainStep(follows, w) \in Walks
  <1>1. w.at \in 0 .. 3 /\ w.offset \in Int /\ w = [at |-> w.at, offset |-> w.offset]
    BY DEF Walks
  <1>2. CASE w.at = 0 \/ w.offset < 0
    BY <1>2 DEF ChainStep
  <1>3. CASE ~(w.at = 0 \/ w.offset < 0)
    <2>1. w.at \in 1 .. 3
      BY <1>1, <1>3
    <2>2. follows[w.at] \in 0 .. 3 /\ Arc!Sizes[w.at] \in Int
      BY <2>1 DEF Arc!Chains, Arc!Entries, Arc!Sizes
    <2>3. [w EXCEPT !.offset = -1] \in Walks
      BY <1>1 DEF Walks
    <2>4. [at |-> follows[w.at], offset |-> w.offset + Arc!Sizes[w.at]] \in Walks
      BY <1>1, <2>2 DEF Walks
    <2> QED
      BY <1>3, <2>3, <2>4 DEF ChainStep
  <1> QED
    BY <1>2, <1>3

\* The walk is three steps.
LEMMA ChainIs ==
    ASSUME NEW follows \in Arc!Chains, NEW entry \in 1 .. 3
    PROVE  \E w \in Walks :
             Arc!Find(follows, entry) = IF follows[entry] = entry \/ w.at # 0 \/ Arc!Sizes[entry] > Arc!Room - w.offset
                                        THEN -1 ELSE w.offset
  <1>1. PICK first : first = [at |-> follows[entry], offset |-> 0]
    OBVIOUS
  <1>2. first \in Walks
    BY <1>1 DEF Walks, Arc!Chains, Arc!Entries
  <1>3. PICK a : a = ChainStep(follows, first)
    OBVIOUS
  <1>4. PICK b : b = ChainStep(follows, a)
    OBVIOUS
  <1>5. PICK c : c = ChainStep(follows, b)
    OBVIOUS
  <1>6. a \in Walks
    BY <1>2, <1>3, ChainStepIs
  <1>7. b \in Walks
    BY <1>4, <1>6, ChainStepIs
  <1>8. c \in Walks
    BY <1>5, <1>7, ChainStepIs
  <1> DEFINE Loop(g) == g = [n \in 0 .. 3 |-> IF n = 0 THEN first ELSE ChainStep(follows, g[n - 1])]
             h == [n \in 0 .. 3 |-> IF n = 0 THEN first ELSE IF n = 1 THEN a ELSE IF n = 2 THEN b ELSE c]
  <1>9. Loop(h)
    <2>1. ASSUME NEW n \in 0 .. 3 PROVE h[n] = IF n = 0 THEN first ELSE ChainStep(follows, h[n - 1])
      BY <1>3, <1>4, <1>5
    <2> QED
      BY <2>1
  <1>10. \E g : Loop(g)
    <2> HIDE DEF Loop, h
    <2> QED
      BY <1>9
  <1>11. \A g : Loop(g) <=> ChainLoop(g, follows, entry)
    BY <1>1 DEF ChainLoop, ChainStep
  <1> DEFINE chosen == CHOOSE g : ChainLoop(g, follows, entry)
  <1>12. ChainLoop(chosen, follows, entry)
    <2> HIDE DEF Loop
    <2> QED
      BY <1>10, <1>11
  <1>13. Arc!Find(follows, entry) =
           IF follows[entry] = entry \/ chosen[3].at # 0 \/ Arc!Sizes[entry] > Arc!Room - chosen[3].offset
           THEN -1 ELSE chosen[3].offset
    BY DEF Arc!Find, ChainLoop
  <1>14. Loop(chosen)
    <2> HIDE DEF Loop, chosen
    <2> QED
      BY <1>11, <1>12
  <1>15. chosen[3] = c
    <2> HIDE DEF chosen
    <2>1. chosen[0] = first
      BY <1>14
    <2>2. chosen[1] = a
      BY <1>3, <1>14, <2>1
    <2>3. chosen[2] = b
      BY <1>4, <1>14, <2>2
    <2> QED
      BY <1>5, <1>14, <2>3
  <1> HIDE DEF chosen
  <1> QED
    BY <1>8, <1>13, <1>15

\* A file that is found lies before the table.
LEMMA FoundFits ==
    ASSUME NEW follows \in Arc!Chains, NEW entry \in 1 .. 3, Arc!Find(follows, entry) >= 0
    PROVE  Arc!Find(follows, entry) + Arc!Sizes[entry] =< Arc!Room
  <1>1. PICK w \in Walks :
          Arc!Find(follows, entry) = IF follows[entry] = entry \/ w.at # 0 \/ Arc!Sizes[entry] > Arc!Room - w.offset
                                     THEN -1 ELSE w.offset
    BY ChainIs
  <1>2. w.offset \in Int
    BY DEF Walks
  <1>3. Arc!Sizes[entry] \in Int /\ Arc!Room \in Int
    BY DEF Arc!Sizes, Arc!Room
  <1> QED
    BY <1>1, <1>2, <1>3

(* ArchiveFs: what a call does to its file. *)

\* The place of an open file stays within reach.
LEMMA EffectIs ==
    ASSUME NEW c \in Arc!Uses
    PROVE  \/ Arc!Effect(c.op, c.file, c.n) = Arc!None
           \/ /\ Arc!Effect(c.op, c.file, c.n) \in Arc!Open
              /\ Arc!Effect(c.op, c.file, c.n).handle = c.file.handle
  <1>1. PICK f : f = c.file
    OBVIOUS
  <1>2. PICK n : n = c.n
    OBVIOUS
  <1>3. f \in Arc!Open /\ n \in -1 .. 3 /\ c.op \in Arc!Ops
    BY <1>1, <1>2 DEF Arc!Uses
  <1>11. c.op # "SetFilePointer by" => n >= 0
    BY <1>2 DEF Arc!Uses
  <1>12. n >= 0 => n \in 0 .. 3
    BY <1>3
  <1>4. f.position \in 0 .. 3
    BY <1>3 DEF Arc!Open
  <1>5. ASSUME NEW p \in 0 .. 3
        PROVE  [f EXCEPT !.position = p] \in Arc!Open /\ [f EXCEPT !.position = p].handle = f.handle
               /\ [f EXCEPT !.position = p].position = p /\ [f EXCEPT !.position = p].file = f.file
    BY <1>3 DEF Arc!Open
  <1>6. ASSUME NEW g \in Arc!Open PROVE Arc!Size(g) \in 1 .. 2
    BY DEF Arc!Size, Arc!Sizes
  <1>7. ASSUME NEW g \in Arc!Open, NEW m \in 0 .. 3, g.handle = f.handle, g.file = f.file
        PROVE  Arc!Reads(g, m) \in Arc!Open /\ Arc!Reads(g, m).handle = f.handle
    <2>1. PICK size \in 1 .. 2 : size = Arc!Size(g)
      BY <1>6
    <2>2. g.position \in 0 .. 3
      BY DEF Arc!Open
    <2>3. PICK p : p = IF g.position + m =< size THEN g.position + m ELSE size
      OBVIOUS
    <2>4. p \in 0 .. 3
      BY <2>1, <2>2, <2>3
    <2>5. [g EXCEPT !.position = p] \in Arc!Open /\ [g EXCEPT !.position = p].handle = f.handle
      BY <1>7, <2>4 DEF Arc!Open
    <2>6. Arc!Reads(g, m) = g \/ Arc!Reads(g, m) = [g EXCEPT !.position = p]
      BY <2>1, <2>2, <2>3 DEF Arc!Reads
    <2> QED
      BY <1>7, <2>5, <2>6
  <1>8. ASSUME NEW to \in -1 .. 3
        PROVE  Arc!Seeks(f, to) \in Arc!Open /\ Arc!Seeks(f, to).handle = f.handle
    <2>1. CASE to >= 0
      <3>1. to \in 0 .. 3
        BY <2>1
      <3> QED
        BY <1>5, <2>1, <3>1 DEF Arc!Seeks
    <2>2. CASE ~(to >= 0)
      BY <1>3, <2>2 DEF Arc!Seeks
    <2> QED
      BY <2>1, <2>2
  <1>9. PICK r : r = Arc!Effect(c.op, f, n)
    OBVIOUS
  <1>10. r = Arc!None \/ (r \in Arc!Open /\ r.handle = f.handle)
    <2>1. CASE c.op = "ReadFile"
      <3>1. n \in 0 .. 3 /\ r = Arc!Reads(f, n)
        BY <1>11, <1>12, <1>9, <2>1 DEF Arc!Effect
      <3> QED
        BY <1>3, <1>7, <3>1
    <2>2. CASE c.op = "ReadFile at"
      <3>1. n \in 0 .. 3
        BY <1>11, <1>12, <2>2
      <3>6. r = Arc!Reads([f EXCEPT !.position = n], 1)
        BY <1>9, <2>2 DEF Arc!Effect
      <3>2. PICK g : g = [f EXCEPT !.position = n]
        OBVIOUS
      <3>3. g \in Arc!Open /\ g.handle = f.handle /\ g.file = f.file
        BY <1>5, <3>1, <3>2
      <3>4. 1 \in 0 .. 3
        OBVIOUS
      <3>5. Arc!Reads(g, 1) \in Arc!Open /\ Arc!Reads(g, 1).handle = f.handle
        BY <1>7, <3>3, <3>4
      <3> QED
        BY <3>2, <3>5, <3>6
    <2>3. CASE c.op = "SetFilePointer"
      <3>1. r = Arc!Seeks(f, n)
        BY <1>9, <2>3 DEF Arc!Effect
      <3> QED
        BY <1>3, <1>8, <3>1
    <2>4. CASE c.op = "SetFilePointer by"
      <3>1. r = IF f.position + n > 3 THEN f ELSE Arc!Seeks(f, f.position + n)
        BY <1>9, <2>4 DEF Arc!Effect
      <3>2. CASE f.position + n > 3
        BY <1>3, <3>1, <3>2
      <3>3. CASE ~(f.position + n > 3)
        <4>1. PICK p \in 0 .. 3 : p = f.position
          BY <1>4
        <4>2. p + n \in -1 .. 3
          BY <1>3, <3>3, <4>1
        <4> QED
          BY <1>8, <3>1, <3>3, <4>1, <4>2
      <3> QED
        BY <3>2, <3>3
    <2>5. CASE c.op = "SetFilePointer end"
      <3>1. r = [f EXCEPT !.position = Arc!Size(f)]
        BY <1>9, <2>5 DEF Arc!Effect, Arc!SeeksEnd
      <3>2. PICK size \in 1 .. 2 : size = Arc!Size(f)
        BY <1>3, <1>6
      <3>3. size \in 0 .. 3
        OBVIOUS
      <3> QED
        BY <1>5, <3>1, <3>2, <3>3
    <2>6. CASE c.op = "CloseHandle"
      BY <1>9, <2>6 DEF Arc!Effect
    <2>7. CASE c.op \in {"GetFileSize", "GetFileType"}
      BY <1>3, <1>9, <2>7 DEF Arc!Effect
    <2> QED
      BY <1>3, <2>1, <2>2, <2>3, <2>4, <2>5, <2>6, <2>7 DEF Arc!Ops
  <1> QED
    BY <1>1, <1>2, <1>9, <1>10

(* ArchiveFs: the steps of FilesInv. *)

Early == {"stopped", "validate", "install", "fail", "failed"}

\* What start, stop and another mod leave alone.
LEMMA FilesStay ==
    ASSUME Arc!FilesInv, own'.records = own.records, own'.next = own.next,
           env'.held = env.held, env'.call = env.call,
           net'.fits, own'.lock \in BOOLEAN, pc' \in Arc!Phases,
           pc \notin {"failed", "gone"}, pc' \notin {"failed", "gone"}, pc' \in Early => pc \in Early,
           pc' \in {"install", "ready", "stop"} => own'.lock,
           own'.lock => pc' \in {"install", "ready", "stop", "fail"}
    PROVE  Arc!FilesInv'
  <1>1. Arc!FileFields /\ Arc!LockHeld /\ Arc!NothingOpen /\ Arc!HandlesApart(own.records, env.held, env.call)
    BY DEF Arc!FilesInv
  <1>2. Arc!FileFields'
    BY <1>1 DEF Arc!FileFields
  <1>3. Arc!LockHeld'
    BY <1>1 DEF Arc!LockHeld
  <1>4. Arc!NothingOpen'
    BY <1>1 DEF Arc!NothingOpen, Early
  <1>5. Arc!HandlesApart(own'.records, env'.held, env'.call)
    BY <1>1
  <1> QED
    BY <1>2, <1>3, <1>4, <1>5 DEF Arc!FilesInv

\* The archive's files lie before its table.
LEMMA FilesLoad ==
    ASSUME Arc!IInv, Arc!FilesInv, Arc!Load \/ Arc!LoadFails
    PROVE  Arc!FilesInv'
  <1>1. Arc!FileFields /\ Arc!LockHeld /\ Arc!Fields
    BY DEF Arc!FilesInv, Arc!IInv
  <1>2. pc = "stopped" /\ env' = env /\ pc' \in {"validate", "fail"} /\ ~own.lock
    <2>1. pc = "stopped" /\ env' = env /\ pc' \in {"validate", "fail"}
      BY DEF Arc!Load, Arc!LoadFails
    <2> QED
      BY <1>1, <2>1 DEF Arc!LockHeld, Arc!FileFields
  <1>3. PICK data : own' = [own EXCEPT !.data = data]
    BY DEF Arc!Load, Arc!LoadFails
  <1>4. own'.records = own.records /\ own'.next = own.next /\ own'.lock = own.lock
    BY <1>1, <1>3 DEF Arc!Fields
  <1>5. net'.fits
    <2>1. CASE Arc!LoadFails
      BY <1>1, <2>1 DEF Arc!LoadFails, Arc!FileFields
    <2>2. CASE Arc!Load
      <3>1. PICK follows \in Arc!Chains :
              net' = [net EXCEPT !.fits = /\ Arc!Find(follows, 1) >= 0 => Arc!Find(follows, 1) + Arc!Sizes[1] =< Arc!Room
                                          /\ Arc!Find(follows, 2) >= 0 => Arc!Find(follows, 2) + Arc!Sizes[2] =< Arc!Room]
        BY <2>2 DEF Arc!Load
      <3>2. /\ Arc!Find(follows, 1) >= 0 => Arc!Find(follows, 1) + Arc!Sizes[1] =< Arc!Room
            /\ Arc!Find(follows, 2) >= 0 => Arc!Find(follows, 2) + Arc!Sizes[2] =< Arc!Room
        BY FoundFits
      <3>3. PICK fits : fits = (/\ Arc!Find(follows, 1) >= 0 => Arc!Find(follows, 1) + Arc!Sizes[1] =< Arc!Room
                                /\ Arc!Find(follows, 2) >= 0 => Arc!Find(follows, 2) + Arc!Sizes[2] =< Arc!Room)
        OBVIOUS
      <3>4. fits = TRUE
        BY <3>2, <3>3
      <3>5. net' = [net EXCEPT !.fits = fits]
        BY <3>1, <3>3
      <3> QED
        BY <1>1, <3>4, <3>5 DEF Arc!Fields
    <2> QED
      BY <2>1, <2>2
  <1>6. pc' \in Arc!Phases /\ own'.lock \in BOOLEAN
    BY <1>1, <1>2, <1>4 DEF Arc!Phases, Arc!FileFields
  <1> QED
    BY <1>2, <1>4, <1>5, <1>6, FilesStay DEF Early

\* The lock is made before the table is touched.
LEMMA FilesStart ==
    ASSUME Arc!IInv, Arc!FilesInv,
           \/ Arc!Validate
           \/ Arc!Install
           \/ Arc!Ready
           \/ Arc!Restore
           \/ Arc!Stop
           \/ Arc!Mod
    PROVE  Arc!FilesInv'
  <1>1. Arc!FileFields /\ Arc!LockHeld /\ Arc!Fields
    BY DEF Arc!FilesInv, Arc!IInv
  <1>2. net'.fits
    <2>1. net' = net \/ (\E i : net' = [net EXCEPT !.installed = i])
          \/ (\E i, refused : net' = [net EXCEPT !.installed = i, !.refused = refused])
      BY DEF Arc!Validate, Arc!Install, Arc!Ready, Arc!Restore, Arc!Stop, Arc!Mod
    <2> QED
      BY <1>1, <2>1 DEF Arc!FileFields, Arc!Fields
  <1>3. env'.held = env.held /\ env'.call = env.call
    <2>1. CASE Arc!Mod
      <3>1. PICK i \in 1 .. 6 :
              env' = [env EXCEPT !.mod = i, !.table[i] = IF @ = "ours" THEN "mod over ours" ELSE "mod"]
        BY <2>1 DEF Arc!Mod
      <3>2. PICK x : env' = [env EXCEPT !.mod = i, !.table[i] = x]
        BY <3>1
      <3> QED
        BY <1>1, <3>2 DEF Arc!Fields
    <2>2. CASE env' = env
      BY <2>2
    <2>3. CASE Arc!Install
      <3>1. CASE pc' = "fail" /\ UNCHANGED <<net, env>>
        BY <3>1
      <3>2. CASE ~(pc' = "fail" /\ UNCHANGED <<net, env>>)
        <4> DEFINE i == net.installed + 1
        <4>1. \E ok \in BOOLEAN : env' = Arc!WriteSlot(i, "system", "ours", ok)
          BY <2>3, <3>2 DEF Arc!Install
        <4> HIDE DEF i
        <4>2. env' = env \/ env' = [env EXCEPT !.table[i] = "ours"]
          BY <4>1 DEF Arc!WriteSlot
        <4> QED
          BY <1>1, <4>2 DEF Arc!Fields
      <3> QED
        BY <3>1, <3>2
    <2>4. CASE Arc!Restore
      <3> DEFINE i == net.installed
      <3>1. \E ok \in BOOLEAN : env' = Arc!WriteSlot(i, "ours", "system", ok)
        BY <2>4 DEF Arc!Restore
      <3> HIDE DEF i
      <3>2. env' = env \/ env' = [env EXCEPT !.table[i] = "system"]
        BY <3>1 DEF Arc!WriteSlot
      <3> QED
        BY <1>1, <3>2 DEF Arc!Fields
    <2> QED
      BY <2>1, <2>2, <2>3, <2>4 DEF Arc!Validate, Arc!Ready, Arc!Stop
  <1>4. own'.records = own.records /\ own'.next = own.next
    <2>1. \/ own' = own
          \/ own' = [own EXCEPT !.lock = TRUE]
          \/ own' = [own EXCEPT !.active = TRUE]
          \/ own' = [own EXCEPT !.active = FALSE]
      BY DEF Arc!Validate, Arc!Install, Arc!Ready, Arc!Restore, Arc!Stop, Arc!Mod
    <2> QED
      BY <1>1, <2>1 DEF Arc!Fields
  <1>5. CASE Arc!Validate
    <2>1. CASE pc' = "fail"
      BY <1>1, <1>2, <1>3, <1>4, <1>5, <2>1, FilesStay DEF Arc!Validate, Arc!Phases, Arc!FileFields, Early
    <2>2. CASE pc' # "fail"
      <3>1. pc = "validate" /\ pc' = "install" /\ own' = [own EXCEPT !.lock = TRUE]
        BY <1>5, <2>2 DEF Arc!Validate
      <3>2. own'.lock = TRUE
        BY <1>1, <3>1 DEF Arc!Fields
      <3> QED
        BY <1>2, <1>3, <1>4, <3>1, <3>2, FilesStay DEF Arc!Phases, Early
    <2> QED
      BY <2>1, <2>2
  <1>6. CASE ~Arc!Validate /\ ~Arc!Mod
    <2>1. own'.lock = own.lock
      BY <1>1, <1>6 DEF Arc!Fields, Arc!Install, Arc!Ready, Arc!Restore, Arc!Stop
    <2>2. \/ pc = "install" /\ pc' \in {"install", "fail", "ready"}
          \/ pc \in {"fail", "stop"} /\ pc' = pc
          \/ pc = "ready" /\ pc' = "stop"
      BY <1>6 DEF Arc!Install, Arc!Ready, Arc!Restore, Arc!Stop
    <2>3. pc' \in Arc!Phases /\ own'.lock \in BOOLEAN
      BY <1>1, <2>1, <2>2 DEF Arc!Phases, Arc!FileFields
    <2>4. pc' \in {"install", "ready", "stop"} => own'.lock
      BY <1>1, <2>1, <2>2 DEF Arc!LockHeld
    <2>5. pc' \in {"install", "ready", "stop", "fail"}
      BY <2>2
    <2> QED
      BY <1>2, <1>3, <1>4, <2>2, <2>3, <2>4, <2>5, FilesStay DEF Early
  <1>7. CASE Arc!Mod
    <2>1. own' = own /\ pc' = pc /\ net' = net
      BY <1>7 DEF Arc!Mod
    <2>2. Arc!FilesInv
      OBVIOUS
    <2> QED
      BY <1>3, <2>1, <2>2 DEF Arc!FilesInv, Arc!FileFields, Arc!LockHeld, Arc!NothingOpen
  <1> QED
    BY <1>5, <1>6, <1>7

\* What goes with the lock.
LEMMA FilesFree ==
    ASSUME ClientAssumption, Arc!IInv, Arc!FilesInv, Arc!Free
    PROVE  Arc!FilesInv'
  <1>1. Arc!FileFields /\ Arc!NothingOpen /\ Arc!Fields /\ Arc!NobodyIn
    BY DEF Arc!FilesInv, Arc!IInv
  <1>2. /\ pc \in {"fail", "stop"} /\ net' = net /\ env' = env
        /\ pc' = IF pc = "fail" THEN "failed" ELSE "gone"
        /\ own' = [own EXCEPT !.active = FALSE, !.lock = FALSE, !.data = {}, !.next = 0,
                              !.records = [s \in 1 .. Slots |-> Arc!None]]
    BY DEF Arc!Free
  <1>3. own'.lock = FALSE /\ own'.next = 0 /\ own'.records = [s \in 1 .. Slots |-> Arc!None]
    <2>1. PICK half : half = [own EXCEPT !.active = FALSE, !.lock = FALSE, !.data = {}]
      OBVIOUS
    <2>2. own' = [half EXCEPT !.next = 0, !.records = [s \in 1 .. Slots |-> Arc!None]]
      BY <1>2, <2>1
    <2>3. half.lock = FALSE /\ DOMAIN half = {"active", "lock", "data", "next", "records"}
      BY <1>1, <2>1 DEF Arc!Fields
    <2> QED
      BY <2>2, <2>3
  <1>4. \A s \in 1 .. Slots : own'.records[s] = Arc!None
    BY <1>3
  <1>5. Arc!FileFields'
    <2>1. own'.next \in 0 .. FakeHandles
      BY <1>3, ClientAssumption
    <2>2. own'.records \in [1 .. Slots -> Arc!Open \cup {Arc!None}]
      BY <1>3
    <2>3. pc' \in Arc!Phases /\ own'.lock \in BOOLEAN
      BY <1>2, <1>3 DEF Arc!Phases
    <2> QED
      BY <1>1, <1>2, <2>1, <2>2, <2>3 DEF Arc!FileFields
  <1>6. Arc!LockHeld'
    BY <1>2, <1>3 DEF Arc!LockHeld
  <1>7. CASE pc = "stop"
    BY <1>2, <1>5, <1>6, <1>7 DEF Arc!FilesInv, Arc!NothingOpen
  <1>8. CASE pc = "fail"
    <2>1. (\A t \in Threads : env'.held[t] = {}) /\ (\A t \in Threads : env'.call[t] = Arc!Idle)
      BY <1>1, <1>2, <1>8 DEF Arc!NothingOpen, Arc!NobodyIn
    <2>2. Arc!NothingOpen'
      BY <1>4, <2>1 DEF Arc!NothingOpen
    <2>3. Arc!Idle \notin Arc!Uses
      BY DEF Arc!Idle, Arc!Uses, Arc!Ops
    <2>4. Arc!HandlesApart(own'.records, env'.held, env'.call)
      BY <1>4, <2>1, <2>3 DEF Arc!HandlesApart
    <2> QED
      BY <1>5, <1>6, <2>2, <2>4 DEF Arc!FilesInv
  <1> QED
    BY <1>2, <1>7, <1>8

\* A call that comes in is about a file its thread holds.
LEMMA FilesEnter ==
    ASSUME ClientAssumption, Arc!IInv, Arc!FilesInv, NEW t \in Threads, Arc!Enter(t)
    PROVE  Arc!FilesInv'
  <1>1. Arc!FileFields /\ Arc!LockHeld /\ Arc!NothingOpen /\ Arc!Fields /\ Arc!TableCounted
    BY DEF Arc!FilesInv, Arc!IInv
  <1>2. UNCHANGED <<net, own, pc>> /\ env.call[t] = Arc!Idle
    BY DEF Arc!Enter
  <1>3. CASE own.active
    <2>1. pc = "ready" /\ Arc!HandlesApart(own.records, env.held, env.call)
      BY <1>1, <1>3 DEF Arc!TableCounted, Arc!FilesInv
    <2>2. CASE ~(env' = [env EXCEPT !.lost = TRUE])
      <3>1. \E c \in Arc!Creates \cup Arc!Uses :
              env' = [env EXCEPT !.call[t] = c] /\ (c \in Arc!Uses => c.file \in env.held[t])
        <4>1. CASE \E file \in Arc!Opens :
                env' = [env EXCEPT !.call[t] = [op |-> "CreateFileA", file |-> [Arc!None EXCEPT !.file = file], n |-> 0]]
          <5>1. PICK file \in Arc!Files :
                  env' = [env EXCEPT !.call[t] = [op |-> "CreateFileA", file |-> [Arc!None EXCEPT !.file = file], n |-> 0]]
            BY <4>1 DEF Arc!Opens, Arc!Files
          <5>2. PICK c : c = [op |-> "CreateFileA", file |-> [Arc!None EXCEPT !.file = file], n |-> 0]
            OBVIOUS
          <5>3. [Arc!None EXCEPT !.file = file] = [file |-> file, handle |-> 0, position |-> 0]
            BY DEF Arc!None
          <5>4. c \in Arc!Creates
            BY <5>2, <5>3 DEF Arc!Creates
          <5>5. c \notin Arc!Uses
            BY <5>2 DEF Arc!Uses, Arc!Ops
          <5> QED
            BY <5>1, <5>2, <5>4, <5>5
        <4>2. CASE \E f \in env.held[t], c \in Arc!Calls : env' = [env EXCEPT !.call[t] = [op |-> c.op, file |-> f, n |-> c.n]]
          <5>1. PICK f \in env.held[t], k \in Arc!Calls : env' = [env EXCEPT !.call[t] = [op |-> k.op, file |-> f, n |-> k.n]]
            BY <4>2
          <5>2. PICK c : c = [op |-> k.op, file |-> f, n |-> k.n]
            OBVIOUS
          <5>3. f \in Arc!Open
            BY <1>1 DEF Arc!FileFields
          <5>12. \/ k = [op |-> "CloseHandle", n |-> 0]
                 \/ k = [op |-> "GetFileSize", n |-> 0]
                 \/ k = [op |-> "GetFileType", n |-> 0]
                 \/ k = [op |-> "ReadFile", n |-> 2]
                 \/ k = [op |-> "ReadFile at", n |-> 1]
                 \/ k = [op |-> "SetFilePointer", n |-> 3]
                 \/ k = [op |-> "SetFilePointer by", n |-> -1]
                 \/ k = [op |-> "SetFilePointer end", n |-> 0]
            BY Zenon DEF Arc!Calls
          <5>13. PICK o, m : k = [op |-> o, n |-> m] /\ o \in Arc!Ops
                             /\ ((o = "SetFilePointer by" /\ m = -1) \/ m \in {0, 1, 2, 3})
            BY <5>12, Zenon DEF Arc!Ops
          <5>14. k.op = o /\ k.n = m
            BY <5>13
          <5>8. (k.op = "SetFilePointer by" /\ k.n = -1) \/ k.n \in {0, 1, 2, 3}
            BY <5>13, <5>14, Zenon
          <5>9. k.n \in {0, 1, 2, 3} => k.n \in -1 .. 3 /\ k.n >= 0
            OBVIOUS
          <5>10. -1 \in -1 .. 3
            OBVIOUS
          <5>11. k.op \in Arc!Ops
            BY <5>13, <5>14, Zenon
          <5>4. k.op \in Arc!Ops /\ k.n \in -1 .. 3
            BY <5>8, <5>9, <5>10, <5>11, Zenon
          <5>5. k.op = "SetFilePointer by" \/ k.n >= 0
            BY <5>8, <5>9, Zenon
          <5>6. c.op = k.op /\ c.file = f /\ c.n = k.n /\ c \in [op : Arc!Ops, file : Arc!Open, n : -1 .. 3]
            BY <5>2, <5>3, <5>4
          <5>7. c \in Arc!Uses
            BY <5>5, <5>6 DEF Arc!Uses
          <5> QED
            BY <5>1, <5>2, <5>6, <5>7
        <4> QED
          BY <2>2, <4>1, <4>2 DEF Arc!Enter
      <3>2. PICK c \in Arc!Creates \cup Arc!Uses :
              env' = [env EXCEPT !.call[t] = c] /\ (c \in Arc!Uses => c.file \in env.held[t])
        BY <3>1
      <3>3. env'.held = env.held /\ env'.call = [env.call EXCEPT ![t] = c]
        BY <1>1, <3>2 DEF Arc!Fields
      <3>4. Arc!FileFields'
        <4>1. env'.call \in [Threads -> {Arc!Idle} \cup Arc!Creates \cup Arc!Uses]
          BY <1>1, <3>3 DEF Arc!FileFields
        <4> QED
          BY <1>1, <1>2, <3>3, <4>1 DEF Arc!FileFields
      <3>5. \A u \in Threads : env'.call[u] \in Arc!Uses => env'.call[u].file \in env'.held[u]
        <4> SUFFICES ASSUME NEW u \in Threads, env'.call[u] \in Arc!Uses PROVE env'.call[u].file \in env'.held[u]
          OBVIOUS
        <4>1. CASE u = t
          BY <1>1, <3>2, <3>3, <4>1 DEF Arc!FileFields
        <4>2. CASE u # t
          BY <1>1, <2>1, <3>3, <4>2 DEF Arc!HandlesApart, Arc!FileFields
        <4> QED
          BY <4>1, <4>2
      <3>6. Arc!HandlesApart(own'.records, env'.held, env'.call)
        BY <1>2, <2>1, <3>3, <3>5 DEF Arc!HandlesApart
      <3> QED
        BY <1>1, <1>2, <2>1, <3>4, <3>6 DEF Arc!FilesInv, Arc!LockHeld, Arc!NothingOpen
    <2>3. CASE env' = [env EXCEPT !.lost = TRUE]
      <3>1. env'.held = env.held /\ env'.call = env.call
        BY <1>1, <2>3 DEF Arc!Fields
      <3> QED
        BY <1>1, <1>2, <2>1, <3>1 DEF Arc!FilesInv, Arc!FileFields, Arc!LockHeld, Arc!NothingOpen
    <2> QED
      BY <2>2, <2>3
  <1>4. CASE ~own.active
    <2>1. env' = [env EXCEPT !.lost = TRUE] /\ pc = "gone"
      BY <1>4 DEF Arc!Enter
    <2>2. env'.held = env.held /\ env'.call = env.call
      BY <1>1, <2>1 DEF Arc!Fields
    <2> QED
      BY <1>1, <1>2, <2>1, <2>2 DEF Arc!FilesInv, Arc!FileFields, Arc!LockHeld, Arc!NothingOpen
  <1> QED
    BY <1>3, <1>4

\* What is true of a call that is served: the file system is locked and not gone.
LEMMA WhoIsServed ==
    ASSUME Arc!IInv, Arc!FilesInv, NEW t \in Threads, env.call[t] # Arc!Idle, own.lock
    PROVE  pc \in {"ready", "stop"} /\ Arc!HandlesApart(own.records, env.held, env.call) /\ own.next # 0
  <1>1. Arc!LockHeld /\ Arc!NobodyIn
    BY DEF Arc!FilesInv, Arc!IInv
  <1>2. pc \in {"ready", "stop"}
    BY <1>1 DEF Arc!LockHeld, Arc!NobodyIn
  <1> QED
    BY <1>1, <1>2 DEF Arc!LockHeld, Arc!FilesInv

\* A file that is opened gets a record and a handle that no other has.
LEMMA FilesOpened ==
    ASSUME ClientAssumption, Arc!IInv, Arc!FilesInv, NEW t \in Threads, NEW c, c = env.call[t], c # Arc!Idle,
           own.lock, c.op = "CreateFileA", Arc!OpenServed(t, c), UNCHANGED <<net, pc>>
    PROVE  Arc!FilesInv'
  <1>1. Arc!FileFields /\ Arc!LockHeld /\ Arc!Fields
    BY DEF Arc!FilesInv, Arc!IInv
  <1>2. pc \in {"ready", "stop"} /\ Arc!HandlesApart(own.records, env.held, env.call) /\ own.next # 0
    BY WhoIsServed
  <1>3. Arc!Idle \notin Arc!Uses
    BY DEF Arc!Idle, Arc!Uses, Arc!Ops
  <1>4. CASE Arc!Records = 1 .. Slots
    <2>1. own' = own /\ env' = [env EXCEPT !.call[t] = Arc!Idle]
      BY <1>4 DEF Arc!OpenServed
    <2>2. env'.held = env.held /\ env'.call = [env.call EXCEPT ![t] = Arc!Idle]
      BY <1>1, <2>1 DEF Arc!Fields
    <2>3. Arc!FileFields'
      <3>1. env'.call \in [Threads -> {Arc!Idle} \cup Arc!Creates \cup Arc!Uses]
        BY <1>1, <2>2 DEF Arc!FileFields
      <3> QED
        BY <1>1, <2>1, <2>2, <3>1 DEF Arc!FileFields
    <2>4. Arc!HandlesApart(own'.records, env'.held, env'.call)
      <3>1. \A v \in Threads : env'.call[v] \in Arc!Uses => env'.call[v] = env.call[v]
        BY <1>1, <1>3, <2>2 DEF Arc!FileFields
      <3> QED
        BY <1>2, <2>1, <2>2, <3>1 DEF Arc!HandlesApart
    <2> QED
      BY <1>1, <1>2, <2>1, <2>3, <2>4 DEF Arc!FilesInv, Arc!LockHeld, Arc!NothingOpen
  <1>5. CASE Arc!Records # 1 .. Slots
    <2>1. PICK free : free = 1 .. Slots \ Arc!Records
      OBVIOUS
    <2>2. free \subseteq 1 .. Slots /\ free # {}
      BY <1>5, <2>1 DEF Arc!Records
    <2>3. \E s \in free : \A r \in free : s =< r
      <3>1. free \subseteq Nat
        BY <2>2, ClientAssumption
      <3> QED
        BY <2>2, <3>1, Smallest
    <2>4. PICK slot : slot = CHOOSE s \in free : \A r \in free : s =< r
      OBVIOUS
    <2>5. slot \in free
      BY <2>3, <2>4
    <2>6. slot \in 1 .. Slots /\ own.records[slot] = Arc!None
      BY <2>1, <2>2, <2>5 DEF Arc!Records
    <2>7. PICK f : f = [c.file EXCEPT !.handle = Arc!FreshHandle(own.next)]
      OBVIOUS
    <2>8. /\ own' = [own EXCEPT !.records[slot] = f, !.next = Arc!Next1(f.handle)]
          /\ env' = [env EXCEPT !.call[t] = Arc!Idle, !.held[t] = @ \cup {f}]
      BY <1>5, <2>1, <2>4, <2>7 DEF Arc!OpenServed
    <2>9. own.next \in 1 .. FakeHandles
      BY <1>1, <1>2, ClientAssumption DEF Arc!FileFields
    <2>10. PICK h : h = Arc!FreshHandle(own.next)
      OBVIOUS
    <2>11. h \in 1 .. FakeHandles /\ Arc!FindRecord(h) = 0
      BY <2>9, <2>10, FreshIs
    <2>12. \A s \in 1 .. Slots : own.records[s] # Arc!None => own.records[s].handle # h
      BY <2>11, FindRecordIs
    <2>13. c \in Arc!Creates
      BY <1>1 DEF Arc!FileFields, Arc!Uses, Arc!Ops
    <2>14. f \in Arc!Open /\ f.handle = h /\ f # Arc!None
      <3>1. c.file \in [file : Arc!Files, handle : {0}, position : {0}]
        BY <2>13 DEF Arc!Creates
      <3>2. f \in Arc!Open /\ f.handle = h
        BY <2>7, <2>10, <2>11, <3>1 DEF Arc!Open
      <3>3. Arc!None \notin Arc!Open
        BY DEF Arc!None, Arc!Open, Arc!Files
      <3> QED
        BY <3>2, <3>3
    <2>15. own'.records = [own.records EXCEPT ![slot] = f]
      BY <1>1, <2>8 DEF Arc!Fields
    <2>16. own'.next = Arc!Next1(h) /\ own'.lock = own.lock
      BY <1>1, <2>8, <2>14 DEF Arc!Fields
    <2>17. env'.call = [env.call EXCEPT ![t] = Arc!Idle] /\ env'.held = [env.held EXCEPT ![t] = @ \cup {f}]
      BY <1>1, <2>8 DEF Arc!Fields
    <2>18. own'.next \in 1 .. FakeHandles
      BY <2>11, <2>16, NextIs
    <2>19. Arc!FileFields'
      <3>1. own'.records \in [1 .. Slots -> Arc!Open \cup {Arc!None}]
        BY <1>1, <2>6, <2>14, <2>15 DEF Arc!FileFields
      <3>2. env'.held \in [Threads -> SUBSET Arc!Open]
        BY <1>1, <2>14, <2>17 DEF Arc!FileFields
      <3>3. env'.call \in [Threads -> {Arc!Idle} \cup Arc!Creates \cup Arc!Uses]
        BY <1>1, <2>17 DEF Arc!FileFields
      <3>4. own'.next \in 0 .. FakeHandles
        BY <2>18
      <3> QED
        BY <1>1, <2>16, <3>1, <3>2, <3>3, <3>4 DEF Arc!FileFields
    <2>20. Arc!HandlesApart(own'.records, env'.held, env'.call)
      <3>1. own.records \in [1 .. Slots -> Arc!Open \cup {Arc!None}] /\ env.held \in [Threads -> SUBSET Arc!Open]
            /\ env.call \in [Threads -> {Arc!Idle} \cup Arc!Creates \cup Arc!Uses]
        BY <1>1 DEF Arc!FileFields
      <3>2. /\ \A s, r \in 1 .. Slots : own.records[s] # Arc!None /\ own.records[s].handle = own.records[r].handle => s = r
            /\ \A v \in Threads : \A g \in env.held[v] : \E s \in 1 .. Slots : own.records[s] = g
            /\ \A v \in Threads : env.call[v] \in Arc!Uses => env.call[v].file \in env.held[v]
            /\ \A v, u \in Threads : v # u => \A g \in env.held[v], k \in env.held[u] : g.handle # k.handle
        BY <1>2 DEF Arc!HandlesApart
      <3>3. \A s \in 1 .. Slots : s # slot => own'.records[s] = own.records[s]
        BY <2>15, <3>1
      <3>4. own'.records[slot] = f
        BY <2>6, <2>15, <3>1
      <3>5. ~(0 \in 1 .. FakeHandles) /\ Arc!None.handle = 0
        BY ClientAssumption DEF Arc!None
      <3>6. \A s \in 1 .. Slots : own.records[s].handle # h
        BY <2>11, <2>12, <3>5
      <3>7. \A s, r \in 1 .. Slots : own'.records[s] # Arc!None /\ own'.records[s].handle = own'.records[r].handle => s = r
        BY <2>14, <3>2, <3>3, <3>4, <3>6
      <3>8. ASSUME NEW v \in Threads, NEW g \in env'.held[v] PROVE g \in env.held[v] \/ (v = t /\ g = f)
        BY <2>17, <3>1, <3>8
      <3>9. ASSUME NEW v \in Threads, NEW g \in env.held[v]
            PROVE  g.handle # h /\ \E s \in 1 .. Slots : own'.records[s] = g
        <4>1. PICK s \in 1 .. Slots : own.records[s] = g
          BY <3>2, <3>9
        <4>2. g # Arc!None
          <5>1. g \in Arc!Open
            BY <3>1, <3>9
          <5> QED
            BY <5>1 DEF Arc!Open, Arc!None, Arc!Files
        <4> QED
          BY <2>6, <3>3, <3>6, <4>1, <4>2
      <3>10. \A v \in Threads : \A g \in env'.held[v] : \E s \in 1 .. Slots : own'.records[s] = g
        BY <2>6, <3>4, <3>8, <3>9
      <3>11. \A v \in Threads : env'.call[v] \in Arc!Uses => env'.call[v].file \in env'.held[v]
        <4> SUFFICES ASSUME NEW v \in Threads, env'.call[v] \in Arc!Uses PROVE env'.call[v].file \in env'.held[v]
          OBVIOUS
        <4>1. v # t
          BY <1>3, <2>17, <3>1
        <4>2. env'.call[v] = env.call[v] /\ env'.held[v] = env.held[v]
          BY <2>17, <3>1, <4>1
        <4> QED
          BY <3>2, <4>2
      <3>12. ASSUME NEW v \in Threads, NEW u \in Threads, v # u, NEW g \in env'.held[v], NEW k \in env'.held[u]
             PROVE  g.handle # k.handle
        <4>1. g \in env.held[v] \/ (v = t /\ g = f)
          BY <3>8
        <4>2. k \in env.held[u] \/ (u = t /\ k = f)
          BY <3>8
        <4> QED
          BY <2>14, <3>2, <3>9, <3>12, <4>1, <4>2
      <3> QED
        BY <3>7, <3>10, <3>11, <3>12 DEF Arc!HandlesApart
    <2>21. pc' = pc /\ pc' \in {"ready", "stop"} /\ own'.lock /\ own'.next # 0
      BY <1>2, <2>16, <2>18, ClientAssumption
    <2>22. Arc!LockHeld' /\ Arc!NothingOpen'
      BY <2>21 DEF Arc!LockHeld, Arc!NothingOpen
    <2> QED
      BY <2>19, <2>20, <2>22 DEF Arc!FilesInv
  <1> QED
    BY <1>4, <1>5

\* A call for an open file leaves each file its record and its handle.
LEMMA FilesUsed ==
    ASSUME ClientAssumption, Arc!IInv, Arc!FilesInv, NEW t \in Threads, NEW c, c = env.call[t], c # Arc!Idle,
           own.lock, c.op # "CreateFileA", Arc!FileServed(t, c), UNCHANGED <<net, pc>>
    PROVE  Arc!FilesInv'
  <1>1. Arc!FileFields /\ Arc!LockHeld /\ Arc!Fields
    BY DEF Arc!FilesInv, Arc!IInv
  <1>2. pc \in {"ready", "stop"} /\ Arc!HandlesApart(own.records, env.held, env.call) /\ own.next # 0
    BY WhoIsServed
  <1>3. own.records \in [1 .. Slots -> Arc!Open \cup {Arc!None}] /\ env.held \in [Threads -> SUBSET Arc!Open]
        /\ env.call \in [Threads -> {Arc!Idle} \cup Arc!Creates \cup Arc!Uses]
    BY <1>1 DEF Arc!FileFields
  <1>4. /\ \A s, r \in 1 .. Slots : own.records[s] # Arc!None /\ own.records[s].handle = own.records[r].handle => s = r
        /\ \A v \in Threads : \A g \in env.held[v] : \E s \in 1 .. Slots : own.records[s] = g
        /\ \A v \in Threads : env.call[v] \in Arc!Uses => env.call[v].file \in env.held[v]
        /\ \A v, u \in Threads : v # u => \A g \in env.held[v], k \in env.held[u] : g.handle # k.handle
    BY <1>2 DEF Arc!HandlesApart
  <1>5. c \in Arc!Uses
    BY <1>3 DEF Arc!Creates
  <1>6. PICK f : f = c.file
    OBVIOUS
  <1>7. f \in env.held[t] /\ f \in Arc!Open
    BY <1>3, <1>4, <1>5, <1>6
  <1>8. Arc!None \notin Arc!Open
    BY DEF Arc!None, Arc!Open, Arc!Files
  <1>9. PICK slot \in 1 .. Slots : own.records[slot] = f
    BY <1>4, <1>7
  <1>10. Arc!FindRecord(f.handle) = slot /\ slot # 0
    <2>1. /\ Arc!FindRecord(f.handle) \in 0 .. Slots
          /\ Arc!FindRecord(f.handle) # 0 => own.records[Arc!FindRecord(f.handle)].handle = f.handle
          /\ \A s \in 1 .. Slots : own.records[s] # Arc!None /\ own.records[s].handle = f.handle => Arc!FindRecord(f.handle) # 0
      BY FindRecordIs
    <2>2. PICK x : x = Arc!FindRecord(f.handle)
      OBVIOUS
    <2>3. x # 0
      BY <1>7, <1>8, <1>9, <2>1, <2>2
    <2>4. x \in 1 .. Slots
      BY <2>1, <2>2, <2>3, ClientAssumption
    <2> QED
      BY <1>4, <1>7, <1>8, <1>9, <2>1, <2>2, <2>3, <2>4
  <1>11. PICK after : after = Arc!Effect(c.op, f, c.n)
    OBVIOUS
  <1>12. after = Arc!None \/ (after \in Arc!Open /\ after.handle = f.handle)
    BY <1>5, <1>6, <1>11, EffectIs
  <1>13. own'.records = [own.records EXCEPT ![slot] = after] /\ own'.next = own.next /\ own'.lock = own.lock
    <2>1. own' = [own EXCEPT !.records[slot] = Arc!Effect(c.op, @, c.n)]
      BY <1>6, <1>10 DEF Arc!FileServed
    <2>2. own' = [own EXCEPT !.records[slot] = after]
      BY <1>9, <1>11, <2>1
    <2> QED
      BY <1>1, <2>2 DEF Arc!Fields
  <1>14. PICK rest : rest = env.held[t] \ {f}
    OBVIOUS
  <1>15. PICK mine : mine = IF after = Arc!None THEN rest ELSE rest \cup {after}
    OBVIOUS
  <1>16. env'.call = [env.call EXCEPT ![t] = Arc!Idle] /\ env'.held = [env.held EXCEPT ![t] = mine]
    <2>1. env' = [env EXCEPT !.call[t] = Arc!Idle, !.held[t] = mine]
      BY <1>6, <1>11, <1>14, <1>15 DEF Arc!FileServed
    <2> QED
      BY <1>1, <2>1 DEF Arc!Fields
  <1>17. ASSUME NEW g \in mine PROVE (g \in env.held[t] /\ g # f) \/ (g = after /\ after # Arc!None)
    BY <1>14, <1>15
  <1>18. mine \subseteq Arc!Open
    BY <1>3, <1>12, <1>17
  <1>19. Arc!FileFields'
    <2>1. own'.records \in [1 .. Slots -> Arc!Open \cup {Arc!None}]
      BY <1>3, <1>12, <1>13
    <2>2. env'.held \in [Threads -> SUBSET Arc!Open]
      BY <1>3, <1>16, <1>18
    <2>3. env'.call \in [Threads -> {Arc!Idle} \cup Arc!Creates \cup Arc!Uses]
      BY <1>3, <1>16
    <2> QED
      BY <1>1, <1>13, <2>1, <2>2, <2>3 DEF Arc!FileFields
  <1>20. Arc!HandlesApart(own'.records, env'.held, env'.call)
    <2>1. (\A s \in 1 .. Slots : s # slot => own'.records[s] = own.records[s]) /\ own'.records[slot] = after
      BY <1>3, <1>9, <1>13
    <2>2. \A s, r \in 1 .. Slots : own'.records[s] # Arc!None /\ own'.records[s].handle = own'.records[r].handle => s = r
      <3> SUFFICES ASSUME NEW s \in 1 .. Slots, NEW r \in 1 .. Slots, s # r, own'.records[s] # Arc!None,
                          own'.records[s].handle = own'.records[r].handle
                   PROVE  FALSE
        OBVIOUS
      <3>1. f # Arc!None
        BY <1>7, <1>8
      <3>2. CASE s = slot
        BY <1>4, <1>9, <1>12, <2>1, <3>1, <3>2
      <3>3. CASE r = slot /\ after # Arc!None
        BY <1>4, <1>9, <1>12, <2>1, <3>1, <3>3
      <3>4. CASE r = slot /\ after = Arc!None
        <4>1. own.records[s].handle = 0 /\ own.records[s] \in Arc!Open
          BY <1>3, <2>1, <3>4 DEF Arc!None
        <4> QED
          BY <4>1, ClientAssumption DEF Arc!Open
      <3>5. CASE s # slot /\ r # slot
        BY <1>4, <2>1, <3>5
      <3> QED
        BY <3>2, <3>3, <3>4, <3>5
    <2>3. ASSUME NEW v \in Threads, NEW g \in env'.held[v]
          PROVE  (g \in env.held[v] /\ g # f) \/ (v = t /\ g = after /\ after # Arc!None)
      <3>1. CASE v = t
        <4>1. g \in mine
          BY <1>3, <1>16, <2>3, <3>1
        <4> QED
          BY <1>17, <3>1, <4>1
      <3>2. CASE v # t
        <4>1. g \in env.held[v]
          BY <1>3, <1>16, <2>3, <3>2
        <4>2. g.handle # f.handle
          BY <1>4, <1>7, <3>2, <4>1
        <4> QED
          BY <4>1, <4>2
      <3> QED
        BY <3>1, <3>2
    <2>4. ASSUME NEW v \in Threads, NEW g \in env'.held[v] PROVE \E s \in 1 .. Slots : own'.records[s] = g
      <3>1. CASE g = after
        BY <2>1, <3>1
      <3>2. CASE g \in env.held[v] /\ g # f
        <4>1. PICK s \in 1 .. Slots : own.records[s] = g
          BY <1>4, <3>2
        <4> QED
          BY <1>9, <2>1, <3>2, <4>1
      <3> QED
        BY <2>3, <2>4, <3>1, <3>2
    <2>5. \A v \in Threads : env'.call[v] \in Arc!Uses => env'.call[v].file \in env'.held[v]
      <3> SUFFICES ASSUME NEW v \in Threads, env'.call[v] \in Arc!Uses PROVE env'.call[v].file \in env'.held[v]
        OBVIOUS
      <3>1. Arc!Idle \notin Arc!Uses
        BY DEF Arc!Idle, Arc!Uses, Arc!Ops
      <3>2. v # t
        BY <1>3, <1>16, <3>1
      <3>3. env'.call[v] = env.call[v] /\ env'.held[v] = env.held[v]
        BY <1>3, <1>16, <3>2
      <3> QED
        BY <1>4, <3>3
    <2>6. ASSUME NEW v \in Threads, NEW u \in Threads, v # u, NEW g \in env'.held[v], NEW k \in env'.held[u]
          PROVE  g.handle # k.handle
      <3>1. g \in env.held[v] \/ (v = t /\ g.handle = f.handle)
        BY <1>12, <2>3
      <3>2. k \in env.held[u] \/ (u = t /\ k.handle = f.handle)
        BY <1>12, <2>3
      <3> QED
        BY <1>4, <1>7, <2>6, <3>1, <3>2
    <2> QED
      BY <2>2, <2>4, <2>5, <2>6 DEF Arc!HandlesApart
  <1>21. pc' = pc /\ own'.lock /\ own'.next # 0
    BY <1>2, <1>13
  <1>22. Arc!LockHeld' /\ Arc!NothingOpen'
    BY <1>2, <1>21 DEF Arc!LockHeld, Arc!NothingOpen
  <1> QED
    BY <1>19, <1>20, <1>22 DEF Arc!FilesInv

\* A call that finds nothing any more is lost.
LEMMA FilesServe ==
    ASSUME ClientAssumption, Arc!IInv, Arc!FilesInv, NEW t \in Threads, Arc!Serve(t)
    PROVE  Arc!FilesInv'
  <1>1. Arc!FileFields /\ Arc!LockHeld /\ Arc!NothingOpen /\ Arc!Fields /\ Arc!NobodyIn
    BY DEF Arc!FilesInv, Arc!IInv
  <1>2. env.call[t] # Arc!Idle /\ UNCHANGED <<net, pc>>
    BY DEF Arc!Serve
  <1>3. PICK c : c = env.call[t]
    OBVIOUS
  <1>4. CASE own.lock /\ c.op = "CreateFileA" /\ Arc!OpenServed(t, c)
    BY <1>2, <1>3, <1>4, FilesOpened
  <1>5. CASE own.lock /\ c.op # "CreateFileA" /\ Arc!FileServed(t, c)
    BY <1>2, <1>3, <1>5, FilesUsed
  <1>6. CASE ~own.lock /\ env' = [env EXCEPT !.lost = TRUE, !.call[t] = Arc!Idle] /\ UNCHANGED own
    <2>1. pc = "gone"
      BY <1>1, <1>2, <1>6 DEF Arc!LockHeld, Arc!NobodyIn, Arc!FileFields, Arc!Phases
    <2>2. env'.held = env.held /\ env'.call = [env.call EXCEPT ![t] = Arc!Idle]
      BY <1>1, <1>6 DEF Arc!Fields
    <2>3. env'.call \in [Threads -> {Arc!Idle} \cup Arc!Creates \cup Arc!Uses]
      BY <1>1, <2>2 DEF Arc!FileFields
    <2>4. Arc!FileFields'
      BY <1>1, <1>2, <1>6, <2>2, <2>3 DEF Arc!FileFields
    <2>5. Arc!LockHeld' /\ Arc!NothingOpen'
      BY <1>1, <1>2, <1>6, <2>1 DEF Arc!LockHeld, Arc!NothingOpen
    <2> QED
      BY <1>2, <2>1, <2>4, <2>5 DEF Arc!FilesInv
  <1> QED
    BY <1>3, <1>4, <1>5, <1>6 DEF Arc!Serve

\* It holds at first.
LEMMA FilesInit ==
    ASSUME ClientAssumption, Arc!Init PROVE Arc!FilesInv
  <1>1. /\ net = [installed |-> 0, refused |-> {}, fits |-> TRUE] /\ pc = "stopped"
        /\ own = [active |-> FALSE, lock |-> FALSE, data |-> {}, next |-> 1, records |-> [s \in 1 .. Slots |-> Arc!None]]
    BY DEF Arc!Init
  <1>2. PICK study : env = [study |-> study, table |-> [i \in 1 .. 6 |-> "system"], mod |-> 0, lost |-> FALSE,
                            call |-> [t \in Threads |-> Arc!Idle], held |-> [t \in Threads |-> {}]]
    BY DEF Arc!Init
  <1>3. own.records = [s \in 1 .. Slots |-> Arc!None] /\ own.lock = FALSE /\ own.next = 1 /\ net.fits = TRUE
    BY <1>1
  <1>4. env.held = [t \in Threads |-> {}] /\ env.call = [t \in Threads |-> Arc!Idle]
    BY <1>2
  <1>5. pc \in Arc!Phases
    BY <1>1 DEF Arc!Phases
  <1>6. own.next \in 0 .. FakeHandles
    BY <1>3, ClientAssumption
  <1>7. own.records \in [1 .. Slots -> Arc!Open \cup {Arc!None}]
    BY <1>3
  <1>8. env.held \in [Threads -> SUBSET Arc!Open] /\ env.call \in [Threads -> {Arc!Idle} \cup Arc!Creates \cup Arc!Uses]
    BY <1>4
  <1>9. Arc!FileFields
    BY <1>3, <1>5, <1>6, <1>7, <1>8 DEF Arc!FileFields
  <1>10. Arc!LockHeld /\ Arc!NothingOpen
    BY <1>1, <1>3, <1>4 DEF Arc!LockHeld, Arc!NothingOpen
  <1>11. Arc!Idle \notin Arc!Uses
    BY DEF Arc!Idle, Arc!Uses, Arc!Ops
  <1>12. Arc!HandlesApart(own.records, env.held, env.call)
    BY <1>3, <1>4, <1>11 DEF Arc!HandlesApart
  <1> QED
    BY <1>9, <1>10, <1>12 DEF Arc!FilesInv

FilesOpenInv == part = "archive" => Arc!FilesInv

\* The inductive invariant of the open files, for any number of records, handles and
\* threads.
THEOREM FilesInvariant == Spec => []FilesOpenInv
  <1>1. Init => FilesOpenInv
    BY FilesInit, ClientAssumption DEF Init, FilesOpenInv
  <1>2. TableInv /\ FilesOpenInv /\ [Next]_vars => FilesOpenInv'
    <2> SUFFICES ASSUME TableInv, FilesOpenInv, [Next]_vars, part' = "archive" PROVE Arc!FilesInv'
      BY DEF FilesOpenInv
    <2>1. CASE UNCHANGED vars
      <3>1. Arc!FilesInv /\ UNCHANGED <<net, own, env, pc>>
        BY <2>1 DEF vars, FilesOpenInv
      <3> QED
        BY <3>1 DEF Arc!FilesInv, Arc!FileFields, Arc!LockHeld, Arc!NothingOpen
    <2>2. CASE Next
      <3>1. Arc!IInv /\ Arc!FilesInv /\ Arc!Next
        BY <2>2 DEF Next, TableInv, FilesOpenInv
      <3> QED
        BY <3>1, ClientAssumption, FilesLoad, FilesStart, FilesFree, FilesEnter, FilesServe DEF Arc!Next
    <2> QED
      BY <2>1, <2>2
  <1> QED
    BY <1>1, <1>2, TableInvariant, PTL DEF Spec

\* While the archive is served each open file has a record of its own with the file's
\* place, whatever the other threads open, read and close, in any round of the handles;
\* and what is found along the archive's chain lies before its table.
THEOREM FilesStayInPlace == Spec => []FilesKeepPlace
  <1>1. TableInv /\ FilesOpenInv => FilesKeepPlace
    <2> SUFFICES ASSUME TableInv, FilesOpenInv, part = "archive" PROVE Arc!FilesKeepPlace
      BY DEF FilesKeepPlace
    <2>1. Arc!IInv /\ Arc!FilesInv /\ Arc!FileFields
      BY DEF TableInv, FilesOpenInv, Arc!FilesInv
    <2>2. net.fits
      BY <2>1 DEF Arc!FileFields
    <2>3. ASSUME own.active, NEW t \in Threads, NEW f \in env.held[t]
          PROVE  /\ Arc!FindRecord(f.handle) # 0 /\ own.records[Arc!FindRecord(f.handle)] = f
                 /\ \A u \in Threads \ {t} : \A g \in env.held[u] : f.handle # g.handle
      <3>1. Arc!HandlesApart(own.records, env.held, env.call)
        BY <2>1, <2>3 DEF Arc!FilesInv, Arc!IInv, Arc!TableCounted
      <3>2. f \in Arc!Open /\ f # Arc!None
        <4>1. f \in Arc!Open
          BY <2>1, <2>3 DEF Arc!FileFields
        <4> QED
          BY <4>1 DEF Arc!Open, Arc!None, Arc!Files
      <3>3. PICK slot \in 1 .. Slots : own.records[slot] = f
        BY <2>3, <3>1 DEF Arc!HandlesApart
      <3>4. PICK x : x = Arc!FindRecord(f.handle)
        OBVIOUS
      <3>5. /\ x \in 0 .. Slots /\ x # 0
            /\ own.records[x] # Arc!None /\ own.records[x].handle = f.handle
        BY <3>2, <3>3, <3>4, ClientAssumption, FindRecordIs
      <3>6. x \in 1 .. Slots
        BY <3>5, ClientAssumption
      <3>7. x = slot
        BY <3>1, <3>3, <3>5, <3>6 DEF Arc!HandlesApart
      <3> QED
        BY <2>3, <3>1, <3>3, <3>4, <3>5, <3>7 DEF Arc!HandlesApart
    <2> QED
      BY <2>2, <2>3 DEF Arc!FilesKeepPlace
  <1> QED
    BY <1>1, TableInvariant, FilesInvariant, PTL

==============================================================================
