------------------------- MODULE PlayerBridge_proofs -------------------------
(***************************************************************************)
(* That the session bridge keeps its promises to the player, for any number *)
(* of events, sessions and frames.  IInv of PlayerBridge is inductive: each  *)
(* kind of step has a lemma that says what it changes (...Facts) and one     *)
(* that it keeps IInv (...Keeps).  The promises are about the end of a frame *)
(* and are met by WithPed alone, from what the other parts of IInv have      *)
(* carried over the frames before.                                          *)
(***************************************************************************)
EXTENDS PlayerBridge, TLAPS

-----------------------------------------------------------------------------
(* What the resets, the copies and the marks leave in the bridge's record. *)

LEMMA Bounds ==
    /\ 0 \in 0 .. MaxInfos /\ 0 \in 0 .. MaxPos /\ 0 \in Numbers
    /\ 0 \in 0 .. MaxApplies /\ 0 \in 0 .. MaxSessions
    /\ Numbers \subseteq Nat
  BY MaxAppliesAssumption, PlayerBoundsAssumption DEF Numbers

LEMMA FirstType == FirstBridge \in Bridge /\ ResetProbe \in Probe
  BY Bounds DEF FirstBridge, ResetProbe, Bridge, Probe

\* A session reset forgets everything but the last restart handled.
LEMMA ResetFacts ==
    ASSUME NEW h \in 0 .. MaxSessions, NEW c, c = [FirstBridge EXCEPT !.handled = h]
    PROVE /\ c \in Bridge /\ c.handled = h
          /\ c.info = 0 /\ c.finalInfo = 0 /\ ~c.finalized /\ c.pos = 0 /\ c.posMark = 0
          /\ c.gun = 0 /\ c.gunMark = 0 /\ c.noGuns = 0 /\ c.noGunsMark = 0
          /\ c.noMoney = 0 /\ c.noMoneyMark = 0 /\ c.payMark = 0 /\ ~c.spawnOk
          /\ c = SessionReset(c)
  BY FirstType DEF Bridge, SessionReset, FirstBridge

LEMMA NewInfoFacts ==
    ASSUME NEW b \in Bridge, probe \in Probe, NEW c, c = NewInfo(b)
    PROVE /\ c \in Bridge 
          /\ c.info = IF probe.info # 0 THEN probe.info ELSE b.info
          /\ c.finalized = (b.finalized /\ (probe.info = 0 \/ probe.info = b.info))
          /\ c.finalInfo = b.finalInfo /\ c.pos = b.pos /\ c.posMark = b.posMark
          /\ c.gun = b.gun /\ c.gunMark = b.gunMark /\ c.noGuns = b.noGuns /\ c.noGunsMark = b.noGunsMark
          /\ c.noMoney = b.noMoney /\ c.noMoneyMark = b.noMoneyMark /\ c.payMark = b.payMark
          /\ c.handled = b.handled
  BY DEF NewInfo, Bridge, Probe

LEMMA CopiesFacts ==
    ASSUME NEW b \in Bridge, probe \in Probe, NEW c, c = Copies(b)
    PROVE /\ c \in Bridge /\ c.spawnOk = probe.spawnOk
          /\ c.info = IF probe.info # 0 THEN probe.info ELSE b.info
          /\ c.finalized = (b.finalized /\ (probe.info = 0 \/ probe.info = b.info))
          /\ c.pos = IF probe.pos # 0 THEN probe.pos ELSE b.pos
          /\ c.gun = IF probe.gun # 0 THEN probe.gun ELSE b.gun
          /\ c.noGuns = IF probe.noGuns # 0 THEN probe.noGuns ELSE b.noGuns
          /\ c.noMoney = IF probe.noMoney # 0 THEN probe.noMoney ELSE b.noMoney
          /\ c.payMark = IF probe.pay # 0 THEN probe.pay ELSE b.payMark
          /\ c.finalInfo = b.finalInfo /\ c.posMark = b.posMark
          /\ c.gunMark = b.gunMark /\ c.noGunsMark = b.noGunsMark /\ c.noMoneyMark = b.noMoneyMark
          /\ c.handled = b.handled
  <1>1. PICK n : n = NewInfo(b)
    OBVIOUS
  <1>2. PICK d : d = [n EXCEPT !.init = probe.init, !.flags = GameFlags,
                               !.classOk = probe.classOk, !.spawnOk = probe.spawnOk]
    OBVIOUS
  <1>3. PICK e : e = [d EXCEPT !.pos = IF probe.pos # 0 THEN probe.pos ELSE @,
                               !.gun = IF probe.gun # 0 THEN probe.gun ELSE @,
                               !.noGuns = IF probe.noGuns # 0 THEN probe.noGuns ELSE @]
    OBVIOUS
  <1>4. n \in Bridge
    BY <1>1, NewInfoFacts
  <1>5. /\ c = [e EXCEPT !.noMoney = IF probe.noMoney # 0 THEN probe.noMoney ELSE @,
                         !.payMark = IF probe.pay # 0 THEN probe.pay ELSE @]
    BY <1>1, <1>2, <1>3, <1>4 DEF Copies, Bridge
  <1>6. GameFlags \in BOOLEAN
    BY DEF GameFlags
  <1>7. d \in Bridge
    BY <1>2, <1>4, <1>6 DEF Bridge, Probe
  <1>8. e \in Bridge
    BY <1>3, <1>7 DEF Bridge, Probe
  <1>9. c \in Bridge
    BY <1>5, <1>8 DEF Bridge, Probe
  <1>10. /\ c.pos = IF probe.pos # 0 THEN probe.pos ELSE n.pos
         /\ c.gun = IF probe.gun # 0 THEN probe.gun ELSE n.gun
         /\ c.noGuns = IF probe.noGuns # 0 THEN probe.noGuns ELSE n.noGuns
    BY <1>2, <1>3, <1>4, <1>5, <1>7, <1>8 DEF Bridge
  <1>11. /\ c.noMoney = IF probe.noMoney # 0 THEN probe.noMoney ELSE n.noMoney
         /\ c.payMark = IF probe.pay # 0 THEN probe.pay ELSE n.payMark
    BY <1>2, <1>3, <1>4, <1>5, <1>7, <1>8 DEF Bridge
  <1>12. c.spawnOk = probe.spawnOk
    BY <1>2, <1>3, <1>4, <1>5, <1>7, <1>8 DEF Bridge
  <1>13. c.info = n.info /\ c.finalized = n.finalized /\ c.finalInfo = n.finalInfo
    BY <1>2, <1>3, <1>4, <1>5, <1>7, <1>8 DEF Bridge
  <1>14. /\ c.posMark = n.posMark /\ c.gunMark = n.gunMark /\ c.noGunsMark = n.noGunsMark
         /\ c.noMoneyMark = n.noMoneyMark /\ c.handled = n.handled
    BY <1>2, <1>3, <1>4, <1>5, <1>7, <1>8 DEF Bridge
  <1>15. /\ n.info = IF probe.info # 0 THEN probe.info ELSE b.info
         /\ n.finalized = (b.finalized /\ (probe.info = 0 \/ probe.info = b.info))
         /\ n.finalInfo = b.finalInfo
    BY <1>1, NewInfoFacts
  <1>16. /\ n.pos = b.pos /\ n.posMark = b.posMark /\ n.handled = b.handled
         /\ n.gun = b.gun /\ n.gunMark = b.gunMark /\ n.noGuns = b.noGuns
         /\ n.noGunsMark = b.noGunsMark
         /\ n.noMoney = b.noMoney /\ n.noMoneyMark = b.noMoneyMark /\ n.payMark = b.payMark
    BY <1>1, NewInfoFacts
  <1> QED
    BY <1>9, <1>10, <1>11, <1>12, <1>13, <1>14, <1>15, <1>16

LEMMA MarkFacts ==
    ASSUME NEW b \in Bridge, b.count < MaxApplies, NEW c, c = MarkBelongings([b EXCEPT !.count = @ + 1])
    PROVE /\ c \in Bridge /\ c.spawnOk = b.spawnOk /\ c.classOk = b.classOk
          /\ c.info = b.info /\ c.finalInfo = b.finalInfo /\ c.finalized = b.finalized
          /\ c.pos = b.pos /\ c.posMark = b.posMark
          /\ c.gun = b.gun /\ c.gunMark = b.gun /\ c.noGuns = b.noGuns /\ c.noGunsMark = b.noGuns
          /\ c.noMoney = b.noMoney /\ c.noMoneyMark = b.noMoney /\ c.payMark = b.payMark
          /\ c.handled = b.handled
  <1>1. PICK d : d = [b EXCEPT !.count = @ + 1]
    OBVIOUS
  <1>2. d \in Bridge
    BY <1>1, MaxAppliesAssumption DEF Bridge
  <1>3. c = MarkBelongings(d)
    BY <1>1
  <1>4. c \in Bridge
    BY <1>2, <1>3 DEF MarkBelongings, Bridge
  <1> QED
    BY <1>1, <1>2, <1>3, <1>4 DEF MarkBelongings, Bridge

LEMMA FinalizeFacts ==
    ASSUME NEW b \in Bridge, NEW c, c = Finalize(b)
    PROVE /\ c \in Bridge /\ c.spawnOk = b.spawnOk /\ c.classOk = b.classOk
          /\ c.info = b.info /\ c.finalInfo = b.info /\ c.finalized
          /\ c.pos = b.pos /\ c.posMark = b.pos
          /\ c.gun = b.gun /\ c.gunMark = b.gunMark /\ c.noGuns = b.noGuns /\ c.noGunsMark = b.noGunsMark
          /\ c.noMoney = b.noMoney /\ c.noMoneyMark = b.noMoneyMark /\ c.payMark = b.payMark
          /\ c.handled = b.handled
  BY DEF Finalize, Bridge

-----------------------------------------------------------------------------
(* Types. *)

\* The bounds leave room for one more event of each kind.
LEMMA RoomForOne ==
    ASSUME probe \in Probe
    PROVE  /\ probe.info < MaxInfos => probe.info + 1 \in 0 .. MaxInfos
           /\ probe.pos < MaxPos => probe.pos + 1 \in 0 .. MaxPos
           /\ Gifts < MaxGifts => /\ probe.pay + 1 \in Numbers /\ probe.noMoney + 1 \in Numbers
                                 /\ probe.gun + 1 \in Numbers /\ probe.noGuns + 1 \in Numbers
  <1>1. /\ probe.info \in Nat /\ probe.pos \in Nat /\ probe.pay \in Nat
        /\ probe.noMoney \in Nat /\ probe.gun \in Nat /\ probe.noGuns \in Nat
    BY PlayerBoundsAssumption DEF Probe, Numbers
  <1> QED
    BY <1>1, PlayerBoundsAssumption DEF Gifts, Numbers

\* A frame with the ped marks the belongings, and spawns the player, moves him
\* to a position, or leaves him.
LEMMA WithPedFacts ==
    ASSUME TypeOK, WithPed
    PROVE  /\ bridge' \in Bridge /\ bridge'.spawnOk = bridge.spawnOk
           /\ bridge'.info = bridge.info /\ bridge'.pos = bridge.pos
           /\ bridge'.gun = bridge.gun /\ bridge'.gunMark = bridge.gun
           /\ bridge'.noGuns = bridge.noGuns /\ bridge'.noGunsMark = bridge.noGuns
           /\ bridge'.noMoney = bridge.noMoney /\ bridge'.noMoneyMark = bridge.noMoney
           /\ bridge'.payMark = bridge.payMark /\ bridge'.handled = bridge.handled
           /\ guns' = GunsAfter(bridge) /\ money' = MoneyAfter(bridge)
           /\ \/ /\ Finalizes(bridge)
                 /\ bridge'.finalized /\ bridge'.finalInfo = bridge.info /\ bridge'.posMark = bridge.pos
                 /\ where' = Place("spawn", bridge.info) /\ probe' = [probe EXCEPT !.told = bridge.info]
                 /\ spawns' = Append(spawns, Event(bridge.info)) /\ posAtSpawn' = bridge.pos
              \/ /\ ~Finalizes(bridge)
                 /\ bridge'.finalized = bridge.finalized /\ bridge'.finalInfo = bridge.finalInfo
                 /\ UNCHANGED <<probe, spawns, posAtSpawn>>
                 /\ \/ /\ Moves(bridge)
                       /\ bridge'.posMark = bridge.pos /\ where' = Place("set", bridge.pos)
                    \/ /\ ~Moves(bridge)
                       /\ bridge'.posMark = bridge.posMark /\ where' = where
  <1>1. PICK m : m = MarkBelongings([bridge EXCEPT !.count = @ + 1])
    OBVIOUS
  <1>2. PICK f : f = IF Finalizes(m) THEN Finalize(m) ELSE m
    OBVIOUS
  <1>3. /\ guns' = GunsAfter(bridge) /\ money' = MoneyAfter(bridge)
        /\ bridge' = IF Moves(f) THEN [f EXCEPT !.posMark = f.pos] ELSE f
        /\ where' = IF Moves(f) THEN Place("set", f.pos)
                    ELSE IF Finalizes(m) THEN Place("spawn", m.info) ELSE where
        /\ probe' = IF Finalizes(m) THEN [probe EXCEPT !.told = m.info] ELSE probe
        /\ spawns' = IF Finalizes(m) THEN Append(spawns, Event(m.info)) ELSE spawns
        /\ posAtSpawn' = IF Finalizes(m) THEN m.pos ELSE posAtSpawn
    BY <1>1, <1>2 DEF WithPed
  <1>4. bridge \in Bridge /\ bridge.count < MaxApplies
    BY DEF TypeOK, WithPed, Applies
  <1>5. /\ m \in Bridge /\ m.spawnOk = bridge.spawnOk /\ m.classOk = bridge.classOk
        /\ m.info = bridge.info /\ m.finalInfo = bridge.finalInfo /\ m.finalized = bridge.finalized
        /\ m.pos = bridge.pos /\ m.posMark = bridge.posMark
        /\ m.gun = bridge.gun /\ m.gunMark = bridge.gun
        /\ m.noGuns = bridge.noGuns /\ m.noGunsMark = bridge.noGuns
        /\ m.noMoney = bridge.noMoney /\ m.noMoneyMark = bridge.noMoney
        /\ m.payMark = bridge.payMark /\ m.handled = bridge.handled
    BY <1>1, <1>4, MarkFacts
  <1>6. Finalizes(m) <=> Finalizes(bridge)
    BY <1>5 DEF Finalizes
  <1>7. CASE Finalizes(bridge)
    <2>1. f = Finalize(m)
      BY <1>2, <1>6, <1>7
    <2>2. /\ f \in Bridge /\ f.spawnOk = m.spawnOk /\ f.classOk = m.classOk
          /\ f.info = m.info /\ f.finalInfo = m.info /\ f.finalized
          /\ f.pos = m.pos /\ f.posMark = m.pos
          /\ f.gun = m.gun /\ f.gunMark = m.gunMark
          /\ f.noGuns = m.noGuns /\ f.noGunsMark = m.noGunsMark
          /\ f.noMoney = m.noMoney /\ f.noMoneyMark = m.noMoneyMark
          /\ f.payMark = m.payMark /\ f.handled = m.handled
      BY <1>5, <2>1, FinalizeFacts
    <2>3. ~Moves(f)
      BY <2>2 DEF Moves, New
    <2>4. bridge' = f
      BY <1>3, <2>3
    <2>5. /\ where' = Place("spawn", bridge.info) /\ probe' = [probe EXCEPT !.told = bridge.info]
          /\ spawns' = Append(spawns, Event(bridge.info)) /\ posAtSpawn' = bridge.pos
      BY <1>3, <1>5, <1>6, <1>7, <2>3
    <2> QED
      BY <1>3, <1>5, <1>7, <2>2, <2>4, <2>5
  <1>8. CASE ~Finalizes(bridge)
    <2>1. f = m
      BY <1>2, <1>6, <1>8
    <2>2. UNCHANGED <<probe, spawns, posAtSpawn>>
      BY <1>3, <1>6, <1>8
    <2>3. Moves(f) <=> Moves(bridge)
      BY <1>5, <2>1 DEF Moves
    <2>4. CASE Moves(bridge)
      <3>1. bridge' = [m EXCEPT !.posMark = m.pos] /\ where' = Place("set", bridge.pos)
        BY <1>3, <1>5, <2>1, <2>3, <2>4
      <3>2. bridge' \in Bridge /\ bridge'.posMark = bridge.pos
        BY <1>5, <3>1 DEF Bridge
      <3>3. /\ bridge'.spawnOk = m.spawnOk /\ bridge'.info = m.info /\ bridge'.pos = m.pos
            /\ bridge'.gun = m.gun /\ bridge'.gunMark = m.gunMark
            /\ bridge'.noGuns = m.noGuns /\ bridge'.noGunsMark = m.noGunsMark
            /\ bridge'.noMoney = m.noMoney /\ bridge'.noMoneyMark = m.noMoneyMark
            /\ bridge'.payMark = m.payMark /\ bridge'.handled = m.handled
            /\ bridge'.finalized = m.finalized /\ bridge'.finalInfo = m.finalInfo
        BY <1>5, <3>1 DEF Bridge
      <3> QED
        BY <1>3, <1>5, <1>8, <2>2, <2>4, <3>1, <3>2, <3>3
    <2>5. CASE ~Moves(bridge)
      <3>1. bridge' = m /\ where' = where
        BY <1>3, <1>6, <1>8, <2>1, <2>3, <2>5
      <3> QED
        BY <1>3, <1>5, <1>8, <2>2, <2>5, <3>1
    <2> QED
      BY <2>4, <2>5
  <1> QED
    BY <1>7, <1>8

\* The refresh forgets the old session if there is one, and copies the adapter.
LEMMA RefreshFacts ==
    ASSUME TypeOK, Refresh, lost => probe = ResetProbe
    PROVE  /\ bridge' \in Bridge
           /\ \/ /\ lost /\ bridge' = SessionReset(bridge') /\ bridge'.handled = bridge.handled
                 /\ bridge'.info = 0 /\ bridge'.finalInfo = 0 /\ bridge'.pos = 0 /\ bridge'.posMark = 0
                 /\ bridge'.gun = 0 /\ bridge'.gunMark = 0 /\ bridge'.noGuns = 0
                 /\ bridge'.noGunsMark = 0 /\ bridge'.noMoney = 0 /\ bridge'.noMoneyMark = 0
                 /\ bridge'.payMark = 0
                 /\ money' = money /\ guns' = {}
              \/ /\ ~lost /\ Restarted /\ bridge'.handled = probe.restart
                 /\ bridge'.spawnOk = probe.spawnOk
                 /\ bridge'.info = probe.info /\ bridge'.pos = probe.pos
                 /\ bridge'.gun = probe.gun /\ bridge'.noGuns = probe.noGuns
                 /\ bridge'.noMoney = probe.noMoney /\ bridge'.payMark = probe.pay
                 /\ bridge'.finalInfo = 0 /\ bridge'.posMark = 0 /\ bridge'.gunMark = 0
                 /\ bridge'.noGunsMark = 0 /\ bridge'.noMoneyMark = 0
                 /\ money' = money \cup {Event(n) : n \in 1 .. probe.pay} /\ guns' = {}
              \/ /\ ~lost /\ ~Restarted /\ bridge'.handled = bridge.handled
                 /\ bridge'.spawnOk = probe.spawnOk
                 /\ bridge'.info = IF probe.info # 0 THEN probe.info ELSE bridge.info
                 /\ bridge'.finalized = (bridge.finalized /\ (probe.info = 0 \/ probe.info = bridge.info))
                 /\ bridge'.pos = IF probe.pos # 0 THEN probe.pos ELSE bridge.pos
                 /\ bridge'.gun = IF probe.gun # 0 THEN probe.gun ELSE bridge.gun
                 /\ bridge'.noGuns = IF probe.noGuns # 0 THEN probe.noGuns ELSE bridge.noGuns
                 /\ bridge'.noMoney = IF probe.noMoney # 0 THEN probe.noMoney ELSE bridge.noMoney
                 /\ bridge'.payMark = IF probe.pay # 0 THEN probe.pay ELSE bridge.payMark
                 /\ bridge'.finalInfo = bridge.finalInfo /\ bridge'.posMark = bridge.posMark
                 /\ bridge'.gunMark = bridge.gunMark /\ bridge'.noGunsMark = bridge.noGunsMark
                 /\ bridge'.noMoneyMark = bridge.noMoneyMark
                 /\ money' = money \cup {Event(n) : n \in bridge.payMark + 1 .. probe.pay}
                 /\ guns' = guns
  <1>1. PICK b : b = HandleRestart
    OBVIOUS
  <1>2. PICK c : c = Copies(b)
    OBVIOUS
  <1>3. /\ bridge' = IF lost THEN SessionReset(c) ELSE c
        /\ money' = money \cup Payments(b)
        /\ guns' = IF lost \/ Restarted THEN {} ELSE guns
    BY <1>1, <1>2 DEF Refresh
  <1>4. /\ probe \in Probe /\ bridge \in Bridge /\ probe.restart \in 0 .. MaxSessions
        /\ probe.pay \in Nat /\ bridge.payMark \in Nat
    BY Bounds DEF TypeOK, Probe, Bridge
  <1>5. CASE lost
    <2>1. probe.restart = 0 /\ probe.pay = 0
      BY <1>5 DEF ResetProbe
    <2>2. b = bridge
      BY <1>1, <2>1 DEF HandleRestart, Restarted
    <2>3. c \in Bridge /\ c.handled = bridge.handled
      BY <1>2, <1>4, <2>2, CopiesFacts
    <2>4. bridge' = [FirstBridge EXCEPT !.handled = c.handled]
      BY <1>3, <1>5 DEF SessionReset
    <2>5. c.handled \in 0 .. MaxSessions
      BY <2>3 DEF Bridge
    <2>6. /\ bridge' \in Bridge /\ bridge' = SessionReset(bridge') /\ bridge'.handled = bridge.handled
          /\ bridge'.info = 0 /\ bridge'.finalInfo = 0 /\ bridge'.pos = 0 /\ bridge'.posMark = 0
          /\ bridge'.gun = 0 /\ bridge'.gunMark = 0 /\ bridge'.noGuns = 0
          /\ bridge'.noGunsMark = 0 /\ bridge'.noMoney = 0 /\ bridge'.noMoneyMark = 0
          /\ bridge'.payMark = 0
      BY <2>3, <2>4, <2>5, ResetFacts
    <2>7. Payments(b) = {}
      BY <2>1 DEF Payments
    <2> QED
      BY <1>3, <1>5, <2>6, <2>7
  <1>6. CASE ~lost /\ Restarted
    <2>1. b = [FirstBridge EXCEPT !.handled = probe.restart]
      <3>1. PICK r : r = SessionReset(bridge)
        OBVIOUS
      <3>2. b = [r EXCEPT !.handled = probe.restart]
        BY <1>1, <1>6, <3>1 DEF HandleRestart
      <3> QED
        BY <3>1, <3>2, FirstType DEF SessionReset, Bridge
    <2>2. /\ b \in Bridge /\ b.handled = probe.restart /\ b.finalInfo = 0 /\ b.posMark = 0
          /\ b.gunMark = 0 /\ b.noGunsMark = 0 /\ b.noMoneyMark = 0
          /\ b.info = 0 /\ b.pos = 0 /\ b.gun = 0 /\ b.noGuns = 0 /\ b.noMoney = 0 /\ b.payMark = 0
      <3>1. bridge \in Bridge /\ probe.restart \in 0 .. MaxSessions
        BY <1>4
      <3> QED
        BY <2>1, <3>1, ResetFacts
    <2>3. /\ bridge' = c /\ c \in Bridge /\ c.handled = b.handled /\ c.spawnOk = probe.spawnOk
          /\ c.finalInfo = b.finalInfo /\ c.posMark = b.posMark /\ c.gunMark = b.gunMark
          /\ c.noGunsMark = b.noGunsMark /\ c.noMoneyMark = b.noMoneyMark
      BY <1>2, <1>3, <1>4, <1>6, <2>2, CopiesFacts
    <2>4. /\ c.info = probe.info /\ c.pos = probe.pos /\ c.gun = probe.gun
          /\ c.noGuns = probe.noGuns /\ c.noMoney = probe.noMoney /\ c.payMark = probe.pay
      BY <1>2, <1>4, <2>2, CopiesFacts
    <2>5. Payments(b) = {Event(n) : n \in 1 .. probe.pay}
      <3>1. 0 + 1 = 1 /\ (probe.pay = 0 => 1 .. probe.pay = {})
        OBVIOUS
      <3> QED
        BY <2>2, <3>1 DEF Payments
    <2> QED
      BY <1>3, <1>6, <2>2, <2>3, <2>4, <2>5
  <1>7. CASE ~lost /\ ~Restarted
    <2>1. b = bridge /\ bridge' = c
      BY <1>1, <1>3, <1>7 DEF HandleRestart
    <2>2. Payments(b) = {Event(n) : n \in bridge.payMark + 1 .. probe.pay}
      <3>1. probe.pay = 0 => bridge.payMark + 1 .. probe.pay = {}
        BY <1>4
      <3> QED
        BY <2>1, <3>1 DEF Payments
    <2> QED
      BY <1>2, <1>3, <1>4, <1>7, <2>1, <2>2, CopiesFacts
  <1> QED
    BY <1>5, <1>6, <1>7

LEMMA ProbeTypeStep ==
    ASSUME TypeOK, RestartsCounted, Next PROVE probe' \in Probe
  <1>0. probe \in Probe
    BY DEF TypeOK
  <1>1. CASE OnInitGame
    BY <1>0, <1>1 DEF OnInitGame, Probe
  <1>2. CASE OnClassReply
    <2>1. PICK ok \in BOOLEAN :
            probe' = [probe EXCEPT !.classOk = ok, !.info = IF ok THEN @ + 1 ELSE @]
      BY <1>2 DEF OnClassReply
    <2>2. probe.info + 1 \in 0 .. MaxInfos
      BY <1>0, <1>2, RoomForOne DEF OnClassReply
    <2> QED
      BY <1>0, <2>1, <2>2 DEF Probe
  <1>3. CASE OnSetSpawnInfo
    <2>1. probe' = [probe EXCEPT !.info = @ + 1] /\ probe.info + 1 \in 0 .. MaxInfos
      BY <1>0, <1>3, RoomForOne DEF OnSetSpawnInfo
    <2> QED
      BY <1>0, <2>1 DEF Probe
  <1>4. CASE OnSpawnReply
    BY <1>0, <1>4 DEF OnSpawnReply, Probe
  <1>5. CASE OnPlayerPos
    <2>1. probe' = [probe EXCEPT !.pos = @ + 1] /\ probe.pos + 1 \in 0 .. MaxPos
      BY <1>0, <1>5, RoomForOne DEF OnPlayerPos
    <2> QED
      BY <1>0, <2>1 DEF Probe
  <1>6. CASE OnGiveMoney
    <2>1. probe' = [probe EXCEPT !.pay = @ + 1] /\ probe.pay + 1 \in Numbers
      BY <1>0, <1>6, RoomForOne DEF OnGiveMoney, ReceivesGift
    <2> QED
      BY <1>0, <2>1 DEF Probe
  <1>7. CASE OnResetMoney
    <2>1. probe' = [probe EXCEPT !.noMoney = @ + 1] /\ probe.noMoney + 1 \in Numbers
      BY <1>0, <1>7, RoomForOne DEF OnResetMoney, ReceivesGift
    <2> QED
      BY <1>0, <2>1 DEF Probe
  <1>8. CASE OnGiveWeapon
    <2>1. probe' = [probe EXCEPT !.gun = @ + 1] /\ probe.gun + 1 \in Numbers
      BY <1>0, <1>8, RoomForOne DEF OnGiveWeapon, ReceivesGift
    <2> QED
      BY <1>0, <2>1 DEF Probe
  <1>9. CASE OnResetWeapons
    <2>1. probe' = [probe EXCEPT !.noGuns = @ + 1] /\ probe.noGuns + 1 \in Numbers
      BY <1>0, <1>9, RoomForOne DEF OnResetWeapons, ReceivesGift
    <2> QED
      BY <1>0, <2>1 DEF Probe
  <1>10. CASE OnRestart
    <2>1. probe' = [ResetProbe EXCEPT !.restart = generation + 1]
      BY <1>10 DEF OnRestart
    <2>2. generation + 1 \in 0 .. MaxSessions
      BY <1>10, PlayerBoundsAssumption DEF OnRestart, NewSession, TypeOK, RestartsCounted
    <2> QED
      BY <2>1, <2>2, FirstType DEF Probe
  <1>11. CASE OnConnectionLost \/ Connect
    BY <1>11, FirstType DEF OnConnectionLost, Connect
  <1>12. CASE Refresh \/ Waits \/ GivesUp \/ WithoutPed
    BY <1>0, <1>12 DEF Refresh, Waits, GivesUp, WithoutPed
  <1>13. CASE ReturnsToClass
    BY <1>0, <1>13 DEF ReturnsToClass, Probe
  <1>14. CASE WithPed
    <2>1. CASE Finalizes(bridge)
      <3>1. probe' = [probe EXCEPT !.told = bridge.info]
        BY <1>14, <2>1, WithPedFacts
      <3>2. bridge.info \in 0 .. MaxInfos
        BY DEF TypeOK, Bridge
      <3> QED
        BY <1>0, <3>1, <3>2 DEF Probe
    <2>2. CASE ~Finalizes(bridge)
      BY <1>0, <1>14, <2>2, WithPedFacts
    <2> QED
      BY <2>1, <2>2
  <1> QED
    BY <1>1, <1>2, <1>3, <1>4, <1>5, <1>6, <1>7, <1>8, <1>9, <1>10, <1>11, <1>12, <1>13, <1>14
       DEF Next, Rpc, Apply

LEMMA BridgeTypeStep ==
    ASSUME TypeOK, Next, lost => probe = ResetProbe PROVE bridge' \in Bridge
  <1>0. bridge \in Bridge
    BY DEF TypeOK
  <1>1. CASE Rpc \/ Waits \/ GivesUp
    BY <1>0, <1>1 DEF Rpc, Handled, OnInitGame, OnClassReply, OnSetSpawnInfo, OnSpawnReply,
                      OnPlayerPos, OnGiveMoney, OnResetMoney, OnGiveWeapon, OnResetWeapons,
                      OnRestart, OnConnectionLost, NewSession, Waits, GivesUp
  <1>2. CASE Refresh
    BY <1>2, RefreshFacts
  <1>3. CASE Connect
    <2>1. bridge.handled \in 0 .. MaxSessions
      BY <1>0 DEF Bridge
    <2>2. bridge' = [FirstBridge EXCEPT !.handled = bridge.handled]
      BY <1>3 DEF Connect, SessionReset
    <2> QED
      BY <1>0, <2>1, <2>2, ResetFacts
  <1>4. CASE WithoutPed
    <2>1. bridge.count + 1 \in 0 .. MaxApplies
      BY <1>0, <1>4, MaxAppliesAssumption DEF WithoutPed, Applies, Bridge
    <2> QED
      BY <1>0, <1>4, <2>1 DEF WithoutPed, Bridge
  <1>5. CASE ReturnsToClass
    <2>1. bridge.count + 1 \in 0 .. MaxApplies
      BY <1>0, <1>5, MaxAppliesAssumption DEF ReturnsToClass, Applies, Bridge
    <2>2. PICK r : r = [bridge EXCEPT !.classOk = FALSE, !.spawnOk = FALSE, !.finalized = FALSE]
      OBVIOUS
    <2>3. r \in Bridge
      BY <1>0, <2>2 DEF Bridge
    <2>4. bridge' = [r EXCEPT !.finalInfo = 0, !.count = bridge.count + 1]
      BY <1>0, <1>5, <2>2 DEF ReturnsToClass, Bridge
    <2> QED
      BY <2>1, <2>3, <2>4, Bounds DEF Bridge
  <1>6. CASE WithPed
    BY <1>6, WithPedFacts
  <1> QED
    BY <1>1, <1>2, <1>3, <1>4, <1>5, <1>6 DEF Next, Apply

LEMMA GameTypeStep ==
    ASSUME TypeOK, Next, lost => probe = ResetProbe
    PROVE  /\ where' \in [kind : {"nowhere", "spawn", "set"}, n : Numbers]
           /\ money' \subseteq Events /\ guns' \subseteq Numbers
           /\ spawns' \in Seq(Events) /\ posAtSpawn' \in 0 .. MaxPos
  <1>0. /\ where \in [kind : {"nowhere", "spawn", "set"}, n : Numbers]
        /\ money \subseteq Events /\ guns \subseteq Numbers
        /\ spawns \in Seq(Events) /\ posAtSpawn \in 0 .. MaxPos
    BY DEF TypeOK
  <1>1. ASSUME UNCHANGED <<game, history>>
        PROVE  UNCHANGED <<where, money, guns, spawns, posAtSpawn>>
    BY <1>1 DEF game, history
  <1>2. CASE Rpc \/ Connect \/ Waits \/ GivesUp \/ WithoutPed \/ ReturnsToClass
    <2>1. UNCHANGED <<game, history>>
      BY <1>2 DEF Rpc, Handled, OnInitGame, OnClassReply, OnSetSpawnInfo, OnSpawnReply,
                  OnPlayerPos, OnGiveMoney, OnResetMoney, OnGiveWeapon, OnResetWeapons, OnRestart,
                  OnConnectionLost, NewSession, Connect, Waits, GivesUp, WithoutPed, ReturnsToClass
    <2> QED
      BY <1>0, <1>1, <2>1
  <1>3. /\ 0 .. MaxInfos \subseteq Numbers /\ 0 .. MaxPos \subseteq Numbers
        /\ \A k, n \in Numbers : k + 1 .. n \subseteq Numbers /\ 1 .. n \subseteq Numbers
    BY PlayerBoundsAssumption DEF Numbers
  <1>4. /\ bridge.info \in 0 .. MaxInfos /\ bridge.pos \in 0 .. MaxPos /\ bridge.gun \in Numbers
        /\ bridge.gunMark \in Numbers /\ bridge.payMark \in Numbers /\ probe.pay \in Numbers
    BY DEF TypeOK, Probe, Bridge
  <1>5. \A n \in Numbers : Event(n) \in Events
    BY DEF TypeOK, Event, Events
  <1>6. CASE Refresh
    <2>1. UNCHANGED <<where, spawns, posAtSpawn>>
      BY <1>6 DEF Refresh, history
    <2>2. guns' \subseteq Numbers
      BY <1>0, <1>6, RefreshFacts
    <2>3. \/ money' = money
          \/ money' = money \cup {Event(n) : n \in 1 .. probe.pay}
          \/ money' = money \cup {Event(n) : n \in bridge.payMark + 1 .. probe.pay}
      BY <1>6, RefreshFacts
    <2>4. money' \subseteq Events
      BY <1>0, <1>3, <1>4, <1>5, <2>3
    <2> QED
      BY <1>0, <2>1, <2>2, <2>4
  <1>7. CASE WithPed
    <2>1. guns' = GunsAfter(bridge) /\ money' = MoneyAfter(bridge)
      BY <1>7, WithPedFacts
    <2>2. guns' \subseteq Numbers
      BY <1>0, <1>3, <1>4, <2>1 DEF GunsAfter
    <2>3. money' \subseteq Events
      BY <1>0, <2>1 DEF MoneyAfter
    <2>4. \/ /\ where' = Place("spawn", bridge.info)
             /\ spawns' = Append(spawns, Event(bridge.info)) /\ posAtSpawn' = bridge.pos
          \/ /\ UNCHANGED <<spawns, posAtSpawn>>
             /\ where' = Place("set", bridge.pos) \/ where' = where
      BY <1>7, WithPedFacts
    <2>5. where' \in [kind : {"nowhere", "spawn", "set"}, n : Numbers]
      BY <1>0, <1>3, <1>4, <2>4 DEF Place
    <2>6. spawns' \in Seq(Events) /\ posAtSpawn' \in 0 .. MaxPos
      BY <1>0, <1>3, <1>4, <1>5, <2>4
    <2> QED
      BY <2>2, <2>3, <2>5, <2>6
  <1> QED
    BY <1>2, <1>6, <1>7 DEF Next, Apply

LEMMA ServerTypeStep ==
    ASSUME TypeOK, RestartsCounted, Next
    PROVE  /\ srvMoney' \subseteq Events /\ srvGuns' \subseteq Numbers
           /\ session' \in 1 .. MaxSessions /\ generation' \in 0 .. MaxSessions
           /\ link' \in BOOLEAN /\ lost' \in BOOLEAN /\ pc' \in {"pump", "apply", "done"}
  <1>0. probe \in Probe
    BY DEF TypeOK
  <1>1. CASE OnGiveMoney
    <2>1. Event(probe.pay + 1) \in Events
      BY <1>0, <1>1, RoomForOne DEF OnGiveMoney, ReceivesGift, TypeOK, Event, Events
    <2> QED
      BY <1>1, <2>1 DEF OnGiveMoney, Handled, TypeOK
  <1>2. CASE OnGiveWeapon
    <2>1. probe.gun + 1 \in Numbers
      BY <1>0, <1>2, RoomForOne DEF OnGiveWeapon, ReceivesGift
    <2> QED
      BY <1>2, <2>1 DEF OnGiveWeapon, Handled, TypeOK
  <1>3. CASE OnResetMoney \/ OnResetWeapons
    BY <1>3 DEF OnResetMoney, OnResetWeapons, Handled, TypeOK
  <1>4. CASE OnInitGame \/ OnClassReply \/ OnSetSpawnInfo \/ OnSpawnReply \/ OnPlayerPos
    BY <1>4 DEF OnInitGame, OnClassReply, OnSetSpawnInfo, OnSpawnReply, OnPlayerPos, Handled, Owes, TypeOK
  <1>5. CASE OnRestart \/ OnConnectionLost
    <2>1. NewSession /\ generation' \in {generation, generation + 1} /\ lost' \in {lost, TRUE}
      BY <1>5 DEF OnRestart, OnConnectionLost
    <2>2. session' = session + 1 /\ session < MaxSessions
      BY <2>1 DEF NewSession
    <2>3. session' \in 1 .. MaxSessions /\ generation' \in 0 .. MaxSessions
      BY <2>1, <2>2, PlayerBoundsAssumption DEF TypeOK, RestartsCounted
    <2>4. lost' \in BOOLEAN
      BY <2>1 DEF TypeOK
    <2> QED
      BY <2>1, <2>3, <2>4 DEF NewSession, TypeOK
  <1>6. CASE Refresh \/ Connect
    BY <1>6 DEF Refresh, Connect, server, TypeOK
  <1>7. CASE Apply
    BY <1>7 DEF Apply, Waits, GivesUp, WithoutPed, ReturnsToClass, WithPed, server, TypeOK
  <1> QED
    BY <1>1, <1>2, <1>3, <1>4, <1>5, <1>6, <1>7 DEF Next, Rpc

LEMMA TypeStep ==
    ASSUME TypeOK, RestartsCounted, lost => probe = ResetProbe, Next PROVE TypeOK'
  BY ProbeTypeStep, BridgeTypeStep, GameTypeStep, ServerTypeStep DEF TypeOK

-----------------------------------------------------------------------------
(* The adapter's handlers. *)

\* The numbers of the adapter and of the bridge.
LEMMA FieldTypes ==
    ASSUME TypeOK
    PROVE  /\ probe.info \in Nat /\ probe.pos \in Nat /\ probe.pay \in Nat /\ probe.noMoney \in Nat
           /\ probe.gun \in Nat /\ probe.noGuns \in Nat /\ probe.restart \in Nat
           /\ bridge.info \in Nat /\ bridge.pos \in Nat /\ bridge.noMoney \in Nat /\ bridge.gun \in Nat
           /\ bridge.noGuns \in Nat /\ bridge.finalInfo \in Nat /\ bridge.posMark \in Nat
           /\ bridge.payMark \in Nat /\ bridge.noMoneyMark \in Nat /\ bridge.gunMark \in Nat
           /\ bridge.noGunsMark \in Nat /\ bridge.handled \in Nat
           /\ posAtSpawn \in Nat /\ session \in Nat /\ generation \in Nat
  <1>1. /\ 0 .. MaxInfos \subseteq Nat /\ 0 .. MaxPos \subseteq Nat /\ Numbers \subseteq Nat
        /\ 0 .. MaxSessions \subseteq Nat /\ 1 .. MaxSessions \subseteq Nat
    BY PlayerBoundsAssumption DEF Numbers
  <1>2. /\ probe.info \in Nat /\ probe.pos \in Nat /\ probe.pay \in Nat /\ probe.noMoney \in Nat
        /\ probe.gun \in Nat /\ probe.noGuns \in Nat /\ probe.restart \in Nat
    BY <1>1 DEF TypeOK, Probe
  <1>3. /\ bridge.info \in Nat /\ bridge.pos \in Nat /\ bridge.noMoney \in Nat /\ bridge.gun \in Nat
        /\ bridge.noGuns \in Nat /\ bridge.finalInfo \in Nat /\ bridge.posMark \in Nat
    BY <1>1 DEF TypeOK, Bridge
  <1>4. /\ bridge.payMark \in Nat /\ bridge.noMoneyMark \in Nat /\ bridge.gunMark \in Nat
        /\ bridge.noGunsMark \in Nat /\ bridge.handled \in Nat
    BY <1>1 DEF TypeOK, Bridge
  <1> QED
    BY <1>1, <1>2, <1>3, <1>4 DEF TypeOK

\* What the handlers that stay in the session have in common.
InSession ==
    \/ OnInitGame \/ OnClassReply \/ OnSetSpawnInfo \/ OnSpawnReply \/ OnPlayerPos
    \/ OnGiveMoney \/ OnResetMoney \/ OnGiveWeapon \/ OnResetWeapons

LEMMA EventFacts ==
    ASSUME TypeOK, InSession
    PROVE  /\ link /\ ~lost /\ pc' = "pump"
           /\ UNCHANGED <<generation, bridge, where, money, guns, session, link, lost, spawns, posAtSpawn>>
           /\ probe'.restart = probe.restart /\ probe'.told = probe.told
           /\ probe.spawnOk => probe'.spawnOk
           /\ probe'.pos \in Nat /\ probe'.pos >= probe.pos
           /\ probe'.info \in Nat
           /\ \/ probe'.info = probe.info + 1
              \/ /\ probe'.info = probe.info
                 /\ probe'.classOk \/ probe'.spawnOk => probe.classOk \/ probe.spawnOk
           /\ \/ /\ probe'.gun = probe.gun + 1 /\ probe'.noGuns = probe.noGuns
                 /\ srvGuns' = srvGuns \cup {probe.gun + 1}
              \/ /\ probe'.gun = probe.gun /\ probe'.noGuns = probe.noGuns + 1
                 /\ srvGuns' = {}
              \/ probe'.gun = probe.gun /\ probe'.noGuns = probe.noGuns /\ srvGuns' = srvGuns
           /\ \/ /\ probe'.pay = probe.pay + 1 /\ probe'.noMoney = probe.noMoney
                 /\ srvMoney' = srvMoney \cup {Event(probe.pay + 1)}
              \/ /\ probe'.pay = probe.pay /\ probe'.noMoney = probe.noMoney + 1
                 /\ srvMoney' = {}
              \/ probe'.pay = probe.pay /\ probe'.noMoney = probe.noMoney /\ srvMoney' = srvMoney
  <1>0. probe \in Probe
    BY DEF TypeOK
  <1>1. /\ link /\ ~lost /\ pc' = "pump"
        /\ UNCHANGED <<generation, bridge, where, money, guns, session, link, lost, spawns, posAtSpawn>>
    BY DEF InSession, OnInitGame, OnClassReply, OnSetSpawnInfo, OnSpawnReply, OnPlayerPos, OnGiveMoney,
           OnResetMoney, OnGiveWeapon, OnResetWeapons, ReceivesGift, Receives, Handled, game, history
  <1>2. /\ probe.info \in Nat /\ probe.pos \in Nat /\ probe.pay \in Nat
        /\ probe.noMoney \in Nat /\ probe.gun \in Nat /\ probe.noGuns \in Nat
    BY FieldTypes
  <1>3. CASE OnInitGame
    BY <1>0, <1>1, <1>2, <1>3 DEF OnInitGame, Owes, Probe
  <1>4. CASE OnClassReply
    BY <1>0, <1>1, <1>2, <1>4 DEF OnClassReply, Owes, Probe
  <1>5. CASE OnSetSpawnInfo
    BY <1>0, <1>1, <1>2, <1>5 DEF OnSetSpawnInfo, Owes, Probe
  <1>6. CASE OnSpawnReply
    BY <1>0, <1>1, <1>2, <1>6 DEF OnSpawnReply, Owes, Probe
  <1>7. CASE OnPlayerPos
    BY <1>0, <1>1, <1>2, <1>7 DEF OnPlayerPos, Owes, Probe
  <1>8. CASE OnGiveMoney
    BY <1>0, <1>1, <1>2, <1>8 DEF OnGiveMoney, Probe
  <1>9. CASE OnResetMoney
    BY <1>0, <1>1, <1>2, <1>9 DEF OnResetMoney, Probe
  <1>10. CASE OnGiveWeapon
    BY <1>0, <1>1, <1>2, <1>10 DEF OnGiveWeapon, Probe
  <1>11. CASE OnResetWeapons
    BY <1>0, <1>1, <1>2, <1>11 DEF OnResetWeapons, Probe
  <1> QED
    BY <1>3, <1>4, <1>5, <1>6, <1>7, <1>8, <1>9, <1>10, <1>11 DEF InSession

LEMMA PastTypes ==
    ASSUME TypeOK
    PROVE  /\ Len(spawns) \in Nat
           /\ \A i \in 1 .. Len(spawns) : spawns[i].session \in Nat /\ spawns[i].n \in Nat
           /\ \A m \in money : m.session \in Nat /\ m.n \in Nat
  <1>1. \A e \in Events : e.session \in Nat /\ e.n \in Nat
    BY PlayerBoundsAssumption DEF Events, Numbers
  <1>2. spawns \in Seq(Events) /\ money \subseteq Events
    BY DEF TypeOK
  <1>3. Len(spawns) \in Nat /\ \A i \in 1 .. Len(spawns) : spawns[i] \in Events
    BY <1>2
  <1> QED
    BY <1>1, <1>2, <1>3

-----------------------------------------------------------------------------
(* The steps. *)

\* The four properties are about a frame that has ended and about spawns.
LEMMA NotDone ==
    ASSUME IInv, pc' # "done", UNCHANGED spawns
    PROVE  SpawnTakesEffect' /\ SpawnsOnce' /\ PosHonored' /\ BelongingsHonored'
  BY DEF IInv, SpawnTakesEffect, SpawnsOnce, PosHonored, BelongingsHonored, NeverDisarmed,
         MoneyNeverKept

LEMMA EventKeeps ==
    ASSUME IInv, TypeOK', InSession PROVE IInv'
  <1>0. TypeOK
    BY DEF IInv
  <1>1. /\ link /\ ~lost /\ pc' = "pump" /\ bridge' = bridge /\ probe'.restart = probe.restart
        /\ UNCHANGED <<generation, where, money, guns, session, link, lost, spawns, posAtSpawn>>
    BY <1>0, EventFacts
  <1>2. Forgotten' <=> Forgotten
    BY <1>1 DEF Forgotten, Restarted
  <1>3. MarksFollow' /\ CopiesAgree' /\ LinkEnds' /\ RestartsCounted' /\ OfThePast'
    BY <1>1, <1>2 DEF IInv, MarksFollow, CopiesAgree, LinkEnds, RestartsCounted, OfThePast
  <1>4. CopiesFollow'
    <2>1. /\ probe'.info >= probe.info /\ probe'.pos >= probe.pos /\ probe'.pay >= probe.pay
          /\ probe'.noMoney >= probe.noMoney /\ probe'.gun >= probe.gun /\ probe'.noGuns >= probe.noGuns
      BY <1>0, EventFacts, FieldTypes
    <2>2. /\ probe'.info \in Nat /\ probe'.pos \in Nat /\ probe'.pay \in Nat
          /\ probe'.noMoney \in Nat /\ probe'.gun \in Nat /\ probe'.noGuns \in Nat
      BY <1>0, EventFacts, FieldTypes
    <2> QED
      BY <1>0, <1>1, <1>2, <2>1, <2>2, FieldTypes DEF IInv, CopiesFollow
  <1>5. SpawnStands'
    BY <1>0, <1>1, <1>2, EventFacts DEF IInv, SpawnStands
  <1>6. SpawnsUsed'
    <2>1. \A i \in 1 .. Len(spawns) : spawns[i].n \in Nat
      BY <1>0, PastTypes
    <2>2. \/ probe'.info = probe.info + 1
          \/ /\ probe'.info = probe.info
             /\ probe'.classOk \/ probe'.spawnOk => probe.classOk \/ probe.spawnOk
      BY <1>0, EventFacts
    <2>3. probe.info \in Nat /\ bridge.finalInfo \in Nat
      BY <1>0, FieldTypes
    <2>4. SpawnsUsed
      BY DEF IInv
    <2>5. CASE probe'.info = probe.info + 1
      BY <1>1, <2>1, <2>3, <2>4, <2>5 DEF SpawnsUsed
    <2>6. CASE /\ probe'.info = probe.info
               /\ probe'.classOk \/ probe'.spawnOk => probe.classOk \/ probe.spawnOk
      BY <1>1, <2>4, <2>6 DEF SpawnsUsed
    <2> QED
      BY <2>2, <2>5, <2>6
  <1>7. GunsFollow'
    <2>1. \/ /\ probe'.gun = probe.gun + 1 /\ probe'.noGuns = probe.noGuns
             /\ srvGuns' = srvGuns \cup {probe.gun + 1}
          \/ srvGuns' = {}
          \/ probe'.gun = probe.gun /\ probe'.noGuns = probe.noGuns /\ srvGuns' = srvGuns
      BY <1>0, EventFacts
    <2>2. ~Forgotten => bridge.gunMark <= probe.gun
      BY <1>0, FieldTypes DEF IInv, MarksFollow, CopiesFollow
    <2>3. GunsFollow /\ probe.gun \in Nat /\ bridge.gunMark \in Nat
      BY <1>0, FieldTypes DEF IInv
    <2>4. CASE /\ probe'.gun = probe.gun + 1 /\ probe'.noGuns = probe.noGuns
               /\ srvGuns' = srvGuns \cup {probe.gun + 1}
      <3>1. srvGuns' \subseteq 1 .. probe'.gun
        <4>1. 1 .. probe.gun \subseteq 1 .. probe'.gun /\ probe.gun + 1 \in 1 .. probe'.gun
          BY <2>3, <2>4
        <4>2. srvGuns \subseteq 1 .. probe.gun
          BY <2>3 DEF GunsFollow
        <4> QED
          BY <2>4, <4>1, <4>2
      <3>2. ASSUME ~Forgotten, NEW n \in srvGuns', n <= bridge.gunMark
            PROVE  probe.noGuns = bridge.noGunsMark /\ n \in guns
        <4>1. n # probe.gun + 1
          BY <2>2, <2>3, <3>2
        <4> QED
          BY <2>3, <2>4, <3>2, <4>1 DEF GunsFollow
      <3> QED
        BY <1>1, <1>2, <2>4, <3>1, <3>2 DEF GunsFollow
    <2>5. CASE srvGuns' = {}
      BY <2>5 DEF GunsFollow
    <2>6. CASE probe'.gun = probe.gun /\ probe'.noGuns = probe.noGuns /\ srvGuns' = srvGuns
      BY <1>1, <1>2, <2>3, <2>6 DEF GunsFollow
    <2> QED
      BY <2>1, <2>4, <2>5, <2>6
  <1>8. MoneyFollows'
    <2>1. \A n : Event(n)' = Event(n)
      BY <1>1 DEF Event
    <2>2. ~Forgotten => bridge.noMoneyMark <= probe.noMoney /\ bridge.payMark <= probe.pay
      BY <1>0, FieldTypes DEF IInv, MarksFollow, CopiesFollow
    <2>3. CASE /\ probe'.pay = probe.pay + 1 /\ probe'.noMoney = probe.noMoney
               /\ srvMoney' = srvMoney \cup {Event(probe.pay + 1)}
      BY <1>0, <1>1, <1>2, <2>1, <2>2, <2>3, FieldTypes DEF IInv, MoneyFollows
    <2>4. CASE probe'.pay = probe.pay /\ probe'.noMoney = probe.noMoney + 1
      BY <1>0, <1>1, <1>2, <2>2, <2>4, FieldTypes DEF MoneyFollows
    <2>5. CASE probe'.pay = probe.pay /\ probe'.noMoney = probe.noMoney /\ srvMoney' = srvMoney
      BY <1>1, <1>2, <2>1, <2>5 DEF IInv, MoneyFollows
    <2> QED
      BY <1>0, <2>3, <2>4, <2>5, EventFacts
  <1> QED
    BY <1>1, <1>3, <1>4, <1>5, <1>6, <1>7, <1>8, NotDone DEF IInv

\* A new session makes everything applied so far a thing of the past.
LEMMA NewSessionKeeps ==
    ASSUME IInv, TypeOK', OnRestart \/ OnConnectionLost PROVE IInv'
  <1>0. TypeOK
    BY DEF IInv
  <1>1. /\ link /\ ~lost /\ link' = link /\ pc' = "pump" /\ session' = session + 1
        /\ srvMoney' = {} /\ srvGuns' = {}
        /\ UNCHANGED <<bridge, where, money, guns, spawns, posAtSpawn>>
    BY DEF OnRestart, OnConnectionLost, NewSession, Receives, game, history
  <1>2. /\ probe'.info = 0 /\ probe'.pos = 0 /\ probe'.pay = 0 /\ probe'.noMoney = 0
        /\ probe'.gun = 0 /\ probe'.noGuns = 0
    BY DEF OnRestart, OnConnectionLost, ResetProbe
  <1>3. /\ \/ generation' = generation + 1 /\ probe'.restart = generation + 1 /\ lost' = lost
           \/ generation' = generation /\ probe'.restart = 0 /\ lost' /\ probe' = ResetProbe
    BY DEF OnRestart, OnConnectionLost, ResetProbe
  <1>4. Forgotten'
    BY <1>0, <1>1, <1>3, FieldTypes DEF IInv, RestartsCounted, Forgotten, Restarted
  <1>5. MarksFollow' /\ CopiesFollow' /\ CopiesAgree'
    BY <1>1, <1>4 DEF IInv, MarksFollow, CopiesFollow, CopiesAgree
  <1>6. LinkEnds'
    BY <1>1, <1>3 DEF LinkEnds
  <1>7. RestartsCounted'
    BY <1>0, <1>1, <1>3, FieldTypes DEF IInv, RestartsCounted
  <1>8. /\ \A i \in 1 .. Len(spawns) : spawns[i].session \in Nat
        /\ \A m \in money : m.session \in Nat
    BY <1>0, PastTypes
  <1>9. /\ \A i \in 1 .. Len(spawns) : spawns[i].session < session'
        /\ \A m \in money : m.session < session'
    <2>1. /\ \A i \in 1 .. Len(spawns) : spawns[i].session <= session
          /\ \A m \in money : m.session <= session
      BY DEF IInv, OfThePast
    <2>2. session \in Nat
      BY <1>0, FieldTypes
    <2> QED
      BY <1>1, <1>8, <2>1, <2>2
  <1>10. OfThePast'
    <2>1. session' \in Nat
      BY <1>0, <1>1, FieldTypes
    <2> QED
      BY <1>1, <1>8, <1>9, <2>1 DEF OfThePast
  <1>11. SpawnsUsed'
    BY <1>0, <1>1, <1>8, <1>9, FieldTypes DEF SpawnsUsed
  <1>12. SpawnStands'
    BY <1>1, <1>4 DEF IInv, SpawnStands
  <1>13. GunsFollow'
    BY <1>1, <1>4 DEF GunsFollow
  <1>14. MoneyFollows'
    <2>1. 1 .. probe'.pay = {}
      BY <1>2
    <2> QED
      BY <1>4, <2>1 DEF MoneyFollows
  <1> QED
    BY <1>1, <1>5, <1>6, <1>7, <1>10, <1>11, <1>12, <1>13, <1>14, NotDone DEF IInv

\* Connecting again finds both halves empty.
LEMMA ConnectKeeps ==
    ASSUME IInv, TypeOK', Connect PROVE IInv'
  <1>0. TypeOK
    BY DEF IInv
  <1>1. /\ ~link /\ link' = TRUE /\ pc' = "pump" /\ probe' = ResetProbe /\ bridge' = SessionReset(bridge)
        /\ UNCHANGED <<generation, where, money, guns, srvMoney, srvGuns, session, lost, spawns, posAtSpawn>>
    BY DEF Connect, game, server, history
  <1>2. UNCHANGED <<probe, bridge>> /\ ~lost
    BY <1>1 DEF IInv, LinkEnds
  <1>3. Forgotten' <=> Forgotten
    BY <1>1, <1>2 DEF Forgotten, Restarted
  <1>4. Event(0)' = Event(0) /\ \A n : Event(n)' = Event(n)
    BY <1>1 DEF Event
  <1>5. /\ MarksFollow' /\ CopiesFollow' /\ CopiesAgree' /\ RestartsCounted' /\ SpawnStands'
        /\ SpawnsUsed' /\ GunsFollow' /\ MoneyFollows'
    BY <1>1, <1>2, <1>3, <1>4 DEF IInv, MarksFollow, CopiesFollow, CopiesAgree, RestartsCounted,
                                  SpawnStands, SpawnsUsed, GunsFollow, MoneyFollows
  <1>6. LinkEnds'
    BY <1>1, <1>2 DEF LinkEnds
  <1>7. OfThePast'
    BY <1>1, <1>3 DEF IInv, OfThePast
  <1> QED
    BY <1>1, <1>5, <1>6, <1>7, NotDone DEF IInv

-----------------------------------------------------------------------------
(* The frame. *)

LEMMA RefreshKeeps ==
    ASSUME IInv, TypeOK', Refresh PROVE IInv'
  <1>0. TypeOK /\ (lost => probe = ResetProbe)
    BY DEF IInv, LinkEnds
  <1>1. /\ link /\ link' = ~lost /\ ~lost' /\ pc' = "apply"
        /\ UNCHANGED <<probe, generation, where, srvMoney, srvGuns, session, spawns, posAtSpawn>>
    BY <1>0 DEF Refresh, server, history, TypeOK
  <1>2. \A n : Event(n)' = Event(n)
    BY <1>1 DEF Event
  <1>3. CASE lost
    <2>1. /\ bridge' = SessionReset(bridge') /\ bridge'.handled = bridge.handled
          /\ bridge'.info = 0 /\ bridge'.finalInfo = 0 /\ bridge'.pos = 0 /\ bridge'.posMark = 0
          /\ bridge'.gun = 0 /\ bridge'.gunMark = 0 /\ bridge'.noGuns = 0
          /\ bridge'.noGunsMark = 0 /\ bridge'.noMoney = 0 /\ bridge'.noMoneyMark = 0
          /\ bridge'.payMark = 0 /\ money' = money
      BY <1>0, <1>3, RefreshFacts
    <2>2. /\ probe.info = 0 /\ probe.pos = 0 /\ probe.pay = 0 /\ probe.noMoney = 0 /\ probe.gun = 0
          /\ probe.noGuns = 0 /\ probe.restart = 0 /\ ~probe.classOk /\ ~probe.spawnOk
      BY <1>0, <1>3 DEF ResetProbe
    <2>3. ~Forgotten'
      BY <1>1, <2>2 DEF Forgotten, Restarted
    <2>4. MarksFollow' /\ CopiesFollow' /\ CopiesAgree'
      <3>1. MarksFollow' /\ CopiesFollow'
        BY <1>1, <2>1, <2>2 DEF MarksFollow, CopiesFollow
      <3>2. CopiesAgree'
        BY <1>1, <1>3 DEF CopiesAgree
      <3> QED
        BY <3>1, <3>2
    <2>5. LinkEnds'
      BY <1>0, <1>1, <1>3, <2>1 DEF LinkEnds
    <2>6. RestartsCounted'
      BY <1>1, <2>1 DEF IInv, RestartsCounted
    <2>7. OfThePast'
      BY <1>1, <1>3, <2>1 DEF IInv, OfThePast, Forgotten
    <2>8. SpawnStands'
      BY <2>1 DEF SpawnStands
    <2>9. SpawnsUsed'
      BY <1>1, <1>3 DEF IInv, OfThePast, Forgotten, SpawnsUsed
    <2>10. GunsFollow' /\ MoneyFollows'
      <3>1. 1 .. 0 = {}
        OBVIOUS
      <3>2. srvGuns = {}
        BY <2>2, <3>1 DEF IInv, GunsFollow
      <3>3. 0 + 1 .. 0 = {}
        OBVIOUS
      <3>4. \A m \in money : m.session # session
        BY <1>3 DEF IInv, OfThePast, Forgotten
      <3> QED
        BY <1>1, <2>1, <2>2, <3>1, <3>2, <3>3, <3>4 DEF GunsFollow, MoneyFollows
    <2> QED
      BY <1>1, <2>4, <2>5, <2>6, <2>7, <2>8, <2>9, <2>10, NotDone DEF IInv
  <1>4. CASE ~lost /\ Restarted
    <2>1. /\ bridge'.handled = probe.restart /\ bridge'.spawnOk = probe.spawnOk
          /\ bridge'.info = probe.info /\ bridge'.pos = probe.pos
          /\ bridge'.gun = probe.gun /\ bridge'.noGuns = probe.noGuns
          /\ bridge'.noMoney = probe.noMoney /\ bridge'.payMark = probe.pay
          /\ bridge'.finalInfo = 0 /\ bridge'.posMark = 0 /\ bridge'.gunMark = 0
          /\ bridge'.noGunsMark = 0 /\ bridge'.noMoneyMark = 0
          /\ money' = money \cup {Event(n) : n \in 1 .. probe.pay}
      BY <1>0, <1>4, RefreshFacts
    <2>2. ~Forgotten'
      BY <1>1, <2>1 DEF Forgotten, Restarted
    <2>3. /\ probe.info \in Nat /\ probe.pos \in Nat /\ probe.pay \in Nat /\ probe.noMoney \in Nat
          /\ probe.gun \in Nat /\ probe.noGuns \in Nat /\ session \in Nat
      BY <1>0, FieldTypes
    <2>4. MarksFollow' /\ CopiesFollow' /\ CopiesAgree'
      BY <1>1, <2>1, <2>2, <2>3 DEF MarksFollow, CopiesFollow, CopiesAgree
    <2>5. LinkEnds'
      BY <1>1, <1>4 DEF LinkEnds
    <2>6. RestartsCounted'
      BY <1>1, <2>1 DEF IInv, RestartsCounted
    <2>7. /\ \A i \in 1 .. Len(spawns) : spawns[i].session <= session /\ spawns[i].session # session
          /\ \A m \in money : m.session <= session /\ m.session # session
      BY <1>4 DEF IInv, OfThePast, Forgotten
    <2>8. OfThePast'
      <3>1. \A n \in 1 .. probe.pay : Event(n).session = session
        BY DEF Event
      <3>2. \A m \in money' : m.session <= session
        BY <2>1, <2>3, <2>7, <3>1
      <3> QED
        BY <1>1, <1>4, <2>2, <2>7, <3>2 DEF OfThePast
    <2>9. SpawnStands'
      BY <2>1 DEF SpawnStands
    <2>10. SpawnsUsed'
      BY <1>1, <2>7 DEF SpawnsUsed
    <2>11. GunsFollow'
      BY <1>1, <2>1, <2>2, <2>3 DEF IInv, GunsFollow
    <2>12. MoneyFollows'
      <3>1. probe.noMoney = 0 => \A n \in 1 .. probe.pay : Event(n) \in srvMoney
        BY DEF IInv, MoneyFollows
      <3>2. ASSUME probe.noMoney = 0 PROVE \A m \in money' : m.session = session => m \in srvMoney
        BY <2>1, <2>7, <3>1, <3>2
      <3>3. probe.pay + 1 .. probe.pay = {}
        BY <2>3
      <3> QED
        BY <1>1, <1>2, <2>1, <3>1, <3>2, <3>3 DEF MoneyFollows
    <2> QED
      BY <1>1, <2>4, <2>5, <2>6, <2>8, <2>9, <2>10, <2>11, <2>12, NotDone DEF IInv
  <1>5. CASE ~lost /\ ~Restarted
    <2>1. /\ bridge'.handled = bridge.handled /\ bridge'.spawnOk = probe.spawnOk
          /\ bridge'.info = IF probe.info # 0 THEN probe.info ELSE bridge.info
          /\ bridge'.finalized = (bridge.finalized /\ (probe.info = 0 \/ probe.info = bridge.info))
          /\ bridge'.pos = IF probe.pos # 0 THEN probe.pos ELSE bridge.pos
          /\ bridge'.gun = IF probe.gun # 0 THEN probe.gun ELSE bridge.gun
          /\ bridge'.noGuns = IF probe.noGuns # 0 THEN probe.noGuns ELSE bridge.noGuns
          /\ bridge'.noMoney = IF probe.noMoney # 0 THEN probe.noMoney ELSE bridge.noMoney
          /\ bridge'.payMark = IF probe.pay # 0 THEN probe.pay ELSE bridge.payMark
          /\ bridge'.finalInfo = bridge.finalInfo /\ bridge'.posMark = bridge.posMark
          /\ bridge'.gunMark = bridge.gunMark /\ bridge'.noGunsMark = bridge.noGunsMark
          /\ bridge'.noMoneyMark = bridge.noMoneyMark
          /\ money' = money \cup {Event(n) : n \in bridge.payMark + 1 .. probe.pay}
          /\ guns' = guns
      BY <1>0, <1>5, RefreshFacts
    <2>2. ~Forgotten /\ ~Forgotten'
      BY <1>1, <1>5, <2>1 DEF Forgotten, Restarted
    <2>3. /\ bridge.info <= probe.info /\ bridge.pos <= probe.pos
          /\ bridge.gun <= probe.gun /\ bridge.noGuns <= probe.noGuns
          /\ bridge.noMoney <= probe.noMoney /\ bridge.payMark <= probe.pay
      BY <2>2 DEF IInv, CopiesFollow
    <2>4. /\ bridge'.info = probe.info /\ bridge'.pos = probe.pos
          /\ bridge'.gun = probe.gun /\ bridge'.noGuns = probe.noGuns
          /\ bridge'.noMoney = probe.noMoney /\ bridge'.payMark = probe.pay
      BY <1>0, <2>1, <2>3, FieldTypes
    <2>5. MarksFollow'
      BY <1>0, <2>1, <2>3, <2>4, FieldTypes DEF IInv, MarksFollow
    <2>6. CopiesFollow' /\ CopiesAgree'
      BY <1>0, <1>1, <2>1, <2>2, <2>4, FieldTypes DEF CopiesFollow, CopiesAgree
    <2>7. LinkEnds'
      BY <1>1, <1>5 DEF LinkEnds
    <2>8. RestartsCounted'
      BY <1>1, <2>1 DEF IInv, RestartsCounted
    <2>9. OfThePast'
      <3>1. \A n \in bridge.payMark + 1 .. probe.pay : Event(n).session = session
        BY DEF Event
      <3>2. session \in Nat /\ \A m \in money : m.session <= session
        BY <1>0, FieldTypes DEF IInv, OfThePast
      <3>3. \A m \in money' : m.session <= session
        BY <2>1, <3>1, <3>2
      <3> QED
        BY <1>1, <1>5, <2>2, <3>3 DEF IInv, OfThePast
    <2>10. SpawnStands'
      <3>1. bridge.finalInfo <= bridge.info
        BY DEF IInv, MarksFollow
      <3>2. bridge.finalInfo # 0 /\ bridge.finalInfo = probe.info => bridge.info = bridge.finalInfo
        BY <1>0, <2>3, <3>1, FieldTypes
      <3>3. bridge.finalInfo # 0 /\ bridge.finalInfo = probe.info => bridge'.finalized
        BY <2>1, <3>2 DEF IInv, SpawnStands
      <3> QED
        BY <1>1, <2>1, <2>2, <2>4, <3>3 DEF IInv, SpawnStands
    <2>11. SpawnsUsed'
      BY <1>1, <2>1 DEF IInv, SpawnsUsed
    <2>12. GunsFollow'
      BY <1>1, <2>1, <2>2 DEF IInv, GunsFollow
    <2>13. MoneyFollows'
      <3>1. MoneyFollows /\ probe.pay \in Nat
        BY <1>0, FieldTypes DEF IInv
      <3>2. ASSUME probe.noMoney = bridge.noMoneyMark
            PROVE  \A m \in money' : m.session = session => m \in srvMoney
        BY <2>1, <2>2, <3>1, <3>2 DEF MoneyFollows
      <3>3. probe.pay + 1 .. probe.pay = {}
        BY <3>1
      <3> QED
        BY <1>1, <1>2, <2>1, <2>4, <3>1, <3>2, <3>3 DEF MoneyFollows
    <2> QED
      BY <1>1, <2>5, <2>6, <2>7, <2>8, <2>9, <2>10, <2>11, <2>12, <2>13, NotDone DEF IInv
  <1> QED
    BY <1>3, <1>4, <1>5

\* Frames that wait, give up or find no ped change nothing but the counter.
LEMMA IdleKeeps ==
    ASSUME IInv, TypeOK', Waits \/ GivesUp \/ WithoutPed PROVE IInv'
  <1>0. TypeOK
    BY DEF IInv
  <1>1. /\ pc' = "pump"
        /\ UNCHANGED <<probe, generation, where, money, guns, srvMoney, srvGuns, session, link,
                       lost, spawns, posAtSpawn>>
    BY DEF Waits, GivesUp, WithoutPed, game, server, history
  <1>2. \/ bridge' = bridge
        \/ link /\ bridge' = [bridge EXCEPT !.count = @ + 1]
    BY DEF Waits, GivesUp, WithoutPed, Applies, Joined
  <1>3. /\ bridge'.info = bridge.info /\ bridge'.finalInfo = bridge.finalInfo
        /\ bridge'.pos = bridge.pos /\ bridge'.posMark = bridge.posMark
        /\ bridge'.gun = bridge.gun /\ bridge'.gunMark = bridge.gunMark
        /\ bridge'.noGuns = bridge.noGuns /\ bridge'.noGunsMark = bridge.noGunsMark
    BY <1>0, <1>2 DEF TypeOK, Bridge
  <1>4. /\ bridge'.noMoney = bridge.noMoney /\ bridge'.noMoneyMark = bridge.noMoneyMark
        /\ bridge'.payMark = bridge.payMark /\ bridge'.handled = bridge.handled
    BY <1>0, <1>2 DEF TypeOK, Bridge
  <1>5. bridge'.finalized = bridge.finalized /\ bridge'.spawnOk = bridge.spawnOk
    BY <1>0, <1>2 DEF TypeOK, Bridge
  <1>6. /\ bridge'.info = bridge.info /\ bridge'.finalInfo = bridge.finalInfo
        /\ bridge'.finalized = bridge.finalized /\ bridge'.handled = bridge.handled
        /\ bridge'.pos = bridge.pos /\ bridge'.posMark = bridge.posMark
        /\ bridge'.gun = bridge.gun /\ bridge'.gunMark = bridge.gunMark
        /\ bridge'.noGuns = bridge.noGuns /\ bridge'.noGunsMark = bridge.noGunsMark
        /\ bridge'.noMoney = bridge.noMoney /\ bridge'.noMoneyMark = bridge.noMoneyMark
        /\ bridge'.payMark = bridge.payMark
    BY <1>3, <1>4, <1>5
  <1>7. (Forgotten' <=> Forgotten) /\ \A n : Event(n)' = Event(n)
    BY <1>1, <1>6 DEF Forgotten, Restarted, Event
  <1>8. MarksFollow' /\ CopiesFollow' /\ CopiesAgree' /\ RestartsCounted'
    BY <1>1, <1>6, <1>7 DEF IInv, MarksFollow, CopiesFollow, CopiesAgree, RestartsCounted
  <1>9. LinkEnds'
    BY <1>1, <1>2 DEF IInv, LinkEnds
  <1>10. OfThePast' /\ SpawnStands' /\ SpawnsUsed'
    BY <1>1, <1>6, <1>7 DEF IInv, OfThePast, SpawnStands, SpawnsUsed
  <1>11. GunsFollow' /\ MoneyFollows'
    BY <1>1, <1>6, <1>7 DEF IInv, GunsFollow, MoneyFollows
  <1> QED
    BY <1>1, <1>8, <1>9, <1>10, <1>11, NotDone DEF IInv

\* Back in class selection the next spawn needs a new class, and with it a new
\* spawn info.
LEMMA ReturnKeeps ==
    ASSUME IInv, TypeOK', ReturnsToClass PROVE IInv'
  <1>0. TypeOK
    BY DEF IInv
  <1>1. /\ pc = "apply" /\ pc' = "pump" /\ link
        /\ UNCHANGED <<generation, where, money, guns, srvMoney, srvGuns, session, link, lost,
                       spawns, posAtSpawn>>
    BY DEF ReturnsToClass, Applies, Joined, game, server, history
  <1>2. /\ ~probe'.classOk /\ ~probe'.spawnOk /\ probe'.info = probe.info /\ probe'.pos = probe.pos
        /\ probe'.gun = probe.gun /\ probe'.noGuns = probe.noGuns /\ probe'.pay = probe.pay
        /\ probe'.noMoney = probe.noMoney /\ probe'.restart = probe.restart
    BY <1>0 DEF ReturnsToClass, TypeOK, Probe
  <1>3. /\ bridge'.finalInfo = 0 /\ bridge'.info = bridge.info /\ bridge'.handled = bridge.handled
        /\ bridge'.pos = bridge.pos /\ bridge'.posMark = bridge.posMark
        /\ bridge'.gun = bridge.gun /\ bridge'.gunMark = bridge.gunMark
    BY <1>0 DEF ReturnsToClass, TypeOK, Bridge
  <1>4. /\ bridge'.noGuns = bridge.noGuns /\ bridge'.noGunsMark = bridge.noGunsMark
        /\ bridge'.noMoney = bridge.noMoney /\ bridge'.noMoneyMark = bridge.noMoneyMark
        /\ bridge'.payMark = bridge.payMark
    BY <1>0 DEF ReturnsToClass, TypeOK, Bridge
  <1>5. (Forgotten' <=> Forgotten) /\ \A n : Event(n)' = Event(n)
    BY <1>1, <1>2, <1>3 DEF Forgotten, Restarted, Event
  <1>6. MarksFollow'
    <2>1. 0 <= bridge.info
      BY <1>0, FieldTypes
    <2> QED
      BY <1>3, <1>4, <2>1 DEF IInv, MarksFollow
  <1>7. CopiesFollow' /\ CopiesAgree'
    BY <1>1, <1>2, <1>3, <1>4, <1>5 DEF IInv, CopiesFollow, CopiesAgree
  <1>8. LinkEnds'
    BY <1>1 DEF IInv, LinkEnds
  <1>9. RestartsCounted' /\ OfThePast'
    BY <1>1, <1>2, <1>3, <1>5 DEF IInv, RestartsCounted, OfThePast
  <1>10. SpawnStands'
    BY <1>3 DEF SpawnStands
  <1>11. SpawnsUsed'
    BY <1>1, <1>2, <1>3 DEF IInv, SpawnsUsed
  <1>12. GunsFollow' /\ MoneyFollows'
    BY <1>1, <1>2, <1>3, <1>4, <1>5 DEF IInv, GunsFollow, MoneyFollows
  <1> QED
    BY <1>1, <1>6, <1>7, <1>8, <1>9, <1>10, <1>11, <1>12, NotDone DEF IInv

\* A frame that runs through leaves the marks at the copies, the belongings
\* mixed in the right order, and the player where he was put last.
LEMMA PedFacts ==
    ASSUME IInv, WithPed
    PROVE  /\ TypeOK /\ pc' = "done" /\ link /\ link' /\ ~Forgotten /\ ~Forgotten' /\ ~lost'
           /\ UNCHANGED <<generation, srvMoney, srvGuns, session>>
           /\ bridge.spawnOk = probe.spawnOk
           /\ bridge.info = probe.info /\ bridge.pos = probe.pos
           /\ bridge.gun = probe.gun /\ bridge.noGuns = probe.noGuns
           /\ bridge.noMoney = probe.noMoney /\ bridge.payMark = probe.pay
           /\ bridge'.spawnOk = bridge.spawnOk /\ bridge'.info = bridge.info /\ bridge'.pos = bridge.pos
           /\ bridge'.gun = bridge.gun /\ bridge'.gunMark = bridge.gun
           /\ bridge'.noGuns = bridge.noGuns /\ bridge'.noGunsMark = bridge.noGuns
           /\ bridge'.noMoney = bridge.noMoney /\ bridge'.noMoneyMark = bridge.noMoney
           /\ bridge'.payMark = bridge.payMark /\ bridge'.handled = bridge.handled
           /\ guns' = GunsAfter(bridge) /\ money' = MoneyAfter(bridge)
           /\ probe'.info = probe.info /\ probe'.pos = probe.pos /\ probe'.gun = probe.gun
           /\ probe'.noGuns = probe.noGuns /\ probe'.pay = probe.pay /\ probe'.noMoney = probe.noMoney
           /\ probe'.restart = probe.restart
           /\ probe'.spawnOk = probe.spawnOk /\ probe'.classOk = probe.classOk
  <1>0. TypeOK
    BY DEF IInv
  <1>1. /\ pc = "apply" /\ pc' = "done" /\ link /\ link'
        /\ UNCHANGED <<generation, srvMoney, srvGuns, session, lost>>
    BY DEF WithPed, Applies, Joined, server
  <1>2. /\ ~Forgotten /\ bridge.spawnOk = probe.spawnOk
        /\ bridge.info = probe.info /\ bridge.pos = probe.pos
        /\ bridge.gun = probe.gun /\ bridge.noGuns = probe.noGuns
        /\ bridge.noMoney = probe.noMoney /\ bridge.payMark = probe.pay
    BY <1>1 DEF IInv, CopiesAgree
  <1>3. probe' = probe \/ probe' = [probe EXCEPT !.told = bridge.info]
    BY <1>0, WithPedFacts
  <1>4. /\ probe'.info = probe.info /\ probe'.pos = probe.pos /\ probe'.gun = probe.gun
        /\ probe'.noGuns = probe.noGuns /\ probe'.pay = probe.pay /\ probe'.noMoney = probe.noMoney
        /\ probe'.restart = probe.restart
    BY <1>0, <1>3 DEF TypeOK, Probe
  <1>5. probe'.spawnOk = probe.spawnOk /\ probe'.classOk = probe.classOk
    BY <1>0, <1>3 DEF TypeOK, Probe
  <1>6. bridge'.handled = bridge.handled
    BY <1>0, WithPedFacts
  <1>7. ~Forgotten' /\ ~lost'
    BY <1>1, <1>2, <1>4, <1>6 DEF Forgotten, Restarted
  <1> QED
    BY <1>0, <1>1, <1>2, <1>4, <1>5, <1>7, WithPedFacts

\* The resets of a frame come first, then the gifts above the mark.
LEMMA PedBelongings ==
    ASSUME IInv, WithPed
    PROVE  /\ GunsFollow' /\ MoneyFollows' /\ BelongingsHonored'
           /\ \A m \in money' : m.session <= session'
  <1>1. /\ bridge.gun \in Nat /\ bridge.gunMark \in Nat /\ bridge.noGuns \in Nat
        /\ bridge.noMoney \in Nat /\ bridge.noMoneyMark \in Nat /\ bridge.noGunsMark \in Nat
        /\ probe.pay \in Nat
    BY PedFacts, FieldTypes
  <1>2. /\ ~Forgotten /\ bridge.noGuns = probe.noGuns /\ bridge.gun = probe.gun
        /\ bridge.noMoney = probe.noMoney /\ bridge.payMark = probe.pay
    BY PedFacts
  <1>3. srvGuns \subseteq 1 .. probe.gun /\ srvGuns \subseteq guns'
    <2>1. /\ srvGuns \subseteq 1 .. probe.gun
          /\ \A n \in srvGuns : n <= bridge.gunMark => probe.noGuns = bridge.noGunsMark /\ n \in guns
      BY <1>2 DEF IInv, GunsFollow
    <2>2. guns' = GunsAfter(bridge)
      BY PedFacts
    <2>3. SUFFICES ASSUME NEW n \in srvGuns PROVE n \in guns'
      BY <2>1
    <2>4. n \in Nat /\ n <= bridge.gun
      BY <1>1, <1>2, <2>1
    <2>5. CASE n <= bridge.gunMark
      BY <1>2, <2>1, <2>2, <2>5 DEF GunsAfter, New
    <2>6. CASE ~(n <= bridge.gunMark)
      <3>1. n \in bridge.gunMark + 1 .. bridge.gun
        BY <1>1, <2>4, <2>6
      <3> QED
        BY <2>2, <3>1 DEF GunsAfter
    <2> QED
      BY <2>5, <2>6
  <1>4. /\ \A m \in money' : m.session = session => m \in srvMoney
        /\ money' \subseteq money
    <2>1. money' = MoneyAfter(bridge)
      BY PedFacts
    <2>2. CASE New(bridge.noMoney, bridge.noMoneyMark)
      BY <2>1, <2>2 DEF MoneyAfter
    <2>3. CASE ~New(bridge.noMoney, bridge.noMoneyMark)
      <3>1. bridge.noMoneyMark <= bridge.noMoney
        BY DEF IInv, MarksFollow
      <3>2. probe.noMoney = bridge.noMoneyMark
        BY <1>1, <1>2, <2>3, <3>1 DEF New
      <3>3. money' = money
        BY <2>1, <2>3 DEF MoneyAfter
      <3> QED
        BY <1>2, <3>2, <3>3 DEF IInv, MoneyFollows
    <2> QED
      BY <2>2, <2>3
  <1>5. GunsFollow'
    BY <1>3, PedFacts DEF GunsFollow
  <1>6. MoneyFollows'
    <2>1. probe.noMoney = 0 => \A n \in 1 .. probe.pay : Event(n) \in srvMoney
      BY DEF IInv, MoneyFollows
    <2>2. probe.pay + 1 .. probe.pay = {}
      BY <1>1
    <2>3. \A n : Event(n)' = Event(n)
      BY PedFacts DEF Event
    <2> QED
      BY <1>4, <2>1, <2>2, <2>3, PedFacts DEF MoneyFollows
  <1>7. BelongingsHonored'
    BY <1>3, <1>4, PedFacts DEF BelongingsHonored, NeverDisarmed, MoneyNeverKept
  <1>8. \A m \in money' : m.session <= session'
    BY <1>4, PedFacts DEF IInv, OfThePast
  <1> QED
    BY <1>5, <1>6, <1>7, <1>8

\* What a frame does to the spawn and to the player's place.
PlaceKept ==
    /\ \A i \in 1 .. Len(spawns) : spawns[i].session <= session
    /\ SpawnStands /\ SpawnsUsed /\ SpawnsOnce /\ SpawnTakesEffect /\ PosHonored

\* A spawn uses an info above all of this session's, and takes with it the
\* positions set so far.
LEMMA PedSpawns ==
    ASSUME IInv, WithPed, Finalizes(bridge)
    PROVE  PlaceKept' /\ bridge'.finalInfo <= bridge'.info /\ bridge'.posMark <= bridge'.pos
  <1>1. /\ bridge'.finalized /\ bridge'.finalInfo = bridge.info /\ bridge'.posMark = bridge.pos
        /\ where' = Place("spawn", bridge.info) /\ probe' = [probe EXCEPT !.told = bridge.info]
        /\ spawns' = Append(spawns, Event(bridge.info)) /\ posAtSpawn' = bridge.pos
    BY PedFacts, WithPedFacts
  <1>2. bridge.spawnOk /\ bridge.info # 0 /\ bridge.info # bridge.finalInfo
    BY DEF Finalizes, New
  <1>3. TypeOK
    BY PedFacts
  <1>4. /\ bridge.info \in Nat /\ bridge.finalInfo \in Nat /\ bridge.pos \in Nat /\ session \in Nat
        /\ Len(spawns) \in Nat
        /\ \A i \in 1 .. Len(spawns) : spawns[i].session \in Nat /\ spawns[i].n \in Nat
    BY <1>3, FieldTypes, PastTypes
  <1>5. probe.spawnOk /\ bridge.info = probe.info
    BY <1>2, PedFacts
  <1>6. /\ Len(spawns') = Len(spawns) + 1 /\ spawns'[Len(spawns) + 1] = Event(bridge.info)
        /\ \A i \in 1 .. Len(spawns) : spawns'[i] = spawns[i]
    BY <1>1, <1>3 DEF TypeOK
  <1>7. \A i \in 1 .. Len(spawns) : spawns[i].session = session => spawns[i].n < bridge.info
    <2>1. bridge.finalInfo <= bridge.info /\ SpawnsUsed
      BY DEF IInv, MarksFollow
    <2>2. CASE bridge.finalInfo = 0
      BY <1>5, <2>1, <2>2 DEF SpawnsUsed
    <2>3. CASE bridge.finalInfo # 0
      <3>1. bridge.finalInfo < bridge.info
        BY <1>2, <1>4, <2>1
      <3>2. \A i \in 1 .. Len(spawns) : spawns[i].session = session => spawns[i].n <= bridge.finalInfo
        BY <2>1, <2>3 DEF SpawnsUsed
      <3> QED
        BY <1>4, <3>1, <3>2
    <2> QED
      BY <2>2, <2>3
  <1>8. Event(bridge.info).session = session /\ Event(bridge.info).n = bridge.info
    BY DEF Event
  <1>9. \A i \in 1 .. Len(spawns') : i \in 1 .. Len(spawns) \/ i = Len(spawns) + 1
    BY <1>4, <1>6
  <1>10. \A i \in 1 .. Len(spawns') : spawns'[i].session <= session'
    <2>1. session' = session /\ \A i \in 1 .. Len(spawns) : spawns[i].session <= session
      BY PedFacts DEF IInv, OfThePast
    <2> QED
      BY <1>4, <1>6, <1>8, <1>9, <2>1
  <1>11. \A i \in 1 .. Len(spawns') : spawns'[i].session = session => spawns'[i].n <= bridge.info
    BY <1>4, <1>6, <1>7, <1>8, <1>9
  <1>12. SpawnsUsed'
    BY <1>1, <1>2, <1>5, <1>11, PedFacts DEF SpawnsUsed
  <1>13. SpawnsOnce'
    <2>1. SUFFICES ASSUME NEW i \in 1 .. Len(spawns'), NEW j \in 1 .. Len(spawns'), spawns'[i] = spawns'[j]
                   PROVE  i = j
      BY DEF SpawnsOnce
    <2>2. \A k \in 1 .. Len(spawns) : spawns[k] # Event(bridge.info)
      BY <1>4, <1>7, <1>8
    <2>3. CASE i \in 1 .. Len(spawns) /\ j \in 1 .. Len(spawns)
      BY <1>6, <2>1, <2>3 DEF IInv, SpawnsOnce
    <2>4. CASE i = Len(spawns) + 1 \/ j = Len(spawns) + 1
      BY <1>6, <1>9, <2>1, <2>2, <2>4
    <2> QED
      BY <1>9, <2>3, <2>4
  <1>14. probe'.told = bridge.info
    BY <1>1, <1>3 DEF TypeOK, Probe
  <1>15. SpawnStands'
    <2>1. probe'.spawnOk
      BY <1>5, PedFacts
    <2> QED
      BY <1>1, <1>4, <1>14, <2>1 DEF SpawnStands
  <1>16. SpawnTakesEffect' /\ PosHonored'
    BY <1>1, <1>14, PedFacts DEF SpawnTakesEffect, PosHonored
  <1>17. bridge'.finalInfo <= bridge'.info /\ bridge'.posMark <= bridge'.pos
    BY <1>1, <1>4, PedFacts
  <1> QED
    BY <1>10, <1>12, <1>13, <1>15, <1>16, <1>17 DEF PlaceKept

\* Without a spawn the player goes to a position set since the last one, if
\* there is any.
LEMMA PedStays ==
    ASSUME IInv, WithPed, ~Finalizes(bridge)
    PROVE  PlaceKept' /\ bridge'.finalInfo <= bridge'.info /\ bridge'.posMark <= bridge'.pos
  <1>0. TypeOK
    BY PedFacts
  <1>1. /\ bridge'.finalized = bridge.finalized /\ bridge'.finalInfo = bridge.finalInfo
        /\ UNCHANGED <<probe, spawns, posAtSpawn>>
        /\ \/ Moves(bridge) /\ bridge'.posMark = bridge.pos /\ where' = Place("set", bridge.pos)
           \/ ~Moves(bridge) /\ bridge'.posMark = bridge.posMark /\ where' = where
    BY <1>0, WithPedFacts
  <1>2. /\ bridge.info \in Nat /\ bridge.finalInfo \in Nat /\ bridge.pos \in Nat
        /\ bridge.posMark \in Nat /\ posAtSpawn \in Nat
    BY <1>0, FieldTypes
  <1>3. bridge.finalInfo <= bridge.info /\ bridge.posMark <= bridge.pos
    BY DEF IInv, MarksFollow
  <1>4. bridge'.finalInfo <= bridge'.info /\ bridge'.posMark <= bridge'.pos
    BY <1>1, <1>2, <1>3, PedFacts
  <1>5. \A i \in 1 .. Len(spawns') : spawns'[i].session <= session'
    BY <1>1, PedFacts DEF IInv, OfThePast
  <1>6. SpawnsUsed' /\ SpawnsOnce'
    BY <1>1, PedFacts DEF IInv, SpawnsUsed, SpawnsOnce
  <1>7. ASSUME bridge.finalInfo # 0
        PROVE  /\ bridge.finalInfo = bridge.info => bridge.finalized
               /\ probe.spawnOk /\ probe.told = bridge.finalInfo
               /\ posAtSpawn <= bridge'.posMark
               /\ where' = IF bridge'.posMark = posAtSpawn THEN Place("spawn", bridge.finalInfo)
                           ELSE Place("set", bridge'.posMark)
    <2>1. /\ bridge.finalInfo = bridge.info => bridge.finalized
          /\ posAtSpawn <= bridge.posMark
          /\ where = IF bridge.posMark = posAtSpawn THEN Place("spawn", bridge.finalInfo)
                     ELSE Place("set", bridge.posMark)
          /\ probe.spawnOk /\ probe.told = bridge.finalInfo
      BY <1>7, PedFacts DEF IInv, SpawnStands
    <2>2. CASE Moves(bridge)
      <3>1. bridge'.posMark = bridge.pos /\ where' = Place("set", bridge.pos)
        BY <1>1, <2>2
      <3>2. bridge.pos # bridge.posMark
        BY <2>2 DEF Moves, New
      <3>3. posAtSpawn < bridge.pos
        BY <1>2, <1>3, <2>1, <3>2
      <3>4. posAtSpawn <= bridge'.posMark /\ bridge'.posMark # posAtSpawn
        BY <1>2, <3>1, <3>3
      <3> QED
        BY <2>1, <3>1, <3>4
    <2>3. CASE ~Moves(bridge)
      <3>1. bridge'.posMark = bridge.posMark /\ where' = where
        BY <1>1, <2>3
      <3> QED
        BY <2>1, <3>1
    <2> QED
      BY <2>2, <2>3
  <1>8. SpawnStands'
    BY <1>1, <1>7, PedFacts DEF SpawnStands
  <1>9. ASSUME bridge.spawnOk, bridge.info # 0
        PROVE  bridge.finalInfo = bridge.info /\ bridge.finalInfo # 0 /\ bridge.finalized
    BY <1>7, <1>9 DEF Finalizes, New
  <1>10. SpawnTakesEffect'
    BY <1>1, <1>7, <1>9, PedFacts DEF SpawnTakesEffect
  <1>11. ASSUME bridge.spawnOk, bridge.info # 0 PROVE bridge'.posMark = bridge.pos
    <2>1. CASE Moves(bridge)
      BY <1>1, <2>1
    <2>2. CASE ~Moves(bridge)
      <3>1. bridge'.posMark = bridge.posMark
        BY <1>1, <2>2
      <3>2. ~New(bridge.pos, bridge.posMark)
        BY <1>9, <1>11, <2>2 DEF Moves
      <3> QED
        BY <1>2, <1>3, <3>1, <3>2 DEF New
    <2> QED
      BY <2>1, <2>2
  <1>12. PosHonored'
    BY <1>1, <1>7, <1>9, <1>11, PedFacts DEF PosHonored
  <1> QED
    BY <1>4, <1>5, <1>6, <1>8, <1>10, <1>12 DEF PlaceKept

LEMMA WithPedKeeps ==
    ASSUME IInv, TypeOK', WithPed PROVE IInv'
  <1>1. /\ PlaceKept' /\ bridge'.finalInfo <= bridge'.info /\ bridge'.posMark <= bridge'.pos
    BY PedSpawns, PedStays
  <1>2. /\ bridge.info \in Nat /\ bridge.pos \in Nat /\ bridge.noMoney \in Nat /\ bridge.gun \in Nat
        /\ bridge.noGuns \in Nat /\ probe.pay \in Nat
    BY PedFacts, FieldTypes
  <1>3. MarksFollow'
    BY <1>1, <1>2, PedFacts DEF MarksFollow
  <1>4. CopiesFollow' /\ CopiesAgree'
    <2>1. probe.info <= probe.info /\ probe.pos <= probe.pos /\ probe.gun <= probe.gun
          /\ probe.noGuns <= probe.noGuns /\ probe.noMoney <= probe.noMoney /\ probe.pay <= probe.pay
      BY <1>2, PedFacts
    <2> QED
      BY <2>1, PedFacts DEF CopiesFollow, CopiesAgree
  <1>5. LinkEnds' /\ RestartsCounted'
    BY PedFacts DEF IInv, LinkEnds, RestartsCounted
  <1>6. OfThePast'
    BY <1>1, PedFacts, PedBelongings DEF PlaceKept, OfThePast
  <1> QED
    BY <1>1, <1>3, <1>4, <1>5, <1>6, PedBelongings DEF IInv, PlaceKept

-----------------------------------------------------------------------------
(* The invariant. *)

LEMMA InitInv == ASSUME Init PROVE IInv
  <1>1. probe = ResetProbe /\ bridge = FirstBridge /\ generation = 0 /\ session = 1
    BY DEF Init
  <1>2. /\ where = Nowhere /\ money = {} /\ guns = {} /\ srvMoney = {} /\ srvGuns = {}
        /\ link = TRUE /\ lost = FALSE /\ pc = "pump" /\ spawns = <<>> /\ posAtSpawn = 0
    BY DEF Init
  <1>3. /\ bridge.info = 0 /\ bridge.pos = 0 /\ bridge.noMoney = 0 /\ bridge.gun = 0
        /\ bridge.noGuns = 0 /\ bridge.finalInfo = 0 /\ bridge.posMark = 0 /\ bridge.payMark = 0
        /\ bridge.noMoneyMark = 0 /\ bridge.gunMark = 0 /\ bridge.noGunsMark = 0 /\ bridge.handled = 0
    BY <1>1 DEF FirstBridge
  <1>4. /\ probe.info = 0 /\ probe.pos = 0 /\ probe.pay = 0 /\ probe.noMoney = 0 /\ probe.gun = 0
        /\ probe.noGuns = 0 /\ probe.restart = 0
    BY <1>1 DEF ResetProbe
  <1>5. TypeOK
    <2>1. where \in [kind : {"nowhere", "spawn", "set"}, n : Numbers]
      BY <1>2, Bounds DEF Nowhere
    <2>2. generation \in 0 .. MaxSessions /\ session \in 1 .. MaxSessions
      <3>1. \A n \in Nat \ {0} : 0 \in 0 .. n /\ 1 \in 1 .. n
        OBVIOUS
      <3>2. MaxSessions \in Nat \ {0}
        BY PlayerBoundsAssumption
      <3> QED
        BY <1>1, <3>1, <3>2
    <2>3. probe \in Probe /\ bridge \in Bridge
      BY <1>1, FirstType
    <2>4. spawns \in Seq(Events) /\ posAtSpawn \in 0 .. MaxPos
      BY <1>2, Bounds
    <2>5. /\ money \subseteq Events /\ srvMoney \subseteq Events
          /\ guns \subseteq Numbers /\ srvGuns \subseteq Numbers
          /\ link \in BOOLEAN /\ lost \in BOOLEAN /\ pc \in {"pump", "apply", "done"}
      BY <1>2
    <2> QED
      BY <2>1, <2>2, <2>3, <2>4, <2>5 DEF TypeOK
  <1>6. MarksFollow /\ CopiesFollow /\ CopiesAgree /\ LinkEnds
    BY <1>2, <1>3, <1>4 DEF MarksFollow, CopiesFollow, CopiesAgree, LinkEnds
  <1>7. RestartsCounted
    BY <1>1, <1>3, <1>4 DEF RestartsCounted
  <1>8. OfThePast /\ SpawnsUsed /\ SpawnsOnce
    BY <1>2 DEF OfThePast, SpawnsUsed, SpawnsOnce
  <1>9. SpawnStands /\ GunsFollow /\ MoneyFollows
    BY <1>2, <1>3, <1>4 DEF SpawnStands, GunsFollow, MoneyFollows
  <1>10. SpawnTakesEffect /\ PosHonored /\ BelongingsHonored
    BY <1>2 DEF SpawnTakesEffect, PosHonored, BelongingsHonored, NeverDisarmed, MoneyNeverKept
  <1> QED
    BY <1>5, <1>6, <1>7, <1>8, <1>9, <1>10 DEF IInv

LEMMA NextInv == ASSUME IInv, [Next]_vars PROVE IInv'
  <1>1. CASE Next
    <2>1. TypeOK'
      BY <1>1, TypeStep DEF IInv, LinkEnds
    <2>2. CASE Rpc
      BY <2>1, <2>2, EventKeeps, NewSessionKeeps DEF Rpc, InSession
    <2>3. CASE Refresh
      BY <2>1, <2>3, RefreshKeeps
    <2>4. CASE Connect
      BY <2>1, <2>4, ConnectKeeps
    <2>5. CASE Apply
      BY <2>1, <2>5, IdleKeeps, ReturnKeeps, WithPedKeeps DEF Apply
    <2> QED
      BY <1>1, <2>2, <2>3, <2>4, <2>5 DEF Next
  <1>2. CASE UNCHANGED vars
    <2>1. /\ UNCHANGED <<probe, generation, bridge, where, money, guns, srvMoney, srvGuns, session>>
          /\ UNCHANGED <<link, lost, pc, spawns, posAtSpawn>>
      BY <1>2 DEF vars, game, server, history
    <2>2. TypeOK' /\ MarksFollow' /\ CopiesFollow' /\ CopiesAgree' /\ LinkEnds' /\ RestartsCounted'
      BY <2>1 DEF IInv, TypeOK, MarksFollow, CopiesFollow, CopiesAgree, LinkEnds, RestartsCounted,
                  Forgotten, Restarted
    <2>3. OfThePast' /\ SpawnStands' /\ SpawnsUsed' /\ GunsFollow'
      BY <2>1 DEF IInv, OfThePast, SpawnStands, SpawnsUsed, GunsFollow, Forgotten, Restarted
    <2>4. MoneyFollows'
      BY <2>1 DEF IInv, MoneyFollows, Forgotten, Restarted, Event
    <2>5. SpawnTakesEffect' /\ SpawnsOnce' /\ PosHonored' /\ BelongingsHonored'
      BY <2>1 DEF IInv, SpawnTakesEffect, SpawnsOnce, PosHonored, BelongingsHonored, NeverDisarmed,
                  MoneyNeverKept
    <2> QED
      BY <2>2, <2>3, <2>4, <2>5 DEF IInv
  <1> QED
    BY <1>1, <1>2

\* The invariant of the two halves: marks behind copies, copies behind the
\* adapter, nothing left of a session that is over, and what a spawn, the gifts
\* and the payments have left behind. It is what each step needs of the one before.
THEOREM BridgeInvariant == Spec => []IInv
  <1>1. Init => IInv
    BY InitInv
  <1>2. IInv /\ [Next]_vars => IInv'
    BY NextInv
  <1> QED
    BY <1>1, <1>2, PTL DEF Spec

\* The sequence numbers, copies and marks of the session bridge keep their types.
THEOREM TypeCorrect == Spec => []TypeOK
  <1>1. IInv => TypeOK
    BY DEF IInv
  <1> QED
    BY <1>1, BridgeInvariant, PTL

\* Whenever the session bridge has run through, a spawn the server allowed has
\* taken place with the newest spawn info and the server has been told of it,
\* through restarts, lost connections and returns to class selection.
THEOREM SpawnHappens == Spec => []SpawnTakesEffect
  <1>1. IInv => SpawnTakesEffect
    BY DEF IInv
  <1> QED
    BY <1>1, BridgeInvariant, PTL

\* No spawn info of any session puts the player at its place a second time.
THEOREM SpawnOnlyOnce == Spec => []SpawnsOnce
  <1>1. IInv => SpawnsOnce
    BY DEF IInv
  <1> QED
    BY <1>1, BridgeInvariant, PTL

\* In play the player stands where the server put him last after the spawn, or
\* where he spawned if nothing was set since.
THEOREM PositionHonored == Spec => []PosHonored
  <1>1. IInv => PosHonored
    BY DEF IInv
  <1> QED
    BY <1>1, BridgeInvariant, PTL

\* However resets and gifts mix in a frame, the player is not without a weapon
\* the server left him, and keeps no money of this session that it took away.
THEOREM GiftsHonored == Spec => []BelongingsHonored
  <1>1. IInv => BelongingsHonored
    BY DEF IInv
  <1> QED
    BY <1>1, BridgeInvariant, PTL
=============================================================================
