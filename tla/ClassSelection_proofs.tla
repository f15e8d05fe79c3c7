------------------------ MODULE ClassSelection_proofs ------------------------
(***************************************************************************)
(* Machine-checked proofs about ClassSelection, for any number of classes  *)
(* and any bounds.                                                         *)
(***************************************************************************)
EXTENDS ClassSelection, SequenceTheorems, TLAPS

USE NumClassesAssumption, BoundsAssumption

-----------------------------------------------------------------------------
(* The adapter's helpers keep the probe well formed. *)

\* clamp_class_id brings an index one step off either end back into range.
LEMMA ClampInRange ==
    ASSUME NEW p \in Probe, NEW c \in -1 .. NumClasses
    PROVE  ClampClassId(p, c) \in Classes
  BY DEF ClampClassId, Available, Classes, Probe

LEMMA ScheduleType ==
    ASSUME NEW p \in Probe, NEW c \in -1 .. NumClasses
    PROVE  ScheduleRequestClass(p, c) \in Probe
  <1> DEFINE k == ClampClassId(p, c)
  <1>1. k \in Classes
    BY ClampInRange
  <1> HIDE DEF k
  <1>2. [p EXCEPT !.selected = k, !.pendId = k, !.pendClass = TRUE] \in Probe
    BY <1>1 DEF Probe
  <1> QED
    BY <1>2 DEF ScheduleRequestClass, k

LEMMA ResetType == ResetProbe \in Probe
  BY DEF ResetProbe, Probe, Classes, NoClass

\* The record a forced selection leaves: every trace of the last class and the
\* last spawn is gone.  Its ten fields are changed in three goes for the provers.
ForcedProbe(p) ==
    [p EXCEPT !.wantsClass = FALSE, !.forced = TRUE, !.sawReply = FALSE,
              !.outcome = FALSE, !.waiting = FALSE, !.sawSpawn = FALSE,
              !.spawnOk = FALSE, !.pendSpawn = FALSE, !.spawnSent = FALSE,
              !.shiftDown = FALSE]

LEMMA ForcedType ==
    ASSUME NEW p \in Probe
    PROVE  /\ ForcedProbe(p) \in Probe
           /\ ForcedProbe(p).selected \in Classes
           /\ ForcedProbe(p).pendClass = p.pendClass /\ ForcedProbe(p).sentClass = p.sentClass
           /\ ForcedProbe(p).forced /\ ~ForcedProbe(p).outcome /\ ~ForcedProbe(p).sawReply
           /\ ~ForcedProbe(p).waiting /\ ~ForcedProbe(p).pendSpawn /\ ~ForcedProbe(p).spawnSent
           /\ ~SpawnReady(ForcedProbe(p))
  <1> DEFINE q == [p EXCEPT !.wantsClass = FALSE, !.forced = TRUE, !.sawReply = FALSE,
                            !.outcome = FALSE]
             r == [q EXCEPT !.waiting = FALSE, !.sawSpawn = FALSE, !.spawnOk = FALSE]
             t == [r EXCEPT !.pendSpawn = FALSE, !.spawnSent = FALSE, !.shiftDown = FALSE]
  <1>1. ForcedProbe(p) = t
    BY DEF ForcedProbe
  <1>2. q \in Probe
    BY DEF Probe
  <1>3. /\ q.forced /\ ~q.outcome /\ ~q.sawReply
        /\ q.pendClass = p.pendClass /\ q.sentClass = p.sentClass
    BY DEF Probe
  <1> HIDE DEF q
  <1>4. r \in Probe
    BY <1>2 DEF Probe
  <1>5. /\ r.forced = q.forced /\ r.outcome = q.outcome /\ r.sawReply = q.sawReply
        /\ r.pendClass = q.pendClass /\ r.sentClass = q.sentClass
        /\ ~r.waiting /\ ~r.sawSpawn
    BY <1>2 DEF Probe
  <1> HIDE DEF r
  <1>6. t \in Probe
    BY <1>4 DEF Probe
  <1>7. /\ t.forced = r.forced /\ t.outcome = r.outcome /\ t.sawReply = r.sawReply
        /\ t.pendClass = r.pendClass /\ t.sentClass = r.sentClass
        /\ t.waiting = r.waiting /\ t.sawSpawn = r.sawSpawn /\ ~t.pendSpawn /\ ~t.spawnSent
    BY <1>4 DEF Probe
  <1> HIDE DEF t
  <1>8. t.selected \in Classes
    BY <1>6 DEF Probe
  <1> QED
    BY <1>1, <1>3, <1>5, <1>6, <1>7, <1>8 DEF SpawnReady

LEMMA ClassBounds == \A c \in Classes : c - 1 \in -1 .. NumClasses /\ c \in -1 .. NumClasses /\ c + 1 \in -1 .. NumClasses
  BY DEF Classes

\* Each part of the service routine keeps the probe well formed.
LEMMA DialogPartType ==
    ASSUME NEW p \in Probe, link \in BOOLEAN PROVE DialogPart(p) \in Probe
  <1>1. [p EXCEPT !.pendDialog = FALSE, !.dialog = FALSE] \in Probe
    BY DEF Probe
  <1>2. [p EXCEPT !.pendDialog = FALSE, !.dialog = p.dialog] \in Probe
    BY DEF Probe
  <1>3. CASE link
    BY <1>1, <1>3 DEF DialogPart
  <1>4. CASE ~link
    BY <1>2, <1>4 DEF DialogPart
  <1> QED
    BY <1>3, <1>4

LEMMA ClassPartType ==
    ASSUME NEW p \in Probe PROVE ClassPart(p) \in Probe
  <1> DEFINE k == ClampClassId(p, p.pendId)
  <1>1. p.pendId \in Classes
    BY DEF Probe
  <1>2. k \in Classes
    BY <1>1, ClampInRange, ClassBounds
  <1> HIDE DEF k
  <1>3. [p EXCEPT !.sentClass = TRUE, !.pendClass = FALSE, !.waiting = TRUE, !.selected = k] \in Probe
    BY <1>2 DEF Probe
  <1> QED
    BY <1>3 DEF ClassPart, k

LEMMA KeyPartType ==
    ASSUME NEW p \in Probe, NEW shift \in BOOLEAN, NEW step \in {-1, 0, 1}
    PROVE  KeyPart(p, shift, step) \in Probe
  <1> DEFINE s == ScheduleRequestClass(p, p.selected + step)
             q == IF shift /\ ~p.shiftDown THEN [p EXCEPT !.pendSpawn = TRUE]
                  ELSE IF step # 0 THEN s ELSE p
  <1>1. p.selected \in Classes
    BY DEF Probe
  <1>2. p.selected + step \in -1 .. NumClasses
    BY <1>1 DEF Classes
  <1>3. s \in Probe
    BY <1>2, ScheduleType
  <1> HIDE DEF s
  <1>a. [p EXCEPT !.pendSpawn = TRUE] \in Probe
    BY DEF Probe
  <1>4. q \in Probe
    BY <1>3, <1>a
  <1> HIDE DEF q
  <1>5. [q EXCEPT !.shiftDown = shift] \in Probe
    BY <1>4 DEF Probe
  <1> QED
    BY <1>5 DEF KeyPart, q, s

LEMMA SpawnPartType ==
    ASSUME NEW p \in Probe, link \in BOOLEAN PROVE SpawnPart(p) \in Probe
  <1>1. [p EXCEPT !.pendSpawn = FALSE, !.spawnSent = link] \in Probe
    BY DEF Probe
  <1> QED
    BY <1>1 DEF SpawnPart

-----------------------------------------------------------------------------
(* Type correctness, one step per action. *)

LEMMA MessageTypes ==
    /\ \A k \in Kinds : Msg(k) \in Message
    /\ \A k \in Kinds, c \in Classes \cup {NoClass}, ok \in BOOLEAN : Reply(k, c, ok) \in Message
  BY DEF Msg, Reply, Message, Kinds

\* What a delivery leaves of the queue, and the RPC it handles.
LEMMA ReceiveType ==
    ASSUME TypeOK, NEW k \in Kinds, Receive(k)
    PROVE  /\ Head(s2c) \in Message /\ s2c' \in Seq(Message)
           /\ link' \in BOOLEAN /\ classReqs' \in [Classes -> Nat] /\ spawnReqs' \in Nat
           /\ srvClass' \in Classes \cup {NoClass} /\ srvInit' \in BOOLEAN
  <1>1. s2c # <<>> /\ s2c' = Tail(s2c) /\ s2c \in Seq(Message)
    BY DEF TypeOK, Receive
  <1>2. Head(s2c) \in Message /\ Tail(s2c) \in Seq(Message)
    BY <1>1, HeadTailProperties
  <1> QED
    BY <1>1, <1>2 DEF TypeOK, Receive, server

LEMMA SendType ==
    ASSUME TypeOK, NEW m \in Message, Send(m)
    PROVE  probe' \in Probe /\ link' \in BOOLEAN /\ orphaned' \in BOOLEAN /\ s2c' \in Seq(Message)
  BY DEF TypeOK, Send

LEMMA CallType ==
    ASSUME TypeOK, ClientCall
    PROVE  /\ link' \in BOOLEAN /\ classReqs' \in [Classes -> Nat] /\ spawnReqs' \in Nat
           /\ s2c' \in Seq(Message)
           /\ srvClass' \in Classes \cup {NoClass} /\ srvInit' \in BOOLEAN
  BY DEF TypeOK, ClientCall, server

LEMMA Nothing == <<>> \in Seq(Message) /\ [c \in Classes |-> 0] \in [Classes -> Nat]
  OBVIOUS

LEMMA InitType == Init => TypeOK
  <1> SUFFICES ASSUME Init PROVE TypeOK
    OBVIOUS
  <1>1. probe \in Probe
    BY ResetType DEF Init
  <1>2. classReqs \in [Classes -> Nat] /\ s2c \in Seq(Message)
    BY Nothing DEF Init
  <1>3. spawnReqs \in Nat /\ srvClass \in Classes \cup {NoClass}
    BY DEF Init
  <1>4. link \in BOOLEAN /\ srvInit \in BOOLEAN /\ orphaned \in BOOLEAN
    BY DEF Init
  <1> QED
    BY <1>1, <1>2, <1>3, <1>4 DEF TypeOK

LEMMA ServiceType ==
    ASSUME TypeOK, Service PROVE TypeOK'
  <1> USE DEF TypeOK
  <1>1. PICK shift \in BOOLEAN, step \in {-1, 0, 1} :
          /\ probe' = SpawnPart(KeyPart(ClassPart(DialogPart(probe)), shift, step))
          /\ spawnReqs' = spawnReqs + 1 \/ spawnReqs' = spawnReqs
    BY DEF Service
  <1>2. probe' \in Probe
    BY <1>1, DialogPartType, ClassPartType, KeyPartType, SpawnPartType
  <1>3. classReqs' \in [Classes -> Nat]
    BY DEF Service
  <1> QED
    BY <1>1, <1>2, <1>3 DEF Service, server

LEMMA DeliverType ==
    ASSUME TypeOK, Deliver PROVE TypeOK'
  <1> USE DEF TypeOK, Kinds
  <1>1. CASE OnInitGame
    <2> DEFINE p == [probe EXCEPT !.sawInit = TRUE]
    <2>1. p \in Probe
      BY DEF Probe
    <2>2. p.selected \in -1 .. NumClasses
      BY <2>1, ClassBounds DEF Probe
    <2>3. ScheduleRequestClass(p, p.selected) \in Probe
      BY <2>1, <2>2, ScheduleType
    <2>4. probe' \in Probe
      BY <1>1, <2>1, <2>3 DEF OnInitGame
    <2> QED
      BY <1>1, <2>4, ReceiveType DEF OnInitGame
  <1>2. CASE OnClassReply
    <2> DEFINE m == Head(s2c)
    <2>1. m \in Message
      BY <1>2, ReceiveType DEF OnClassReply
    <2>2. m.class \in Classes \cup {NoClass}
      BY <2>1 DEF Message
    <2> HIDE DEF m
    <2>3. [probe EXCEPT !.sawReply = TRUE, !.waiting = FALSE, !.outcome = TRUE,
                        !.info = m.class, !.wantsClass = FALSE, !.forced = FALSE] \in Probe
      BY <2>2 DEF Probe
    <2>4. [probe EXCEPT !.sawReply = TRUE, !.waiting = FALSE, !.outcome = FALSE] \in Probe
      BY DEF Probe
    <2>5. probe' \in Probe
      BY <1>2, <2>3, <2>4 DEF OnClassReply, m
    <2> QED
      BY <1>2, <2>5, ReceiveType DEF OnClassReply
  <1>3. CASE OnSpawnReply
    <2>1. Head(s2c).ok \in BOOLEAN
      BY <1>3, ReceiveType DEF OnSpawnReply, Message
    <2>2. [probe EXCEPT !.sawSpawn = TRUE, !.spawnOk = TRUE, !.pendSpawn = FALSE,
                        !.spawnSent = probe.spawnSent] \in Probe
      BY DEF Probe
    <2>3. [probe EXCEPT !.sawSpawn = TRUE, !.spawnOk = FALSE, !.pendSpawn = FALSE,
                        !.spawnSent = FALSE] \in Probe
      BY DEF Probe
    <2>4. CASE Head(s2c).ok = TRUE
      BY <1>3, <2>2, <2>4, ReceiveType DEF OnSpawnReply
    <2>5. CASE Head(s2c).ok = FALSE
      BY <1>3, <2>3, <2>5, ReceiveType DEF OnSpawnReply
    <2> QED
      BY <2>1, <2>4, <2>5
  <1>4. CASE OnDialog
    <2>1. [probe EXCEPT !.dialog = TRUE] \in Probe
      BY DEF Probe
    <2> QED
      BY <1>4, <2>1, ReceiveType DEF OnDialog
  <1>5. CASE OnRestart
    BY <1>5, ResetType, ReceiveType DEF OnRestart, Abandons
  <1> QED
    BY <1>1, <1>2, <1>3, <1>4, <1>5 DEF Deliver

LEMMA CallsType ==
    ASSUME TypeOK, Calls PROVE TypeOK'
  <1> USE DEF TypeOK
  <1>1. CASE MarkAfterDeath
    <2>1. [probe EXCEPT !.wantsClass = TRUE, !.forced = FALSE] \in Probe
      BY DEF Probe
    <2> QED
      BY <1>1, <2>1, CallType DEF MarkAfterDeath
  <1>2. CASE RequestClassAfterDeath
    <2> DEFINE p == ForcedProbe(probe)
    <2>1. p \in Probe /\ p.selected \in Classes
      BY ForcedType
    <2>2. probe' = ScheduleRequestClass(p, p.selected)
      BY <1>2 DEF RequestClassAfterDeath, ForcedProbe
    <2> HIDE DEF p
    <2>3. probe' \in Probe
      BY <2>1, <2>2, ScheduleType, ClassBounds
    <2> QED
      BY <1>2, <2>3, CallType DEF RequestClassAfterDeath, Abandons
  <1>3. CASE RequestClassDelta
    <2> DEFINE q == [probe EXCEPT !.waiting = FALSE, !.sawReply = FALSE, !.outcome = FALSE]
    <2>1. q \in Probe /\ probe.selected \in Classes
      BY DEF Probe
    <2> HIDE DEF q
    <2>2. \A step \in {-1, 1} : probe.selected + step \in -1 .. NumClasses
      BY <2>1 DEF Classes
    <2>3. \E step \in {-1, 1} : \/ probe' = ScheduleRequestClass(q, probe.selected + step)
                                \/ probe' = ScheduleRequestClass(probe, probe.selected + step)
      BY <1>3 DEF RequestClassDelta, q
    <2>4. probe' \in Probe
      BY <2>1, <2>2, <2>3, ScheduleType
    <2> QED
      BY <1>3, <2>4, CallType DEF RequestClassDelta
  <1>4. CASE RequestSpawn
    <2>1. [probe EXCEPT !.pendSpawn = TRUE] \in Probe
      BY DEF Probe
    <2> QED
      BY <1>4, <2>1, CallType DEF RequestSpawn
  <1>5. CASE AnswerDialog
    <2>1. [probe EXCEPT !.pendDialog = TRUE] \in Probe
      BY DEF Probe
    <2> QED
      BY <1>5, <2>1, CallType DEF AnswerDialog
  <1> QED
    BY <1>1, <1>2, <1>3, <1>4, <1>5 DEF Calls

LEMMA LinkType ==
    ASSUME TypeOK, Link PROVE TypeOK'
  <1> USE DEF TypeOK
  <1>1. CASE LoseLink
    BY <1>1, Nothing DEF LoseLink, server
  <1>2. CASE DisconnectPacket
    BY <1>2, ResetType DEF DisconnectPacket, server
  <1>3. CASE Connect
    BY <1>3, ResetType DEF Connect
  <1> QED
    BY <1>1, <1>2, <1>3 DEF Link

LEMMA ServerType ==
    ASSUME TypeOK, Server PROVE TypeOK'
  <1> USE DEF Kinds
  <1>1. CASE SrvInitGame
    BY <1>1, SendType, MessageTypes DEF SrvInitGame, TypeOK
  <1>2. CASE SrvRestart
    BY <1>2, SendType, MessageTypes DEF SrvRestart, TypeOK
  <1>3. CASE SrvDialog
    BY <1>3, SendType, MessageTypes DEF SrvDialog, TypeOK, server
  <1>4. CASE SrvAnswerClass
    <2>1. PICK c \in Classes, ok \in BOOLEAN :
            /\ classReqs[c] > 0
            /\ Send(Reply("ClassReply", c, ok))
            /\ classReqs' = [classReqs EXCEPT ![c] = @ - 1]
            /\ srvClass' = IF ok THEN c ELSE srvClass
            /\ UNCHANGED <<spawnReqs, srvInit>>
      BY <1>4 DEF SrvAnswerClass
    <2>2. Reply("ClassReply", c, ok) \in Message
      BY MessageTypes
    <2> QED
      BY <2>1, <2>2, SendType DEF TypeOK
  <1>5. CASE SrvAnswerSpawn
    <2>1. PICK ok \in BOOLEAN : /\ spawnReqs > 0
                                /\ Send(Reply("SpawnReply", srvClass, ok))
                                /\ spawnReqs' = spawnReqs - 1
                                /\ UNCHANGED <<classReqs, server>>
      BY <1>5 DEF SrvAnswerSpawn
    <2>2. Reply("SpawnReply", srvClass, ok) \in Message
      BY MessageTypes DEF TypeOK
    <2> QED
      BY <2>1, <2>2, SendType DEF TypeOK, server
  <1> QED
    BY <1>1, <1>2, <1>3, <1>4, <1>5 DEF Server

LEMMA NextType ==
    ASSUME TypeOK, [Next]_vars PROVE TypeOK'
  <1>1. CASE UNCHANGED vars
    BY <1>1 DEF TypeOK, vars
  <1> QED
    BY <1>1, ServiceType, DeliverType, CallsType, LinkType, ServerType DEF Next

\* Every state of the handshake is well formed: in particular no sequence of
\* keys, restarts and reconnections takes the selected class out of range.
THEOREM TypeCorrect == Spec => []TypeOK
  BY InitType, NextType, PTL DEF Spec

-----------------------------------------------------------------------------
(* No flag is left up: a request the client waits for is under way. *)

Answered == WaitingIsAnswered /\ SpawnSentIsAnswered

\* What the handlers and the service routine leave of the flags.
LEMMA ScheduleFields ==
    ASSUME NEW p \in Probe, NEW c \in -1 .. NumClasses
    PROVE  /\ ScheduleRequestClass(p, c).waiting = p.waiting
           /\ ScheduleRequestClass(p, c).spawnSent = p.spawnSent
           /\ SpawnReady(ScheduleRequestClass(p, c)) = SpawnReady(p)
  <1> DEFINE k == ClampClassId(p, c)
  <1> HIDE DEF k
  <1> DEFINE q == [p EXCEPT !.selected = k, !.pendId = k, !.pendClass = TRUE]
  <1>1. q.waiting = p.waiting /\ q.spawnSent = p.spawnSent /\ q.sawSpawn = p.sawSpawn /\ q.spawnOk = p.spawnOk
    BY DEF Probe
  <1>2. ScheduleRequestClass(p, c) = q
    BY DEF ScheduleRequestClass, k
  <1> HIDE DEF q
  <1> QED
    BY <1>1, <1>2 DEF SpawnReady

LEMMA DialogFields ==
    ASSUME NEW p \in Probe
    PROVE  /\ DialogPart(p).waiting = p.waiting
           /\ DialogPart(p).spawnSent = p.spawnSent
           /\ SpawnReady(DialogPart(p)) = SpawnReady(p)
  BY DEF DialogPart, SpawnReady, Probe

LEMMA ClassFields ==
    ASSUME NEW p \in Probe
    PROVE  /\ ClassPart(p).waiting => p.waiting \/ SendsClass(p)
           /\ ClassPart(p).spawnSent = p.spawnSent
           /\ SpawnReady(ClassPart(p)) = SpawnReady(p)
  <1> DEFINE k == ClampClassId(p, p.pendId)
  <1> HIDE DEF k
  <1> DEFINE q == [p EXCEPT !.sentClass = TRUE, !.pendClass = FALSE, !.waiting = TRUE, !.selected = k]
  <1>1. q.spawnSent = p.spawnSent /\ q.sawSpawn = p.sawSpawn /\ q.spawnOk = p.spawnOk
    BY DEF Probe
  <1>2. ClassPart(p) = IF SendsClass(p) THEN q ELSE p
    BY DEF ClassPart, k
  <1> HIDE DEF q
  <1> QED
    BY <1>1, <1>2 DEF SpawnReady

LEMMA KeyFields ==
    ASSUME NEW p \in Probe, NEW shift \in BOOLEAN, NEW step \in {-1, 0, 1}
    PROVE  /\ KeyPart(p, shift, step).waiting = p.waiting
           /\ KeyPart(p, shift, step).spawnSent = p.spawnSent
           /\ SpawnReady(KeyPart(p, shift, step)) = SpawnReady(p)
  <1> DEFINE s == ScheduleRequestClass(p, p.selected + step)
             t == [p EXCEPT !.pendSpawn = TRUE]
             q == IF shift /\ ~p.shiftDown THEN t ELSE IF step # 0 THEN s ELSE p
  <1>1. p.selected + step \in -1 .. NumClasses
    BY DEF Probe, Classes
  <1>2. s \in Probe /\ s.waiting = p.waiting /\ s.spawnSent = p.spawnSent /\ SpawnReady(s) = SpawnReady(p)
    BY <1>1, ScheduleType, ScheduleFields
  <1>3. t \in Probe /\ t.waiting = p.waiting /\ t.spawnSent = p.spawnSent /\ SpawnReady(t) = SpawnReady(p)
    BY DEF Probe, SpawnReady
  <1> HIDE DEF s, t
  <1>4. q \in Probe /\ q.waiting = p.waiting /\ q.spawnSent = p.spawnSent /\ SpawnReady(q) = SpawnReady(p)
    BY <1>2, <1>3
  <1> HIDE DEF q
  <1> DEFINE r == [q EXCEPT !.shiftDown = shift]
  <1>5. r.waiting = q.waiting /\ r.spawnSent = q.spawnSent /\ SpawnReady(r) = SpawnReady(q)
    BY <1>4 DEF Probe, SpawnReady
  <1>6. KeyPart(p, shift, step) = IF ~ManualReady(p) THEN p ELSE r
    BY DEF KeyPart, r, q, s, t
  <1> HIDE DEF r
  <1> QED
    BY <1>4, <1>5, <1>6

LEMMA SpawnFields ==
    ASSUME NEW p \in Probe
    PROVE  /\ SpawnPart(p).waiting = p.waiting
           /\ SpawnPart(p).spawnSent => p.spawnSent \/ (SendsSpawn(p) /\ link)
           /\ SpawnReady(SpawnPart(p)) = SpawnReady(p)
  <1> DEFINE q == [p EXCEPT !.pendSpawn = FALSE, !.spawnSent = link]
  <1>1. q.waiting = p.waiting /\ q.spawnSent = link /\ SpawnReady(q) = SpawnReady(p)
    BY DEF Probe, SpawnReady
  <1>2. SpawnPart(p) = IF SendsSpawn(p) THEN q ELSE p
    BY DEF SpawnPart
  <1> HIDE DEF q
  <1> QED
    BY <1>1, <1>2

\* The routine raises a flag only together with the request it stands for.
LEMMA ServiceAnswered ==
    ASSUME TypeOK, Answered, Service PROVE Answered'
  <1> DEFINE d == DialogPart(probe)
             c == ClassPart(d)
  <1>1. PICK shift \in BOOLEAN, step \in {-1, 0, 1} :
          LET k == KeyPart(c, shift, step)
          IN  /\ probe' = SpawnPart(k)
              /\ classReqs' = IF SendsClass(d) THEN [classReqs EXCEPT ![c.selected] = @ + 1] ELSE classReqs
              /\ spawnReqs' = IF SendsSpawn(k) /\ link THEN spawnReqs + 1 ELSE spawnReqs
    BY DEF Service
  <1> DEFINE k == KeyPart(c, shift, step)
  <1>2. probe \in Probe /\ link \in BOOLEAN
    BY DEF TypeOK
  <1>3. d \in Probe /\ d.waiting = probe.waiting /\ d.spawnSent = probe.spawnSent /\ SpawnReady(d) = SpawnReady(probe)
    BY <1>2, DialogPartType, DialogFields
  <1> HIDE DEF d
  <1>4. /\ c \in Probe /\ c.selected \in Classes /\ c.spawnSent = d.spawnSent
        /\ SpawnReady(c) = SpawnReady(d) /\ (c.waiting => d.waiting \/ SendsClass(d))
    BY <1>3, ClassPartType, ClassFields DEF Probe
  <1> HIDE DEF c
  <1>5. k \in Probe /\ k.waiting = c.waiting /\ k.spawnSent = c.spawnSent /\ SpawnReady(k) = SpawnReady(c)
    BY <1>4, KeyPartType, KeyFields
  <1>6. /\ probe' = SpawnPart(k)
        /\ classReqs' = IF SendsClass(d) THEN [classReqs EXCEPT ![c.selected] = @ + 1] ELSE classReqs
        /\ spawnReqs' = IF SendsSpawn(k) /\ link THEN spawnReqs + 1 ELSE spawnReqs
    BY <1>1
  <1> HIDE DEF k
  <1>7. /\ probe'.waiting = k.waiting /\ SpawnReady(probe') = SpawnReady(k)
        /\ probe'.spawnSent => k.spawnSent \/ (SendsSpawn(k) /\ link)
    BY <1>5, <1>6, SpawnFields
  <1>8. link' = link /\ s2c' = s2c
    BY DEF Service
  <1>9. classReqs \in [Classes -> Nat] /\ spawnReqs \in Nat
    BY DEF TypeOK
  <1>10. ASSUME link', probe'.waiting PROVE ClassUnderWay'
    <2>1. CASE SendsClass(d)
      <3>1. classReqs'[c.selected] > 0
        BY <1>4, <1>6, <1>9, <2>1
      <3> QED
        BY <1>4, <3>1 DEF ClassUnderWay
    <2>2. CASE ~SendsClass(d)
      <3>1. link /\ probe.waiting
        BY <1>3, <1>4, <1>5, <1>7, <1>8, <1>10, <2>2
      <3>2. ClassUnderWay
        BY <3>1 DEF Answered, WaitingIsAnswered
      <3> QED
        BY <1>6, <1>8, <2>2, <3>2 DEF ClassUnderWay, Coming
    <2> QED
      BY <2>1, <2>2
  <1>11. ASSUME link', probe'.spawnSent PROVE SpawnUnderWay' \/ SpawnReady(probe')
    <2>1. CASE SendsSpawn(k) /\ link
      BY <1>6, <1>9, <2>1 DEF SpawnUnderWay
    <2>2. CASE ~(SendsSpawn(k) /\ link)
      <3>1. link /\ probe.spawnSent
        BY <1>3, <1>4, <1>5, <1>7, <1>8, <1>11, <2>2
      <3>2. SpawnUnderWay \/ SpawnReady(probe)
        BY <3>1 DEF Answered, SpawnSentIsAnswered
      <3>3. SpawnReady(probe') = SpawnReady(probe)
        BY <1>3, <1>4, <1>5, <1>7
      <3> QED
        BY <1>6, <1>8, <2>2, <3>2, <3>3 DEF SpawnUnderWay, Coming
    <2> QED
      BY <2>1, <2>2
  <1> QED
    BY <1>10, <1>11 DEF Answered, WaitingIsAnswered, SpawnSentIsAnswered, SpawnReady

\* A delivery takes one reply off the queue, and only of its own kind.
LEMMA ReceiveKeeps ==
    ASSUME TypeOK, NEW k \in Kinds, Receive(k), NEW other \in Kinds \ {k}, Coming(other)
    PROVE  Coming(other)'
  <1>1. s2c \in Seq(Message) /\ s2c # <<>> /\ s2c' = Tail(s2c) /\ s2c[1].kind = k
    BY DEF TypeOK, Receive
  <1>2. PICK i \in 1 .. Len(s2c) : s2c[i].kind = other
    BY DEF Coming
  <1>3. i # 1 /\ Len(s2c) \in Nat
    BY <1>1, <1>2
  <1>4. i - 1 \in 1 .. Len(Tail(s2c)) /\ Tail(s2c)[i - 1] = s2c[i]
    BY <1>1, <1>3
  <1> QED
    BY <1>1, <1>2, <1>4 DEF Coming

LEMMA ReceiveUnderWay ==
    ASSUME TypeOK, NEW k \in Kinds, Receive(k)
    PROVE  /\ k # "ClassReply" /\ ClassUnderWay => ClassUnderWay'
           /\ k # "SpawnReply" /\ SpawnUnderWay => SpawnUnderWay'
           /\ link' = link
  <1>1. "ClassReply" \in Kinds /\ "SpawnReply" \in Kinds
    BY DEF Kinds
  <1>2. k # "ClassReply" /\ Coming("ClassReply") => Coming("ClassReply")'
    BY <1>1, ReceiveKeeps
  <1>3. k # "SpawnReply" /\ Coming("SpawnReply") => Coming("SpawnReply")'
    BY <1>1, ReceiveKeeps
  <1>4. classReqs' = classReqs /\ spawnReqs' = spawnReqs /\ link' = link
    BY DEF Receive
  <1> QED
    BY <1>2, <1>3, <1>4 DEF ClassUnderWay, SpawnUnderWay

\* Flags that come from old flags need the requests that stood for them.
LEMMA Kept ==
    ASSUME Answered, link' => link,
           link' /\ probe'.waiting => probe.waiting /\ (ClassUnderWay => ClassUnderWay'),
           link' /\ probe'.spawnSent =>
             \/ SpawnReady(probe')
             \/ /\ probe.spawnSent /\ (SpawnReady(probe) => SpawnReady(probe'))
                /\ (SpawnUnderWay => SpawnUnderWay')
    PROVE  Answered'
  BY DEF Answered, WaitingIsAnswered, SpawnSentIsAnswered, SpawnReady

LEMMA ResetFields == ~ResetProbe.waiting /\ ~ResetProbe.spawnSent
  BY DEF ResetProbe

LEMMA DeliverAnswered ==
    ASSUME TypeOK, Answered, Deliver PROVE Answered'
  <1> USE DEF Kinds
  <1>0. probe \in Probe
    BY DEF TypeOK
  <1>1. CASE OnInitGame
    <2> DEFINE p == [probe EXCEPT !.sawInit = TRUE]
    <2>1. p \in Probe /\ p.selected \in Classes
      BY <1>0 DEF Probe
    <2>2. p.waiting = probe.waiting /\ p.spawnSent = probe.spawnSent /\ SpawnReady(p) = SpawnReady(probe)
      BY <1>0 DEF Probe, SpawnReady
    <2>3. probe' = p \/ probe' = ScheduleRequestClass(p, p.selected)
      BY <1>1 DEF OnInitGame
    <2> HIDE DEF p
    <2>4. /\ probe'.waiting = probe.waiting /\ probe'.spawnSent = probe.spawnSent
          /\ SpawnReady(probe') = SpawnReady(probe)
      BY <2>1, <2>2, <2>3, ClassBounds, ScheduleFields
    <2> QED
      BY <1>1, <2>4, ReceiveUnderWay, Kept DEF OnInitGame
  <1>2. CASE OnClassReply
    <2>1. /\ ~probe'.waiting /\ probe'.spawnSent = probe.spawnSent
          /\ SpawnReady(probe') = SpawnReady(probe)
      BY <1>0, <1>2 DEF OnClassReply, Probe, SpawnReady
    <2> QED
      BY <1>2, <2>1, ReceiveUnderWay, Kept DEF OnClassReply
  <1>3. CASE OnSpawnReply
    <2>1. probe'.waiting = probe.waiting
      BY <1>0, <1>3 DEF OnSpawnReply, Probe
    <2>2. probe'.spawnSent => SpawnReady(probe')
      <3> DEFINE q(ok, sent) == [probe EXCEPT !.sawSpawn = TRUE, !.spawnOk = ok,
                                              !.pendSpawn = FALSE, !.spawnSent = sent]
      <3>1. Head(s2c).ok \in BOOLEAN
        BY <1>3, ReceiveType DEF OnSpawnReply, Message
      <3>2. q(TRUE, probe.spawnSent).sawSpawn /\ q(TRUE, probe.spawnSent).spawnOk
        BY <1>0 DEF Probe
      <3>3. ~q(FALSE, FALSE).spawnSent
        BY <1>0 DEF Probe
      <3>4. CASE Head(s2c).ok = TRUE
        BY <1>3, <3>2, <3>4 DEF OnSpawnReply, SpawnReady
      <3>5. CASE Head(s2c).ok = FALSE
        BY <1>3, <3>3, <3>5 DEF OnSpawnReply
      <3> QED
        BY <3>1, <3>4, <3>5
    <2> QED
      BY <1>3, <2>1, <2>2, ReceiveUnderWay, Kept DEF OnSpawnReply
  <1>4. CASE OnDialog
    <2>1. /\ probe'.waiting = probe.waiting /\ probe'.spawnSent = probe.spawnSent
          /\ SpawnReady(probe') = SpawnReady(probe)
      BY <1>0, <1>4 DEF OnDialog, Probe, SpawnReady
    <2> QED
      BY <1>4, <2>1, ReceiveUnderWay, Kept DEF OnDialog
  <1>5. CASE OnRestart
    BY <1>5, ResetFields, ReceiveUnderWay, Kept DEF OnRestart
  <1> QED
    BY <1>1, <1>2, <1>3, <1>4, <1>5 DEF Deliver

LEMMA CallsAnswered ==
    ASSUME TypeOK, Answered, Calls PROVE Answered'
  <1>0. probe \in Probe
    BY DEF TypeOK
  <1>1. ASSUME ClientCall
        PROVE  link' = link /\ ClassUnderWay' = ClassUnderWay /\ SpawnUnderWay' = SpawnUnderWay
    BY <1>1 DEF ClientCall, ClassUnderWay, SpawnUnderWay, Coming
  <1>2. CASE MarkAfterDeath
    <2>1. /\ probe'.waiting = probe.waiting /\ probe'.spawnSent = probe.spawnSent
          /\ SpawnReady(probe') = SpawnReady(probe)
      BY <1>0, <1>2 DEF MarkAfterDeath, Probe, SpawnReady
    <2> QED
      BY <1>1, <1>2, <2>1, Kept DEF MarkAfterDeath
  <1>3. CASE RequestClassAfterDeath
    <2> DEFINE p == ForcedProbe(probe)
    <2>1. p \in Probe /\ p.selected \in Classes /\ ~p.waiting /\ ~p.spawnSent
      BY <1>0, ForcedType
    <2>2. probe' = ScheduleRequestClass(p, p.selected)
      BY <1>3 DEF RequestClassAfterDeath, ForcedProbe
    <2> HIDE DEF p
    <2>3. ~probe'.waiting /\ ~probe'.spawnSent
      BY <2>1, <2>2, ClassBounds, ScheduleFields
    <2> QED
      BY <1>1, <1>3, <2>3, Kept DEF RequestClassAfterDeath
  <1>4. CASE RequestClassDelta
    <2> DEFINE q == [probe EXCEPT !.waiting = FALSE, !.sawReply = FALSE, !.outcome = FALSE]
    <2>1. /\ q \in Probe /\ ~q.waiting /\ q.spawnSent = probe.spawnSent
          /\ SpawnReady(q) = SpawnReady(probe)
      BY <1>0 DEF Probe, SpawnReady
    <2> HIDE DEF q
    <2>2. PICK step \in {-1, 1} : \/ probe' = ScheduleRequestClass(q, probe.selected + step)
                                  \/ probe' = ScheduleRequestClass(probe, probe.selected + step)
      BY <1>4 DEF RequestClassDelta, q
    <2>3. probe.selected + step \in -1 .. NumClasses
      BY <1>0 DEF Probe, Classes
    <2>4. /\ probe'.waiting => probe.waiting
          /\ probe'.spawnSent = probe.spawnSent /\ SpawnReady(probe') = SpawnReady(probe)
      BY <1>0, <2>1, <2>2, <2>3, ScheduleFields
    <2> QED
      BY <1>1, <1>4, <2>4, Kept DEF RequestClassDelta
  <1>5. CASE RequestSpawn
    <2>1. /\ probe'.waiting = probe.waiting /\ probe'.spawnSent = probe.spawnSent
          /\ SpawnReady(probe') = SpawnReady(probe)
      BY <1>0, <1>5 DEF RequestSpawn, Probe, SpawnReady
    <2> QED
      BY <1>1, <1>5, <2>1, Kept DEF RequestSpawn
  <1>6. CASE AnswerDialog
    <2>1. /\ probe'.waiting = probe.waiting /\ probe'.spawnSent = probe.spawnSent
          /\ SpawnReady(probe') = SpawnReady(probe)
      BY <1>0, <1>6 DEF AnswerDialog, Probe, SpawnReady
    <2> QED
      BY <1>1, <1>6, <2>1, Kept DEF AnswerDialog
  <1> QED
    BY <1>2, <1>3, <1>4, <1>5, <1>6 DEF Calls

LEMMA LinkAnswered ==
    ASSUME Answered, Link PROVE Answered'
  <1> USE DEF Answered, WaitingIsAnswered, SpawnSentIsAnswered
  <1>1. CASE LoseLink
    BY <1>1 DEF LoseLink
  <1>2. CASE DisconnectPacket
    BY <1>2 DEF DisconnectPacket
  <1>3. CASE Connect
    BY <1>3, ResetFields DEF Connect
  <1> QED
    BY <1>1, <1>2, <1>3 DEF Link

\* The server turns a request into a reply; a message added removes none.
LEMMA SendKeeps ==
    ASSUME TypeOK, NEW m \in Message, Send(m)
    PROVE  /\ \A k \in Kinds : Coming(k) => Coming(k)'
           /\ Coming(m.kind)'
  <1>1. s2c \in Seq(Message) /\ s2c' = Append(s2c, m) /\ Len(s2c) \in Nat
    BY DEF TypeOK, Send
  <1>2. Len(s2c') = Len(s2c) + 1 /\ s2c'[Len(s2c) + 1] = m
    BY <1>1
  <1>3. \A i \in 1 .. Len(s2c) : s2c'[i] = s2c[i]
    BY <1>1
  <1> QED
    BY <1>1, <1>2, <1>3 DEF Coming

LEMMA ServerAnswered ==
    ASSUME TypeOK, Answered, Server PROVE Answered'
  <1>0. "ClassReply" \in Kinds /\ "SpawnReply" \in Kinds
    BY DEF Kinds
  <1>1. ASSUME NEW m \in Message, Send(m),
               Coming("ClassReply")' \/ classReqs' = classReqs,
               Coming("SpawnReply")' \/ spawnReqs' = spawnReqs
        PROVE  Answered'
    <2>1. /\ Coming("ClassReply") => Coming("ClassReply")'
          /\ Coming("SpawnReply") => Coming("SpawnReply")'
      BY <1>0, <1>1, SendKeeps
    <2>2. (ClassUnderWay => ClassUnderWay') /\ (SpawnUnderWay => SpawnUnderWay')
      BY <1>1, <2>1 DEF ClassUnderWay, SpawnUnderWay
    <2>3. probe' = probe /\ link' = link
      BY <1>1 DEF Send
    <2> QED
      BY <2>2, <2>3, Kept
  <1>2. CASE SrvInitGame
    BY <1>1, <1>2, MessageTypes DEF SrvInitGame, Kinds
  <1>3. CASE SrvRestart
    BY <1>1, <1>3, MessageTypes DEF SrvRestart, Kinds
  <1>4. CASE SrvDialog
    BY <1>1, <1>4, MessageTypes DEF SrvDialog, Kinds
  <1>5. CASE SrvAnswerClass
    <2>1. PICK c \in Classes, ok \in BOOLEAN : Send(Reply("ClassReply", c, ok)) /\ spawnReqs' = spawnReqs
      BY <1>5 DEF SrvAnswerClass
    <2>2. Reply("ClassReply", c, ok) \in Message /\ Reply("ClassReply", c, ok).kind = "ClassReply"
      BY MessageTypes, <1>0 DEF Reply
    <2> QED
      BY <1>1, <2>1, <2>2, SendKeeps
  <1>6. CASE SrvAnswerSpawn
    <2>1. PICK ok \in BOOLEAN : Send(Reply("SpawnReply", srvClass, ok)) /\ classReqs' = classReqs
      BY <1>6 DEF SrvAnswerSpawn
    <2>2. Reply("SpawnReply", srvClass, ok) \in Message /\ Reply("SpawnReply", srvClass, ok).kind = "SpawnReply"
      BY MessageTypes, <1>0 DEF Reply, TypeOK
    <2> QED
      BY <1>1, <2>1, <2>2, SendKeeps
  <1> QED
    BY <1>2, <1>3, <1>4, <1>5, <1>6 DEF Server

LEMMA NextAnswered ==
    ASSUME TypeOK, Answered, [Next]_vars PROVE Answered'
  <1>1. CASE UNCHANGED vars
    BY <1>1 DEF vars, Answered, WaitingIsAnswered, SpawnSentIsAnswered, SpawnReady,
                ClassUnderWay, SpawnUnderWay, Coming
  <1> QED
    BY <1>1, ServiceAnswered, DeliverAnswered, CallsAnswered, LinkAnswered, ServerAnswered DEF Next

LEMMA AnsweredAlways == Spec => []Answered
  <1>1. Init => Answered
    BY ResetFields DEF Init, Answered, WaitingIsAnswered, SpawnSentIsAnswered
  <1> QED
    BY <1>1, NextAnswered, TypeCorrect, PTL DEF Spec

\* The flag that waits for a class reply stands only while a request or its
\* reply is under way.
THEOREM WaitingAnswered == Spec => []WaitingIsAnswered
  BY AnsweredAlways, PTL DEF Answered

\* The flag of a sent RequestSpawn stands only for a request or reply under way
\* or for a spawn the server has allowed.
THEOREM SpawnSentAnswered == Spec => []SpawnSentIsAnswered
  BY AnsweredAlways, PTL DEF Answered

-----------------------------------------------------------------------------
(* No spawn as another class than the one shown.  The property is not        *)
(* inductive: whether a RequestSpawn may race a class depends on flags that   *)
(* were set several steps before.  IInv ties the flags to what is under way.  *)

\* Equal as far as the exchange of class and spawn goes.
SameFlags(p, q) ==
    /\ q.sentClass = p.sentClass /\ q.pendClass = p.pendClass /\ q.waiting = p.waiting
    /\ q.sawReply = p.sawReply /\ q.outcome = p.outcome /\ SpawnReady(q) = SpawnReady(p)
    /\ q.pendSpawn = p.pendSpawn /\ q.spawnSent = p.spawnSent
    /\ q.forced = p.forced /\ q.info = p.info

LEMMA ScheduleView ==
    ASSUME NEW p \in Probe, NEW c \in -1 .. NumClasses
    PROVE  LET q == ScheduleRequestClass(p, c)
           IN  /\ q.pendClass
               /\ q.sentClass = p.sentClass /\ q.waiting = p.waiting /\ q.sawReply = p.sawReply
               /\ q.outcome = p.outcome /\ SpawnReady(q) = SpawnReady(p)
               /\ q.pendSpawn = p.pendSpawn /\ q.spawnSent = p.spawnSent
               /\ q.forced = p.forced /\ q.info = p.info
  <1> DEFINE k == ClampClassId(p, c)
  <1> HIDE DEF k
  <1> DEFINE q == [p EXCEPT !.selected = k, !.pendId = k, !.pendClass = TRUE]
  <1>1. /\ q.pendClass /\ q.sentClass = p.sentClass /\ q.waiting = p.waiting
        /\ q.sawReply = p.sawReply /\ q.outcome = p.outcome
    BY DEF Probe
  <1>2. /\ q.pendSpawn = p.pendSpawn /\ q.spawnSent = p.spawnSent
        /\ q.forced = p.forced /\ q.info = p.info
        /\ q.sawSpawn = p.sawSpawn /\ q.spawnOk = p.spawnOk
    BY DEF Probe
  <1>3. ScheduleRequestClass(p, c) = q
    BY DEF ScheduleRequestClass, k
  <1> HIDE DEF q
  <1> QED
    BY <1>1, <1>2, <1>3 DEF SpawnReady

LEMMA DialogView ==
    ASSUME NEW p \in Probe PROVE SameFlags(p, DialogPart(p))
  <1> DEFINE q(v) == [p EXCEPT !.pendDialog = FALSE, !.dialog = v]
  <1>1. ASSUME NEW v PROVE SameFlags(p, q(v))
    BY DEF SameFlags, SpawnReady, Probe
  <1>2. SameFlags(p, p)
    BY DEF SameFlags
  <1>3. DialogPart(p) \in {p, q(FALSE), q(p.dialog)}
    BY DEF DialogPart, Probe
  <1> HIDE DEF q
  <1> QED
    BY <1>1, <1>2, <1>3

LEMMA ClassView ==
    ASSUME NEW p \in Probe
    PROVE  LET q == ClassPart(p)
           IN  /\ ~SendsClass(p) => q = p
               /\ SendsClass(p) => q.sentClass /\ ~q.pendClass /\ q.waiting
               /\ q.sawReply = p.sawReply /\ q.outcome = p.outcome /\ SpawnReady(q) = SpawnReady(p)
               /\ q.pendSpawn = p.pendSpawn /\ q.spawnSent = p.spawnSent
               /\ q.forced = p.forced /\ q.info = p.info
  <1> DEFINE k == ClampClassId(p, p.pendId)
  <1> HIDE DEF k
  <1> DEFINE q == [p EXCEPT !.sentClass = TRUE, !.pendClass = FALSE, !.waiting = TRUE, !.selected = k]
  <1>1. /\ q.sentClass /\ ~q.pendClass /\ q.waiting
        /\ q.sawReply = p.sawReply /\ q.outcome = p.outcome
        /\ q.sawSpawn = p.sawSpawn /\ q.spawnOk = p.spawnOk
    BY DEF Probe
  <1>2. /\ q.pendSpawn = p.pendSpawn /\ q.spawnSent = p.spawnSent
        /\ q.forced = p.forced /\ q.info = p.info
    BY DEF Probe
  <1>3. ClassPart(p) = IF SendsClass(p) THEN q ELSE p
    BY DEF ClassPart, k
  <1> HIDE DEF q
  <1> QED
    BY <1>1, <1>2, <1>3 DEF SpawnReady

\* A key counts only in class selection, and asks for a spawn or a class.
LEMMA KeyView ==
    ASSUME NEW p \in Probe, NEW shift \in BOOLEAN, NEW step \in {-1, 0, 1}
    PROVE  LET q == KeyPart(p, shift, step)
           IN  /\ \/ q.pendClass = p.pendClass /\ q.pendSpawn = p.pendSpawn
                  \/ ManualReady(p) /\ q.pendClass /\ q.pendSpawn = p.pendSpawn
                  \/ ManualReady(p) /\ q.pendClass = p.pendClass /\ q.pendSpawn
               /\ q.sentClass = p.sentClass /\ q.waiting = p.waiting /\ q.sawReply = p.sawReply
               /\ q.outcome = p.outcome /\ SpawnReady(q) = SpawnReady(p)
               /\ q.spawnSent = p.spawnSent /\ q.forced = p.forced /\ q.info = p.info
  <1> DEFINE s == ScheduleRequestClass(p, p.selected + step)
             t == [p EXCEPT !.pendSpawn = TRUE]
             q == IF shift /\ ~p.shiftDown THEN t ELSE IF step # 0 THEN s ELSE p
             r == [q EXCEPT !.shiftDown = shift]
  <1>1. p.selected + step \in -1 .. NumClasses
    BY DEF Probe, Classes
  <1>2. s \in Probe
    BY <1>1, ScheduleType
  <1>3. /\ s.pendClass
        /\ s.sentClass = p.sentClass /\ s.waiting = p.waiting /\ s.sawReply = p.sawReply
        /\ s.outcome = p.outcome /\ SpawnReady(s) = SpawnReady(p)
        /\ s.pendSpawn = p.pendSpawn /\ s.spawnSent = p.spawnSent
        /\ s.forced = p.forced /\ s.info = p.info
    BY <1>1, ScheduleView
  <1>4. t \in Probe /\ t.pendSpawn
    BY DEF Probe
  <1>5. /\ t.pendClass = p.pendClass
        /\ t.sentClass = p.sentClass /\ t.waiting = p.waiting /\ t.sawReply = p.sawReply
        /\ t.outcome = p.outcome /\ SpawnReady(t) = SpawnReady(p)
        /\ t.spawnSent = p.spawnSent /\ t.forced = p.forced /\ t.info = p.info
    BY DEF Probe, SpawnReady
  <1> HIDE DEF s, t
  <1>6. q \in {p, s, t} /\ q \in Probe
    BY <1>2, <1>4
  <1> HIDE DEF q
  <1>7. SameFlags(q, r)
    BY <1>6 DEF Probe, SpawnReady, SameFlags
  <1>8. KeyPart(p, shift, step) = IF ~ManualReady(p) THEN p ELSE r
    BY DEF KeyPart, r, q, s, t
  <1> HIDE DEF r
  <1>9. CASE ManualReady(p)
    <2>1. CASE q = p
      BY <1>7, <1>8, <1>9, <2>1 DEF SameFlags
    <2>2. CASE q = s
      BY <1>3, <1>7, <1>8, <1>9, <2>2 DEF SameFlags
    <2>3. CASE q = t
      BY <1>4, <1>5, <1>7, <1>8, <1>9, <2>3 DEF SameFlags
    <2> QED
      BY <1>6, <2>1, <2>2, <2>3
  <1> QED
    BY <1>8, <1>9

LEMMA SpawnView ==
    ASSUME NEW p \in Probe
    PROVE  LET q == SpawnPart(p)
           IN  /\ ~SendsSpawn(p) => q = p
               /\ SendsSpawn(p) => ~q.pendSpawn /\ q.spawnSent = link
               /\ q.sentClass = p.sentClass /\ q.pendClass = p.pendClass /\ q.waiting = p.waiting
               /\ q.sawReply = p.sawReply /\ q.outcome = p.outcome /\ SpawnReady(q) = SpawnReady(p)
               /\ q.forced = p.forced /\ q.info = p.info
  <1> DEFINE q == [p EXCEPT !.pendSpawn = FALSE, !.spawnSent = link]
  <1>1. /\ ~q.pendSpawn /\ q.spawnSent = link
        /\ q.sentClass = p.sentClass /\ q.pendClass = p.pendClass /\ q.waiting = p.waiting
        /\ q.sawReply = p.sawReply
    BY DEF Probe
  <1>2. /\ q.outcome = p.outcome /\ q.sawSpawn = p.sawSpawn /\ q.spawnOk = p.spawnOk
        /\ q.forced = p.forced /\ q.info = p.info
    BY DEF Probe
  <1>3. SpawnPart(p) = IF SendsSpawn(p) THEN q ELSE p
    BY DEF SpawnPart
  <1> HIDE DEF q
  <1> QED
    BY <1>1, <1>2, <1>3 DEF SpawnReady

\* An accepted reply under way is about the class the server holds.
AcceptedAgree ==
    \A i \in 1 .. Len(s2c) :
      s2c[i].kind \in {"ClassReply", "SpawnReply"} /\ s2c[i].ok => s2c[i].class = srvClass

\* A delivery takes the first message: at most one of a kind leaves none of it.
LEMMA ReceiveQueue ==
    ASSUME TypeOK, NEW k \in Kinds, Receive(k)
    PROVE  /\ s2c[1].kind = k /\ Head(s2c) = s2c[1] /\ 1 \in 1 .. Len(s2c)
           /\ Len(s2c') = Len(s2c) - 1 /\ Len(s2c) \in Nat
           /\ \A i \in 1 .. Len(s2c') : i + 1 \in 1 .. Len(s2c) /\ s2c'[i] = s2c[i + 1]
  <1>1. s2c \in Seq(Message) /\ s2c # <<>> /\ s2c' = Tail(s2c) /\ Head(s2c).kind = k
    BY DEF TypeOK, Receive
  <1> QED
    BY <1>1

LEMMA ReceiveComing ==
    ASSUME TypeOK, NEW k \in Kinds, Receive(k)
    PROVE  /\ Coming(k)
           /\ \A kk \in Kinds : Coming(kk)' => Coming(kk)
           /\ \A kk \in Kinds : AtMostOne(kk) => AtMostOne(kk)'
           /\ AtMostOne(k) => ~Coming(k)'
  <1>1. Coming(k)
    BY ReceiveQueue DEF Coming
  <1>2. ASSUME NEW kk \in Kinds, Coming(kk)' PROVE Coming(kk)
    BY <1>2, ReceiveQueue DEF Coming
  <1>3. ASSUME NEW kk \in Kinds, AtMostOne(kk) PROVE AtMostOne(kk)'
    <2> SUFFICES ASSUME NEW i \in 1 .. Len(s2c'), NEW j \in 1 .. Len(s2c'),
                        s2c'[i].kind = kk, s2c'[j].kind = kk
                 PROVE  i = j
      BY DEF AtMostOne
    <2>1. i + 1 = j + 1
      BY <1>3, ReceiveQueue DEF AtMostOne
    <2> QED
      BY <2>1
  <1>4. ASSUME AtMostOne(k), Coming(k)' PROVE FALSE
    <2>1. PICK i \in 1 .. Len(s2c') : s2c'[i].kind = k
      BY <1>4 DEF Coming
    <2>2. i + 1 = 1
      BY <1>4, <2>1, ReceiveQueue DEF AtMostOne
    <2> QED
      BY <2>1, <2>2, ReceiveQueue
  <1> QED
    BY <1>1, <1>2, <1>3, <1>4

LEMMA ReceiveExchange ==
    ASSUME TypeOK, NEW k \in Kinds, Receive(k), OneClass, OneSpawn, AcceptedAgree
    PROVE  /\ OneClass' /\ OneSpawn' /\ AcceptedAgree'
           /\ (ClassUnderWay' => ClassUnderWay) /\ (SpawnUnderWay' => SpawnUnderWay)
           /\ k = "ClassReply" => ClassUnderWay /\ ~ClassUnderWay'
           /\ k = "SpawnReply" => SpawnUnderWay /\ ~SpawnUnderWay'
  <1>0. "ClassReply" \in Kinds /\ "SpawnReply" \in Kinds
    BY DEF Kinds
  <1>1. classReqs' = classReqs /\ spawnReqs' = spawnReqs /\ srvClass' = srvClass
    BY DEF Receive, server
  <1>2. classReqs \in [Classes -> Nat] /\ spawnReqs \in Nat
    BY DEF TypeOK
  <1>3. OneClass' /\ (ClassUnderWay' => ClassUnderWay)
    BY <1>0, <1>1, ReceiveComing DEF OneClass, ClassUnderWay
  <1>4. OneSpawn' /\ (SpawnUnderWay' => SpawnUnderWay)
    BY <1>0, <1>1, ReceiveComing DEF OneSpawn, SpawnUnderWay
  <1>5. AcceptedAgree'
    BY <1>1, ReceiveQueue DEF AcceptedAgree
  <1>6. ASSUME k = "ClassReply" PROVE ClassUnderWay /\ ~ClassUnderWay'
    BY <1>0, <1>1, <1>2, <1>6, ReceiveComing DEF OneClass, ClassUnderWay
  <1>7. ASSUME k = "SpawnReply" PROVE SpawnUnderWay /\ ~SpawnUnderWay'
    BY <1>0, <1>1, <1>2, <1>7, ReceiveComing DEF OneSpawn, SpawnUnderWay
  <1> QED
    BY <1>3, <1>4, <1>5, <1>6, <1>7

\* What a message the server adds does to the queue.
LEMMA SendComing ==
    ASSUME TypeOK, NEW m \in Message, Send(m), NEW k \in Kinds
    PROVE  /\ Coming(k)' <=> Coming(k) \/ m.kind = k
           /\ AtMostOne(k) /\ (m.kind = k => ~Coming(k)) => AtMostOne(k)'
  <1>1. s2c \in Seq(Message) /\ s2c' = Append(s2c, m)
    BY DEF TypeOK, Send
  <1>2. Len(s2c) \in Nat /\ Len(s2c') = Len(s2c) + 1 /\ s2c'[Len(s2c) + 1] = m
    BY <1>1
  <1>3. \A i \in 1 .. Len(s2c) : s2c'[i] = s2c[i]
    BY <1>1
  <1>4. Coming(k)' <=> Coming(k) \/ m.kind = k
    <2>1. ASSUME Coming(k)' PROVE Coming(k) \/ m.kind = k
      BY <1>2, <1>3, <2>1 DEF Coming
    <2>2. ASSUME Coming(k) \/ m.kind = k PROVE Coming(k)'
      BY <1>2, <1>3, <2>2 DEF Coming
    <2> QED
      BY <2>1, <2>2
  <1>5. ASSUME AtMostOne(k), m.kind = k => ~Coming(k) PROVE AtMostOne(k)'
    <2> SUFFICES ASSUME NEW i \in 1 .. Len(s2c'), NEW j \in 1 .. Len(s2c'),
                        s2c'[i].kind = k, s2c'[j].kind = k
                 PROVE  i = j
      BY DEF AtMostOne
    <2>1. CASE m.kind # k
      BY <1>2, <1>3, <1>5, <2>1 DEF AtMostOne
    <2>2. CASE ~Coming(k)
      BY <1>2, <1>3, <2>2 DEF Coming
    <2> QED
      BY <1>5, <2>1, <2>2
  <1> QED
    BY <1>4, <1>5

LEMMA SendAccepted ==
    ASSUME TypeOK, NEW m \in Message, Send(m),
           m.kind \in {"ClassReply", "SpawnReply"} /\ m.ok => m.class = srvClass',
           \/ AcceptedAgree /\ srvClass' = srvClass
           \/ ~Coming("ClassReply") /\ ~Coming("SpawnReply")
    PROVE  AcceptedAgree'
  <1>1. s2c \in Seq(Message) /\ s2c' = Append(s2c, m)
    BY DEF TypeOK, Send
  <1>2. Len(s2c) \in Nat /\ Len(s2c') = Len(s2c) + 1 /\ s2c'[Len(s2c) + 1] = m
    BY <1>1
  <1>3. \A i \in 1 .. Len(s2c) : s2c'[i] = s2c[i]
    BY <1>1
  <1> QED
    BY <1>2, <1>3 DEF AcceptedAgree, Coming

\* The conjuncts a step has to restore.
LEMMA Restored ==
    ASSUME TypeOK', probe'.forced => ~probe'.outcome,
           (~link => s2c = <<>> /\ spawnReqs = 0 /\ \A c \in Classes : classReqs[c] = 0)',
           ~orphaned' => Flags(probe'),
           ~orphaned' /\ link' =>
             /\ OneClass' /\ OneSpawn' /\ AcceptedAgree'
             /\ ClassUnderWay' => probe'.waiting
             /\ SpawnUnderWay' => probe'.spawnSent /\ ~SpawnReady(probe')
             /\ ~ClassUnderWay' /\ probe'.sawReply /\ probe'.outcome => probe'.info = srvClass'
    PROVE  IInv'
  BY DEF IInv, Exchange, Flags, AcceptedAgree, SpawnReady

\* What every step may use of the invariant.
LEMMA Held ==
    ASSUME IInv
    PROVE  /\ TypeOK /\ probe \in Probe /\ (probe.forced => ~probe.outcome)
           /\ ~link => s2c = <<>> /\ spawnReqs = 0 /\ \A c \in Classes : classReqs[c] = 0
           /\ ~orphaned => Flags(probe)
           /\ ~orphaned /\ link =>
                /\ OneClass /\ OneSpawn /\ AcceptedAgree
                /\ ClassUnderWay => probe.waiting
                /\ SpawnUnderWay => probe.spawnSent /\ ~SpawnReady(probe)
                /\ ~ClassUnderWay /\ probe.sawReply /\ probe.outcome => probe.info = srvClass
  BY DEF IInv, Exchange, AcceptedAgree, TypeOK

\* The service routine: each part keeps the flags in order, and a request goes
\* out only when none of its kind is under way.
LEMMA ServiceSpawn ==
    ASSUME IInv, Service PROVE IInv'
  <1> DEFINE d == DialogPart(probe)
             c == ClassPart(d)
  <1>1. PICK shift \in BOOLEAN, step \in {-1, 0, 1} :
          LET k == KeyPart(c, shift, step)
          IN  /\ probe' = SpawnPart(k)
              /\ classReqs' = IF SendsClass(d) THEN [classReqs EXCEPT ![c.selected] = @ + 1] ELSE classReqs
              /\ spawnReqs' = IF SendsSpawn(k) /\ link THEN spawnReqs + 1 ELSE spawnReqs
    BY DEF Service
  <1> DEFINE k == KeyPart(c, shift, step)
  <1>2. TypeOK /\ probe \in Probe /\ link \in BOOLEAN /\ classReqs \in [Classes -> Nat] /\ spawnReqs \in Nat
    BY Held DEF TypeOK
  <1>3. d \in Probe /\ SameFlags(probe, d)
    BY <1>2, DialogPartType, DialogView
  <1> HIDE DEF d
  <1>4. c \in Probe /\ c.selected \in Classes
    BY <1>3, ClassPartType DEF Probe
  <1>5. /\ ~SendsClass(d) => c = d
        /\ SendsClass(d) => c.sentClass /\ ~c.pendClass /\ c.waiting
        /\ c.sawReply = d.sawReply /\ c.outcome = d.outcome /\ SpawnReady(c) = SpawnReady(d)
        /\ c.pendSpawn = d.pendSpawn /\ c.spawnSent = d.spawnSent
        /\ c.forced = d.forced /\ c.info = d.info
    BY <1>3, ClassView
  <1> HIDE DEF c
  <1>6. k \in Probe
    BY <1>4, KeyPartType
  <1>7. /\ \/ k.pendClass = c.pendClass /\ k.pendSpawn = c.pendSpawn
           \/ ManualReady(c) /\ k.pendClass /\ k.pendSpawn = c.pendSpawn
           \/ ManualReady(c) /\ k.pendClass = c.pendClass /\ k.pendSpawn
        /\ k.sentClass = c.sentClass /\ k.waiting = c.waiting /\ k.sawReply = c.sawReply
        /\ k.outcome = c.outcome /\ SpawnReady(k) = SpawnReady(c)
        /\ k.spawnSent = c.spawnSent /\ k.forced = c.forced /\ k.info = c.info
    BY <1>4, KeyView
  <1>8. /\ probe' = SpawnPart(k)
        /\ classReqs' = IF SendsClass(d) THEN [classReqs EXCEPT ![c.selected] = @ + 1] ELSE classReqs
        /\ spawnReqs' = IF SendsSpawn(k) /\ link THEN spawnReqs + 1 ELSE spawnReqs
    BY <1>1
  <1> HIDE DEF k
  <1>9. /\ ~SendsSpawn(k) => probe' = k
        /\ SendsSpawn(k) => ~probe'.pendSpawn /\ probe'.spawnSent = link
        /\ probe'.sentClass = k.sentClass /\ probe'.pendClass = k.pendClass
        /\ probe'.waiting = k.waiting /\ probe'.sawReply = k.sawReply
        /\ probe'.outcome = k.outcome /\ SpawnReady(probe') = SpawnReady(k)
        /\ probe'.forced = k.forced /\ probe'.info = k.info
    BY <1>6, <1>8, SpawnView
  <1>10. link' = link /\ s2c' = s2c /\ srvClass' = srvClass /\ orphaned' = orphaned
    BY DEF Service, server
  <1>11. TypeOK'
    BY <1>2, ServiceType
  <1>12. probe'.forced => ~probe'.outcome
    BY <1>3, <1>5, <1>7, <1>9, Held DEF SameFlags
  <1>13. (~link => s2c = <<>> /\ spawnReqs = 0 /\ \A e \in Classes : classReqs[e] = 0)'
    BY <1>8, <1>10, Held DEF SendsClass
  <1>14. ASSUME ~orphaned PROVE Flags(d) /\ Flags(c) /\ Flags(k) /\ Flags(probe')
    <2>1. Flags(d)
      BY <1>3, <1>14, Held DEF Flags, SameFlags
    <2>2. Flags(c)
      BY <1>5, <2>1 DEF Flags, SendsClass
    <2>3. Flags(k)
      BY <1>7, <2>2 DEF Flags, ManualReady
    <2>4. Flags(probe')
      BY <1>9, <2>3 DEF Flags, SendsSpawn
    <2> QED
      BY <2>1, <2>2, <2>3, <2>4
  <1>15. ASSUME ~orphaned, link
         PROVE  /\ OneClass' /\ (ClassUnderWay' => probe'.waiting)
                /\ ~ClassUnderWay' /\ probe'.sawReply /\ probe'.outcome => probe'.info = srvClass
    <2>1. /\ OneClass /\ (ClassUnderWay => probe.waiting)
          /\ ~ClassUnderWay /\ probe.sawReply /\ probe.outcome => probe.info = srvClass
      BY <1>15, Held
    <2>2. CASE SendsClass(d)
      <3>1. ~ClassUnderWay
        BY <1>3, <2>1, <2>2 DEF SendsClass, SameFlags
      <3>2. \A e \in Classes : classReqs[e] = 0
        BY <1>2, <3>1 DEF ClassUnderWay
      <3>3. classReqs'[c.selected] = 1 /\ \A e \in Classes : e # c.selected => classReqs'[e] = 0
        BY <1>2, <1>4, <1>8, <2>2, <3>2
      <3>4. OneClass' /\ ClassUnderWay'
        BY <1>4, <1>10, <2>1, <3>1, <3>3 DEF OneClass, ClassUnderWay, AtMostOne, Coming
      <3> QED
        BY <1>5, <1>7, <1>9, <2>2, <3>4
    <2>3. CASE ~SendsClass(d)
      <3>1. OneClass' /\ ClassUnderWay' = ClassUnderWay
        BY <1>8, <1>10, <2>1, <2>3 DEF OneClass, ClassUnderWay, AtMostOne, Coming
      <3> QED
        BY <1>3, <1>5, <1>7, <1>9, <2>1, <2>3, <3>1 DEF SameFlags
    <2> QED
      BY <2>2, <2>3
  <1>16. ASSUME ~orphaned, link
         PROVE  /\ OneSpawn' /\ (SpawnUnderWay' => probe'.spawnSent /\ ~SpawnReady(probe'))
    <2>1. OneSpawn /\ (SpawnUnderWay => probe.spawnSent /\ ~SpawnReady(probe))
      BY <1>16, Held
    <2>2. k.spawnSent = probe.spawnSent /\ SpawnReady(k) = SpawnReady(probe)
      BY <1>3, <1>5, <1>7 DEF SameFlags
    <2>3. CASE SendsSpawn(k)
      <3>1. ~k.spawnSent /\ ~SpawnReady(k)
        BY <1>14, <1>16, <2>3 DEF Flags, SendsSpawn
      <3>2. ~SpawnUnderWay
        BY <2>1, <2>2, <3>1
      <3>3. spawnReqs = 0 /\ spawnReqs' = 1
        BY <1>2, <1>8, <1>16, <2>3, <3>2 DEF SpawnUnderWay
      <3>4. OneSpawn'
        BY <1>10, <2>1, <3>2, <3>3 DEF OneSpawn, SpawnUnderWay, AtMostOne, Coming
      <3> QED
        BY <1>9, <1>16, <2>3, <3>1, <3>4
    <2>4. CASE ~SendsSpawn(k)
      <3>1. OneSpawn' /\ SpawnUnderWay' = SpawnUnderWay
        BY <1>8, <1>10, <2>1, <2>4 DEF OneSpawn, SpawnUnderWay, AtMostOne, Coming
      <3> QED
        BY <1>9, <2>1, <2>2, <2>4, <3>1
    <2> QED
      BY <2>3, <2>4
  <1>17. ~orphaned /\ link => AcceptedAgree'
    BY <1>10, Held DEF AcceptedAgree
  <1> QED
    BY <1>10, <1>11, <1>12, <1>13, <1>14, <1>15, <1>16, <1>17, Restored

\* Steps that change neither the queue nor the requests under way.
LEMMA Unmoved ==
    ASSUME IInv, TypeOK', UNCHANGED <<link, classReqs, spawnReqs, s2c, srvClass>>,
           probe'.forced => ~probe'.outcome, ~orphaned' => Flags(probe'), ~orphaned' => ~orphaned,
           ~orphaned' /\ link =>
             /\ ClassUnderWay => probe'.waiting
             /\ SpawnUnderWay => probe'.spawnSent /\ ~SpawnReady(probe')
             /\ ~ClassUnderWay /\ probe'.sawReply /\ probe'.outcome => probe'.info = srvClass
    PROVE  IInv'
  <1>1. /\ ClassUnderWay' = ClassUnderWay /\ SpawnUnderWay' = SpawnUnderWay
        /\ OneClass' = OneClass /\ OneSpawn' = OneSpawn /\ AcceptedAgree' = AcceptedAgree
    BY DEF ClassUnderWay, SpawnUnderWay, OneClass, OneSpawn, AcceptedAgree, AtMostOne, Coming
  <1> QED
    BY <1>1, Held, Restored

\* A delivery that is no reply to the exchange.
LEMMA DeliverOther ==
    ASSUME IInv, TypeOK', NEW k \in Kinds \ {"ClassReply", "SpawnReply"}, Receive(k),
           probe'.forced => ~probe'.outcome, ~orphaned' => Flags(probe'), ~orphaned' => ~orphaned,
           ~orphaned' /\ link =>
             /\ ClassUnderWay => probe'.waiting
             /\ SpawnUnderWay => probe'.spawnSent /\ ~SpawnReady(probe')
             /\ ~ClassUnderWay /\ probe'.sawReply /\ probe'.outcome => probe'.info = srvClass
    PROVE  IInv'
  <1>1. link /\ link' = link /\ srvClass' = srvClass
    BY DEF Receive, server
  <1>2. k \in Kinds /\ k # "ClassReply" /\ k # "SpawnReply"
    OBVIOUS
  <1>3. ASSUME ~orphaned
        PROVE  /\ OneClass' /\ OneSpawn' /\ AcceptedAgree'
               /\ ClassUnderWay' = ClassUnderWay /\ SpawnUnderWay' = SpawnUnderWay
    <2>1. TypeOK /\ OneClass /\ OneSpawn /\ AcceptedAgree
      BY <1>1, <1>3, Held
    <2>2. /\ OneClass' /\ OneSpawn' /\ AcceptedAgree'
          /\ (ClassUnderWay' => ClassUnderWay) /\ (SpawnUnderWay' => SpawnUnderWay)
      BY <1>2, <2>1, ReceiveExchange
    <2>3. (ClassUnderWay => ClassUnderWay') /\ (SpawnUnderWay => SpawnUnderWay')
      BY <1>2, <2>1, ReceiveUnderWay
    <2>4. ClassUnderWay \in BOOLEAN /\ SpawnUnderWay \in BOOLEAN
      BY DEF ClassUnderWay, SpawnUnderWay
    <2> QED
      BY <2>2, <2>3 DEF ClassUnderWay, SpawnUnderWay
  <1> QED
    BY <1>1, <1>3, Restored

LEMMA DeliverSpawn ==
    ASSUME IInv, Deliver PROVE IInv'
  <1> USE DEF Kinds
  <1>0. TypeOK /\ probe \in Probe /\ (probe.forced => ~probe.outcome) /\ TypeOK'
    BY Held, DeliverType
  <1>1. CASE OnInitGame
    <2> DEFINE p == [probe EXCEPT !.sawInit = TRUE]
    <2>1. p \in Probe /\ p.selected \in -1 .. NumClasses
      BY <1>0, ClassBounds DEF Probe
    <2>2. SameFlags(probe, p)
      BY <1>0 DEF Probe, SameFlags, SpawnReady
    <2>3. \/ probe' = p
          \/ ~p.sentClass /\ probe' = ScheduleRequestClass(p, p.selected)
      BY <1>1 DEF OnInitGame
    <2> HIDE DEF p
    <2>4. /\ probe'.sentClass = probe.sentClass /\ probe'.waiting = probe.waiting
          /\ probe'.sawReply = probe.sawReply /\ probe'.outcome = probe.outcome
          /\ SpawnReady(probe') = SpawnReady(probe) /\ probe'.pendSpawn = probe.pendSpawn
          /\ probe'.spawnSent = probe.spawnSent /\ probe'.forced = probe.forced
          /\ probe'.info = probe.info
          /\ probe'.pendClass = probe.pendClass \/ ~probe.sentClass
      BY <2>1, <2>2, <2>3, ScheduleView DEF SameFlags
    <2>5. orphaned' = orphaned /\ Receive("InitGame")
      BY <1>1 DEF OnInitGame
    <2>6. ~orphaned' => Flags(probe')
      BY <2>4, <2>5, Held DEF Flags
    <2> QED
      BY <1>0, <2>4, <2>5, <2>6, Held, DeliverOther
  <1>2. CASE OnClassReply
    <2> DEFINE m == Head(s2c)
               ya == [probe EXCEPT !.sawReply = TRUE, !.waiting = FALSE, !.outcome = TRUE,
                                   !.info = m.class, !.wantsClass = FALSE, !.forced = FALSE]
               no == [probe EXCEPT !.sawReply = TRUE, !.waiting = FALSE, !.outcome = FALSE]
    <2>1. /\ Receive("ClassReply") /\ orphaned' = orphaned
          /\ probe' = IF m.ok THEN ya ELSE no
      BY <1>2 DEF OnClassReply
    <2>2. m = s2c[1] /\ 1 \in 1 .. Len(s2c) /\ m.kind = "ClassReply"
      BY <1>0, <2>1, ReceiveQueue
    <2> HIDE DEF m
    <2>3. /\ ya.sawReply /\ ~ya.waiting /\ ya.outcome /\ ya.info = m.class /\ ~ya.forced
          /\ ya.sentClass = probe.sentClass /\ ya.pendClass = probe.pendClass
      BY <1>0 DEF Probe
    <2>4. /\ ya.pendSpawn = probe.pendSpawn /\ ya.spawnSent = probe.spawnSent
          /\ SpawnReady(ya) = SpawnReady(probe)
      BY <1>0 DEF Probe, SpawnReady
    <2>5. /\ no.sawReply /\ ~no.waiting /\ ~no.outcome
          /\ no.sentClass = probe.sentClass /\ no.pendClass = probe.pendClass
          /\ no.pendSpawn = probe.pendSpawn /\ no.spawnSent = probe.spawnSent
          /\ SpawnReady(no) = SpawnReady(probe)
      BY <1>0 DEF Probe, SpawnReady
    <2> HIDE DEF ya, no
    <2>6. probe'.forced => ~probe'.outcome
      BY <2>1, <2>3, <2>5
    <2>7. link /\ link' = link /\ srvClass' = srvClass
      BY <2>1 DEF Receive, server
    <2>8. ASSUME ~orphaned
          PROVE  /\ OneClass' /\ OneSpawn' /\ AcceptedAgree' /\ ~ClassUnderWay' /\ ~SpawnUnderWay'
                 /\ probe.waiting /\ Flags(probe) /\ (m.ok => m.class = srvClass)
      <3>1. /\ OneClass /\ OneSpawn /\ AcceptedAgree /\ Flags(probe)
            /\ (ClassUnderWay => probe.waiting) /\ (SpawnUnderWay => probe.spawnSent)
        BY <2>7, <2>8, Held
      <3>2. /\ OneClass' /\ OneSpawn' /\ AcceptedAgree' /\ ClassUnderWay /\ ~ClassUnderWay'
            /\ (SpawnUnderWay' => SpawnUnderWay)
        BY <1>0, <2>1, <3>1, ReceiveExchange
      <3>3. ~SpawnUnderWay
        BY <3>1, <3>2 DEF Flags
      <3>4. m.ok => m.class = srvClass
        BY <2>2, <3>1 DEF AcceptedAgree
      <3> QED
        BY <3>1, <3>2, <3>3, <3>4
    <2>9. ~orphaned' => Flags(probe')
      BY <2>1, <2>3, <2>4, <2>5, <2>8 DEF Flags
    <2>10. ~orphaned' /\ link' =>
             /\ OneClass' /\ OneSpawn' /\ AcceptedAgree' /\ ~ClassUnderWay' /\ ~SpawnUnderWay'
             /\ probe'.sawReply /\ probe'.outcome => probe'.info = srvClass'
      BY <2>1, <2>3, <2>5, <2>7, <2>8
    <2> QED
      BY <1>0, <2>6, <2>7, <2>9, <2>10, Restored
  <1>3. CASE OnSpawnReply
    <2> DEFINE ya == [probe EXCEPT !.sawSpawn = TRUE, !.spawnOk = TRUE, !.pendSpawn = FALSE,
                                   !.spawnSent = probe.spawnSent]
               no == [probe EXCEPT !.sawSpawn = TRUE, !.spawnOk = FALSE, !.pendSpawn = FALSE,
                                   !.spawnSent = FALSE]
    <2>1. Receive("SpawnReply") /\ orphaned' = orphaned
      BY <1>3 DEF OnSpawnReply
    <2>2. Head(s2c).ok \in BOOLEAN
      BY <1>0, <2>1, ReceiveType DEF Message
    <2>3. probe' = ya \/ probe' = no
      BY <1>3, <2>2 DEF OnSpawnReply
    <2>4. /\ ya.sentClass = probe.sentClass /\ ya.pendClass = probe.pendClass
          /\ ya.waiting = probe.waiting /\ ya.sawReply = probe.sawReply
          /\ ya.outcome = probe.outcome /\ ya.info = probe.info /\ ya.forced = probe.forced
          /\ ~ya.pendSpawn /\ ya.spawnSent = probe.spawnSent
      BY <1>0 DEF Probe
    <2>5. /\ no.sentClass = probe.sentClass /\ no.pendClass = probe.pendClass
          /\ no.waiting = probe.waiting /\ no.sawReply = probe.sawReply
          /\ no.outcome = probe.outcome /\ no.info = probe.info /\ no.forced = probe.forced
          /\ ~no.pendSpawn /\ ~no.spawnSent /\ ~no.spawnOk
      BY <1>0 DEF Probe
    <2> HIDE DEF ya, no
    <2>6. /\ probe'.sentClass = probe.sentClass /\ probe'.pendClass = probe.pendClass
          /\ probe'.waiting = probe.waiting /\ probe'.sawReply = probe.sawReply
          /\ probe'.outcome = probe.outcome /\ probe'.info = probe.info
          /\ probe'.forced = probe.forced
      BY <2>3, <2>4, <2>5
    <2>7. /\ ~probe'.pendSpawn /\ (probe'.spawnSent => probe.spawnSent)
          /\ SpawnReady(probe') => probe'.spawnSent = probe.spawnSent
      BY <2>3, <2>4, <2>5 DEF SpawnReady
    <2>8. link /\ link' = link /\ srvClass' = srvClass
      BY <2>1 DEF Receive, server
    <2>9. ASSUME ~orphaned
          PROVE  /\ OneClass' /\ OneSpawn' /\ AcceptedAgree' /\ ~SpawnUnderWay'
                 /\ ~ClassUnderWay /\ ~ClassUnderWay' /\ probe.spawnSent /\ Flags(probe)
                 /\ probe.sawReply /\ probe.outcome => probe.info = srvClass
      <3>1. /\ OneClass /\ OneSpawn /\ AcceptedAgree /\ Flags(probe)
            /\ (ClassUnderWay => probe.waiting) /\ (SpawnUnderWay => probe.spawnSent)
            /\ ~ClassUnderWay /\ probe.sawReply /\ probe.outcome => probe.info = srvClass
        BY <2>8, <2>9, Held
      <3>2. /\ OneClass' /\ OneSpawn' /\ AcceptedAgree' /\ SpawnUnderWay /\ ~SpawnUnderWay'
            /\ (ClassUnderWay' => ClassUnderWay)
        BY <1>0, <2>1, <3>1, ReceiveExchange
      <3>3. probe.spawnSent /\ ~ClassUnderWay
        BY <3>1, <3>2 DEF Flags
      <3> QED
        BY <3>1, <3>2, <3>3
    <2>10. ~orphaned' => Flags(probe')
      BY <2>1, <2>6, <2>7, <2>9 DEF Flags
    <2>11. ~orphaned' /\ link' =>
             /\ OneClass' /\ OneSpawn' /\ AcceptedAgree' /\ ~ClassUnderWay' /\ ~SpawnUnderWay'
             /\ probe'.sawReply /\ probe'.outcome => probe'.info = srvClass'
      BY <2>1, <2>6, <2>8, <2>9
    <2> QED
      BY <1>0, <2>6, <2>8, <2>10, <2>11, Restored
  <1>4. CASE OnDialog
    <2>1. SameFlags(probe, [probe EXCEPT !.dialog = TRUE])
      BY <1>0 DEF Probe, SameFlags, SpawnReady
    <2>2. SameFlags(probe, probe') /\ orphaned' = orphaned /\ Receive("Dialog")
      BY <1>4, <2>1 DEF OnDialog
    <2>3. ~orphaned' => Flags(probe')
      BY <2>2, Held DEF Flags, SameFlags
    <2> QED
      BY <1>0, <2>2, <2>3, Held, DeliverOther DEF SameFlags
  <1>5. CASE OnRestart
    <2>1. /\ ~probe'.forced /\ ~probe'.sawReply /\ Flags(probe') /\ ~probe'.waiting
          /\ ~probe'.spawnSent /\ Receive("Restart") /\ orphaned' = (orphaned \/ Abandons(probe))
      BY <1>5 DEF OnRestart, ResetProbe, Flags, SpawnReady
    <2>2. ~orphaned' => ~orphaned /\ ~probe.waiting /\ (probe.spawnSent => SpawnReady(probe))
      BY <2>1 DEF Abandons
    <2>3. ~orphaned' /\ link => ~ClassUnderWay /\ ~SpawnUnderWay
      BY <2>2, Held
    <2> QED
      BY <1>0, <2>1, <2>2, <2>3, DeliverOther
  <1> QED
    BY <1>1, <1>2, <1>3, <1>4, <1>5 DEF Deliver

LEMMA CallsSpawn ==
    ASSUME IInv, Calls PROVE IInv'
  <1>0. TypeOK /\ probe \in Probe /\ (probe.forced => ~probe.outcome) /\ TypeOK'
    BY Held, CallsType
  <1>1. ClientCall => UNCHANGED <<link, classReqs, spawnReqs, s2c, srvClass>>
    BY DEF ClientCall, server
  <1>2. ASSUME ClientCall, orphaned' = orphaned, SameFlags([probe EXCEPT !.forced = probe'.forced], probe'),
               ~probe'.forced \/ probe'.forced = probe.forced
        PROVE  IInv'
    <2> DEFINE p == [probe EXCEPT !.forced = probe'.forced]
    <2>1. /\ p.sentClass = probe.sentClass /\ p.pendClass = probe.pendClass
          /\ p.waiting = probe.waiting /\ p.sawReply = probe.sawReply
          /\ p.outcome = probe.outcome /\ SpawnReady(p) = SpawnReady(probe)
          /\ p.pendSpawn = probe.pendSpawn /\ p.spawnSent = probe.spawnSent
          /\ p.info = probe.info
      BY <1>0 DEF Probe, SpawnReady
    <2>2. SameFlags(p, probe')
      BY <1>2
    <2> HIDE DEF p
    <2>3. ~orphaned' => Flags(probe')
      BY <1>2, <2>1, <2>2, Held DEF Flags, SameFlags
    <2> QED
      BY <1>0, <1>1, <1>2, <2>1, <2>2, <2>3, Held, Unmoved DEF SameFlags
  <1>3. CASE MarkAfterDeath
    <2> DEFINE p == [probe EXCEPT !.wantsClass = TRUE, !.forced = FALSE]
    <2>1. probe' = p /\ ClientCall /\ orphaned' = orphaned
      BY <1>3 DEF MarkAfterDeath
    <2>2. ~p.forced /\ SameFlags([probe EXCEPT !.forced = FALSE], p)
      BY <1>0 DEF Probe, SameFlags, SpawnReady
    <2> HIDE DEF p
    <2>3. probe'.forced = FALSE
      BY <1>0, <2>1, <2>2 DEF TypeOK, Probe
    <2> QED
      BY <1>2, <2>1, <2>2, <2>3
  <1>4. CASE RequestClassAfterDeath
    <2> DEFINE p == ForcedProbe(probe)
    <2>1. probe' = ScheduleRequestClass(p, p.selected) /\ SpawnReady(probe)
          /\ ClientCall /\ orphaned' = (orphaned \/ Abandons(probe))
      BY <1>4 DEF RequestClassAfterDeath, ForcedProbe
    <2>2. /\ p \in Probe /\ p.selected \in -1 .. NumClasses
          /\ p.sentClass = probe.sentClass /\ p.forced /\ ~p.outcome /\ ~p.sawReply
          /\ ~p.waiting /\ ~p.pendSpawn /\ ~p.spawnSent /\ ~SpawnReady(p)
      BY <1>0, ForcedType, ClassBounds
    <2> HIDE DEF p
    <2>3. /\ ~probe'.outcome /\ ~probe'.sawReply /\ ~probe'.waiting /\ ~probe'.pendSpawn
          /\ ~probe'.spawnSent /\ ~SpawnReady(probe')
      BY <2>1, <2>2, ScheduleView
    <2>4. Flags(probe')
      BY <2>3 DEF Flags
    <2>5. ~orphaned' => ~orphaned /\ ~probe.waiting
      BY <2>1 DEF Abandons
    <2>6. ~orphaned' /\ link => ~ClassUnderWay /\ ~SpawnUnderWay
      BY <2>1, <2>5, Held
    <2> QED
      BY <1>0, <1>1, <2>1, <2>3, <2>4, <2>5, <2>6, Unmoved
  <1>5. CASE RequestClassDelta
    <2> DEFINE q == [probe EXCEPT !.waiting = FALSE, !.sawReply = FALSE, !.outcome = FALSE]
    <2>1. ClientCall /\ orphaned' = (orphaned \/ (probe.forced /\ probe.waiting))
      BY <1>5 DEF RequestClassDelta
    <2>2. PICK step \in {-1, 1} :
            \/ probe.forced /\ probe' = ScheduleRequestClass(q, probe.selected + step)
            \/ ManualReady(probe) /\ ~probe.forced /\ probe' = ScheduleRequestClass(probe, probe.selected + step)
      BY <1>5 DEF RequestClassDelta
    <2>3. /\ q \in Probe /\ ~q.waiting /\ ~q.sawReply /\ ~q.outcome
          /\ q.sentClass = probe.sentClass /\ SpawnReady(q) = SpawnReady(probe)
          /\ q.pendSpawn = probe.pendSpawn /\ q.spawnSent = probe.spawnSent
      BY <1>0 DEF Probe, SpawnReady
    <2> HIDE DEF q
    <2>4. probe.selected + step \in -1 .. NumClasses
      BY <1>0 DEF Probe, Classes
    <2>5. CASE probe.forced
      <3>1. /\ ~probe'.waiting /\ ~probe'.sawReply /\ ~probe'.outcome
            /\ SpawnReady(probe') = SpawnReady(probe)
            /\ probe'.pendSpawn = probe.pendSpawn /\ probe'.spawnSent = probe.spawnSent
        BY <2>2, <2>3, <2>4, <2>5, ScheduleView
      <3>2. ~orphaned' => /\ ~orphaned /\ ~probe.waiting /\ ~probe.pendSpawn
                          /\ ~probe.spawnSent /\ ~SpawnReady(probe)
        BY <1>0, <2>1, <2>5, Held DEF Flags
      <3>3. ~orphaned' => Flags(probe')
        BY <3>1, <3>2 DEF Flags
      <3>4. ~orphaned' /\ link => ~ClassUnderWay /\ ~SpawnUnderWay
        BY <3>2, Held
      <3> QED
        BY <1>0, <1>1, <2>1, <3>1, <3>2, <3>3, <3>4, Unmoved
    <2>6. CASE ~probe.forced
      <3>1. /\ probe'.pendClass /\ probe'.sentClass = probe.sentClass
            /\ probe'.waiting = probe.waiting /\ probe'.sawReply = probe.sawReply
            /\ probe'.outcome = probe.outcome /\ SpawnReady(probe') = SpawnReady(probe)
            /\ probe'.pendSpawn = probe.pendSpawn /\ probe'.spawnSent = probe.spawnSent
            /\ probe'.forced = probe.forced /\ probe'.info = probe.info
        BY <1>0, <2>2, <2>4, <2>6, ScheduleView
      <3>2. ~probe.pendSpawn /\ ~probe.spawnSent
        BY <2>2, <2>6 DEF ManualReady
      <3>3. ~orphaned' => Flags(probe')
        BY <2>1, <2>6, <3>1, <3>2, Held DEF Flags
      <3> QED
        BY <1>0, <1>1, <2>1, <2>6, <3>1, <3>3, Held, Unmoved
    <2> QED
      BY <2>5, <2>6
  <1>6. CASE RequestSpawn
    <2> DEFINE p == [probe EXCEPT !.pendSpawn = TRUE]
    <2>1. /\ probe' = p /\ ClientCall /\ orphaned' = orphaned /\ (ManualReady(probe) \/ probe.forced)
          /\ ~probe.pendClass /\ ~probe.waiting /\ probe.sawReply /\ probe.outcome
      BY <1>6 DEF RequestSpawn
    <2>2. /\ p.sentClass = probe.sentClass /\ p.pendClass = probe.pendClass
          /\ p.waiting = probe.waiting /\ p.sawReply = probe.sawReply
          /\ p.outcome = probe.outcome /\ SpawnReady(p) = SpawnReady(probe)
          /\ p.spawnSent = probe.spawnSent /\ p.forced = probe.forced /\ p.info = probe.info
      BY <1>0 DEF Probe, SpawnReady
    <2> HIDE DEF p
    <2>3. ~probe.spawnSent
      BY <1>0, <2>1 DEF ManualReady
    <2>4. ~orphaned' => Flags(probe')
      BY <2>1, <2>2, <2>3, Held DEF Flags
    <2> QED
      BY <1>0, <1>1, <2>1, <2>2, <2>4, Held, Unmoved
  <1>7. CASE AnswerDialog
    <2> DEFINE p == [probe EXCEPT !.pendDialog = TRUE]
    <2>1. probe' = p /\ ClientCall /\ orphaned' = orphaned
      BY <1>7 DEF AnswerDialog
    <2>2. SameFlags(probe, p)
      BY <1>0 DEF Probe, SameFlags, SpawnReady
    <2> HIDE DEF p
    <2>3. ~orphaned' => Flags(probe')
      BY <2>1, <2>2, Held DEF Flags, SameFlags
    <2> QED
      BY <1>0, <1>1, <2>1, <2>2, <2>3, Held, Unmoved DEF SameFlags
  <1> QED
    BY <1>3, <1>4, <1>5, <1>6, <1>7 DEF Calls

LEMMA LinkSpawn ==
    ASSUME IInv, Link PROVE IInv'
  <1>0. TypeOK /\ TypeOK' /\ link' \in BOOLEAN
    BY Held, LinkType DEF TypeOK
  <1>1. /\ Flags(ResetProbe) /\ ~ResetProbe.forced /\ ~ResetProbe.sawReply
    BY DEF ResetProbe, Flags, SpawnReady
  <1>2. CASE LoseLink
    BY <1>0, <1>2, Held, Restored DEF LoseLink
  <1>3. CASE DisconnectPacket
    BY <1>0, <1>1, <1>3, Held, Restored DEF DisconnectPacket
  <1>4. CASE Connect
    <2>1. /\ s2c = <<>> /\ spawnReqs = 0 /\ (\A c \in Classes : classReqs[c] = 0)
          /\ s2c' = <<>> /\ spawnReqs' = 0 /\ (\A c \in Classes : classReqs'[c] = 0)
          /\ probe' = ResetProbe
      BY <1>4, Held DEF Connect
    <2>2. Len(s2c') = 0
      BY <2>1
    <2>3. ~ClassUnderWay' /\ ~SpawnUnderWay' /\ OneClass' /\ OneSpawn' /\ AcceptedAgree'
      BY <2>1, <2>2 DEF ClassUnderWay, SpawnUnderWay, OneClass, OneSpawn, AcceptedAgree, AtMostOne, Coming
    <2> QED
      BY <1>0, <1>1, <2>1, <2>3, Restored
  <1> QED
    BY <1>2, <1>3, <1>4 DEF Link

\* The server turns a request into a reply about the class it now holds; its
\* other RPCs leave the exchange as it is.
LEMMA ServerSpawn ==
    ASSUME IInv, Server PROVE IInv'
  <1> USE DEF Kinds
  <1>0. TypeOK /\ TypeOK' /\ (probe.forced => ~probe.outcome)
    BY Held, ServerType
  <1>1. "ClassReply" \in Kinds /\ "SpawnReply" \in Kinds
    OBVIOUS
  <1>2. classReqs \in [Classes -> Nat] /\ spawnReqs \in Nat /\ srvClass \in Classes \cup {NoClass}
    BY <1>0 DEF TypeOK
  <1>3. ASSUME NEW m \in Message, Send(m)
        PROVE  probe' = probe /\ link /\ link' = link /\ orphaned' = orphaned
    BY <1>3 DEF Send
  <1>4. ASSUME NEW k \in Kinds \ {"ClassReply", "SpawnReply"}, Send(Msg(k)),
               UNCHANGED <<classReqs, spawnReqs, srvClass>>
        PROVE  IInv'
    <2> DEFINE m == Msg(k)
    <2>1. m \in Message /\ m.kind = k
      BY MessageTypes DEF Msg
    <2>2. Send(m)
      BY <1>4
    <2> HIDE DEF m
    <2>3. /\ Coming("ClassReply")' <=> Coming("ClassReply")
          /\ Coming("SpawnReply")' <=> Coming("SpawnReply")
          /\ AtMostOne("ClassReply") => AtMostOne("ClassReply")'
          /\ AtMostOne("SpawnReply") => AtMostOne("SpawnReply")'
      BY <1>0, <1>1, <2>1, <2>2, SendComing
    <2>4. ClassUnderWay' = ClassUnderWay /\ SpawnUnderWay' = SpawnUnderWay
      BY <1>4, <2>3 DEF ClassUnderWay, SpawnUnderWay
    <2>5. (OneClass => OneClass') /\ (OneSpawn => OneSpawn')
      BY <1>4, <2>3 DEF OneClass, OneSpawn
    <2>6. AcceptedAgree => AcceptedAgree'
      BY <1>0, <1>4, <2>1, <2>2, SendAccepted
    <2>7. probe' = probe /\ link /\ link' = link /\ orphaned' = orphaned
      BY <1>3, <2>1, <2>2
    <2> QED
      BY <1>0, <1>4, <2>4, <2>5, <2>6, <2>7, Held, Restored
  <1>5. CASE SrvInitGame
    BY <1>4, <1>5 DEF SrvInitGame
  <1>6. CASE SrvRestart
    BY <1>4, <1>6 DEF SrvRestart
  <1>7. CASE SrvDialog
    BY <1>4, <1>7 DEF SrvDialog, server
  <1>8. CASE SrvAnswerClass
    <2>1. PICK c \in Classes, ok \in BOOLEAN :
            /\ classReqs[c] > 0
            /\ Send(Reply("ClassReply", c, ok))
            /\ classReqs' = [classReqs EXCEPT ![c] = @ - 1]
            /\ srvClass' = IF ok THEN c ELSE srvClass
            /\ UNCHANGED <<spawnReqs, srvInit>>
      BY <1>8 DEF SrvAnswerClass
    <2> DEFINE m == Reply("ClassReply", c, ok)
    <2>2. m \in Message /\ m.kind = "ClassReply" /\ m.class = c /\ m.ok = ok
      BY MessageTypes DEF Reply
    <2>3. Send(m)
      BY <2>1
    <2> HIDE DEF m
    <2>4. probe' = probe /\ link /\ link' = link /\ orphaned' = orphaned
      BY <1>3, <2>2, <2>3
    <2>5. ASSUME ~orphaned
          PROVE  /\ OneClass' /\ OneSpawn' /\ AcceptedAgree' /\ ClassUnderWay' /\ ~SpawnUnderWay'
                 /\ probe.waiting
      <3>1. /\ OneClass /\ OneSpawn /\ Flags(probe)
            /\ (ClassUnderWay => probe.waiting) /\ (SpawnUnderWay => probe.spawnSent)
        BY <2>4, <2>5, Held
      <3>2. ClassUnderWay /\ probe.waiting
        BY <2>1, <3>1 DEF ClassUnderWay
      <3>3. ~SpawnUnderWay /\ ~Coming("SpawnReply") /\ spawnReqs = 0
        BY <1>2, <3>1, <3>2 DEF Flags, SpawnUnderWay
      <3>4. classReqs[c] = 1 /\ ~Coming("ClassReply") /\ \A e \in Classes : classReqs[e] > 0 => e = c
        BY <2>1, <3>1 DEF OneClass
      <3>5. Coming("ClassReply")' /\ AtMostOne("ClassReply")'
        BY <1>0, <1>1, <2>2, <2>3, <3>1, <3>4, SendComing DEF OneClass
      <3>6. ~Coming("SpawnReply")' /\ AtMostOne("SpawnReply")'
        BY <1>0, <1>1, <2>2, <2>3, <3>1, <3>3, SendComing DEF OneSpawn
      <3>7. \A e \in Classes : ~(classReqs'[e] > 0)
        BY <1>2, <2>1, <3>4
      <3>8. AcceptedAgree'
        BY <1>0, <2>1, <2>2, <2>3, <3>3, <3>4, SendAccepted
      <3> QED
        BY <2>1, <3>2, <3>3, <3>5, <3>6, <3>7, <3>8 DEF OneClass, OneSpawn, ClassUnderWay, SpawnUnderWay
    <2> QED
      BY <1>0, <2>4, <2>5, Held, Restored
  <1>9. CASE SrvAnswerSpawn
    <2>1. PICK ok \in BOOLEAN :
            /\ spawnReqs > 0
            /\ Send(Reply("SpawnReply", srvClass, ok))
            /\ spawnReqs' = spawnReqs - 1
            /\ UNCHANGED <<classReqs, server>>
      BY <1>9 DEF SrvAnswerSpawn
    <2> DEFINE m == Reply("SpawnReply", srvClass, ok)
    <2>2. m \in Message /\ m.kind = "SpawnReply" /\ m.class = srvClass /\ m.ok = ok
      BY <1>2, MessageTypes DEF Reply
    <2>3. Send(m)
      BY <2>1
    <2> HIDE DEF m
    <2>4. probe' = probe /\ link /\ link' = link /\ orphaned' = orphaned /\ srvClass' = srvClass
      BY <1>3, <2>1, <2>2, <2>3 DEF server
    <2>5. ASSUME ~orphaned
          PROVE  /\ OneClass' /\ OneSpawn' /\ AcceptedAgree' /\ ~ClassUnderWay' /\ SpawnUnderWay'
                 /\ probe.spawnSent /\ ~SpawnReady(probe) /\ ~ClassUnderWay
      <3>1. /\ OneClass /\ OneSpawn /\ AcceptedAgree /\ Flags(probe)
            /\ (ClassUnderWay => probe.waiting) /\ (SpawnUnderWay => probe.spawnSent /\ ~SpawnReady(probe))
        BY <2>4, <2>5, Held
      <3>2. SpawnUnderWay /\ probe.spawnSent /\ ~SpawnReady(probe)
        BY <2>1, <3>1 DEF SpawnUnderWay
      <3>3. ~ClassUnderWay
        BY <3>1, <3>2 DEF Flags
      <3>4. spawnReqs = 1 /\ ~Coming("SpawnReply")
        BY <2>1, <3>1 DEF OneSpawn
      <3>5. Coming("SpawnReply")' /\ AtMostOne("SpawnReply")'
        BY <1>0, <1>1, <2>2, <2>3, <3>1, <3>4, SendComing DEF OneSpawn
      <3>6. ~Coming("ClassReply")' /\ AtMostOne("ClassReply")'
        BY <1>0, <1>1, <2>2, <2>3, <3>1, <3>3, SendComing DEF OneClass, ClassUnderWay
      <3>7. AcceptedAgree'
        BY <1>0, <2>2, <2>3, <2>4, <3>1, SendAccepted
      <3>8. ~ClassUnderWay' /\ OneClass'
        BY <2>1, <3>1, <3>3, <3>6 DEF ClassUnderWay, OneClass
      <3>9. spawnReqs' = 0
        BY <2>1, <3>4
      <3> QED
        BY <3>2, <3>3, <3>5, <3>7, <3>8, <3>9 DEF OneSpawn, SpawnUnderWay
    <2> QED
      BY <1>0, <2>4, <2>5, Held, Restored
  <1> QED
    BY <1>5, <1>6, <1>7, <1>8, <1>9 DEF Server

LEMMA NextSpawn ==
    ASSUME IInv, [Next]_vars PROVE IInv'
  <1>1. CASE UNCHANGED vars
    <2>1. TypeOK' /\ probe' = probe /\ orphaned' = orphaned
      BY <1>1, Held, NextType DEF vars
    <2>2. Flags(probe') = Flags(probe)
      BY <2>1
    <2> QED
      BY <1>1, <2>1, <2>2, Held, Unmoved DEF vars
  <1> QED
    BY <1>1, ServiceSpawn, DeliverSpawn, CallsSpawn, LinkSpawn, ServerSpawn DEF Next

LEMMA InitSpawn == Init => IInv
  <1> SUFFICES ASSUME Init PROVE IInv
    OBVIOUS
  <1>1. TypeOK /\ Flags(probe) /\ ~probe.forced /\ ~probe.sawReply
    BY InitType DEF Init, ResetProbe, Flags, SpawnReady
  <1>2. s2c = <<>> /\ Len(s2c) = 0 /\ spawnReqs = 0 /\ \A c \in Classes : classReqs[c] = 0
    BY DEF Init
  <1>3. ~ClassUnderWay /\ ~SpawnUnderWay /\ OneClass /\ OneSpawn
    BY <1>2 DEF ClassUnderWay, SpawnUnderWay, OneClass, OneSpawn, AtMostOne, Coming
  <1>4. Exchange
    BY <1>1, <1>2, <1>3 DEF Exchange
  <1> QED
    BY <1>1, <1>2, <1>4 DEF IInv

\* The flags of the probe say what is under way as long as no request was
\* abandoned while the server still held it.
THEOREM ExchangeInvariant == Spec => []IInv
  BY InitSpawn, NextSpawn, PTL DEF Spec

\* So no player is spawned as another class than the one he was shown.
THEOREM SpawnsAsShown == Spec => []SpawnIsOfClass
  <1>1. IInv => SpawnIsOfClass
    <2> SUFFICES ASSUME IInv PROVE SpawnIsOfClass
      OBVIOUS
    <2>1. SpawnNeverRacesClass
      BY Held DEF SpawnNeverRacesClass, Flags, SpawnUnderWay
    <2>2. ASSUME NEW i \in 1 .. Len(s2c), ~orphaned, s2c[i].kind = "SpawnReply", s2c[i].ok
          PROVE  probe.info = s2c[i].class
      <3>1. link
        BY Held
      <3>2. SpawnUnderWay
        BY <2>2 DEF SpawnUnderWay, Coming
      <3>3. probe.spawnSent /\ Flags(probe)
        BY <2>2, <3>1, <3>2, Held
      <3>4. ~ClassUnderWay /\ probe.sawReply /\ probe.outcome
        BY <2>2, <3>1, <3>3, Held DEF Flags
      <3>5. s2c[i].class = srvClass
        BY <2>2, <3>1, Held DEF AcceptedAgree
      <3> QED
        BY <2>2, <3>1, <3>4, <3>5, Held
    <2> QED
      BY <2>1, <2>2 DEF SpawnIsOfClass, SpawnInfoAgrees
  <1> QED
    BY <1>1, ExchangeInvariant, PTL
====
