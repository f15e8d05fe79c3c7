---------------------------- MODULE Screen_proofs -----------------------------
(***************************************************************************)
(* What Client promises of what is on the screen.  Input: the keyboard, the   *)
(* mouse and GTA's controls, for any number of RPCs, restarts and release      *)
(* frames.  Overlay: the fonts and the pictures of models, for any number of   *)
(* text draws, events, failures, new devices and sessions.  And, at the end,   *)
(* the types and bounds of all of Client's parts.                             *)
(*                                                                         *)
(* Each operator on the screen has a lemma that says what it keeps; the        *)
(* frames, the messages and the steps of Direct3D are made of them.           *)
(***************************************************************************)
EXTENDS Client_proofs, Integers, FiniteSetTheorems

-----------------------------------------------------------------------------
(* Input. *)

\* What no operator on the mouse, the chat and the scoreboard changes.
SameScreen(o, b) ==
    /\ b.dialog = o.dialog /\ b.menu = o.menu /\ b.menuMark = o.menuMark
    /\ b.edit = o.edit /\ b.editMark = o.editMark /\ b.handled = o.handled
Keeps(o, b) == (Inp!HeldRight(o) => Inp!HeldRight(b)) /\ (Inp!Owned(o) => Inp!Owned(b))

\* Letting the mouse go changes the mouse alone.
LEMMA MouseGoes ==
    ASSUME NEW o \in Inp!Bridge, NEW b, b = o \/ b = [o EXCEPT !.mouse = FALSE]
    PROVE  /\ b \in Inp!Bridge /\ SameScreen(o, b) /\ (b = [o EXCEPT !.mouse = FALSE] => ~b.mouse)
           /\ b.select = o.select /\ b.class = o.class /\ b.score = o.score /\ b.chat = o.chat
           /\ b.owner = o.owner /\ b.release = o.release /\ b.patched = o.patched /\ b.kept = o.kept
  <1>1. b \in Inp!Bridge
    BY DEF Inp!Bridge
  <1> QED
    BY <1>1 DEF Inp!Bridge, SameScreen

\* So does taking it.
LEMMA MouseComes ==
    ASSUME NEW o \in Inp!Bridge, NEW b, b = Inp!MouseOn(o)
    PROVE  /\ b \in Inp!Bridge /\ SameScreen(o, b) /\ b.mouse
           /\ b.select = o.select /\ b.class = o.class /\ b.score = o.score /\ b.chat = o.chat
           /\ b.owner = o.owner /\ b.release = o.release /\ b.patched = o.patched /\ b.kept = o.kept
  <1>1. b \in Inp!Bridge
    BY DEF Inp!MouseOn, Inp!Bridge
  <1> QED
    BY <1>1 DEF Inp!MouseOn, Inp!Bridge, SameScreen

\* Closing the chat hands the controls to the count of frames.
LEMMA ChatCloses ==
    ASSUME ClientAssumption, NEW o \in Inp!Bridge, NEW b, b = Inp!ChatClose(o)
    PROVE  /\ b \in Inp!Bridge /\ SameScreen(o, b) /\ ~b.chat /\ Keeps(o, b)
           /\ b.select = o.select /\ b.class = o.class /\ b.score = o.score /\ b.owner = o.owner
           /\ o.mouse /\ (Inp!Dialog(o) \/ o.select) => b.mouse
  <1>1. CASE ~o.chat
    BY <1>1 DEF Inp!ChatClose, SameScreen, Keeps
  <1>2. CASE o.chat
    <2>1. PICK r : r = [o EXCEPT !.chat = FALSE, !.release = ReleaseFrames]
      OBVIOUS
    <2>2. r \in Inp!Bridge /\ ReleaseFrames > 0
      <3>1. ReleaseFrames \in Nat /\ ReleaseFrames > 0 /\ ReleaseFrames \in 0 .. ReleaseFrames
        BY DEF ClientAssumption
      <3> QED
        BY <2>1, <3>1 DEF Inp!Bridge
    <2>3. /\ SameScreen(o, r) /\ ~r.chat /\ r.select = o.select /\ r.class = o.class /\ r.score = o.score
          /\ r.owner = o.owner /\ r.patched = o.patched /\ r.kept = o.kept /\ r.mouse = o.mouse
          /\ r.release = ReleaseFrames
      BY <2>1, <2>2 DEF Inp!Bridge, SameScreen
    <2>4. PICK w \in BOOLEAN : w = (Inp!Dialog(o) \/ o.edit \/ o.select \/ o.class \/ o.score)
      BY DEF Inp!Bridge
    <2>5. IF w THEN b = r ELSE b = [r EXCEPT !.mouse = FALSE]
      BY <1>2, <2>1, <2>4 DEF Inp!ChatClose, Inp!MouseOffUnless
    <2>6. /\ b \in Inp!Bridge /\ SameScreen(r, b) /\ (IF w THEN b.mouse = r.mouse ELSE ~b.mouse)
          /\ b.select = r.select /\ b.class = r.class /\ b.score = r.score /\ b.chat = r.chat
          /\ b.owner = r.owner /\ b.release = r.release /\ b.patched = r.patched /\ b.kept = r.kept
      BY <2>2, <2>5, MouseGoes
    <2>7. SameScreen(o, b)
      BY <2>3, <2>6 DEF SameScreen
    <2>8. Keeps(o, b)
      BY <2>2, <2>3, <2>4, <2>6, <2>7, <1>2 DEF Keeps, Inp!HeldRight, Inp!Owned, Inp!Dialog, SameScreen
    <2> QED
      BY <2>3, <2>4, <2>6, <2>7, <2>8
  <1> QED
    BY <1>1, <1>2 DEF Inp!Bridge

\* Closing the dialog leaves the mouse to SelectTextDraw and class selection alone.
LEMMA DialogCloses ==
    ASSUME NEW o \in Inp!Bridge, NEW b, b = Inp!DialogClose(o)
    PROVE  /\ b \in Inp!Bridge /\ b.dialog = 0 /\ (IF o.select \/ o.class THEN b.mouse = o.mouse ELSE ~b.mouse)
           /\ b.menu = o.menu /\ b.menuMark = o.menuMark
           /\ b.edit = o.edit /\ b.editMark = o.editMark /\ b.handled = o.handled
           /\ b.select = o.select /\ b.class = o.class /\ b.score = o.score /\ b.chat = o.chat
           /\ b.owner = o.owner
           /\ (Inp!HeldRight(o) => Inp!HeldRight(b)) /\ Inp!Owned(b)
  <1>1. PICK w \in BOOLEAN : w = (o.select \/ o.class)
    BY DEF Inp!Bridge
  <1>2. PICK r : r = Inp!MouseOffUnless(o.select \/ o.class, o)
    OBVIOUS
  <1>8. IF w THEN r = o ELSE r = [o EXCEPT !.mouse = FALSE]
    BY <1>1, <1>2 DEF Inp!MouseOffUnless
  <1>3. /\ r \in Inp!Bridge /\ SameScreen(o, r) /\ (IF w THEN r.mouse = o.mouse ELSE ~r.mouse)
        /\ r.select = o.select /\ r.class = o.class /\ r.score = o.score /\ r.chat = o.chat
        /\ r.owner = o.owner /\ r.release = o.release /\ r.patched = o.patched /\ r.kept = o.kept
    BY <1>8, MouseGoes
  <1>4. b = [r EXCEPT !.dialog = 0]
    BY <1>1, <1>2 DEF Inp!DialogClose
  <1>5. b \in Inp!Bridge
    BY <1>3, <1>4 DEF Inp!Bridge
  <1>6. /\ b.dialog = 0 /\ b.menu = r.menu /\ b.menuMark = r.menuMark /\ b.edit = r.edit
        /\ b.editMark = r.editMark /\ b.handled = r.handled /\ b.mouse = r.mouse
        /\ b.select = r.select /\ b.class = r.class /\ b.score = r.score /\ b.chat = r.chat
        /\ b.owner = r.owner /\ b.release = r.release /\ b.patched = r.patched /\ b.kept = r.kept
    BY <1>3, <1>4, <1>5 DEF Inp!Bridge
  <1>7. (Inp!HeldRight(o) => Inp!HeldRight(b)) /\ Inp!Owned(b)
    BY <1>1, <1>3, <1>6 DEF Inp!HeldRight, Inp!Owned, Inp!Dialog, SameScreen
  <1> QED
    BY <1>1, <1>3, <1>5, <1>6, <1>7 DEF SameScreen

\* The end of SelectTextDraw leaves it to dialog and class selection.
LEMMA SelectCloses ==
    ASSUME NEW o \in Inp!Bridge, NEW b,
           \/ b = [o EXCEPT !.select = FALSE] /\ (Inp!Dialog(o) \/ o.class)
           \/ b = [[o EXCEPT !.select = FALSE] EXCEPT !.mouse = FALSE] /\ ~Inp!Dialog(o)
    PROVE  /\ b \in Inp!Bridge /\ SameScreen(o, b) /\ ~b.select /\ Keeps(o, b)
           /\ b.class = o.class /\ b.score = o.score /\ b.chat = o.chat /\ b.owner = o.owner
  <1>1. PICK r : r = [o EXCEPT !.select = FALSE]
    OBVIOUS
  <1>2. r \in Inp!Bridge
    BY <1>1 DEF Inp!Bridge
  <1>3. /\ SameScreen(o, r) /\ ~r.select /\ r.class = o.class /\ r.score = o.score /\ r.chat = o.chat
        /\ r.owner = o.owner /\ r.release = o.release /\ r.patched = o.patched /\ r.kept = o.kept
        /\ r.mouse = o.mouse
    BY <1>1, <1>2 DEF Inp!Bridge, SameScreen
  <1>4. /\ b \in Inp!Bridge /\ SameScreen(r, b) /\ (b = [r EXCEPT !.mouse = FALSE] => ~b.mouse)
        /\ b.select = r.select /\ b.class = r.class /\ b.score = r.score /\ b.chat = r.chat
        /\ b.owner = r.owner /\ b.release = r.release /\ b.patched = r.patched /\ b.kept = r.kept
    BY <1>1, <1>2, MouseGoes
  <1>5. SameScreen(o, b)
    BY <1>3, <1>4 DEF SameScreen
  <1>6. Keeps(o, b)
    BY <1>1, <1>3, <1>4, <1>5 DEF Keeps, Inp!HeldRight, Inp!Owned, Inp!Dialog, SameScreen
  <1> QED
    BY <1>3, <1>4, <1>5, <1>6

\* So does what the bridge clears itself.
LEMMA SelectCleared ==
    ASSUME NEW o \in Inp!Bridge, NEW b, b = Inp!ClearSelect(o)
    PROVE  /\ b \in Inp!Bridge /\ SameScreen(o, b) /\ ~b.select /\ Keeps(o, b)
           /\ b.class = o.class /\ b.score = o.score /\ b.chat = o.chat /\ b.owner = o.owner
  <1>1. \/ b = [o EXCEPT !.select = FALSE] /\ (Inp!Dialog(o) \/ o.class)
        \/ b = [[o EXCEPT !.select = FALSE] EXCEPT !.mouse = FALSE] /\ ~Inp!Dialog(o)
    BY DEF Inp!ClearSelect, Inp!MouseOffUnless, Inp!Dialog, Inp!Bridge
  <1> QED
    BY <1>1, SelectCloses

\* The end of editing.
LEMMA EditCloses ==
    ASSUME NEW o \in Inp!Bridge, NEW b, b = Inp!EditClose(o)
    PROVE  /\ b \in Inp!Bridge /\ ~b.edit /\ Keeps(o, b)
           /\ b.dialog = o.dialog /\ b.menu = o.menu /\ b.menuMark = o.menuMark
           /\ b.editMark = o.editMark /\ b.handled = o.handled
           /\ b.select = o.select /\ b.class = o.class /\ b.score = o.score /\ b.chat = o.chat
           /\ b.owner = o.owner /\ (~o.mouse => ~b.mouse)
  <1>1. CASE ~o.edit
    BY <1>1 DEF Inp!EditClose, Keeps
  <1>2. CASE o.edit
    <2>1. PICK r : r = [o EXCEPT !.edit = FALSE]
      OBVIOUS
    <2>2. r \in Inp!Bridge
      BY <2>1 DEF Inp!Bridge
    <2>3. /\ ~r.edit /\ r.dialog = o.dialog /\ r.menu = o.menu /\ r.menuMark = o.menuMark
          /\ r.editMark = o.editMark /\ r.handled = o.handled /\ r.select = o.select
          /\ r.class = o.class /\ r.score = o.score /\ r.chat = o.chat /\ r.mouse = o.mouse
          /\ r.owner = o.owner /\ r.release = o.release /\ r.patched = o.patched /\ r.kept = o.kept
      BY <2>1, <2>2 DEF Inp!Bridge
    <2>4. PICK w \in BOOLEAN : w = (Inp!Dialog(o) \/ o.select \/ o.class)
      BY DEF Inp!Bridge
    <2>5. IF w THEN b = r ELSE b = [r EXCEPT !.mouse = FALSE]
      BY <1>2, <2>1, <2>4 DEF Inp!EditClose, Inp!MouseOffUnless
    <2>6. /\ b \in Inp!Bridge /\ SameScreen(r, b) /\ (IF w THEN b.mouse = r.mouse ELSE ~b.mouse)
          /\ b.select = r.select /\ b.class = r.class /\ b.score = r.score /\ b.chat = r.chat
          /\ b.owner = r.owner /\ b.release = r.release /\ b.patched = r.patched /\ b.kept = r.kept
      BY <2>2, <2>5, MouseGoes
    <2>7. Keeps(o, b)
      BY <2>3, <2>4, <2>6 DEF Keeps, Inp!HeldRight, Inp!Owned, Inp!Dialog, SameScreen
    <2> QED
      BY <2>3, <2>6, <2>7 DEF SameScreen
  <1> QED
    BY <1>1, <1>2 DEF Inp!Bridge

\* The scoreboard gives the mouse back, and the controls unless the chat has them.
LEMMA HudRestored ==
    ASSUME ClientAssumption, NEW o \in Inp!Bridge, NEW b, b = Inp!RestoreHud(o)
    PROVE  /\ b \in Inp!Bridge /\ SameScreen(o, b) /\ ~b.score /\ ~b.owner /\ Keeps(o, b)
           /\ b.select = o.select /\ b.class = o.class /\ b.chat = o.chat
  <1>1. PICK r : r = Inp!ScoreOff(o)
    OBVIOUS
  <1>2. PICK s : s = [o EXCEPT !.score = FALSE]
    OBVIOUS
  <1>3. s \in Inp!Bridge
    BY <1>2 DEF Inp!Bridge
  <1>4. /\ SameScreen(o, s) /\ ~s.score /\ s.select = o.select /\ s.class = o.class /\ s.chat = o.chat
        /\ s.owner = o.owner /\ s.release = o.release /\ s.patched = o.patched /\ s.kept = o.kept
        /\ s.mouse = o.mouse
    BY <1>2, <1>3 DEF Inp!Bridge, SameScreen
  <1>5. \/ r = s /\ (~o.score \/ Inp!Dialog(o) \/ o.edit \/ o.select \/ o.class \/ o.chat)
        \/ r = [s EXCEPT !.mouse = FALSE] /\ ~(Inp!Dialog(o) \/ o.select)
    BY <1>1, <1>2 DEF Inp!ScoreOff, Inp!MouseOffUnless, Inp!Dialog, Inp!Bridge
  <1>6. /\ r \in Inp!Bridge /\ SameScreen(s, r) /\ (r = [s EXCEPT !.mouse = FALSE] => ~r.mouse)
        /\ r.select = s.select /\ r.class = s.class /\ r.score = s.score /\ r.chat = s.chat
        /\ r.owner = s.owner /\ r.release = s.release /\ r.patched = s.patched /\ r.kept = s.kept
    BY <1>3, <1>5, MouseGoes
  <1>7. SameScreen(o, r)
    BY <1>4, <1>6 DEF SameScreen
  <1>8. /\ Inp!HeldRight(o) => Inp!HeldRight(r)
        /\ Inp!Owned(o) => Inp!Owned(r)
    BY <1>4, <1>5, <1>6, <1>7 DEF Inp!HeldRight, Inp!Owned, Inp!Dialog, SameScreen
  <1>9. CASE ~o.owner
    <2>1. b = r
      BY <1>1, <1>9 DEF Inp!RestoreHud
    <2> QED
      BY <1>4, <1>6, <1>7, <1>8, <1>9, <2>1 DEF Keeps
  <1>10. CASE o.owner
    <2>1. ReleaseFrames \in Nat /\ ReleaseFrames > 0 /\ ReleaseFrames \in 0 .. ReleaseFrames
      BY DEF ClientAssumption
    <2>2. b = [r EXCEPT !.owner = FALSE, !.release = IF o.chat THEN r.release ELSE ReleaseFrames]
      <3>1. [r EXCEPT !.owner = FALSE].release = r.release
        BY <1>6 DEF Inp!Bridge
      <3> QED
        BY <1>1, <1>10, <3>1 DEF Inp!RestoreHud
    <2>3. b \in Inp!Bridge
      BY <1>6, <2>1, <2>2 DEF Inp!Bridge
    <2>4. /\ SameScreen(r, b) /\ ~b.owner /\ b.select = r.select /\ b.class = r.class /\ b.score = r.score
          /\ b.chat = r.chat /\ b.patched = r.patched /\ b.kept = r.kept /\ b.mouse = r.mouse
          /\ b.release = IF o.chat THEN r.release ELSE ReleaseFrames
      BY <1>6, <2>2, <2>3 DEF Inp!Bridge, SameScreen
    <2>5. SameScreen(o, b)
      BY <1>7, <2>4 DEF SameScreen
    <2>6. Keeps(o, b)
      <3>1. Inp!HeldRight(r) => Inp!HeldRight(b)
        BY <1>4, <1>6, <2>1, <2>4 DEF Inp!HeldRight, Inp!Dialog, SameScreen
      <3>2. Inp!Owned(r) => Inp!Owned(b)
        BY <2>4 DEF Inp!Owned, Inp!Dialog, SameScreen
      <3> QED
        BY <1>8, <3>1, <3>2 DEF Keeps
    <2> QED
      BY <1>4, <1>6, <2>3, <2>4, <2>5, <2>6
  <1> QED
    BY <1>9, <1>10 DEF Inp!Bridge

\* The scoreboard takes the mouse.
LEMMA ScoreTakesMouse ==
    ASSUME NEW o \in Inp!Bridge, NEW b, b = Inp!ScoreMouse(o)
    PROVE  /\ b \in Inp!Bridge /\ SameScreen(o, b) /\ b.score /\ Keeps(o, b)
           /\ b.select = o.select /\ b.class = o.class /\ b.chat = o.chat /\ b.owner = o.owner
  <1>1. CASE o.score
    BY <1>1 DEF Inp!ScoreMouse, SameScreen, Keeps
  <1>2. CASE ~o.score
    <2>1. PICK r : r = [o EXCEPT !.score = TRUE]
      OBVIOUS
    <2>2. r \in Inp!Bridge
      BY <2>1 DEF Inp!Bridge
    <2>3. /\ SameScreen(o, r) /\ r.score /\ r.select = o.select /\ r.class = o.class /\ r.chat = o.chat
          /\ r.owner = o.owner /\ r.release = o.release /\ r.patched = o.patched /\ r.kept = o.kept
      BY <2>1, <2>2 DEF Inp!Bridge, SameScreen
    <2>4. b = Inp!MouseOn(r)
      BY <1>2, <2>1 DEF Inp!ScoreMouse
    <2>5. /\ b \in Inp!Bridge /\ SameScreen(r, b) /\ b.mouse
          /\ b.select = r.select /\ b.class = r.class /\ b.score = r.score /\ b.chat = r.chat
          /\ b.owner = r.owner /\ b.release = r.release /\ b.patched = r.patched /\ b.kept = r.kept
      BY <2>2, <2>4, MouseComes
    <2>6. SameScreen(o, b)
      BY <2>3, <2>5 DEF SameScreen
    <2>7. Keeps(o, b)
      BY <2>3, <2>5, <2>6 DEF Keeps, Inp!HeldRight, Inp!Owned, Inp!Dialog, SameScreen
    <2> QED
      BY <2>3, <2>5, <2>6, <2>7
  <1> QED
    BY <1>1, <1>2 DEF Inp!Bridge

\* Chat and scoreboard take the controls.
LEMMA ControlsTaken ==
    ASSUME NEW o \in Inp!Bridge, NEW r, r = Inp!TakeControls(o), ClientAssumption
    PROVE  /\ r \in Inp!Bridge /\ SameScreen(o, r) /\ r.patched
           /\ r.select = o.select /\ r.class = o.class /\ r.chat = o.chat /\ r.score = o.score
           /\ r.owner = o.owner /\ r.mouse = o.mouse
  <1>1. 0 \in 0 .. ReleaseFrames
    BY DEF ClientAssumption
  <1>2. PICK z \in 0 .. ReleaseFrames : z = 0
    BY <1>1
  <1>3. r = [o EXCEPT !.release = z, !.patched = TRUE, !.kept = FALSE]
    BY <1>2 DEF Inp!TakeControls
  <1>4. r \in Inp!Bridge
    BY <1>2, <1>3 DEF Inp!Bridge
  <1> QED
    BY <1>3, <1>4 DEF Inp!Bridge, SameScreen

\* The chat takes the mouse and the controls.
LEMMA ChatOpens ==
    ASSUME ClientAssumption, NEW o \in Inp!Bridge, NEW b, b = Inp!ChatOpen(o), ~Inp!Dialog(o), ~o.chat
    PROVE  /\ b \in Inp!Bridge /\ SameScreen(o, b) /\ Keeps(o, b)
  <1>1. PICK t : t = Inp!TakeControls(o)
    OBVIOUS
  <1>2. /\ t \in Inp!Bridge /\ SameScreen(o, t) /\ t.patched
        /\ t.select = o.select /\ t.class = o.class /\ t.chat = o.chat /\ t.score = o.score
        /\ t.owner = o.owner /\ t.mouse = o.mouse
    BY <1>1, ControlsTaken
  <1>3. PICK r : r = [t EXCEPT !.chat = TRUE]
    OBVIOUS
  <1>4. r \in Inp!Bridge
    BY <1>2, <1>3 DEF Inp!Bridge
  <1>5. /\ SameScreen(t, r) /\ r.chat /\ r.patched /\ r.select = t.select /\ r.class = t.class
        /\ r.score = t.score /\ r.owner = t.owner /\ r.mouse = t.mouse
    BY <1>2, <1>3, <1>4 DEF Inp!Bridge, SameScreen
  <1>6. b = Inp!MouseOn(r)
    BY <1>1, <1>3 DEF Inp!ChatOpen
  <1>7. /\ b \in Inp!Bridge /\ SameScreen(r, b) /\ b.mouse
        /\ b.select = r.select /\ b.class = r.class /\ b.score = r.score /\ b.chat = r.chat
        /\ b.owner = r.owner /\ b.release = r.release /\ b.patched = r.patched /\ b.kept = r.kept
    BY <1>4, <1>6, MouseComes
  <1>8. SameScreen(o, b)
    BY <1>2, <1>5, <1>7 DEF SameScreen
  <1>9. Keeps(o, b)
    BY <1>2, <1>5, <1>7, <1>8 DEF Keeps, Inp!HeldRight, Inp!Owned, Inp!Dialog, SameScreen
  <1> QED
    BY <1>7, <1>8, <1>9

\* A refresh leaves the mouse with an owner, whoever had it before.
LEMMA DialogRefreshed ==
    ASSUME ClientAssumption, NEW o \in Inp!Bridge, NEW p \in Inp!Latches, p.saw => p.dialog # 0,
           Inp!HeldRight(o), NEW b, b = Inp!DialogUpdate(o, p)
    PROVE  /\ b \in Inp!Bridge /\ Inp!HeldRight(b) /\ Inp!Owned(b)
           /\ b.dialog = IF p.saw THEN p.dialog ELSE 0
           /\ b.menu = o.menu /\ b.menuMark = o.menuMark
           /\ b.edit = o.edit /\ b.editMark = o.editMark /\ b.handled = o.handled
  <1>1. CASE ~p.saw
    <2>1. b = Inp!DialogClose(o)
      BY <1>1 DEF Inp!DialogUpdate
    <2> QED
      BY <1>1, <2>1, DialogCloses
  <1>2. CASE p.saw
    <2>1. p.dialog \in Nat /\ p.dialog # 0
      BY <1>2 DEF Inp!Latches
    <2>2. PICK r : r = [o EXCEPT !.dialog = p.dialog]
      OBVIOUS
    <2>3. r \in Inp!Bridge
      BY <2>1, <2>2 DEF Inp!Bridge
    <2>4. /\ r.dialog = p.dialog /\ r.menu = o.menu /\ r.menuMark = o.menuMark /\ r.edit = o.edit
          /\ r.editMark = o.editMark /\ r.handled = o.handled /\ r.chat = o.chat /\ r.owner = o.owner
          /\ r.release = o.release /\ r.patched = o.patched /\ r.kept = o.kept
      BY <2>2, <2>3 DEF Inp!Bridge
    <2>5. PICK s : s = Inp!MouseOn(r)
      OBVIOUS
    <2>6. /\ s \in Inp!Bridge /\ SameScreen(r, s) /\ s.mouse /\ s.chat = r.chat /\ s.owner = r.owner
          /\ s.release = r.release /\ s.patched = r.patched /\ s.kept = r.kept
      BY <2>3, <2>5, MouseComes
    <2>7. CASE Inp!Dialog(o)
      <3>1. b = s
        BY <1>2, <2>2, <2>5, <2>7 DEF Inp!DialogUpdate
      <3>2. Inp!HeldRight(s) /\ Inp!Owned(s)
        BY <2>1, <2>4, <2>6, <2>7 DEF Inp!HeldRight, Inp!Owned, Inp!Dialog, SameScreen
      <3> QED
        BY <1>2, <2>4, <2>6, <3>1, <3>2 DEF SameScreen
    <2>8. CASE ~Inp!Dialog(o)
      <3>1. b = Inp!ChatClose(s)
        BY <1>2, <2>2, <2>5, <2>8 DEF Inp!DialogUpdate
      <3>2. /\ b \in Inp!Bridge /\ SameScreen(s, b) /\ ~b.chat
            /\ s.mouse /\ (Inp!Dialog(s) \/ s.select) => b.mouse
        BY <2>6, <3>1, ChatCloses
      <3>3. b.mouse
        BY <2>1, <2>4, <2>6, <3>2 DEF Inp!Dialog, SameScreen
      <3>4. /\ b.owner => b.patched
            /\ b.patched => b.owner \/ b.release > 0 \/ b.kept
        <4>1. CASE ~s.chat
          BY <2>4, <2>6, <3>1, <4>1 DEF Inp!ChatClose, Inp!HeldRight
        <4>2. CASE s.chat
          <5>1. PICK t : t = [s EXCEPT !.chat = FALSE, !.release = ReleaseFrames]
            OBVIOUS
          <5>2. ReleaseFrames \in Nat /\ ReleaseFrames > 0 /\ ReleaseFrames \in 0 .. ReleaseFrames
            BY DEF ClientAssumption
          <5>3. t \in Inp!Bridge
            BY <2>6, <5>1, <5>2 DEF Inp!Bridge
          <5>4. t.release = ReleaseFrames /\ t.patched = s.patched /\ t.owner = s.owner
            BY <2>6, <5>1, <5>3 DEF Inp!Bridge
          <5>5. b = t \/ b = [t EXCEPT !.mouse = FALSE]
            BY <3>1, <4>2, <5>1 DEF Inp!ChatClose, Inp!MouseOffUnless
          <5>6. b.release = t.release /\ b.patched = t.patched /\ b.owner = t.owner
            BY <5>3, <5>5, MouseGoes
          <5> QED
            BY <2>4, <2>6, <4>2, <5>2, <5>4, <5>6 DEF Inp!HeldRight
        <4> QED
          BY <2>6, <4>1, <4>2 DEF Inp!Bridge
      <3>5. Inp!HeldRight(b) /\ Inp!Owned(b)
        BY <2>1, <2>4, <2>6, <3>2, <3>3, <3>4 DEF Inp!HeldRight, Inp!Owned, Inp!Dialog, SameScreen
      <3> QED
        BY <1>2, <2>4, <2>6, <3>2, <3>5 DEF SameScreen
    <2> QED
      BY <2>7, <2>8
  <1> QED
    BY <1>1, <1>2 DEF Inp!Latches

\* The menu on the screen is the adapter's after the refresh, whatever was on it before, if it
\* was the adapter's as long as the mark named its number.
LEMMA MenuRefreshed ==
    ASSUME ClientAssumption, NEW o \in Inp!Bridge, NEW p \in Inp!Latches, NEW b, b = Inp!MenuUpdate(o, p)
    PROVE  /\ b \in Inp!Bridge /\ Keeps(o, b) /\ b.menuMark = p.menuSeq
           /\ b.menu = IF p.menu THEN (IF o.menuMark # p.menuSeq \/ o.menu = 0 THEN p.made ELSE o.menu) ELSE 0
           /\ b.dialog = o.dialog /\ b.edit = o.edit /\ b.editMark = o.editMark /\ b.handled = o.handled
  <1>1. p.menuSeq \in Nat /\ p.made \in Nat /\ p.menu \in BOOLEAN
    BY DEF Inp!Latches
  <1>2. PICK r : r = [o EXCEPT !.menuMark = p.menuSeq]
    OBVIOUS
  <1>3. r \in Inp!Bridge
    BY <1>1, <1>2 DEF Inp!Bridge
  <1>4. /\ r.menuMark = p.menuSeq /\ r.menu = o.menu /\ r.dialog = o.dialog /\ r.edit = o.edit
        /\ r.editMark = o.editMark /\ r.handled = o.handled /\ r.chat = o.chat /\ r.owner = o.owner
        /\ r.release = o.release /\ r.patched = o.patched /\ r.kept = o.kept /\ r.mouse = o.mouse
        /\ r.select = o.select /\ r.class = o.class /\ r.score = o.score
    BY <1>2, <1>3 DEF Inp!Bridge
  <1>5. ASSUME NEW s, s = [r EXCEPT !.menu = 0] \/ s = [r EXCEPT !.menu = p.made]
        PROVE  /\ s \in Inp!Bridge /\ Keeps(o, s) /\ s.menuMark = p.menuSeq
               /\ (s = [r EXCEPT !.menu = 0] => s.menu = 0)
               /\ (s = [r EXCEPT !.menu = p.made] => s.menu = p.made)
               /\ s.dialog = o.dialog /\ s.edit = o.edit /\ s.editMark = o.editMark /\ s.handled = o.handled
    <2>1. s \in Inp!Bridge
      BY <1>1, <1>3, <1>5 DEF Inp!Bridge
    <2>2. /\ s.menuMark = r.menuMark /\ s.dialog = r.dialog /\ s.edit = r.edit
          /\ s.editMark = r.editMark /\ s.handled = r.handled /\ s.chat = r.chat /\ s.owner = r.owner
          /\ s.release = r.release /\ s.patched = r.patched /\ s.kept = r.kept /\ s.mouse = r.mouse
          /\ s.select = r.select /\ s.class = r.class /\ s.score = r.score
      BY <1>3, <1>5, <2>1 DEF Inp!Bridge
    <2>3. Keeps(o, s)
      BY <1>4, <2>2 DEF Keeps, Inp!HeldRight, Inp!Owned, Inp!Dialog
    <2> QED
      BY <1>3, <1>4, <2>1, <2>2, <2>3 DEF Inp!Bridge
  <1>6. CASE ~p.menu
    <2>1. b = [r EXCEPT !.menu = 0]
      BY <1>2, <1>6 DEF Inp!MenuUpdate
    <2> QED
      BY <1>5, <1>6, <2>1
  <1>7. CASE p.menu /\ (o.menuMark # p.menuSeq \/ o.menu = 0)
    <2>1. PICK s : s = [r EXCEPT !.menu = p.made]
      OBVIOUS
    <2>2. b = Inp!ChatClose(s)
      BY <1>2, <1>7, <2>1 DEF Inp!MenuUpdate
    <2>3. /\ s \in Inp!Bridge /\ Keeps(o, s) /\ s.menu = p.made /\ s.menuMark = p.menuSeq
          /\ s.dialog = o.dialog /\ s.edit = o.edit /\ s.editMark = o.editMark /\ s.handled = o.handled
      BY <1>5, <2>1
    <2>4. b \in Inp!Bridge /\ SameScreen(s, b) /\ Keeps(s, b)
      BY <2>2, <2>3, ChatCloses
    <2>5. Keeps(o, b)
      BY <2>3, <2>4 DEF Keeps
    <2> QED
      BY <1>7, <2>3, <2>4, <2>5 DEF SameScreen
  <1>8. CASE p.menu /\ ~(o.menuMark # p.menuSeq \/ o.menu = 0)
    <2>1. b = r
      BY <1>2, <1>8 DEF Inp!MenuUpdate
    <2>2. Keeps(o, r)
      BY <1>4 DEF Keeps, Inp!HeldRight, Inp!Owned, Inp!Dialog
    <2> QED
      BY <1>3, <1>4, <1>8, <2>1, <2>2
  <1> QED
    BY <1>1, <1>6, <1>7, <1>8

\* SelectTextDraw comes and goes.
LEMMA SelectRefreshed ==
    ASSUME NEW o \in Inp!Bridge, NEW p \in Inp!Latches, NEW b, b = Inp!SelectUpdate(o, p)
    PROVE  b \in Inp!Bridge /\ SameScreen(o, b) /\ Keeps(o, b)
  <1>1. CASE p.select
    <2>1. PICK r : r = [o EXCEPT !.select = TRUE]
      OBVIOUS
    <2>2. r \in Inp!Bridge
      BY <2>1 DEF Inp!Bridge
    <2>3. /\ SameScreen(o, r) /\ r.select /\ r.class = o.class /\ r.score = o.score /\ r.chat = o.chat
          /\ r.owner = o.owner /\ r.release = o.release /\ r.patched = o.patched /\ r.kept = o.kept
      BY <2>1, <2>2 DEF Inp!Bridge, SameScreen
    <2>4. b = Inp!MouseOn(r)
      BY <1>1, <2>1 DEF Inp!SelectUpdate
    <2>5. /\ b \in Inp!Bridge /\ SameScreen(r, b) /\ b.mouse
          /\ b.select = r.select /\ b.class = r.class /\ b.score = r.score /\ b.chat = r.chat
          /\ b.owner = r.owner /\ b.release = r.release /\ b.patched = r.patched /\ b.kept = r.kept
      BY <2>2, <2>4, MouseComes
    <2>6. SameScreen(o, b)
      BY <2>3, <2>5 DEF SameScreen
    <2>7. Keeps(o, b)
      BY <2>3, <2>5, <2>6 DEF Keeps, Inp!HeldRight, Inp!Owned, Inp!Dialog, SameScreen
    <2> QED
      BY <2>5, <2>6, <2>7
  <1>2. CASE ~p.select /\ o.select
    <2>1. \/ b = [o EXCEPT !.select = FALSE] /\ (Inp!Dialog(o) \/ o.class)
          \/ b = [[o EXCEPT !.select = FALSE] EXCEPT !.mouse = FALSE] /\ ~Inp!Dialog(o)
      BY <1>2 DEF Inp!SelectUpdate, Inp!MouseOffUnless, Inp!Dialog, Inp!Bridge
    <2> QED
      BY <2>1, SelectCloses
  <1>3. CASE ~p.select /\ ~o.select
    BY <1>3 DEF Inp!SelectUpdate, SameScreen, Keeps
  <1> QED
    BY <1>1, <1>2, <1>3 DEF Inp!Latches, Inp!Bridge

\* Editing begins and ends with the newest event.
LEMMA EditRefreshed ==
    ASSUME ClientAssumption, NEW o \in Inp!Bridge, NEW e \in [seq : Nat, on : BOOLEAN],
           NEW b, b = Inp!EditUpdate(o, e)
    PROVE  /\ b \in Inp!Bridge /\ Keeps(o, b)
           /\ b.dialog = o.dialog /\ b.menu = o.menu /\ b.menuMark = o.menuMark /\ b.handled = o.handled
           /\ IF e.seq = 0 \/ e.seq = o.editMark THEN b.edit = o.edit /\ b.editMark = o.editMark
              ELSE b.edit = e.on /\ b.editMark = e.seq
  <1>1. e.seq \in Nat /\ e.on \in BOOLEAN
    OBVIOUS
  <1>2. CASE e.seq = 0 \/ e.seq = o.editMark
    BY <1>2 DEF Inp!EditUpdate, Keeps
  <1>3. CASE ~(e.seq = 0 \/ e.seq = o.editMark)
    <2>1. PICK r : r = [o EXCEPT !.editMark = e.seq]
      OBVIOUS
    <2>2. r \in Inp!Bridge
      BY <1>1, <2>1 DEF Inp!Bridge
    <2>3. /\ r.editMark = e.seq /\ r.menuMark = o.menuMark /\ r.menu = o.menu /\ r.dialog = o.dialog
          /\ r.edit = o.edit /\ r.handled = o.handled /\ r.chat = o.chat /\ r.owner = o.owner
          /\ r.release = o.release /\ r.patched = o.patched /\ r.kept = o.kept /\ r.mouse = o.mouse
          /\ r.select = o.select /\ r.class = o.class /\ r.score = o.score
      BY <2>1, <2>2 DEF Inp!Bridge
    <2>4. Keeps(o, r)
      BY <2>3 DEF Keeps, Inp!HeldRight, Inp!Owned, Inp!Dialog
    <2>5. CASE e.on
      <3>1. PICK c : c = Inp!ChatClose(r)
        OBVIOUS
      <3>2. c \in Inp!Bridge /\ SameScreen(r, c) /\ Keeps(r, c)
        BY <2>2, <3>1, ChatCloses
      <3>3. PICK s : s = [c EXCEPT !.edit = TRUE]
        OBVIOUS
      <3>4. s \in Inp!Bridge
        BY <3>2, <3>3 DEF Inp!Bridge
      <3>5. /\ s.edit /\ s.editMark = c.editMark /\ s.menuMark = c.menuMark /\ s.menu = c.menu
            /\ s.dialog = c.dialog /\ s.handled = c.handled /\ s.chat = c.chat /\ s.owner = c.owner
            /\ s.release = c.release /\ s.patched = c.patched /\ s.kept = c.kept /\ s.select = c.select
        BY <3>2, <3>3, <3>4 DEF Inp!Bridge
      <3>6. b = Inp!MouseOn(s)
        BY <1>3, <2>1, <2>5, <3>1, <3>3 DEF Inp!EditUpdate
      <3>7. /\ b \in Inp!Bridge /\ SameScreen(s, b) /\ b.mouse /\ b.select = s.select /\ b.chat = s.chat
            /\ b.owner = s.owner /\ b.release = s.release /\ b.patched = s.patched /\ b.kept = s.kept
        BY <3>4, <3>6, MouseComes
      <3>8. (Inp!HeldRight(c) => Inp!HeldRight(b)) /\ Inp!Owned(b)
        BY <3>5, <3>7 DEF Inp!HeldRight, Inp!Owned, Inp!Dialog, SameScreen
      <3>9. Keeps(o, b)
        BY <2>4, <3>2, <3>8 DEF Keeps
      <3>10. b.edit \in BOOLEAN /\ b.edit
        BY <3>5, <3>7 DEF SameScreen, Inp!Bridge
      <3> QED
        BY <1>3, <2>3, <2>5, <3>2, <3>5, <3>7, <3>9, <3>10 DEF SameScreen
    <2>6. CASE ~e.on
      <3>1. b = Inp!EditClose(r)
        BY <1>3, <2>1, <2>6 DEF Inp!EditUpdate
      <3>2. /\ b \in Inp!Bridge /\ ~b.edit /\ Keeps(r, b)
            /\ b.dialog = r.dialog /\ b.menu = r.menu /\ b.menuMark = r.menuMark
            /\ b.editMark = r.editMark /\ b.handled = r.handled
        BY <2>2, <3>1, EditCloses
      <3>3. Keeps(o, b)
        BY <2>4, <3>2 DEF Keeps
      <3>4. b.edit \in BOOLEAN
        BY <3>2 DEF Inp!Bridge
      <3> QED
        BY <1>1, <1>3, <2>3, <2>6, <3>2, <3>3, <3>4
    <2> QED
      BY <1>1, <2>5, <2>6
  <1> QED
    BY <1>2, <1>3

\* A new session forgets the editing with its mark.
LEMMA EditForgotten ==
    ASSUME NEW o \in Inp!Bridge, NEW b, b = Inp!EditReset(o)
    PROVE  /\ b \in Inp!Bridge /\ ~b.edit /\ b.editMark = 0 /\ Keeps(o, b)
           /\ b.dialog = o.dialog /\ b.menu = o.menu /\ b.menuMark = o.menuMark /\ b.handled = o.handled
           /\ b.select = o.select /\ b.class = o.class /\ b.score = o.score /\ b.chat = o.chat
           /\ b.owner = o.owner
  <1>1. PICK r : r = Inp!EditClose(o)
    OBVIOUS
  <1>2. /\ r \in Inp!Bridge /\ ~r.edit /\ Keeps(o, r)
        /\ r.dialog = o.dialog /\ r.menu = o.menu /\ r.menuMark = o.menuMark /\ r.handled = o.handled
        /\ r.select = o.select /\ r.class = o.class /\ r.score = o.score /\ r.chat = o.chat
        /\ r.owner = o.owner
    BY <1>1, EditCloses
  <1>3. b = [r EXCEPT !.editMark = 0]
    BY <1>1 DEF Inp!EditReset
  <1>4. b \in Inp!Bridge
    BY <1>2, <1>3 DEF Inp!Bridge
  <1>5. /\ b.editMark = 0 /\ b.edit = r.edit /\ b.dialog = r.dialog /\ b.menu = r.menu
        /\ b.menuMark = r.menuMark /\ b.handled = r.handled /\ b.chat = r.chat /\ b.owner = r.owner
        /\ b.release = r.release /\ b.patched = r.patched /\ b.kept = r.kept /\ b.mouse = r.mouse
        /\ b.select = r.select /\ b.class = r.class /\ b.score = r.score
    BY <1>2, <1>3, <1>4 DEF Inp!Bridge
  <1>6. Keeps(o, b)
    <2>1. Keeps(r, b)
      BY <1>5 DEF Keeps, Inp!HeldRight, Inp!Owned, Inp!Dialog
    <2> QED
      BY <1>2, <2>1 DEF Keeps
  <1> QED
    BY <1>2, <1>4, <1>5, <1>6

\* The session reset closes everything and forgets the marks.
LEMMA ScreenReset ==
    ASSUME ClientAssumption, NEW o \in Inp!Bridge, Inp!HeldRight(o), NEW b, b = Inp!SessionReset(o)
    PROVE  /\ b \in Inp!Bridge /\ Inp!HeldRight(b) /\ b.dialog = 0 /\ b.menu = 0 /\ b.menuMark = 0
           /\ ~b.edit /\ b.editMark = 0 /\ b.handled = o.handled
  <1>1. PICK c : c = Inp!ChatClose(o)
    OBVIOUS
  <1>2. c \in Inp!Bridge /\ SameScreen(o, c) /\ Inp!HeldRight(c)
    BY <1>1, ChatCloses DEF Keeps
  <1>3. PICK h : h = Inp!RestoreHud(c)
    OBVIOUS
  <1>4. h \in Inp!Bridge /\ SameScreen(c, h) /\ ~h.owner /\ Inp!HeldRight(h)
    BY <1>2, <1>3, HudRestored DEF Keeps
  <1>5. PICK k : k = [h EXCEPT !.class = FALSE]
    OBVIOUS
  <1>6. k \in Inp!Bridge
    BY <1>4, <1>5 DEF Inp!Bridge
  <1>7. /\ k.handled = h.handled /\ k.dialog = h.dialog /\ k.chat = h.chat /\ k.owner = h.owner
        /\ k.release = h.release /\ k.patched = h.patched /\ k.kept = h.kept /\ k.mouse = h.mouse
        /\ k.select = h.select
    BY <1>4, <1>5, <1>6 DEF Inp!Bridge
  <1>8. Inp!HeldRight(k) /\ ~k.owner
    BY <1>4, <1>7 DEF Inp!HeldRight, Inp!Dialog
  <1>9. PICK s : s = Inp!ClearSelect(k)
    OBVIOUS
  <1>10. s \in Inp!Bridge /\ SameScreen(k, s) /\ Inp!HeldRight(s) /\ ~s.owner
    BY <1>6, <1>8, <1>9, SelectCleared DEF Keeps
  <1>11. PICK d : d = Inp!DialogClose(s)
    OBVIOUS
  <1>12. d \in Inp!Bridge /\ d.dialog = 0 /\ Inp!HeldRight(d) /\ ~d.owner /\ d.handled = s.handled
    BY <1>10, <1>11, DialogCloses
  <1>13. PICK m : m = [d EXCEPT !.menu = 0, !.menuMark = 0, !.owner = FALSE, !.score = FALSE]
    OBVIOUS
  <1>14. m \in Inp!Bridge
    BY <1>12, <1>13 DEF Inp!Bridge
  <1>15. /\ m.menu = 0 /\ m.menuMark = 0 /\ ~m.owner /\ m.dialog = d.dialog /\ m.handled = d.handled
         /\ m.chat = d.chat /\ m.release = d.release /\ m.patched = d.patched /\ m.kept = d.kept
         /\ m.mouse = d.mouse /\ m.select = d.select
    BY <1>12, <1>13, <1>14 DEF Inp!Bridge
  <1>16. Inp!HeldRight(m)
    BY <1>12, <1>15 DEF Inp!HeldRight, Inp!Dialog
  <1>17. b = Inp!EditReset(m)
    BY <1>1, <1>3, <1>5, <1>9, <1>11, <1>13 DEF Inp!SessionReset
  <1>18. /\ b \in Inp!Bridge /\ ~b.edit /\ b.editMark = 0 /\ Keeps(m, b)
         /\ b.dialog = m.dialog /\ b.menu = m.menu /\ b.menuMark = m.menuMark /\ b.handled = m.handled
    BY <1>14, <1>17, EditForgotten
  <1> QED
    BY <1>2, <1>4, <1>7, <1>10, <1>12, <1>15, <1>16, <1>18 DEF Keeps, SameScreen

\* After a refresh the screen is the snapshot's.
LEMMA ScreenRefreshed ==
    ASSUME ClientAssumption, NEW o \in Inp!Bridge, Inp!HeldRight(o), NEW p \in Inp!Latches,
           p.saw => p.dialog # 0, NEW b, b = Inp!Screen(o, p)
    PROVE  /\ b \in Inp!Bridge /\ Inp!HeldRight(b) /\ Inp!Owned(b) /\ b.handled = o.handled
           /\ b.dialog = IF p.saw THEN p.dialog ELSE 0
           /\ b.menuMark = p.menuSeq
           /\ b.menu = IF p.menu THEN (IF o.menuMark # p.menuSeq \/ o.menu = 0 THEN p.made ELSE o.menu) ELSE 0
           /\ IF p.edit.seq = 0 \/ p.edit.seq = o.editMark THEN b.edit = o.edit /\ b.editMark = o.editMark
              ELSE b.edit = p.edit.on /\ b.editMark = p.edit.seq
  <1>1. PICK d : d = Inp!DialogUpdate(o, p)
    OBVIOUS
  <1>2. /\ d \in Inp!Bridge /\ Inp!HeldRight(d) /\ Inp!Owned(d)
        /\ d.dialog = IF p.saw THEN p.dialog ELSE 0
        /\ d.menu = o.menu /\ d.menuMark = o.menuMark
        /\ d.edit = o.edit /\ d.editMark = o.editMark /\ d.handled = o.handled
    BY <1>1, DialogRefreshed
  <1>3. PICK m : m = Inp!MenuUpdate(d, p)
    OBVIOUS
  <1>4. /\ m \in Inp!Bridge /\ Keeps(d, m) /\ m.menuMark = p.menuSeq
        /\ m.menu = IF p.menu THEN (IF d.menuMark # p.menuSeq \/ d.menu = 0 THEN p.made ELSE d.menu) ELSE 0
        /\ m.dialog = d.dialog /\ m.edit = d.edit /\ m.editMark = d.editMark /\ m.handled = d.handled
    BY <1>2, <1>3, MenuRefreshed
  <1>5. PICK s : s = Inp!SelectUpdate(m, p)
    OBVIOUS
  <1>6. s \in Inp!Bridge /\ SameScreen(m, s) /\ Keeps(m, s)
    BY <1>4, <1>5, SelectRefreshed
  <1>7. PICK e : e = p.edit
    OBVIOUS
  <1>8. e \in [seq : Nat, on : BOOLEAN]
    BY <1>7 DEF Inp!Latches
  <1>9. b = Inp!EditUpdate(s, e)
    BY <1>1, <1>3, <1>5, <1>7 DEF Inp!Screen
  <1>10. /\ b \in Inp!Bridge /\ Keeps(s, b)
         /\ b.dialog = s.dialog /\ b.menu = s.menu /\ b.menuMark = s.menuMark /\ b.handled = s.handled
         /\ IF e.seq = 0 \/ e.seq = s.editMark THEN b.edit = s.edit /\ b.editMark = s.editMark
            ELSE b.edit = e.on /\ b.editMark = e.seq
    BY <1>6, <1>8, <1>9, EditRefreshed
  <1>11. Inp!HeldRight(b) /\ Inp!Owned(b)
    BY <1>2, <1>4, <1>6, <1>10 DEF Keeps
  <1> QED
    BY <1>2, <1>4, <1>6, <1>7, <1>10, <1>11 DEF SameScreen

-----------------------------------------------------------------------------
\* The scoreboard has the controls while it is shown and GTA's menu is not.
LEMMA HudRefreshed ==
    ASSUME ClientAssumption, NEW o \in Inp!Bridge, NEW b, b = Inp!UpdateHud(o), env \in Inp!World
    PROVE  /\ b \in Inp!Bridge /\ SameScreen(o, b) /\ b.select = o.select /\ b.class = o.class
           /\ b.chat = o.chat /\ Keeps(o, b)
           /\ (b.owner <=> Inp!ScoreShown(b) /\ ~env.gta)
           /\ Inp!ScoreShown(b) <=> Inp!ScoreShown(o)
  <1>1. ASSUME SameScreen(o, b), b.select = o.select, b.chat = o.chat
        PROVE  Inp!ScoreShown(b) <=> Inp!ScoreShown(o)
    BY <1>1 DEF Inp!ScoreShown, Inp!Dialog, SameScreen
  <1>2. CASE ~Inp!ScoreShown(o) \/ env.gta
    <2>1. b = Inp!RestoreHud(o)
      BY <1>2 DEF Inp!UpdateHud
    <2>2. /\ b \in Inp!Bridge /\ SameScreen(o, b) /\ ~b.score /\ ~b.owner /\ Keeps(o, b)
          /\ b.select = o.select /\ b.class = o.class /\ b.chat = o.chat
      BY <2>1, HudRestored
    <2> QED
      BY <1>1, <1>2, <2>2
  <1>3. CASE Inp!ScoreShown(o) /\ ~env.gta
    <2>1. PICK r : r = IF o.owner THEN o ELSE [Inp!TakeControls(o) EXCEPT !.owner = TRUE]
      OBVIOUS
    <2>2. b = Inp!ScoreMouse(r)
      BY <1>3, <2>1 DEF Inp!UpdateHud
    <2>3. /\ r \in Inp!Bridge /\ SameScreen(o, r) /\ r.select = o.select /\ r.class = o.class
          /\ r.chat = o.chat /\ r.owner /\ Keeps(o, r)
      <3>1. CASE o.owner
        BY <2>1, <3>1 DEF SameScreen, Keeps
      <3>2. CASE ~o.owner
        <4>1. PICK t : t = Inp!TakeControls(o)
          OBVIOUS
        <4>2. /\ t \in Inp!Bridge /\ SameScreen(o, t) /\ t.patched
              /\ t.select = o.select /\ t.class = o.class /\ t.chat = o.chat /\ t.score = o.score
              /\ t.mouse = o.mouse
          BY <4>1, ControlsTaken
        <4>3. r = [t EXCEPT !.owner = TRUE]
          BY <2>1, <3>2, <4>1
        <4>4. r \in Inp!Bridge
          BY <4>2, <4>3 DEF Inp!Bridge
        <4>5. /\ SameScreen(t, r) /\ r.owner /\ r.patched = t.patched /\ r.select = t.select
              /\ r.class = t.class /\ r.chat = t.chat /\ r.score = t.score /\ r.mouse = t.mouse
          BY <4>2, <4>3, <4>4 DEF Inp!Bridge, SameScreen
        <4>6. SameScreen(o, r)
          BY <4>2, <4>5 DEF SameScreen
        <4>7. Keeps(o, r)
          BY <4>2, <4>5, <4>6 DEF Keeps, Inp!HeldRight, Inp!Owned, Inp!Dialog, SameScreen
        <4> QED
          BY <4>2, <4>4, <4>5, <4>6, <4>7
      <3> QED
        BY <3>1, <3>2 DEF Inp!Bridge
    <2>4. /\ b \in Inp!Bridge /\ SameScreen(r, b) /\ Keeps(r, b)
          /\ b.select = r.select /\ b.class = r.class /\ b.chat = r.chat /\ b.owner = r.owner
      BY <2>2, <2>3, ScoreTakesMouse
    <2>5. SameScreen(o, b)
      BY <2>3, <2>4 DEF SameScreen
    <2>6. Keeps(o, b)
      BY <2>3, <2>4 DEF Keeps
    <2> QED
      BY <1>1, <1>3, <2>3, <2>4, <2>5, <2>6
  <1>4. Inp!ScoreShown(o) \in BOOLEAN /\ env.gta \in BOOLEAN
    BY DEF Inp!ScoreShown, Inp!World
  <1> QED
    BY <1>2, <1>3, <1>4

\* The count of frames gives GTA its controls back only when nobody has them.
LEMMA ControlsCounted ==
    ASSUME ClientAssumption, NEW o \in Inp!Bridge, Inp!HeldRight(o), NEW b, b = Inp!Controls(o),
           o.owner <=> Inp!ScoreShown(o) /\ ~env.gta
    PROVE  /\ b \in Inp!Bridge /\ SameScreen(o, b) /\ Inp!HeldRight(b) /\ (Inp!Owned(o) => Inp!Owned(b))
  <1>1. /\ ReleaseFrames \in Nat /\ 0 \in 0 .. ReleaseFrames /\ o.release \in 0 .. ReleaseFrames
        /\ (o.release # 0 => o.release - 1 \in 0 .. ReleaseFrames)
    BY DEF ClientAssumption, Inp!Bridge
  <1>2. CASE o.chat \/ Inp!ScoreShown(o)
    <2>1. PICK k \in BOOLEAN : k = (o.kept \/ (o.release > 0 /\ env.gta))
      BY DEF Inp!Bridge
    <2>2. PICK z \in 0 .. ReleaseFrames : z = 0
      BY <1>1
    <2>3. b = [o EXCEPT !.release = z, !.kept = k]
      BY <1>2, <2>1, <2>2 DEF Inp!Controls, Inp!Bridge
    <2>4. b \in Inp!Bridge
      BY <2>1, <2>2, <2>3 DEF Inp!Bridge
    <2>5. /\ SameScreen(o, b) /\ b.kept = k /\ b.patched = o.patched /\ b.owner = o.owner
          /\ b.chat = o.chat /\ b.select = o.select /\ b.class = o.class /\ b.score = o.score
          /\ b.mouse = o.mouse
      BY <2>3, <2>4 DEF Inp!Bridge, SameScreen
    <2>6. o.patched => o.chat \/ o.owner \/ k
      BY <1>2, <2>1 DEF Inp!HeldRight
    <2> QED
      BY <2>4, <2>5, <2>6 DEF Inp!HeldRight, Inp!Owned, Inp!Dialog, SameScreen
  <1>3. CASE ~(o.chat \/ Inp!ScoreShown(o))
    <2>1. PICK z \in 0 .. ReleaseFrames : z = IF o.release = 0 THEN 0 ELSE o.release - 1
      BY <1>1
    <2>2. PICK k \in BOOLEAN : k = (o.patched /\ o.release # 1)
      BY DEF Inp!Bridge
    <2>3. b = [o EXCEPT !.release = z, !.patched = k]
      BY <1>3, <2>1, <2>2 DEF Inp!Controls, Inp!Bridge
    <2>4. b \in Inp!Bridge
      BY <2>1, <2>2, <2>3 DEF Inp!Bridge
    <2>5. /\ SameScreen(o, b) /\ b.kept = o.kept /\ b.patched = k /\ b.owner = o.owner
          /\ b.chat = o.chat /\ b.select = o.select /\ b.class = o.class /\ b.score = o.score
          /\ b.mouse = o.mouse /\ b.release = z
      BY <2>3, <2>4 DEF Inp!Bridge, SameScreen
    <2>6. k => z > 0 \/ o.kept
      <3>1. o.patched => o.release > 0 \/ o.kept
        BY <1>3 DEF Inp!HeldRight
      <3>2. o.release > 0 /\ o.release # 1 => z > 0
        BY <1>1, <2>1
      <3> QED
        BY <2>2, <3>1, <3>2
    <2> QED
      BY <1>3, <2>4, <2>5, <2>6 DEF Inp!HeldRight, Inp!Owned, Inp!Dialog, SameScreen
  <1> QED
    BY <1>2, <1>3

\* Class selection takes the mouse last.
LEMMA ClassTakesMouse ==
    ASSUME NEW o \in Inp!Bridge, NEW b, b = Inp!ClassMouse(o), env \in Inp!World
    PROVE  b \in Inp!Bridge /\ SameScreen(o, b) /\ Keeps(o, b)
  <1>1. CASE env.class /\ ~Inp!Dialog(o) /\ ~o.select
    <2>1. CASE o.class
      BY <1>1, <2>1 DEF Inp!ClassMouse, SameScreen, Keeps
    <2>2. CASE ~o.class
      <3>1. PICK r : r = [o EXCEPT !.class = TRUE]
        OBVIOUS
      <3>2. r \in Inp!Bridge
        BY <3>1 DEF Inp!Bridge
      <3>3. /\ SameScreen(o, r) /\ r.class /\ r.select = o.select /\ r.score = o.score /\ r.chat = o.chat
            /\ r.owner = o.owner /\ r.release = o.release /\ r.patched = o.patched /\ r.kept = o.kept
        BY <3>1, <3>2 DEF Inp!Bridge, SameScreen
      <3>4. b = Inp!MouseOn(r)
        BY <1>1, <2>2, <3>1 DEF Inp!ClassMouse
      <3>5. /\ b \in Inp!Bridge /\ SameScreen(r, b) /\ b.mouse
            /\ b.select = r.select /\ b.class = r.class /\ b.score = r.score /\ b.chat = r.chat
            /\ b.owner = r.owner /\ b.release = r.release /\ b.patched = r.patched /\ b.kept = r.kept
        BY <3>2, <3>4, MouseComes
      <3>6. SameScreen(o, b)
        BY <3>3, <3>5 DEF SameScreen
      <3>7. Keeps(o, b)
        BY <3>3, <3>5, <3>6 DEF Keeps, Inp!HeldRight, Inp!Owned, Inp!Dialog, SameScreen
      <3> QED
        BY <3>5, <3>6, <3>7
    <2> QED
      BY <2>1, <2>2 DEF Inp!Bridge
  <1>2. CASE ~(env.class /\ ~Inp!Dialog(o) /\ ~o.select)
    <2>1. PICK r : r = [o EXCEPT !.class = FALSE]
      OBVIOUS
    <2>2. r \in Inp!Bridge
      BY <2>1 DEF Inp!Bridge
    <2>3. /\ SameScreen(o, r) /\ ~r.class /\ r.select = o.select /\ r.score = o.score /\ r.chat = o.chat
          /\ r.owner = o.owner /\ r.release = o.release /\ r.patched = o.patched /\ r.kept = o.kept
          /\ r.mouse = o.mouse
      BY <2>1, <2>2 DEF Inp!Bridge, SameScreen
    <2>4. \/ b = r /\ (~o.class \/ Inp!Dialog(o) \/ o.select)
          \/ b = [r EXCEPT !.mouse = FALSE] /\ ~Inp!Dialog(o) /\ ~o.select
      BY <1>2, <2>1 DEF Inp!ClassMouse, Inp!MouseOffUnless, Inp!Dialog, Inp!Bridge
    <2>5. /\ b \in Inp!Bridge /\ SameScreen(r, b) /\ (b = [r EXCEPT !.mouse = FALSE] => ~b.mouse)
          /\ b.select = r.select /\ b.class = r.class /\ b.score = r.score /\ b.chat = r.chat
          /\ b.owner = r.owner /\ b.release = r.release /\ b.patched = r.patched /\ b.kept = r.kept
      BY <2>2, <2>4, MouseGoes
    <2>6. SameScreen(o, b)
      BY <2>3, <2>5 DEF SameScreen
    <2>7. Keeps(o, b)
      BY <2>3, <2>4, <2>5, <2>6 DEF Keeps, Inp!HeldRight, Inp!Owned, Inp!Dialog, SameScreen
    <2> QED
      BY <2>5, <2>6, <2>7
  <1>3. env.class \in BOOLEAN /\ o.select \in BOOLEAN
    BY DEF Inp!World, Inp!Bridge
  <1> QED
    BY <1>1, <1>2, <1>3

\* The invariant of Input in the parts that its steps keep.
Numbers(n, o) ==
    /\ n.rpcs =< MaxEvents /\ n.sent =< n.rpcs /\ n.probe.dialog =< n.rpcs
    /\ n.probe.answer =< n.rpcs /\ n.probe.made =< n.rpcs /\ o.dialog =< n.rpcs /\ o.menu =< n.rpcs
DialogKnown(n, o) ==
    /\ n.probe.saw => n.probe.dialog > n.sent
    /\ ~n.probe.saw => n.probe.dialog = 0 \/ n.probe.dialog = n.sent \/ n.passed
    /\ n.passed => ~n.probe.saw
    /\ o.dialog # 0 => o.dialog > n.sent
    /\ n.probe.answer # 0 => n.probe.answer > n.sent /\ n.probe.saw /\ o.dialog = 0
MenuKnown(n, o) ==
    /\ o.menuMark =< n.probe.menuSeq
    /\ o.menuMark = n.probe.menuSeq /\ n.probe.menu /\ o.menu # 0 => o.menu = n.probe.made
EditKnown(n, o) ==
    /\ o.editMark =< n.probe.edit.seq /\ (o.edit => o.editMark > 0)
    /\ o.edit /\ o.editMark = n.probe.edit.seq => n.probe.edit.on
Shown(n, o) ==
    /\ IF n.passed THEN o.dialog = 0 ELSE n.probe.dialog = o.dialog \/ n.probe.dialog = n.sent
    /\ o.menu = IF n.probe.menu THEN n.probe.made ELSE 0
    /\ o.edit => o.editMark = n.probe.edit.seq

InputParts(n, o, p) ==
    /\ Numbers(n, o) /\ Inp!HeldRight(o) /\ DialogKnown(n, o)
    /\ o.handled =< n.restart
    /\ o.handled = n.restart /\ p # "connecting" => MenuKnown(n, o) /\ EditKnown(n, o)
    /\ p \in {"updated", "drawn", "idle"} =>
         o.handled = n.restart /\ Inp!Owned(o) /\ (o.dialog # 0 => n.probe.saw)
    /\ p = "connecting" =>
         o.handled = n.restart /\ n.probe = Inp!ResetProbe /\ ~o.edit /\ o.editMark = 0
    /\ p = "updated" => Shown(n, o)

\* The invariant of Input has these parts.
LEMMA InputHas ==
    ASSUME Inp!IInv
    PROVE  net \in Inp!Adapter /\ own \in Inp!Bridge /\ env \in Inp!World /\ pc \in Inp!Points
           /\ InputParts(net, own, pc)
  <1>1. net \in Inp!Adapter /\ own \in Inp!Bridge /\ env \in Inp!World /\ pc \in Inp!Points
    BY DEF Inp!IInv, Inp!Fields
  <1>2. /\ net.sent \in Nat /\ net.rpcs \in Nat /\ net.restart \in Nat /\ own.handled \in Nat
        /\ own.dialog \in Nat /\ own.menu \in Nat
    BY <1>1 DEF Inp!Adapter, Inp!Bridge
  <1>3. Numbers(net, own)
    BY <1>2 DEF Inp!IInv, Inp!NumbersGiven, Numbers
  <1>4. Inp!HeldRight(own) /\ own.handled =< net.restart
    BY DEF Inp!IInv, Inp!SessionKnown
  <1>5. DialogKnown(net, own)
    BY DEF Inp!IInv, Inp!DialogOpen, Inp!Dialog, DialogKnown
  <1>6. own.handled = net.restart /\ pc # "connecting" => MenuKnown(net, own) /\ EditKnown(net, own)
    BY DEF Inp!IInv, Inp!MenuFollows, Inp!EditFollows, Inp!Current, MenuKnown, EditKnown
  <1>7. pc \in {"updated", "drawn", "idle"} =>
          own.handled = net.restart /\ Inp!Owned(own) /\ (own.dialog # 0 => net.probe.saw)
    BY DEF Inp!IInv, Inp!SessionKnown, Inp!DialogOpen, Inp!Dialog
  <1>8. pc = "connecting" =>
          own.handled = net.restart /\ net.probe = Inp!ResetProbe /\ ~own.edit /\ own.editMark = 0
    BY DEF Inp!IInv, Inp!SessionKnown
  <1>9. pc = "updated" => Shown(net, own)
    BY DEF Inp!IInv, Inp!DialogOpen, Inp!MenuFollows, Inp!EditFollows, Shown
  <1> QED
    BY <1>1, <1>3, <1>4, <1>5, <1>6, <1>7, <1>8, <1>9 DEF InputParts

\* And they are all it takes for the state that follows.
LEMMA InputHasAgain ==
    ASSUME ClientAssumption, net' \in Inp!Adapter, own' \in Inp!Bridge, env' \in Inp!World, pc' \in Inp!Points,
           InputParts(net', own', pc')
    PROVE  Inp!IInv'
  <1>1. Inp!NumbersGiven'
    <2>1. /\ net'.sent \in Nat /\ net'.rpcs \in Nat /\ net'.probe.dialog \in Nat /\ net'.probe.answer \in Nat
          /\ net'.probe.made \in Nat /\ own'.dialog \in Nat /\ own'.menu \in Nat
      BY DEF Inp!Adapter, Inp!Latches, Inp!Bridge
    <2> QED
      BY <2>1 DEF InputParts, Numbers, Inp!NumbersGiven
  <1>2. Inp!SessionKnown'
    BY DEF InputParts, Inp!SessionKnown, Inp!ResetProbe
  <1>3. Inp!HeldRight(own)' /\ (pc' \in {"updated", "drawn", "idle"} => Inp!Owned(own)')
    BY DEF InputParts, Inp!HeldRight, Inp!Owned, Inp!Dialog
  <1>4. Inp!DialogOpen'
    BY DEF InputParts, DialogKnown, Shown, Inp!DialogOpen, Inp!Dialog
  <1>5. Inp!MenuFollows' /\ Inp!EditFollows'
    BY DEF InputParts, MenuKnown, EditKnown, Shown, Inp!MenuFollows, Inp!EditFollows, Inp!Current
  <1> QED
    BY <1>1, <1>2, <1>3, <1>4, <1>5 DEF Inp!IInv, Inp!Fields

\* The service routine sends the answer, or drops it.
LEMMA Serves ==
    ASSUME net \in Inp!Adapter, NEW n, n = Inp!Service(net, TRUE) \/ n = Inp!Service(net, FALSE)
    PROVE  /\ n \in Inp!Adapter /\ n.restart = net.restart /\ n.rpcs = net.rpcs
           /\ n.probe.answer = 0 /\ n.probe.dialog = net.probe.dialog /\ n.probe.select = net.probe.select
           /\ n.probe.made = net.probe.made /\ n.probe.menu = net.probe.menu
           /\ n.probe.menuSeq = net.probe.menuSeq /\ n.probe.edit = net.probe.edit
           /\ \/ net.probe.answer = 0 /\ n = net
              \/ /\ net.probe.answer # 0 /\ ~n.probe.saw /\ n.sent = net.probe.answer
                 /\ n.passed <=> net.probe.answer # net.probe.dialog
              \/ /\ net.probe.answer # 0 /\ n.probe.saw = net.probe.saw /\ n.sent = net.sent /\ ~n.passed
  <1>1. net.probe \in Inp!Latches
    BY DEF Inp!Adapter
  <1>2. CASE net.probe.answer = 0
    BY <1>1, <1>2 DEF Inp!Service
  <1>3. CASE net.probe.answer # 0
    <2>1. PICK p : p = net.probe
      OBVIOUS
    <2>2. CASE n = Inp!Service(net, TRUE)
      <3>1. PICK q : q = [p EXCEPT !.answer = 0, !.saw = FALSE]
        OBVIOUS
      <3>2. q \in Inp!Latches
        BY <1>1, <2>1, <3>1 DEF Inp!Latches
      <3>3. /\ q.answer = 0 /\ ~q.saw /\ q.dialog = p.dialog /\ q.select = p.select /\ q.made = p.made
            /\ q.menu = p.menu /\ q.menuSeq = p.menuSeq /\ q.edit = p.edit
        BY <1>1, <2>1, <3>1, <3>2 DEF Inp!Latches
      <3>4. PICK w \in BOOLEAN : w = (net.probe.answer # net.probe.dialog)
        OBVIOUS
      <3>5. n = [net EXCEPT !.probe = q, !.sent = p.answer, !.passed = w]
        BY <1>1, <1>3, <2>1, <2>2, <3>1, <3>4 DEF Inp!Service, Inp!Adapter, Inp!Latches
      <3>6. p.answer \in Nat
        BY <1>1, <2>1 DEF Inp!Latches
      <3>7. n \in Inp!Adapter
        BY <3>2, <3>5, <3>6 DEF Inp!Adapter
      <3>8. n.probe = q /\ n.sent = p.answer /\ n.passed = w /\ n.restart = net.restart /\ n.rpcs = net.rpcs
        BY <3>5, <3>7 DEF Inp!Adapter
      <3> QED
        BY <1>3, <2>1, <3>3, <3>4, <3>7, <3>8
    <2>3. CASE n = Inp!Service(net, FALSE)
      <3>4. PICK w \in BOOLEAN : w = p.saw
        BY <1>1, <2>1 DEF Inp!Latches
      <3>1. PICK q : q = [p EXCEPT !.answer = 0, !.saw = w]
        OBVIOUS
      <3>2. q \in Inp!Latches
        BY <1>1, <2>1, <3>1, <3>4 DEF Inp!Latches
      <3>3. /\ q.answer = 0 /\ q.saw = p.saw /\ q.dialog = p.dialog /\ q.select = p.select /\ q.made = p.made
            /\ q.menu = p.menu /\ q.menuSeq = p.menuSeq /\ q.edit = p.edit
        BY <1>1, <2>1, <3>1, <3>2, <3>4 DEF Inp!Latches
      <3>5. n = [net EXCEPT !.probe = q, !.sent = net.sent, !.passed = FALSE]
        BY <1>1, <1>3, <2>1, <2>3, <3>1, <3>4 DEF Inp!Service, Inp!Adapter, Inp!Latches
      <3>7. n \in Inp!Adapter
        BY <3>2, <3>5 DEF Inp!Adapter
      <3>8. n.probe = q /\ n.sent = net.sent /\ ~n.passed /\ n.restart = net.restart /\ n.rpcs = net.rpcs
        BY <3>5, <3>7 DEF Inp!Adapter
      <3> QED
        BY <1>3, <2>1, <3>3, <3>7, <3>8
    <2> QED
      BY <2>2, <2>3
  <1> QED
    BY <1>2, <1>3

\* Either way what is known of the dialog and the marks goes on.
LEMMA ServedKnown ==
    ASSUME net \in Inp!Adapter, own \in Inp!Bridge, NEW n,
           n = Inp!Service(net, TRUE) \/ n = Inp!Service(net, FALSE), Numbers(net, own), DialogKnown(net, own)
    PROVE  /\ Numbers(n, own) /\ DialogKnown(n, own) /\ n.probe.answer = 0
           /\ ~n.probe.saw => n.probe.dialog = 0 \/ n.probe.dialog = n.sent \/ n.passed
           /\ n.probe.saw => n.probe.dialog > n.sent
  <1>1. /\ n \in Inp!Adapter /\ n.restart = net.restart /\ n.rpcs = net.rpcs
        /\ n.probe.answer = 0 /\ n.probe.dialog = net.probe.dialog /\ n.probe.made = net.probe.made
        /\ \/ net.probe.answer = 0 /\ n = net
           \/ /\ net.probe.answer # 0 /\ ~n.probe.saw /\ n.sent = net.probe.answer
              /\ n.passed <=> net.probe.answer # net.probe.dialog
           \/ /\ net.probe.answer # 0 /\ n.probe.saw = net.probe.saw /\ n.sent = net.sent /\ ~n.passed
    BY Serves
  <1>2. net.rpcs \in Nat /\ n.rpcs \in Nat
    BY <1>1 DEF Inp!Adapter
  <1>3. Numbers(n, own)
    BY <1>1, <1>2 DEF Numbers
  <1>4. DialogKnown(n, own)
    BY <1>1 DEF DialogKnown
  <1> QED
    BY <1>1, <1>3, <1>4 DEF DialogKnown

\* The steps of the pump change the adapter alone.
LEMMA Pumped ==
    ASSUME ClientAssumption, Inp!IInv, own' = own, env' = env, pc' = "pump",
           net' \in Inp!Adapter, net.restart =< net'.restart,
           Numbers(net', own), DialogKnown(net', own),
           own.handled = net'.restart => MenuKnown(net', own) /\ EditKnown(net', own)
    PROVE  Inp!IInv'
  <1>1. own \in Inp!Bridge /\ env \in Inp!World /\ net \in Inp!Adapter /\ InputParts(net, own, pc)
    BY InputHas
  <1>2. own'.handled =< net'.restart
    <2>1. own.handled \in Nat /\ net.restart \in Nat /\ net'.restart \in Nat /\ own.handled =< net.restart
      BY <1>1 DEF InputParts, Inp!Bridge, Inp!Adapter
    <2> QED
      BY <2>1
  <1>3. InputParts(net', own', pc')
    BY <1>1, <1>2 DEF InputParts
  <1>4. pc' \in Inp!Points
    BY DEF Inp!Points
  <1> QED
    BY <1>1, <1>3, <1>4, InputHasAgain

\* A RPC that writes the latches.
LEMMA RpcIs ==
    ASSUME net \in Inp!Adapter, NEW p \in Inp!Latches, net' = [net EXCEPT !.probe = p, !.rpcs = net.rpcs + 1]
    PROVE  /\ net' \in Inp!Adapter /\ net'.probe = p /\ net'.rpcs = net.rpcs + 1 /\ net'.restart = net.restart
           /\ net'.sent = net.sent /\ net'.passed = net.passed
  <1>1. net.rpcs + 1 \in Nat
    BY DEF Inp!Adapter
  <1>2. net' \in Inp!Adapter
    BY <1>1 DEF Inp!Adapter
  <1> QED
    BY <1>2 DEF Inp!Adapter

\* Menu, SelectTextDraw and editing leave the dialog alone.
LEMMA RpcKeeps ==
    ASSUME ClientAssumption, Inp!IInv, Inp!Receives, NEW p \in Inp!Latches, Inp!Probe(p),
           p.saw = net.probe.saw, p.dialog = net.probe.dialog, p.answer = net.probe.answer,
           p.made \in {net.probe.made, net.rpcs + 1},
           \/ p.menuSeq = net.probe.menuSeq /\ p.menu = net.probe.menu /\ p.made = net.probe.made
           \/ p.menuSeq = net.probe.menuSeq + 1,
           p.edit = net.probe.edit \/ p.edit.seq = net.probe.edit.seq + 1
    PROVE  Inp!IInv'
  <1>1. /\ own \in Inp!Bridge /\ net \in Inp!Adapter /\ InputParts(net, own, pc)
        /\ own' = own /\ env' = env /\ pc' = "pump" /\ net' = [net EXCEPT !.probe = p, !.rpcs = net.rpcs + 1]
        /\ pc # "connecting"
    BY InputHas DEF Inp!Probe, Inp!Number, Inp!Receives, Inp!Between
  <1>2. /\ net' \in Inp!Adapter /\ net'.probe = p /\ net'.rpcs = net.rpcs + 1 /\ net'.restart = net.restart
        /\ net'.sent = net.sent /\ net'.passed = net.passed
    BY <1>1, RpcIs
  <1>3. /\ net.rpcs \in Nat /\ MaxEvents \in Nat /\ net.rpcs < MaxEvents /\ net.sent \in Nat
        /\ net.probe.dialog \in Nat /\ net.probe.answer \in Nat /\ net.probe.made \in Nat
        /\ own.dialog \in Nat /\ own.menu \in Nat
    BY <1>1 DEF Inp!Receives, Inp!Adapter, Inp!Latches, Inp!Bridge, ClientAssumption
  <1>4. Numbers(net', own)
    BY <1>1, <1>2, <1>3 DEF InputParts, Numbers
  <1>5. DialogKnown(net', own)
    BY <1>1, <1>2 DEF InputParts, DialogKnown
  <1>6. own.handled = net'.restart => MenuKnown(net', own) /\ EditKnown(net', own)
    <2> SUFFICES ASSUME own.handled = net'.restart PROVE MenuKnown(net', own) /\ EditKnown(net', own)
      OBVIOUS
    <2>1. MenuKnown(net, own) /\ EditKnown(net, own)
      BY <1>1, <1>2 DEF InputParts
    <2>2. /\ own.menuMark \in Nat /\ net.probe.menuSeq \in Nat /\ own.editMark \in Nat
          /\ net.probe.edit.seq \in Nat
      BY <1>1 DEF Inp!Bridge, Inp!Adapter, Inp!Latches
    <2>3. MenuKnown(net', own)
      BY <1>2, <2>1, <2>2 DEF MenuKnown
    <2>4. EditKnown(net', own)
      BY <1>2, <2>1, <2>2 DEF EditKnown
    <2> QED
      BY <2>3, <2>4
  <1>7. net.restart =< net'.restart
    BY <1>1, <1>2 DEF Inp!Adapter
  <1> QED
    BY <1>1, <1>2, <1>4, <1>5, <1>6, <1>7, Pumped

\* RPCs of menus, SelectTextDraw and editing keep the invariant of Input.
LEMMA InputRpcs ==
    ASSUME ClientAssumption, Inp!IInv,
           Inp!OnInitMenu \/ Inp!OnMenu \/ Inp!OnSelectTextDraw \/ Inp!OnEdit
    PROVE  Inp!IInv'
  <1>1. net \in Inp!Adapter /\ net.probe \in Inp!Latches /\ net.rpcs + 1 \in Nat
    BY InputHas DEF Inp!Adapter
  <1>2. net.probe.menuSeq + 1 \in Nat /\ net.probe.edit.seq + 1 \in Nat
    BY <1>1 DEF Inp!Latches
  <1>3. PICK l : l = net.probe
    OBVIOUS
  <1>4. CASE Inp!OnInitMenu
    <2>1. PICK p : p = [l EXCEPT !.made = net.rpcs + 1, !.menu = FALSE, !.menuSeq = l.menuSeq + 1]
      OBVIOUS
    <2>2. p \in Inp!Latches
      BY <1>1, <1>2, <1>3, <2>1 DEF Inp!Latches
    <2>3. /\ p.saw = l.saw /\ p.dialog = l.dialog /\ p.answer = l.answer /\ p.made = net.rpcs + 1
          /\ p.menuSeq = l.menuSeq + 1 /\ p.edit = l.edit
      BY <1>1, <1>3, <2>1, <2>2 DEF Inp!Latches
    <2>4. Inp!Receives /\ Inp!Probe(p)
      <3>1. [l EXCEPT !.made = net.rpcs + 1, !.menu = FALSE].menuSeq = l.menuSeq
        BY <1>1, <1>3 DEF Inp!Latches
      <3> QED
        BY <1>3, <1>4, <2>1, <3>1 DEF Inp!OnInitMenu, Inp!Number
    <2> QED
      BY <1>3, <2>2, <2>3, <2>4, RpcKeeps
  <1>5. CASE Inp!OnMenu
    <2>0. PICK shown \in BOOLEAN : Inp!Probe([l EXCEPT !.menu = shown, !.menuSeq = l.menuSeq + 1])
      <3>1. \A shown \in BOOLEAN : [l EXCEPT !.menu = shown].menuSeq = l.menuSeq
        BY <1>1, <1>3 DEF Inp!Latches
      <3> QED
        BY <1>3, <1>5, <3>1 DEF Inp!OnMenu
    <2>1. PICK p : p = [l EXCEPT !.menu = shown, !.menuSeq = l.menuSeq + 1]
      OBVIOUS
    <2>2. p \in Inp!Latches
      BY <1>1, <1>2, <1>3, <2>1 DEF Inp!Latches
    <2>3. /\ p.saw = l.saw /\ p.dialog = l.dialog /\ p.answer = l.answer /\ p.made = l.made
          /\ p.menuSeq = l.menuSeq + 1 /\ p.edit = l.edit
      BY <1>1, <1>3, <2>1, <2>2 DEF Inp!Latches
    <2>4. Inp!Receives /\ Inp!Probe(p)
      BY <1>5, <2>0, <2>1 DEF Inp!OnMenu
    <2> QED
      BY <1>3, <2>2, <2>3, <2>4, RpcKeeps
  <1>6. CASE Inp!OnSelectTextDraw
    <2>0. PICK on \in BOOLEAN : Inp!Probe([l EXCEPT !.select = on])
      BY <1>3, <1>6 DEF Inp!OnSelectTextDraw
    <2>1. PICK p : p = [l EXCEPT !.select = on]
      OBVIOUS
    <2>2. p \in Inp!Latches
      BY <1>1, <1>3, <2>1 DEF Inp!Latches
    <2>3. /\ p.saw = l.saw /\ p.dialog = l.dialog /\ p.answer = l.answer /\ p.made = l.made
          /\ p.menuSeq = l.menuSeq /\ p.menu = l.menu /\ p.edit = l.edit
      BY <1>1, <1>3, <2>1, <2>2 DEF Inp!Latches
    <2>4. Inp!Receives /\ Inp!Probe(p)
      BY <1>6, <2>0, <2>1 DEF Inp!OnSelectTextDraw
    <2> QED
      BY <1>3, <2>2, <2>3, <2>4, RpcKeeps
  <1>7. CASE Inp!OnEdit
    <2>0. PICK on \in BOOLEAN : Inp!Probe([l EXCEPT !.edit = [seq |-> l.edit.seq + 1, on |-> on]])
      BY <1>3, <1>7 DEF Inp!OnEdit
    <2>5. PICK e : e = [seq |-> l.edit.seq + 1, on |-> on]
      OBVIOUS
    <2>6. e \in [seq : Nat, on : BOOLEAN] /\ e.seq = l.edit.seq + 1
      BY <1>2, <1>3, <2>0, <2>5
    <2>1. PICK p : p = [l EXCEPT !.edit = e]
      OBVIOUS
    <2>2. p \in Inp!Latches
      BY <1>1, <1>3, <2>1, <2>6 DEF Inp!Latches
    <2>3. /\ p.saw = l.saw /\ p.dialog = l.dialog /\ p.answer = l.answer /\ p.made = l.made
          /\ p.menuSeq = l.menuSeq /\ p.menu = l.menu /\ p.edit = e
      BY <1>1, <1>3, <2>1, <2>2 DEF Inp!Latches
    <2>4. Inp!Receives /\ Inp!Probe(p)
      BY <1>7, <2>0, <2>1, <2>5 DEF Inp!OnEdit
    <2> QED
      BY <1>3, <2>2, <2>3, <2>4, <2>6, RpcKeeps
  <1> QED
    BY <1>4, <1>5, <1>6, <1>7

\* A dialog is a new one: its number is above all that were answered.
LEMMA InputDialog ==
    ASSUME ClientAssumption, Inp!IInv, Inp!OnDialog
    PROVE  Inp!IInv'
  <1>1. /\ own \in Inp!Bridge /\ net \in Inp!Adapter /\ InputParts(net, own, pc)
        /\ own' = own /\ env' = env /\ pc' = "pump" /\ pc # "connecting"
    BY InputHas DEF Inp!OnDialog, Inp!Receives, Inp!Between
  <1>2. /\ net.rpcs \in Nat /\ MaxEvents \in Nat /\ net.rpcs < MaxEvents /\ net.sent \in Nat
        /\ net.probe \in Inp!Latches /\ net.rpcs + 1 \in Nat
        /\ net.probe.answer \in Nat /\ net.probe.made \in Nat /\ own.dialog \in Nat /\ own.menu \in Nat
    BY <1>1 DEF Inp!OnDialog, Inp!Receives, Inp!Adapter, Inp!Latches, Inp!Bridge, ClientAssumption
  <1>3. PICK l : l = net.probe
    OBVIOUS
  <1>4. PICK p : p = [l EXCEPT !.saw = TRUE, !.dialog = net.rpcs + 1]
    OBVIOUS
  <1>5. p \in Inp!Latches
    BY <1>2, <1>3, <1>4 DEF Inp!Latches
  <1>6. /\ p.saw /\ p.dialog = net.rpcs + 1 /\ p.answer = l.answer /\ p.made = l.made
        /\ p.menuSeq = l.menuSeq /\ p.menu = l.menu /\ p.edit = l.edit
    BY <1>2, <1>3, <1>4, <1>5 DEF Inp!Latches
  <1>7. net' = [net EXCEPT !.probe = p, !.rpcs = net.rpcs + 1, !.passed = FALSE]
    BY <1>1, <1>2, <1>3, <1>4 DEF Inp!OnDialog, Inp!Number, Inp!Adapter, Inp!Latches
  <1>8. net' \in Inp!Adapter
    BY <1>1, <1>2, <1>5, <1>7 DEF Inp!Adapter
  <1>9. /\ net'.probe = p /\ net'.rpcs = net.rpcs + 1 /\ net'.restart = net.restart /\ net'.sent = net.sent
        /\ ~net'.passed
    BY <1>1, <1>7, <1>8 DEF Inp!Adapter
  <1>10. Numbers(net', own)
    BY <1>1, <1>2, <1>3, <1>6, <1>9 DEF InputParts, Numbers
  <1>11. DialogKnown(net', own)
    BY <1>1, <1>2, <1>3, <1>6, <1>9 DEF InputParts, DialogKnown, Numbers
  <1>12. own.handled = net'.restart => MenuKnown(net', own) /\ EditKnown(net', own)
    BY <1>1, <1>3, <1>6, <1>9 DEF InputParts, MenuKnown, EditKnown
  <1>13. net.restart =< net'.restart
    BY <1>1, <1>9 DEF Inp!Adapter
  <1> QED
    BY <1>1, <1>8, <1>10, <1>11, <1>12, <1>13, Pumped

\* The latches of a fresh probe are down.
LEMMA ResetIs ==
    /\ Inp!ResetProbe \in Inp!Latches
    /\ Inp!ResetProbe.dialog = 0 /\ Inp!ResetProbe.answer = 0 /\ Inp!ResetProbe.made = 0
    /\ Inp!ResetProbe.menuSeq = 0 /\ ~Inp!ResetProbe.saw /\ ~Inp!ResetProbe.menu
    /\ Inp!ResetProbe.edit.seq = 0
  BY DEF Inp!ResetProbe, Inp!Latches

\* A restart erases the latches and keeps it.
LEMMA InputRestart ==
    ASSUME ClientAssumption, Inp!IInv, Inp!OnRestart
    PROVE  Inp!IInv'
  <1>1. /\ own \in Inp!Bridge /\ net \in Inp!Adapter /\ InputParts(net, own, pc)
        /\ own' = own /\ env' = env /\ pc' = "pump"
    BY InputHas DEF Inp!OnRestart
  <1>2. PICK r : r = Inp!ResetProbe
    OBVIOUS
  <1>3. net.restart \in Nat /\ net.restart + 1 \in Nat /\ net.rpcs \in Nat /\ net.sent \in Nat /\ own.handled \in Nat
    BY <1>1 DEF Inp!Adapter, Inp!Bridge
  <1>4. net' = [net EXCEPT !.probe = r, !.restart = net.restart + 1]
    BY <1>2 DEF Inp!OnRestart
  <1>5. net' \in Inp!Adapter
    BY <1>1, <1>2, <1>3, <1>4, ResetIs DEF Inp!Adapter
  <1>6. /\ net'.probe = r /\ net'.restart = net.restart + 1 /\ net'.rpcs = net.rpcs /\ net'.sent = net.sent
    BY <1>1, <1>4, <1>5 DEF Inp!Adapter
  <1>7. Numbers(net', own)
    BY <1>1, <1>2, <1>3, <1>6, ResetIs DEF InputParts, Numbers
  <1>8. DialogKnown(net', own)
    BY <1>1, <1>2, <1>6, ResetIs DEF InputParts, DialogKnown
  <1>9. own.handled # net'.restart /\ net.restart =< net'.restart
    BY <1>1, <1>3, <1>6 DEF InputParts
  <1> QED
    BY <1>1, <1>5, <1>7, <1>8, <1>9, Pumped

\* So does the service routine in the pump.
LEMMA InputService ==
    ASSUME ClientAssumption, Inp!IInv, Inp!ServiceEarly
    PROVE  Inp!IInv'
  <1>1. /\ own \in Inp!Bridge /\ net \in Inp!Adapter /\ InputParts(net, own, pc)
        /\ own' = own /\ env' = env /\ pc' = "pump" /\ pc # "connecting"
    BY InputHas DEF Inp!ServiceEarly, Inp!Between
  <1>2. net' = Inp!Service(net, TRUE) \/ net' = Inp!Service(net, FALSE)
    BY DEF Inp!ServiceEarly
  <1>3. PICK n : n = net'
    OBVIOUS
  <1>4. /\ n \in Inp!Adapter /\ n.restart = net.restart /\ n.rpcs = net.rpcs
        /\ n.probe.made = net.probe.made /\ n.probe.menu = net.probe.menu
        /\ n.probe.menuSeq = net.probe.menuSeq /\ n.probe.edit = net.probe.edit
    BY <1>1, <1>2, <1>3, Serves
  <1>5. Numbers(n, own) /\ DialogKnown(n, own)
    BY <1>1, <1>2, <1>3, ServedKnown DEF InputParts
  <1>6. own.handled = n.restart => MenuKnown(n, own) /\ EditKnown(n, own)
    BY <1>1, <1>4 DEF InputParts, MenuKnown, EditKnown
  <1>7. net.restart =< n.restart
    BY <1>1, <1>4 DEF Inp!Adapter
  <1> QED
    BY <1>1, <1>3, <1>4, <1>5, <1>6, <1>7, Pumped

\* The refresh brings the screen to the snapshot, after a reset if a restart came.
LEMMA InputUpdate ==
    ASSUME ClientAssumption, Inp!IInv, Inp!Update
    PROVE  Inp!IInv'
  <1>1. /\ own \in Inp!Bridge /\ net \in Inp!Adapter /\ env \in Inp!World /\ InputParts(net, own, pc)
        /\ env' = env /\ pc' = "updated" /\ Inp!HeldRight(own)
    BY InputHas DEF Inp!Update, InputParts
  <1>2. net' = Inp!Service(net, TRUE) \/ net' = Inp!Service(net, FALSE)
    BY DEF Inp!Update
  <1>3. PICK n : n = net'
    OBVIOUS
  <1>4. /\ n \in Inp!Adapter /\ n.restart = net.restart /\ n.rpcs = net.rpcs
        /\ n.probe.made = net.probe.made /\ n.probe.menu = net.probe.menu
        /\ n.probe.menuSeq = net.probe.menuSeq /\ n.probe.edit = net.probe.edit
    BY <1>1, <1>2, <1>3, Serves
  <1>5. /\ Numbers(n, own) /\ DialogKnown(n, own) /\ n.probe.answer = 0
        /\ ~n.probe.saw => n.probe.dialog = 0 \/ n.probe.dialog = n.sent \/ n.passed
        /\ n.probe.saw => n.probe.dialog > n.sent
    BY <1>1, <1>2, <1>3, ServedKnown DEF InputParts
  <1>6. PICK p : p = n.probe
    OBVIOUS
  <1>7. /\ p \in Inp!Latches /\ n.sent \in Nat /\ n.rpcs \in Nat /\ net.restart \in Nat /\ p.dialog \in Nat
        /\ p.made \in Nat /\ p.menuSeq \in Nat /\ p.edit.seq \in Nat /\ p.edit.on \in BOOLEAN /\ p.menu \in BOOLEAN
        /\ p.saw \in BOOLEAN /\ n.probe.saw \in BOOLEAN
    BY <1>4, <1>6 DEF Inp!Adapter, Inp!Latches
  <1>8. p.saw => p.dialog # 0
    BY <1>5, <1>6, <1>7
  <1>9. PICK o : o = IF net.restart = own.handled THEN own
                     ELSE [Inp!SessionReset(own) EXCEPT !.handled = net.restart]
    OBVIOUS
  <1>10. own' = Inp!Screen(o, p)
    BY <1>3, <1>6, <1>9 DEF Inp!Update
  <1>11. /\ o \in Inp!Bridge /\ Inp!HeldRight(o) /\ o.handled = net.restart
         /\ o.menuMark = p.menuSeq /\ p.menu /\ o.menu # 0 => o.menu = p.made
         /\ o.edit => o.editMark > 0
         /\ o.edit /\ o.editMark = p.edit.seq => p.edit.on
         /\ p.edit.seq = 0 => ~o.edit
    <2>1. CASE net.restart = own.handled /\ pc # "connecting"
      <3>1. o = own /\ MenuKnown(net, own) /\ EditKnown(net, own)
        BY <1>1, <1>9, <2>1 DEF InputParts
      <3>2. own.editMark \in Nat
        BY <1>1 DEF Inp!Bridge
      <3> QED
        BY <1>1, <1>4, <1>6, <1>7, <2>1, <3>1, <3>2 DEF MenuKnown, EditKnown
    <2>2. CASE net.restart = own.handled /\ pc = "connecting"
      <3>1. o = own /\ net.probe = Inp!ResetProbe /\ ~own.edit
        BY <1>1, <1>9, <2>2 DEF InputParts
      <3>2. ~p.menu
        BY <1>4, <1>6, <3>1, ResetIs
      <3> QED
        BY <1>1, <2>2, <3>1, <3>2
    <2>3. CASE net.restart # own.handled
      <3>1. PICK s : s = Inp!SessionReset(own)
        OBVIOUS
      <3>2. s \in Inp!Bridge /\ Inp!HeldRight(s) /\ s.menu = 0 /\ ~s.edit
        BY <1>1, <3>1, ScreenReset
      <3>3. o = [s EXCEPT !.handled = net.restart]
        BY <1>9, <2>3, <3>1
      <3>4. o \in Inp!Bridge
        BY <1>7, <3>2, <3>3 DEF Inp!Bridge
      <3>5. /\ o.handled = net.restart /\ o.menu = s.menu /\ o.edit = s.edit /\ o.dialog = s.dialog
            /\ o.chat = s.chat /\ o.owner = s.owner /\ o.release = s.release /\ o.patched = s.patched
            /\ o.kept = s.kept /\ o.mouse = s.mouse /\ o.select = s.select
        BY <3>2, <3>3, <3>4 DEF Inp!Bridge
      <3>6. Inp!HeldRight(o)
        BY <3>2, <3>5 DEF Inp!HeldRight, Inp!Dialog
      <3> QED
        BY <3>2, <3>4, <3>5, <3>6
    <2> QED
      BY <2>1, <2>2, <2>3
  <1>12. PICK b : b = own'
    OBVIOUS
  <1>13. /\ b \in Inp!Bridge /\ Inp!HeldRight(b) /\ Inp!Owned(b) /\ b.handled = o.handled
         /\ b.dialog = IF p.saw THEN p.dialog ELSE 0
         /\ b.menuMark = p.menuSeq
         /\ b.menu = IF p.menu THEN (IF o.menuMark # p.menuSeq \/ o.menu = 0 THEN p.made ELSE o.menu) ELSE 0
         /\ IF p.edit.seq = 0 \/ p.edit.seq = o.editMark THEN b.edit = o.edit /\ b.editMark = o.editMark
            ELSE b.edit = p.edit.on /\ b.editMark = p.edit.seq
    BY <1>7, <1>8, <1>10, <1>11, <1>12, ScreenRefreshed
  <1>14. b.menu = IF p.menu THEN p.made ELSE 0
    BY <1>11, <1>13
  <1>15. b.edit => b.editMark = p.edit.seq /\ p.edit.on /\ p.edit.seq # 0
    BY <1>11, <1>13
  <1>16. Numbers(n, b)
    BY <1>5, <1>6, <1>7, <1>13, <1>14 DEF Numbers
  <1>17. DialogKnown(n, b)
    BY <1>5, <1>6, <1>7, <1>13 DEF DialogKnown
  <1>18. MenuKnown(n, b)
    BY <1>6, <1>7, <1>13, <1>14 DEF MenuKnown
  <1>19. b.editMark =< p.edit.seq
    <2>1. CASE p.edit.seq = 0 \/ p.edit.seq = o.editMark
      <3>1. o.editMark =< p.edit.seq
        <4>1. CASE net.restart = own.handled /\ pc # "connecting"
          BY <1>1, <1>4, <1>6, <1>9, <4>1 DEF InputParts, EditKnown
        <4>2. CASE net.restart = own.handled /\ pc = "connecting"
          BY <1>1, <1>7, <1>9, <4>2 DEF InputParts
        <4>3. CASE net.restart # own.handled
          <5>1. PICK s : s = Inp!SessionReset(own)
            OBVIOUS
          <5>2. s \in Inp!Bridge /\ s.editMark = 0
            BY <1>1, <5>1, ScreenReset
          <5>3. o.editMark = s.editMark
            BY <1>9, <4>3, <5>1, <5>2 DEF Inp!Bridge
          <5> QED
            BY <1>7, <5>2, <5>3
        <4> QED
          BY <4>1, <4>2, <4>3
      <3> QED
        BY <1>13, <2>1, <3>1
    <2>2. CASE ~(p.edit.seq = 0 \/ p.edit.seq = o.editMark)
      BY <1>7, <1>13, <2>2
    <2> QED
      BY <2>1, <2>2
  <1>20. EditKnown(n, b)
    BY <1>6, <1>7, <1>15, <1>19 DEF EditKnown
  <1>21. Shown(n, b)
    BY <1>5, <1>6, <1>7, <1>13, <1>14, <1>15 DEF DialogKnown, Shown
  <1>22. b.dialog # 0 => n.probe.saw
    BY <1>6, <1>7, <1>13
  <1>23. b.handled = n.restart /\ b.handled =< n.restart
    BY <1>4, <1>7, <1>11, <1>13
  <1>24. InputParts(n, b, "updated")
    BY <1>13, <1>16, <1>17, <1>18, <1>20, <1>21, <1>22, <1>23 DEF InputParts
  <1> QED
    BY <1>1, <1>3, <1>4, <1>12, <1>13, <1>24, InputHasAgain DEF Inp!Points

\* A new attempt begins with a fresh probe; what is left on the screen goes with the refresh.
LEMMA InputReconnect ==
    ASSUME ClientAssumption, Inp!IInv, Inp!Reconnect
    PROVE  Inp!IInv'
  <1>1. /\ own \in Inp!Bridge /\ net \in Inp!Adapter /\ env \in Inp!World /\ InputParts(net, own, pc)
        /\ env' = env /\ pc' = "connecting" /\ Inp!HeldRight(own)
    BY InputHas DEF Inp!Reconnect, InputParts
  <1>2. PICK r : r = Inp!ResetProbe
    OBVIOUS
  <1>3. net.restart \in Nat /\ net.restart + 1 \in Nat /\ net.rpcs \in Nat /\ net.sent \in Nat /\ own.menu \in Nat
    BY <1>1 DEF Inp!Adapter, Inp!Bridge
  <1>4. net' = [net EXCEPT !.probe = r, !.restart = net.restart + 1]
    BY <1>2 DEF Inp!Reconnect
  <1>5. net' \in Inp!Adapter
    BY <1>1, <1>2, <1>3, <1>4, ResetIs DEF Inp!Adapter
  <1>6. /\ net'.probe = r /\ net'.restart = net.restart + 1 /\ net'.rpcs = net.rpcs /\ net'.sent = net.sent
    BY <1>1, <1>4, <1>5 DEF Inp!Adapter
  <1>7. PICK s : s = [own EXCEPT !.dialog = 0, !.select = FALSE]
    OBVIOUS
  <1>8. s \in Inp!Bridge
    BY <1>1, <1>7 DEF Inp!Bridge
  <1>9. /\ s.dialog = 0 /\ ~s.select /\ s.menu = own.menu /\ s.chat = own.chat /\ s.owner = own.owner
        /\ s.release = own.release /\ s.patched = own.patched /\ s.kept = own.kept
    BY <1>1, <1>7, <1>8 DEF Inp!Bridge
  <1>10. Inp!HeldRight(s)
    BY <1>1, <1>9 DEF Inp!HeldRight, Inp!Dialog
  <1>11. PICK h : h = Inp!RestoreHud(s)
    OBVIOUS
  <1>12. h \in Inp!Bridge /\ SameScreen(s, h) /\ ~h.owner /\ Inp!HeldRight(h)
    BY <1>8, <1>10, <1>11, HudRestored DEF Keeps
  <1>13. PICK e : e = Inp!EditReset(h)
    OBVIOUS
  <1>14. /\ e \in Inp!Bridge /\ ~e.edit /\ e.editMark = 0 /\ Inp!HeldRight(e) /\ ~e.owner
         /\ e.dialog = h.dialog /\ e.menu = h.menu
    BY <1>12, <1>13, EditForgotten DEF Keeps
  <1>15. PICK b : b = own'
    OBVIOUS
  <1>16. b = [e EXCEPT !.owner = FALSE, !.score = FALSE, !.class = FALSE, !.handled = net.restart + 1]
    BY <1>7, <1>11, <1>13, <1>15 DEF Inp!Reconnect
  <1>17. b \in Inp!Bridge
    BY <1>3, <1>14, <1>16 DEF Inp!Bridge
  <1>18. /\ b.handled = net.restart + 1 /\ ~b.owner /\ b.edit = e.edit /\ b.editMark = e.editMark
         /\ b.dialog = e.dialog /\ b.menu = e.menu /\ b.chat = e.chat /\ b.release = e.release
         /\ b.patched = e.patched /\ b.kept = e.kept /\ b.mouse = e.mouse /\ b.select = e.select
    BY <1>14, <1>16, <1>17 DEF Inp!Bridge
  <1>19. Inp!HeldRight(b)
    BY <1>14, <1>18 DEF Inp!HeldRight, Inp!Dialog
  <1>20. b.dialog = 0 /\ b.menu = own.menu
    BY <1>9, <1>12, <1>14, <1>18 DEF SameScreen
  <1>21. Numbers(net', b)
    BY <1>1, <1>2, <1>3, <1>6, <1>20, ResetIs DEF InputParts, Numbers
  <1>22. DialogKnown(net', b)
    BY <1>1, <1>2, <1>6, <1>20, ResetIs DEF InputParts, DialogKnown
  <1>23. InputParts(net', b, "connecting")
    BY <1>2, <1>3, <1>6, <1>14, <1>18, <1>19, <1>21, <1>22 DEF InputParts
  <1> QED
    BY <1>1, <1>5, <1>15, <1>17, <1>23, InputHasAgain DEF Inp!Points

-----------------------------------------------------------------------------
\* The rest of the frame and the window messages: the marks stay, the probe but for
\* SelectTextDraw too, and what they close or open is closed or opened as it should.
LEMMA ScreenMoves ==
    ASSUME ClientAssumption, Inp!IInv, own' \in Inp!Bridge, env' \in Inp!World, net' \in Inp!Adapter,
           net'.restart = net.restart, net'.rpcs = net.rpcs, net'.sent = net.sent, net'.passed = net.passed,
           net'.probe.saw = net.probe.saw, net'.probe.dialog = net.probe.dialog,
           net'.probe.answer = net.probe.answer, net'.probe.made = net.probe.made,
           net'.probe.menu = net.probe.menu, net'.probe.menuSeq = net.probe.menuSeq,
           net'.probe.edit = net.probe.edit,
           own'.dialog = own.dialog, own'.menu = own.menu, own'.menuMark = own.menuMark,
           own'.editMark = own.editMark, own'.handled = own.handled, own'.edit => own.edit,
           Keeps(own, own'), pc \in {"updated", "drawn", "idle"}, pc' \in {pc, "drawn", "idle"}
    PROVE  Inp!IInv'
  <1>1. InputParts(net, own, pc)
    BY InputHas
  <1>2. Numbers(net', own') /\ DialogKnown(net', own') /\ MenuKnown(net', own') /\ EditKnown(net', own')
    BY <1>1 DEF InputParts, Numbers, DialogKnown, MenuKnown, EditKnown
  <1>3. pc' = "updated" => Shown(net', own')
    BY <1>1 DEF InputParts, Shown
  <1>4. InputParts(net', own', pc')
    BY <1>1, <1>2, <1>3 DEF InputParts, Keeps
  <1> QED
    BY <1>4, InputHasAgain DEF Inp!Points

\* The same of steps that leave the adapter alone.
LEMMA ScreenMovesAlone ==
    ASSUME ClientAssumption, Inp!IInv, own' \in Inp!Bridge, env' \in Inp!World, net' = net,
           SameScreen(own, own') \/ own' = Inp!EditClose(own),
           Keeps(own, own'), pc \in {"updated", "drawn", "idle"}, pc' \in {pc, "drawn", "idle"}
    PROVE  Inp!IInv'
  <1>1. own \in Inp!Bridge /\ net \in Inp!Adapter
    BY InputHas
  <1>2. /\ own'.dialog = own.dialog /\ own'.menu = own.menu /\ own'.menuMark = own.menuMark
        /\ own'.editMark = own.editMark /\ own'.handled = own.handled /\ (own'.edit => own.edit)
    BY <1>1, EditCloses DEF SameScreen
  <1> QED
    BY <1>1, <1>2, ScreenMoves

\* Drawing keeps it: scoreboard, controls and class selection, in that order.
LEMMA InputDraw ==
    ASSUME ClientAssumption, Inp!IInv, Inp!Draw \/ Inp!SpawnFinalize
    PROVE  Inp!IInv'
  <1>1. own \in Inp!Bridge /\ env \in Inp!World /\ Inp!HeldRight(own)
    BY InputHas DEF InputParts
  <1>2. CASE Inp!SpawnFinalize
    <2>1. own' = Inp!ClearSelect(own) /\ net' = net /\ env' = env /\ pc' = pc /\ pc = "updated"
      BY <1>2 DEF Inp!SpawnFinalize
    <2>2. own' \in Inp!Bridge /\ SameScreen(own, own') /\ Keeps(own, own')
      BY <1>1, <2>1, SelectCleared
    <2> QED
      BY <1>1, <2>1, <2>2, ScreenMovesAlone
  <1>3. CASE Inp!Draw
    <2>1. PICK h : h = Inp!UpdateHud(own)
      OBVIOUS
    <2>2. PICK c : c = Inp!Controls(h)
      OBVIOUS
    <2>3. own' = Inp!ClassMouse(c) /\ net' = net /\ env' = env /\ pc' = "drawn" /\ pc = "updated"
      BY <1>3, <2>1, <2>2 DEF Inp!Draw
    <2>4. /\ h \in Inp!Bridge /\ SameScreen(own, h) /\ Keeps(own, h)
          /\ (h.owner <=> Inp!ScoreShown(h) /\ ~env.gta)
      BY <1>1, <2>1, HudRefreshed
    <2>5. Inp!HeldRight(h)
      BY <1>1, <2>4 DEF Keeps
    <2>6. /\ c \in Inp!Bridge /\ SameScreen(h, c) /\ Inp!HeldRight(c) /\ (Inp!Owned(h) => Inp!Owned(c))
      BY <2>2, <2>4, <2>5, ControlsCounted
    <2>7. own' \in Inp!Bridge /\ SameScreen(c, own') /\ Keeps(c, own')
      BY <1>1, <2>3, <2>6, ClassTakesMouse
    <2>8. SameScreen(own, own')
      BY <2>4, <2>6, <2>7 DEF SameScreen
    <2>9. Keeps(own, own')
      BY <2>4, <2>6, <2>7 DEF Keeps
    <2> QED
      BY <1>1, <2>3, <2>7, <2>8, <2>9, ScreenMovesAlone
  <1> QED
    BY <1>2, <1>3

\* Window messages that change the screen or the keys alone.
LEMMA InputKeys ==
    ASSUME ClientAssumption, Inp!IInv,
           \/ Inp!UnderGtaMenu \/ Inp!AnswerEdit \/ Inp!EscapeTextDraw \/ Inp!ScoreClick
           \/ Inp!OpenChat \/ Inp!EndChat \/ Inp!TabUp
    PROVE  Inp!IInv'
  <1>1. own \in Inp!Bridge /\ env \in Inp!World
    BY InputHas
  <1>2. SUFFICES /\ own' \in Inp!Bridge /\ Keeps(own, own') /\ env' \in Inp!World
                 /\ SameScreen(own, own') \/ own' = Inp!EditClose(own)
    <2>1. pc \in {"drawn", "idle"} /\ net' = net /\ pc' = "idle"
      BY DEF Inp!UnderGtaMenu, Inp!AnswerEdit, Inp!EscapeTextDraw, Inp!ScoreClick, Inp!OpenChat,
             Inp!EndChat, Inp!TabUp, Inp!Message, Inp!NoMenu, Inp!Free, Inp!Reads, Inp!Between
    <2> QED
      BY <1>2, <2>1, ScreenMovesAlone
  <1>3. CASE Inp!UnderGtaMenu
    <2>1. PICK c : c = Inp!ChatClose(own)
      OBVIOUS
    <2>2. c \in Inp!Bridge /\ SameScreen(own, c) /\ Keeps(own, c)
      BY <1>1, <2>1, ChatCloses
    <2>3. (own' = c \/ own' = Inp!ClearSelect(c)) /\ env' = env
      BY <1>3, <2>1 DEF Inp!UnderGtaMenu, Inp!Message
    <2>4. CASE own' = c
      BY <1>1, <2>2, <2>3, <2>4
    <2>5. CASE own' = Inp!ClearSelect(c)
      <3>1. own' \in Inp!Bridge /\ SameScreen(c, own') /\ Keeps(c, own')
        BY <2>2, <2>5, SelectCleared
      <3>2. SameScreen(own, own')
        BY <2>2, <3>1 DEF SameScreen
      <3>3. Keeps(own, own')
        BY <2>2, <3>1 DEF Keeps
      <3> QED
        BY <1>1, <2>3, <3>1, <3>2, <3>3
    <2> QED
      BY <2>3, <2>4, <2>5
  <1>4. CASE Inp!AnswerEdit
    <2>1. own' = Inp!EditClose(own) /\ env' = env
      BY <1>4 DEF Inp!AnswerEdit, Inp!Message
    <2> QED
      BY <1>1, <2>1, EditCloses
  <1>5. CASE Inp!EscapeTextDraw
    <2>1. own' = Inp!ClearSelect(own) /\ env' = env
      BY <1>5 DEF Inp!EscapeTextDraw, Inp!Message
    <2> QED
      BY <1>1, <2>1, SelectCleared
  <1>6. CASE Inp!ScoreClick
    <2>1. own' = Inp!ScoreMouse(own) /\ env' = env
      BY <1>6 DEF Inp!ScoreClick, Inp!Message
    <2> QED
      BY <1>1, <2>1, ScoreTakesMouse
  <1>7. CASE Inp!OpenChat
    <2>1. own' = Inp!ChatOpen(own) /\ env' = env /\ ~own.chat /\ ~Inp!Dialog(own)
      BY <1>7 DEF Inp!OpenChat, Inp!Free, Inp!Message
    <2> QED
      BY <1>1, <2>1, ChatOpens
  <1>8. CASE Inp!EndChat
    <2>1. own' = Inp!ChatClose(own) /\ env' = env
      BY <1>8 DEF Inp!EndChat, Inp!Message
    <2> QED
      BY <1>1, <2>1, ChatCloses
  <1>9. CASE Inp!TabUp
    <2>1. (own' = own \/ own' = Inp!RestoreHud(own)) /\ env' = [env EXCEPT !.tab = FALSE]
      BY <1>9 DEF Inp!TabUp
    <2>2. env' \in Inp!World
      BY <1>1, <2>1 DEF Inp!World
    <2>3. CASE own' = own
      BY <1>1, <2>2, <2>3 DEF SameScreen, Keeps
    <2>4. CASE own' = Inp!RestoreHud(own)
      BY <1>1, <2>2, <2>4, HudRestored
    <2> QED
      BY <2>1, <2>3, <2>4
  <1> QED
    BY <1>3, <1>4, <1>5, <1>6, <1>7, <1>8, <1>9

\* Tab, the menu of GTA and the choice of classes keep it.
LEMMA InputSwitches ==
    ASSUME ClientAssumption, Inp!IInv, Inp!TabDown \/ Inp!GtaMenu \/ Inp!ClassSelection
    PROVE  Inp!IInv'
  <1>1. own \in Inp!Bridge /\ env \in Inp!World
    BY InputHas
  <1>2. /\ net' = net /\ own' = own /\ pc \in {"updated", "drawn", "idle"} /\ pc' \in {pc, "drawn", "idle"}
    BY DEF Inp!TabDown, Inp!GtaMenu, Inp!ClassSelection, Inp!Between
  <1>3. env' \in Inp!World
    BY <1>1 DEF Inp!TabDown, Inp!GtaMenu, Inp!ClassSelection, Inp!World
  <1>4. SameScreen(own, own') /\ Keeps(own, own')
    BY <1>2 DEF SameScreen, Keeps
  <1> QED
    BY <1>1, <1>2, <1>3, <1>4, ScreenMovesAlone

\* An answer closes the dialog and waits for the service routine.
LEMMA InputAnswersDialog ==
    ASSUME ClientAssumption, Inp!IInv, Inp!AnswerDialog
    PROVE  Inp!IInv'
  <1>1. /\ own \in Inp!Bridge /\ net \in Inp!Adapter /\ env \in Inp!World /\ InputParts(net, own, pc)
        /\ own' = Inp!DialogClose(own) /\ env' = env /\ pc' = "idle" /\ pc \in {"drawn", "idle"}
        /\ own.dialog # 0
    BY InputHas DEF Inp!AnswerDialog, Inp!Message, Inp!Reads, Inp!Between, Inp!Dialog
  <1>2. /\ own' \in Inp!Bridge /\ own'.dialog = 0
        /\ own'.menu = own.menu /\ own'.menuMark = own.menuMark
        /\ own'.edit = own.edit /\ own'.editMark = own.editMark /\ own'.handled = own.handled
        /\ (Inp!HeldRight(own) => Inp!HeldRight(own')) /\ Inp!Owned(own')
    BY <1>1, DialogCloses
  <1>3. PICK l : l = net.probe
    OBVIOUS
  <1>4. PICK p : p = [l EXCEPT !.answer = own.dialog]
    OBVIOUS
  <1>5. l \in Inp!Latches /\ own.dialog \in Nat /\ net.rpcs \in Nat
    BY <1>1, <1>3 DEF Inp!Adapter, Inp!Bridge
  <1>6. p \in Inp!Latches
    BY <1>4, <1>5 DEF Inp!Latches
  <1>7. /\ p.saw = l.saw /\ p.dialog = l.dialog /\ p.answer = own.dialog /\ p.made = l.made
        /\ p.menu = l.menu /\ p.menuSeq = l.menuSeq /\ p.edit = l.edit
    BY <1>4, <1>5, <1>6 DEF Inp!Latches
  <1>8. net' = [net EXCEPT !.probe = p]
    BY <1>1, <1>3, <1>4 DEF Inp!AnswerDialog, Inp!Adapter
  <1>9. net' \in Inp!Adapter
    BY <1>1, <1>6, <1>8 DEF Inp!Adapter
  <1>10. /\ net'.probe = p /\ net'.restart = net.restart /\ net'.rpcs = net.rpcs /\ net'.sent = net.sent
         /\ net'.passed = net.passed
    BY <1>1, <1>8, <1>9 DEF Inp!Adapter
  <1>11. Numbers(net', own')
    BY <1>1, <1>2, <1>3, <1>5, <1>7, <1>10 DEF InputParts, Numbers
  <1>12. DialogKnown(net', own')
    BY <1>1, <1>2, <1>3, <1>7, <1>10 DEF InputParts, DialogKnown
  <1>13. MenuKnown(net', own') /\ EditKnown(net', own')
    BY <1>1, <1>2, <1>3, <1>7, <1>10 DEF InputParts, MenuKnown, EditKnown
  <1>14. InputParts(net', own', "idle")
    BY <1>1, <1>2, <1>10, <1>11, <1>12, <1>13 DEF InputParts
  <1> QED
    BY <1>1, <1>2, <1>9, <1>14, InputHasAgain DEF Inp!Points

\* A choice hides the menu on both sides.
LEMMA InputAnswersMenu ==
    ASSUME ClientAssumption, Inp!IInv, Inp!AnswerMenu
    PROVE  Inp!IInv'
  <1>1. /\ own \in Inp!Bridge /\ net \in Inp!Adapter /\ env \in Inp!World /\ InputParts(net, own, pc)
        /\ own' = [own EXCEPT !.menu = 0] /\ env' = env /\ pc' = "idle" /\ pc \in {"drawn", "idle"}
    BY InputHas DEF Inp!AnswerMenu, Inp!Message, Inp!Free, Inp!Reads, Inp!Between
  <1>2. own' \in Inp!Bridge
    BY <1>1 DEF Inp!Bridge
  <1>3. /\ own'.menu = 0 /\ own'.dialog = own.dialog /\ own'.menuMark = own.menuMark
        /\ own'.edit = own.edit /\ own'.editMark = own.editMark /\ own'.handled = own.handled
        /\ own'.chat = own.chat /\ own'.owner = own.owner /\ own'.release = own.release
        /\ own'.patched = own.patched /\ own'.kept = own.kept /\ own'.mouse = own.mouse
        /\ own'.select = own.select /\ own'.class = own.class /\ own'.score = own.score
    BY <1>1, <1>2 DEF Inp!Bridge
  <1>4. Keeps(own, own')
    BY <1>3 DEF Keeps, Inp!HeldRight, Inp!Owned, Inp!Dialog
  <1>5. PICK l : l = net.probe
    OBVIOUS
  <1>6. PICK p : p = [l EXCEPT !.menu = FALSE, !.menuSeq = l.menuSeq + 1]
    OBVIOUS
  <1>7. l \in Inp!Latches /\ l.menuSeq \in Nat /\ l.menuSeq + 1 \in Nat /\ own.menuMark \in Nat /\ net.rpcs \in Nat
    BY <1>1, <1>5 DEF Inp!Adapter, Inp!Latches, Inp!Bridge
  <1>8. p \in Inp!Latches
    BY <1>6, <1>7 DEF Inp!Latches
  <1>9. /\ p.saw = l.saw /\ p.dialog = l.dialog /\ p.answer = l.answer /\ p.made = l.made
        /\ p.menuSeq = l.menuSeq + 1 /\ p.edit = l.edit
    BY <1>6, <1>7, <1>8 DEF Inp!Latches
  <1>10. net' = [net EXCEPT !.probe = p]
    BY <1>1, <1>5, <1>6, <1>7 DEF Inp!AnswerMenu, Inp!Adapter, Inp!Latches
  <1>11. net' \in Inp!Adapter
    BY <1>1, <1>8, <1>10 DEF Inp!Adapter
  <1>12. /\ net'.probe = p /\ net'.restart = net.restart /\ net'.rpcs = net.rpcs /\ net'.sent = net.sent
         /\ net'.passed = net.passed
    BY <1>1, <1>10, <1>11 DEF Inp!Adapter
  <1>13. Numbers(net', own')
    BY <1>1, <1>3, <1>5, <1>7, <1>9, <1>12 DEF InputParts, Numbers
  <1>14. DialogKnown(net', own')
    BY <1>1, <1>3, <1>5, <1>9, <1>12 DEF InputParts, DialogKnown
  <1>15. MenuKnown(net', own')
    BY <1>1, <1>3, <1>5, <1>7, <1>9, <1>12 DEF InputParts, MenuKnown
  <1>16. EditKnown(net', own')
    BY <1>1, <1>3, <1>5, <1>9, <1>12 DEF InputParts, EditKnown
  <1>17. InputParts(net', own', "idle")
    BY <1>1, <1>3, <1>4, <1>5, <1>9, <1>12, <1>13, <1>14, <1>15, <1>16 DEF InputParts, Keeps
  <1> QED
    BY <1>1, <1>2, <1>11, <1>17, InputHasAgain DEF Inp!Points

\* A click ends SelectTextDraw on both sides.
LEMMA InputClicks ==
    ASSUME ClientAssumption, Inp!IInv, Inp!ClickTextDraw
    PROVE  Inp!IInv'
  <1>1. /\ own \in Inp!Bridge /\ net \in Inp!Adapter /\ env \in Inp!World
        /\ own' = Inp!ClearSelect(own) /\ env' = env /\ pc' = "idle" /\ pc \in {"drawn", "idle"}
    BY InputHas DEF Inp!ClickTextDraw, Inp!Message, Inp!Free, Inp!Reads, Inp!Between
  <1>2. own' \in Inp!Bridge /\ SameScreen(own, own') /\ Keeps(own, own')
    BY <1>1, SelectCleared
  <1>3. PICK l : l = net.probe
    OBVIOUS
  <1>4. PICK p : p = [l EXCEPT !.select = FALSE]
    OBVIOUS
  <1>5. l \in Inp!Latches
    BY <1>1, <1>3 DEF Inp!Adapter
  <1>6. p \in Inp!Latches
    BY <1>4, <1>5 DEF Inp!Latches
  <1>7. /\ p.saw = l.saw /\ p.dialog = l.dialog /\ p.answer = l.answer /\ p.made = l.made
        /\ p.menu = l.menu /\ p.menuSeq = l.menuSeq /\ p.edit = l.edit
    BY <1>4, <1>5, <1>6 DEF Inp!Latches
  <1>8. net' = [net EXCEPT !.probe = p]
    BY <1>1, <1>3, <1>4 DEF Inp!ClickTextDraw, Inp!Adapter
  <1>9. net' \in Inp!Adapter
    BY <1>1, <1>6, <1>8 DEF Inp!Adapter
  <1>10. /\ net'.probe = p /\ net'.restart = net.restart /\ net'.rpcs = net.rpcs /\ net'.sent = net.sent
         /\ net'.passed = net.passed
    BY <1>1, <1>8, <1>9 DEF Inp!Adapter
  <1> QED
    BY <1>1, <1>2, <1>3, <1>7, <1>9, <1>10, ScreenMoves DEF SameScreen

\* It holds at first.
LEMMA InputInit ==
    ASSUME ClientAssumption, Inp!Init
    PROVE  Inp!IInv
  <1>1. 0 \in 0 .. ReleaseFrames /\ MaxEvents \in Nat
    BY DEF ClientAssumption
  <1>2. PICK z \in 0 .. ReleaseFrames : z = 0
    BY <1>1
  <1>3. net \in Inp!Adapter
    BY ResetIs DEF Inp!Init, Inp!Adapter
  <1>4. own \in Inp!Bridge
    BY <1>2 DEF Inp!Init, Inp!Bridge
  <1>5. env \in Inp!World /\ pc = "idle"
    BY DEF Inp!Init, Inp!World
  <1>6. /\ net.probe = Inp!ResetProbe /\ net.rpcs = 0 /\ net.sent = 0 /\ net.restart = 0
        /\ own.dialog = 0 /\ own.menu = 0 /\ own.menuMark = 0 /\ ~own.edit /\ own.editMark = 0
        /\ own.handled = 0 /\ ~own.chat /\ ~own.owner /\ ~own.patched /\ ~own.mouse /\ ~own.select
    BY DEF Inp!Init
  <1>7. Inp!NumbersGiven
    BY <1>1, <1>6, ResetIs DEF Inp!NumbersGiven
  <1>8. Inp!SessionKnown /\ Inp!HeldRight(own) /\ Inp!Owned(own)
    BY <1>5, <1>6 DEF Inp!SessionKnown, Inp!HeldRight, Inp!Owned, Inp!Dialog
  <1>9. Inp!DialogOpen
    BY <1>5, <1>6, ResetIs DEF Inp!DialogOpen, Inp!Dialog
  <1>10. Inp!MenuFollows /\ Inp!EditFollows
    BY <1>5, <1>6, ResetIs DEF Inp!MenuFollows, Inp!EditFollows, Inp!Current
  <1> QED
    BY <1>3, <1>4, <1>5, <1>7, <1>8, <1>9, <1>10 DEF Inp!IInv, Inp!Fields, Inp!Points

\* Every step of Input keeps it.
LEMMA InputStep ==
    ASSUME ClientAssumption, Inp!IInv, Inp!Next
    PROVE  Inp!IInv'
  BY InputRpcs, InputDialog, InputRestart, InputService, InputUpdate, InputReconnect, InputDraw,
     InputKeys, InputSwitches, InputAnswersDialog, InputAnswersMenu, InputClicks DEF Inp!Next

\* The invariant of the part that owns mouse, keys and controls.
InputInv == part = "input" => Inp!IInv

\* The inductive invariant of Input holds for any number of RPCs, restarts and release frames.
THEOREM InputInvariant == Spec => []InputInv
  <1>1. Init => InputInv
    <2> SUFFICES ASSUME Init, part = "input" PROVE Inp!IInv
      BY DEF InputInv
    <2>1. Inp!Init
      BY DEF Init
    <2> QED
      BY <2>1, ClientAssumption, InputInit
  <1>2. ASSUME InputInv, [Next]_vars PROVE InputInv'
    <2> SUFFICES ASSUME part' = "input" PROVE Inp!IInv'
      BY DEF InputInv
    <2>1. CASE Next
      <3>1. part = "input" /\ Inp!Next
        BY <2>1 DEF Next
      <3> QED
        BY <1>2, <3>1, ClientAssumption, InputStep DEF InputInv
    <2>2. CASE UNCHANGED vars
      <3>1. part = "input" /\ net' = net /\ own' = own /\ env' = env /\ pc' = pc
        BY <2>2 DEF vars
      <3>2. Inp!IInv
        BY <1>2, <3>1 DEF InputInv
      <3>3. InputParts(net', own', pc') /\ net' \in Inp!Adapter /\ own' \in Inp!Bridge /\ env' \in Inp!World
            /\ pc' \in Inp!Points
        BY <3>1, <3>2, InputHas
      <3> QED
        BY <3>3, ClientAssumption, InputHasAgain
    <2> QED
      BY <1>2, <2>1, <2>2
  <1> QED
    BY <1>1, <1>2, PTL DEF Spec

\* After the refresh of each frame the screen shows the dialog, the menu and the editing of
\* the snapshot, and no dialog just where the answer to the one before took it along
\* (dialog_compat_update_from_snapshot and the service routine's first part).
THEOREM HalvesAgree == Spec => []DialogsAgree
  <1>1. ASSUME InputInv PROVE DialogsAgree
    <2> SUFFICES ASSUME part = "input" PROVE Inp!DialogsAgree
      BY DEF DialogsAgree
    <2>1. Inp!IInv
      BY <1>1 DEF InputInv
    <2>2. net.probe.answer # 0 => net.probe.answer > net.sent
      BY <2>1 DEF Inp!IInv, Inp!DialogOpen
    <2>3. CASE pc = "updated"
      <3>1. /\ own.handled = net.restart /\ Inp!Current
            /\ IF net.passed THEN own.dialog = 0 ELSE net.probe.dialog \in {own.dialog, net.sent}
            /\ own.menu = IF net.probe.menu THEN net.probe.made ELSE 0
            /\ own.edit => own.editMark = net.probe.edit.seq
        BY <2>1, <2>3 DEF Inp!IInv, Inp!SessionKnown, Inp!DialogOpen, Inp!MenuFollows, Inp!EditFollows, Inp!Current
      <3>2. own.edit => net.probe.edit.on
        BY <2>1, <3>1 DEF Inp!IInv, Inp!EditFollows
      <3> QED
        BY <2>2, <3>1, <3>2 DEF Inp!DialogsAgree
    <2> QED
      BY <2>2, <2>3 DEF Inp!DialogsAgree
  <1> QED
    BY <1>1, InputInvariant, PTL

\* The mouse is held for a reason, and GTA gets its controls back (the release count of
\* chat_input_game_controls_update_compat).
THEOREM InputReturned == Spec => []InputGivenBack
  <1>1. ASSUME InputInv PROVE InputGivenBack
    <2> SUFFICES ASSUME part = "input" PROVE Inp!MouseHasOwner /\ Inp!ControlsReturn
      BY DEF InputGivenBack
    <2>1. Inp!HeldRight(own) /\ (pc = "drawn" => Inp!Owned(own))
      BY <1>1 DEF InputInv, Inp!IInv
    <2> QED
      BY <2>1 DEF Inp!HeldRight, Inp!Owned, Inp!MouseHasOwner, Inp!ControlsReturn
  <1> QED
    BY <1>1, InputInvariant, PTL

-----------------------------------------------------------------------------
(* Overlay.  A frame goes through the text draws with a recursive function;    *)
(* what it computes is followed by induction, about the set of numbers for     *)
(* which the claim holds.                                                     *)

-----------------------------------------------------------------------------
(* What is counted. *)

\* What Overlay counts with is the cardinality of FiniteSets.
LEMMA CardinalityIs ==
    ASSUME NEW S
    PROVE  Ovl!Cardinality(S) = Cardinality(S)
  BY DEF Ovl!Cardinality, Cardinality

\* The text draws are finitely many.
LEMMA IdsFinite == IsFiniteSet(Ovl!Ids)
  BY ClientAssumption, FS_Interval DEF Ovl!Ids

\* Two tables that hold pictures at the same text draws hold as many.
LEMMA HeldSame ==
    ASSUME NEW a, NEW b,
           \A i \in Ovl!Ids : (a[i].texture # Ovl!None) <=> (b[i].texture # Ovl!None)
    PROVE  Ovl!Held(a) = Ovl!Held(b)
  <1>1. {i \in Ovl!Ids : a[i].texture # Ovl!None} = {i \in Ovl!Ids : b[i].texture # Ovl!None}
    OBVIOUS
  <1> QED
    BY <1>1 DEF Ovl!Held

\* A table without a picture holds none.
LEMMA HeldNone ==
    ASSUME NEW a, \A i \in Ovl!Ids : a[i].texture = Ovl!None
    PROVE  Ovl!Held(a) = 0
  <1>1. {i \in Ovl!Ids : a[i].texture # Ovl!None} = {}
    OBVIOUS
  <1>2. Cardinality({}) = 0
    BY FS_EmptySet
  <1> QED
    BY <1>1, <1>2, CardinalityIs DEF Ovl!Held

\* One picture more is one more.
LEMMA HeldMore ==
    ASSUME NEW a, NEW b, NEW i \in Ovl!Ids, a[i].texture = Ovl!None, b[i].texture # Ovl!None,
           \A j \in Ovl!Ids \ {i} : (a[j].texture # Ovl!None) <=> (b[j].texture # Ovl!None)
    PROVE  /\ Ovl!Held(a) \in Nat /\ Ovl!Held(b) = Ovl!Held(a) + 1
  <1> DEFINE A == {j \in Ovl!Ids : a[j].texture # Ovl!None}
             B == {j \in Ovl!Ids : b[j].texture # Ovl!None}
  <1>1. IsFiniteSet(A)
    BY IdsFinite, FS_Subset
  <1>2. B = A \cup {i} /\ i \notin A
    OBVIOUS
  <1>3. Cardinality(A) \in Nat /\ Cardinality(A \cup {i}) = Cardinality(A) + 1
    <2> HIDE DEF A, B
    <2>1. Cardinality(A) \in Nat
      BY <1>1, FS_CardinalityType
    <2>2. Cardinality(A \cup {i}) = Cardinality(A) + 1
      BY <1>1, <1>2, FS_AddElement
    <2> QED
      BY <2>1, <2>2
  <1> QED
    BY <1>2, <1>3, CardinalityIs DEF Ovl!Held

\* How many a table holds is a number.
LEMMA HeldType ==
    ASSUME NEW a
    PROVE  Ovl!Held(a) \in Nat
  <1> DEFINE A == {j \in Ovl!Ids : a[j].texture # Ovl!None}
  <1>1. A \in SUBSET Ovl!Ids
    OBVIOUS
  <1>2. IsFiniteSet(A)
    BY <1>1, IdsFinite, FS_Subset
  <1>3. Cardinality(A) \in Nat
    BY <1>2, FS_CardinalityType
  <1> QED
    BY <1>3, CardinalityIs DEF Ovl!Held

-----------------------------------------------------------------------------
(* Releasing. *)

\* What most operators leave alone: a text draw stays shown or hidden, and gets no picture.
SameShown(s, r) == \A i \in Ovl!Ids : r.slots[i].active = s.slots[i].active
NoneNew(s, r) ==
    /\ SameShown(s, r)
    /\ \A i \in Ovl!Ids : s.slots[i].texture = Ovl!None => r.slots[i].texture = Ovl!None
Bared(s, r) == SameShown(s, r) /\ \A i \in Ovl!Ids : r.slots[i].texture = Ovl!None

\* No texture and no camera is None: None has a device of its own.
LEMMA NoneIsNone ==
    /\ Ovl!None \notin Ovl!Texture /\ Ovl!None \notin Ovl!Camera
    /\ \A device \in Ovl!Devices : device # "none"
    /\ Ovl!One(TRUE) = 1 /\ Ovl!One(FALSE) = 0
  <1>1. Ovl!None.device = "none"
    BY DEF Ovl!None
  <1>2. \A x \in Ovl!Texture \cup Ovl!Camera : x.device \in Ovl!Devices
    BY DEF Ovl!Texture, Ovl!Camera
  <1>3. "none" \notin Ovl!Devices
    BY DEF Ovl!Devices
  <1> QED
    BY <1>1, <1>2, <1>3 DEF Ovl!One

\* A bare slot shows what it showed, without a picture.
LEMMA BareIs ==
    ASSUME NEW x \in Ovl!Slot
    PROVE  /\ Ovl!Bare(x) \in Ovl!Slot /\ Ovl!Bare(x).texture = Ovl!None
           /\ Ovl!Bare(x).active = x.active /\ Ovl!Bare(x).seq = x.seq /\ Ovl!Bare(x).shown = x.shown
           /\ Ovl!Bare(x).resource = 0 /\ Ovl!Bare(x).retry = 0
  <1>1. 0 \in 0 .. MaxEvents /\ 0 \in 0 .. RetryTicks
    BY ClientAssumption
  <1>2. Ovl!Bare(x) \in Ovl!Slot
    BY <1>1 DEF Ovl!Bare, Ovl!Slot
  <1> QED
    BY <1>2 DEF Ovl!Bare, Ovl!Slot

\* What may be said of a screen whose text draws, counts and camera are given.
LEMMA WholeHas ==
    ASSUME NEW s, Ovl!Whole(s)
    PROVE  /\ s.slots \in [Ovl!Ids -> Ovl!Slot] /\ s.context \in Ovl!Camera \cup {Ovl!None}
           /\ s.chat \in Ovl!Devices \cup {"none"} /\ s.text \in Ovl!Devices \cup {"none"}
           /\ s.alive \in [pictures : Int, contexts : Int, fonts : Int]
           /\ s.alive.pictures = Ovl!Held(s.slots) /\ s.alive.contexts = Ovl!One(s.context # Ovl!None)
           /\ s.alive.fonts = Ovl!One(s.chat # "none") + Ovl!One(s.text # "none")
           /\ Ovl!PicturesFit(s) /\ s \in Ovl!Screen
  BY DEF Ovl!Whole, Ovl!Screen, Ovl!Counts

\* And what it takes.
LEMMA WholeIs ==
    ASSUME NEW s \in Ovl!Screen,
           s.alive.pictures = Ovl!Held(s.slots), s.alive.contexts = Ovl!One(s.context # Ovl!None),
           s.alive.fonts = Ovl!One(s.chat # "none") + Ovl!One(s.text # "none"), Ovl!PicturesFit(s)
    PROVE  Ovl!Whole(s)
  <1>1. s.alive = Ovl!Counts(s)
    BY DEF Ovl!Screen, Ovl!Counts
  <1> QED
    BY <1>1 DEF Ovl!Whole

\* A text draw's picture is released.
LEMMA ReleaseSlotKeeps ==
    ASSUME NEW s, Ovl!Whole(s), NEW i \in Ovl!Ids, NEW r, r = Ovl!ReleaseSlot(s, i)
    PROVE  /\ Ovl!Whole(r) /\ r.context = s.context /\ r.chat = s.chat /\ r.text = s.text
           /\ r.slots[i].texture = Ovl!None /\ NoneNew(s, r)
  <1> DEFINE there == s.slots[i].texture # Ovl!None
  <1>1. /\ s \in Ovl!Screen /\ s.slots \in [Ovl!Ids -> Ovl!Slot]
        /\ s.alive \in [pictures : Int, contexts : Int, fonts : Int] /\ Ovl!One(there) \in {0, 1}
    BY WholeHas DEF Ovl!One
  <1>2. PICK x : x = Ovl!Bare(s.slots[i])
    OBVIOUS
  <1>3. x \in Ovl!Slot /\ x.texture = Ovl!None /\ x.active = s.slots[i].active
    BY <1>1, <1>2, BareIs
  <1>4. PICK n : n = s.alive.pictures - Ovl!One(there)
    OBVIOUS
  <1>5. n \in Int
    BY <1>1, <1>4
  <1>6. r = [s EXCEPT !.slots = [s.slots EXCEPT ![i] = x], !.alive = [s.alive EXCEPT !.pictures = n]]
    BY <1>1, <1>2, <1>4 DEF Ovl!ReleaseSlot, Ovl!Screen
  <1>7. PICK slots : slots = [s.slots EXCEPT ![i] = x]
    OBVIOUS
  <1>8. slots \in [Ovl!Ids -> Ovl!Slot] /\ slots[i] = x /\ \A j \in Ovl!Ids \ {i} : slots[j] = s.slots[j]
    BY <1>1, <1>3, <1>7
  <1>9. PICK alive : alive = [s.alive EXCEPT !.pictures = n]
    OBVIOUS
  <1>10. /\ alive \in [pictures : Int, contexts : Int, fonts : Int] /\ alive.pictures = n
         /\ alive.contexts = s.alive.contexts /\ alive.fonts = s.alive.fonts
    BY <1>1, <1>5, <1>9
  <1>11. r = [s EXCEPT !.slots = slots, !.alive = alive]
    BY <1>6, <1>7, <1>9
  <1>12. r \in Ovl!Screen
    BY <1>1, <1>8, <1>10, <1>11 DEF Ovl!Screen
  <1>13. /\ r.slots = slots /\ r.alive = alive /\ r.context = s.context /\ r.chat = s.chat /\ r.text = s.text
    BY <1>1, <1>11 DEF Ovl!Screen
  <1>w. s.alive.pictures = Ovl!Held(s.slots)
    BY WholeHas
  <1>14. n = Ovl!Held(slots)
    <2>1. CASE there
      <3>1. Ovl!Held(slots) \in Nat /\ Ovl!Held(s.slots) = Ovl!Held(slots) + 1
        <4>1. \A j \in Ovl!Ids \ {i} : (slots[j].texture # Ovl!None) <=> (s.slots[j].texture # Ovl!None)
          BY <1>8
        <4>2. slots[i].texture = Ovl!None /\ s.slots[i].texture # Ovl!None
          BY <2>1, <1>3, <1>8
        <4>3. PICK a, b : a = slots /\ b = s.slots
          OBVIOUS
        <4>4. Ovl!Held(a) \in Nat /\ Ovl!Held(b) = Ovl!Held(a) + 1
          BY <4>1, <4>2, <4>3, HeldMore
        <4> QED
          BY <4>3, <4>4
      <3>2. Ovl!One(there) = 1
        BY <2>1 DEF Ovl!One
      <3> QED
        BY <3>1, <3>2, <1>4, <1>w
    <2>2. CASE ~there
      <3>1. Ovl!Held(s.slots) = Ovl!Held(slots)
        <4>1. \A j \in Ovl!Ids : (s.slots[j].texture # Ovl!None) <=> (slots[j].texture # Ovl!None)
          BY <2>2, <1>3, <1>8
        <4>2. PICK a, b : a = slots /\ b = s.slots
          OBVIOUS
        <4>3. \A j \in Ovl!Ids : (a[j].texture # Ovl!None) <=> (b[j].texture # Ovl!None)
          BY <4>1, <4>2
        <4> QED
          BY <4>2, <4>3, HeldSame
      <3>2. Ovl!One(there) = 0
        BY <2>2 DEF Ovl!One
      <3> QED
        BY <3>1, <3>2, <1>1, <1>4, <1>w
    <2> QED
      BY <2>1, <2>2
  <1>15. Ovl!PicturesFit(r)
    BY <1>3, <1>8, <1>13, WholeHas DEF Ovl!PicturesFit
  <1>16. Ovl!Whole(r)
    BY <1>10, <1>12, <1>13, <1>14, <1>15, WholeHas, WholeIs
  <1> QED
    BY <1>3, <1>8, <1>13, <1>16 DEF NoneNew, SameShown

\* The camera and every picture are released; a text draw keeps what it shows.
LEMMA ReleaseAllKeeps ==
    ASSUME NEW s, Ovl!Whole(s), NEW r, r = Ovl!ReleaseAll(s)
    PROVE  /\ Ovl!Whole(r)
           /\ r.context = Ovl!None /\ r.chat = s.chat /\ r.text = s.text
           /\ Bared(s, r)
           /\ r.alive.pictures = 0 /\ r.alive.contexts = 0
  <1>1. /\ s \in Ovl!Screen /\ s.slots \in [Ovl!Ids -> Ovl!Slot]
        /\ s.alive \in [pictures : Int, contexts : Int, fonts : Int]
    BY WholeHas
  <1>2. PICK slots : slots = [i \in Ovl!Ids |-> Ovl!Bare(s.slots[i])]
    OBVIOUS
  <1>3. /\ slots \in [Ovl!Ids -> Ovl!Slot]
        /\ \A i \in Ovl!Ids : slots[i].texture = Ovl!None /\ slots[i].active = s.slots[i].active
    BY <1>1, <1>2, BareIs
  <1>4. s.alive.pictures - Ovl!Held(s.slots) = 0 /\ s.alive.contexts - Ovl!One(s.context # Ovl!None) = 0
    BY <1>1, WholeHas, HeldType DEF Ovl!One
  <1>5. PICK q : q = [s EXCEPT !.slots = slots, !.alive.pictures = @ - Ovl!Held(s.slots)]
    OBVIOUS
  <1> PICK a : a = [s.alive EXCEPT !.pictures = 0]
    OBVIOUS
  <1>a. /\ a \in [pictures : Int, contexts : Int, fonts : Int] /\ a.pictures = 0
        /\ a.contexts = s.alive.contexts /\ a.fonts = s.alive.fonts
    BY <1>1
  <1>6. q = [s EXCEPT !.slots = slots, !.alive = a]
    BY <1>1, <1>4, <1>5 DEF Ovl!Screen
  <1>7. q \in Ovl!Screen
    BY <1>1, <1>3, <1>6, <1>a DEF Ovl!Screen
  <1>8. /\ q.slots = slots /\ q.context = s.context /\ q.chat = s.chat /\ q.text = s.text
        /\ q.alive.pictures = 0 /\ q.alive.contexts = s.alive.contexts /\ q.alive.fonts = s.alive.fonts
    BY <1>1, <1>6, <1>a DEF Ovl!Screen
  <1>9. r = Ovl!ReleaseContext(q)
    BY <1>2, <1>5 DEF Ovl!ReleaseAll
  <1> PICK b : b = [q.alive EXCEPT !.contexts = 0]
    OBVIOUS
  <1>b. /\ b \in [pictures : Int, contexts : Int, fonts : Int] /\ b.pictures = 0
        /\ b.contexts = 0 /\ b.fonts = s.alive.fonts
    BY <1>7, <1>8 DEF Ovl!Screen
  <1>10. r = [q EXCEPT !.context = Ovl!None, !.alive = b]
    BY <1>4, <1>7, <1>8, <1>9 DEF Ovl!ReleaseContext, Ovl!Screen
  <1>11. r \in Ovl!Screen
    BY <1>7, <1>10, <1>b DEF Ovl!Screen
  <1>12. /\ r.slots = slots /\ r.context = Ovl!None /\ r.chat = s.chat /\ r.text = s.text
         /\ r.alive.pictures = 0 /\ r.alive.contexts = 0 /\ r.alive.fonts = s.alive.fonts
    BY <1>7, <1>8, <1>10, <1>b DEF Ovl!Screen
  <1>13. Ovl!Held(r.slots) = 0 /\ Ovl!PicturesFit(r)
    BY <1>3, <1>12, HeldNone DEF Ovl!PicturesFit
  <1>14. Ovl!One(r.context # Ovl!None) = 0
    BY <1>12 DEF Ovl!One
  <1>15. Ovl!Whole(r)
    BY <1>11, <1>12, <1>13, <1>14, WholeHas, WholeIs
  <1> QED
    BY <1>3, <1>12, <1>15 DEF Bared, SameShown

\* Fonts come and go without the pictures, if they are counted.
LEMMA FontsAre ==
    ASSUME NEW s, Ovl!Whole(s), NEW r, r \in Ovl!Screen,
           r.slots = s.slots, r.context = s.context,
           r.alive.pictures = s.alive.pictures, r.alive.contexts = s.alive.contexts,
           r.alive.fonts = Ovl!One(r.chat # "none") + Ovl!One(r.text # "none")
    PROVE  Ovl!Whole(r)
  <1>1. /\ Ovl!PicturesFit(s)
        /\ s.alive.pictures = Ovl!Held(s.slots) /\ s.alive.contexts = Ovl!One(s.context # Ovl!None)
    BY WholeHas
  <1>2. Ovl!PicturesFit(r)
    BY <1>1 DEF Ovl!PicturesFit
  <1> QED
    BY <1>1, <1>2, WholeIs

\* The font of the text draws goes with all pictures.
LEMMA ReleaseFontsKeeps ==
    ASSUME NEW s, Ovl!Whole(s), NEW r, r = Ovl!ReleaseFonts(s)
    PROVE  /\ Ovl!Whole(r) /\ r.context = Ovl!None /\ r.chat = s.chat /\ r.text = "none"
           /\ Bared(s, r)
  <1>1. PICK q : q = Ovl!ReleaseAll(s)
    OBVIOUS
  <1>2. /\ Ovl!Whole(q) /\ q.context = Ovl!None /\ q.chat = s.chat /\ q.text = s.text
        /\ Bared(s, q)
    BY <1>1, ReleaseAllKeeps
  <1>3. /\ q \in Ovl!Screen /\ q.alive \in [pictures : Int, contexts : Int, fonts : Int]
        /\ q.alive.fonts = Ovl!One(q.chat # "none") + Ovl!One(q.text # "none")
        /\ q.chat \in Ovl!Devices \cup {"none"}
    BY <1>2, WholeHas
  <1>4. PICK n : n = q.alive.fonts - Ovl!One(s.text # "none")
    OBVIOUS
  <1>5. n = Ovl!One(q.chat # "none") + Ovl!One("none" # "none")
    BY <1>2, <1>3, <1>4 DEF Ovl!One
  <1>6. PICK a : a = [q.alive EXCEPT !.fonts = n]
    OBVIOUS
  <1>7. /\ a \in [pictures : Int, contexts : Int, fonts : Int] /\ a.fonts = n
        /\ a.pictures = q.alive.pictures /\ a.contexts = q.alive.contexts
    BY <1>3, <1>5, <1>6 DEF Ovl!One
  <1>8. r = [q EXCEPT !.text = "none", !.alive = a]
    BY <1>1, <1>3, <1>4, <1>6 DEF Ovl!ReleaseFonts, Ovl!Screen
  <1>9. /\ r \in Ovl!Screen /\ r.slots = q.slots /\ r.context = q.context /\ r.chat = q.chat
        /\ r.text = "none" /\ r.alive = a
    BY <1>3, <1>7, <1>8 DEF Ovl!Screen
  <1>10. Ovl!Whole(r)
    BY <1>2, <1>5, <1>7, <1>9, FontsAre
  <1> QED
    BY <1>2, <1>9, <1>10 DEF Bared, SameShown

\* So do all fonts.
LEMMA ReleaseOverlayKeeps ==
    ASSUME NEW s, Ovl!Whole(s), NEW r, r = Ovl!ReleaseOverlay(s)
    PROVE  /\ Ovl!Whole(r) /\ Ovl!Cleared(r)
           /\ SameShown(s, r)
  <1>1. PICK q : q = Ovl!ReleaseFonts(s)
    OBVIOUS
  <1>2. /\ Ovl!Whole(q) /\ q.context = Ovl!None /\ q.chat = s.chat /\ q.text = "none"
        /\ Bared(s, q)
    BY <1>1, ReleaseFontsKeeps
  <1>3. /\ q \in Ovl!Screen /\ q.alive \in [pictures : Int, contexts : Int, fonts : Int]
        /\ q.alive.fonts = Ovl!One(q.chat # "none") + Ovl!One(q.text # "none")
    BY <1>2, WholeHas
  <1>4. PICK n : n = q.alive.fonts - Ovl!One(s.chat # "none")
    OBVIOUS
  <1>5. n = Ovl!One("none" # "none") + Ovl!One("none" # "none")
    BY <1>2, <1>3, <1>4 DEF Ovl!One
  <1>6. PICK a : a = [q.alive EXCEPT !.fonts = n]
    OBVIOUS
  <1>7. /\ a \in [pictures : Int, contexts : Int, fonts : Int] /\ a.fonts = n
        /\ a.pictures = q.alive.pictures /\ a.contexts = q.alive.contexts
    BY <1>3, <1>5, <1>6 DEF Ovl!One
  <1>8. r = [q EXCEPT !.chat = "none", !.alive = a]
    BY <1>1, <1>3, <1>4, <1>6 DEF Ovl!ReleaseOverlay, Ovl!Screen
  <1>9. /\ r \in Ovl!Screen /\ r.slots = q.slots /\ r.context = q.context /\ r.chat = "none"
        /\ r.text = q.text /\ r.alive = a
    BY <1>3, <1>7, <1>8 DEF Ovl!Screen
  <1>10. Ovl!Whole(r)
    BY <1>2, <1>5, <1>7, <1>9, FontsAre
  <1> QED
    BY <1>2, <1>9, <1>10 DEF Ovl!Cleared, Bared, SameShown

\* What is cleared is not counted.
LEMMA ClearedIs ==
    ASSUME NEW s, Ovl!Whole(s), Ovl!Cleared(s)
    PROVE  s.alive = [pictures |-> 0, contexts |-> 0, fonts |-> 0]
  <1>1. /\ s.alive = Ovl!Counts(s) /\ s.context = Ovl!None /\ s.chat = "none" /\ s.text = "none"
    BY DEF Ovl!Whole, Ovl!Cleared
  <1>2. Ovl!Held(s.slots) = 0
    <2>1. PICK a : a = s.slots
      OBVIOUS
    <2>2. \A i \in Ovl!Ids : a[i].texture = Ovl!None
      BY <2>1 DEF Ovl!Cleared
    <2> QED
      BY <2>1, <2>2, HeldNone
  <1>3. Ovl!One(s.context # Ovl!None) = 0 /\ Ovl!One(s.chat # "none") + Ovl!One(s.text # "none") = 0
    BY <1>1 DEF Ovl!One
  <1> QED
    BY <1>1, <1>2, <1>3 DEF Ovl!Counts

\* A chat font on this device, or none at all if it cannot be made.
LEMMA ChatFontKeeps ==
    ASSUME NEW s, Ovl!Whole(s), NEW device \in Ovl!Devices, NEW works,
           NEW r, r = Ovl!EnsureChatFont(s, device, works)
    PROVE  Ovl!Whole(r)
  <1>1. CASE s.chat = device
    BY <1>1 DEF Ovl!EnsureChatFont
  <1>2. CASE s.chat # device
    <2>1. PICK q : q = Ovl!ReleaseOverlay(s)
      OBVIOUS
    <2>2. Ovl!Whole(q) /\ q.chat = "none" /\ q.text = "none"
      BY <2>1, ReleaseOverlayKeeps DEF Ovl!Cleared
    <2>3. CASE works
      <3>1. /\ q \in Ovl!Screen /\ q.alive \in [pictures : Int, contexts : Int, fonts : Int]
            /\ q.alive.fonts = Ovl!One(q.chat # "none") + Ovl!One(q.text # "none")
        BY <2>2, WholeHas
      <3>2. PICK n : n = q.alive.fonts + 1
        OBVIOUS
      <3>3. n = Ovl!One(device # "none") + Ovl!One(q.text # "none") /\ n \in Int
        BY <2>2, <3>1, <3>2 DEF Ovl!One, Ovl!Devices
      <3>4. PICK a : a = [q.alive EXCEPT !.fonts = n]
        OBVIOUS
      <3>5. /\ a \in [pictures : Int, contexts : Int, fonts : Int] /\ a.fonts = n
            /\ a.pictures = q.alive.pictures /\ a.contexts = q.alive.contexts
        BY <3>1, <3>3, <3>4
      <3>6. r = [q EXCEPT !.chat = device, !.alive = a]
        BY <1>2, <2>1, <2>3, <3>1, <3>2, <3>4 DEF Ovl!EnsureChatFont, Ovl!Screen
      <3>7. /\ r \in Ovl!Screen /\ r.slots = q.slots /\ r.context = q.context /\ r.chat = device
            /\ r.text = q.text /\ r.alive = a
        BY <3>1, <3>5, <3>6 DEF Ovl!Screen
      <3> QED
        BY <2>2, <3>3, <3>5, <3>7, FontsAre
    <2>4. CASE ~works
      BY <1>2, <2>1, <2>2, <2>4 DEF Ovl!EnsureChatFont
    <2> QED
      BY <2>3, <2>4
  <1> QED
    BY <1>1, <1>2

\* The font of the text draws, on this device.
LEMMA TextFontKeeps ==
    ASSUME NEW s, Ovl!Whole(s), NEW device \in Ovl!Devices,
           NEW r, r = Ovl!EnsureTextFont(s, device)
    PROVE  Ovl!Whole(r)
  <1>1. PICK q : q = IF s.text \notin {"none", device} THEN Ovl!ReleaseFonts(s) ELSE s
    OBVIOUS
  <1>2. Ovl!Whole(q) /\ q.text \in {"none", device}
    <2>1. CASE s.text \in {"none", device}
      BY <1>1, <2>1
    <2>2. CASE s.text \notin {"none", device}
      BY <1>1, <2>2, ReleaseFontsKeeps
    <2> QED
      BY <2>1, <2>2
  <1>3. CASE q.text = device
    BY <1>1, <1>2, <1>3 DEF Ovl!EnsureTextFont
  <1>4. CASE q.text # device
    <2>1. /\ q \in Ovl!Screen /\ q.alive \in [pictures : Int, contexts : Int, fonts : Int]
          /\ q.alive.fonts = Ovl!One(q.chat # "none") + Ovl!One(q.text # "none")
          /\ q.chat \in Ovl!Devices \cup {"none"} /\ q.text = "none"
      BY <1>2, <1>4, WholeHas
    <2>2. PICK n : n = q.alive.fonts + 1
      OBVIOUS
    <2>3. n = Ovl!One(q.chat # "none") + Ovl!One(device # "none") /\ n \in Int
      BY <2>1, <2>2 DEF Ovl!One, Ovl!Devices
    <2>4. PICK a : a = [q.alive EXCEPT !.fonts = n]
      OBVIOUS
    <2>5. /\ a \in [pictures : Int, contexts : Int, fonts : Int] /\ a.fonts = n
          /\ a.pictures = q.alive.pictures /\ a.contexts = q.alive.contexts
      BY <2>1, <2>3, <2>4
    <2>6. r = [q EXCEPT !.text = device, !.alive = a]
      BY <1>1, <1>4, <2>1, <2>2, <2>4 DEF Ovl!EnsureTextFont, Ovl!Screen
    <2>7. /\ r \in Ovl!Screen /\ r.slots = q.slots /\ r.context = q.context /\ r.chat = q.chat
          /\ r.text = device /\ r.alive = a
      BY <2>1, <2>5, <2>6 DEF Ovl!Screen
    <2> QED
      BY <1>2, <2>3, <2>5, <2>7, FontsAre
  <1> QED
    BY <1>3, <1>4

-----------------------------------------------------------------------------
(* Making a picture. *)

\* The surroundings of a picture are made after those of another device or world have gone,
\* and every picture with them.
LEMMA ContextKeeps ==
    ASSUME NEW s, Ovl!Whole(s), NEW device \in Ovl!Devices, env.world \in Ovl!Worlds \cup {"none"},
           NEW r, r = Ovl!EnsureContext(s, device, TRUE) \/ r = Ovl!EnsureContext(s, device, FALSE)
    PROVE  Ovl!Whole(r) /\ NoneNew(s, r)
  <1> DEFINE here == Ovl!Here(device)
  <1>1. CASE env.world = "none" \/ s.context = here
    <2>1. r = s
      BY <1>1 DEF Ovl!EnsureContext
    <2> QED
      BY <2>1 DEF NoneNew, SameShown
  <1>2. CASE ~(env.world = "none" \/ s.context = here)
    <2>1. PICK q : q = IF s.context # Ovl!None THEN Ovl!ReleaseAll(s) ELSE s
      OBVIOUS
    <2>2. Ovl!Whole(q) /\ NoneNew(s, q) /\ q.context = Ovl!None
      <3>1. CASE s.context # Ovl!None
        <4>1. q = Ovl!ReleaseAll(s)
          BY <2>1, <3>1
        <4>2. /\ Ovl!Whole(q) /\ q.context = Ovl!None
              /\ Bared(s, q)
          BY <4>1, ReleaseAllKeeps
        <4> QED
          BY <4>2 DEF NoneNew, Bared
      <3>2. CASE s.context = Ovl!None
        BY <2>1, <3>2 DEF NoneNew, SameShown
      <3> QED
        BY <3>1, <3>2
    <2>3. here \in Ovl!Camera
      BY <1>2 DEF Ovl!Here, Ovl!Camera
    <2>4. here # Ovl!None
      BY <2>3, NoneIsNone
    <2>5. r = q \/ r = [q EXCEPT !.context = here, !.alive.contexts = @ + 1]
      BY <1>2, <2>1 DEF Ovl!EnsureContext
    <2>6. CASE r = q
      BY <2>2, <2>6
    <2>7. CASE r = [q EXCEPT !.context = here, !.alive.contexts = @ + 1]
      <3>1. /\ q \in Ovl!Screen /\ q.alive \in [pictures : Int, contexts : Int, fonts : Int]
            /\ q.alive.pictures = Ovl!Held(q.slots) /\ q.alive.contexts = Ovl!One(q.context # Ovl!None)
            /\ q.alive.fonts = Ovl!One(q.chat # "none") + Ovl!One(q.text # "none") /\ Ovl!PicturesFit(q)
        BY <2>2, WholeHas
      <3>2. q.alive.contexts + 1 = 1
        BY <2>2, <3>1 DEF Ovl!One
      <3>3. PICK a : a = [q.alive EXCEPT !.contexts = 1]
        OBVIOUS
      <3>4. /\ a \in [pictures : Int, contexts : Int, fonts : Int] /\ a.contexts = 1
            /\ a.pictures = q.alive.pictures /\ a.fonts = q.alive.fonts
        BY <3>1, <3>3
      <3>5. PICK h : h = here
        OBVIOUS
      <3>6. r = [q EXCEPT !.context = h, !.alive = a]
        BY <2>7, <3>1, <3>2, <3>3, <3>5 DEF Ovl!Screen
      <3>7. r \in Ovl!Screen
        BY <2>3, <3>1, <3>4, <3>5, <3>6 DEF Ovl!Screen
      <3>8. r.slots = q.slots /\ r.context = h /\ r.chat = q.chat /\ r.text = q.text /\ r.alive = a
        BY <3>1, <3>6 DEF Ovl!Screen
      <3>9. Ovl!One(r.context # Ovl!None) = 1
        BY <2>4, <3>5, <3>8 DEF Ovl!One
      <3>10. Ovl!PicturesFit(r)
        BY <2>2, <3>1, <3>8 DEF Ovl!PicturesFit
      <3>11. Ovl!Whole(r)
        BY <3>1, <3>4, <3>7, <3>8, <3>9, <3>10, WholeIs
      <3>12. NoneNew(s, r)
        BY <2>2, <3>8 DEF NoneNew, SameShown
      <3> QED
        BY <3>11, <3>12
    <2> QED
      BY <2>5, <2>6, <2>7
  <1> QED
    BY <1>1, <1>2

\* A picture in an entry, and the table with that entry.
Filled(s, i, t, n) == [s EXCEPT !.slots[i].texture = t, !.slots[i].resource = n, !.slots[i].retry = 0]
FilledSlot(o, t, n) == [o EXCEPT !.texture = t, !.resource = n, !.retry = 0]
WithSlot(s, i, x) == [s EXCEPT !.slots = [s.slots EXCEPT ![i] = x]]

\* The entry that gets the picture, and no other, is another one.
LEMMA PictureEntry ==
    ASSUME NEW s, s \in Ovl!Screen, s.slots \in [Ovl!Ids -> Ovl!Slot], NEW i \in Ovl!Ids, NEW t, NEW n
    PROVE  Filled(s, i, t, n) = WithSlot(s, i, FilledSlot(s.slots[i], t, n))
  <1>1. PICK slots : slots = s.slots
    OBVIOUS
  <1>2. slots[i] \in Ovl!Slot /\ slots \in [Ovl!Ids -> Ovl!Slot]
    BY <1>1
  <1>3. Filled(s, i, t, n) = [s EXCEPT !.slots = [slots EXCEPT ![i].texture = t, ![i].resource = n, ![i].retry = 0]]
    BY <1>1 DEF Ovl!Screen, Filled
  <1>4. [slots EXCEPT ![i].texture = t, ![i].resource = n, ![i].retry = 0] = [slots EXCEPT ![i] = FilledSlot(slots[i], t, n)]
    BY <1>2 DEF Ovl!Slot, FilledSlot
  <1> QED
    BY <1>1, <1>3, <1>4 DEF WithSlot

\* The text draws of all pictures are shown, and the pictures are of this camera.
FitsWith(slots, camera) ==
    \A j \in Ovl!Ids : slots[j].texture # Ovl!None =>
       slots[j].texture.device = camera.device /\ slots[j].active /\ slots[j].texture.of = slots[j].shown

\* Pictures fit the camera there is.
LEMMA FitIs ==
    ASSUME NEW r, NEW slots, NEW camera, r.slots = slots, r.context = camera, camera # Ovl!None,
           FitsWith(slots, camera)
    PROVE  Ovl!PicturesFit(r)
  BY DEF Ovl!PicturesFit, FitsWith

\* A picture is one more, of a text draw that is shown, with the camera there is.
LEMMA PictureKeeps ==
    ASSUME NEW s, Ovl!Whole(s), NEW device \in Ovl!Devices, NEW i \in Ovl!Ids,
           s.slots[i].texture = Ovl!None, s.slots[i].active,
           s.context # Ovl!None, s.context.device = device,
           NEW r, r = Ovl!Picture(s, device, i, TRUE)
    PROVE  /\ Ovl!Whole(r) /\ r.slots[i].texture # Ovl!None
           /\ SameShown(s, r)
  <1>1. /\ s \in Ovl!Screen /\ s.slots \in [Ovl!Ids -> Ovl!Slot]
        /\ s.alive \in [pictures : Int, contexts : Int, fonts : Int]
    BY WholeHas
  <1>w. /\ s.alive.pictures = Ovl!Held(s.slots) /\ s.alive.contexts = Ovl!One(s.context # Ovl!None)
        /\ s.alive.fonts = Ovl!One(s.chat # "none") + Ovl!One(s.text # "none") /\ Ovl!PicturesFit(s)
    BY WholeHas
  <1>2. PICK o : o = s.slots[i]
    OBVIOUS
  <1>3. o \in Ovl!Slot
    BY <1>1, <1>2
  <1>4. PICK t : t = [device |-> device, of |-> o.shown]
    OBVIOUS
  <1>5. t \in Ovl!Texture /\ t.device = device /\ t.of = o.shown
    BY <1>3, <1>4 DEF Ovl!Slot, Ovl!Texture
  <1>6. t # Ovl!None
    BY <1>5, NoneIsNone
  <1>7. PICK x : x = [o EXCEPT !.texture = t, !.resource = o.seq, !.retry = 0]
    OBVIOUS
  <1>8. /\ x \in Ovl!Slot /\ x.texture = t /\ x.active = o.active /\ x.shown = o.shown
    <2>1. 0 \in 0 .. RetryTicks /\ o.seq \in 0 .. MaxEvents
      BY <1>3, ClientAssumption DEF Ovl!Slot
    <2>2. x \in Ovl!Slot
      BY <1>3, <1>5, <1>7, <2>1 DEF Ovl!Slot
    <2> QED
      BY <1>3, <1>7, <2>2 DEF Ovl!Slot
  <1>9. PICK slots : slots = [s.slots EXCEPT ![i] = x]
    OBVIOUS
  <1>10. slots \in [Ovl!Ids -> Ovl!Slot] /\ slots[i] = x /\ \A j \in Ovl!Ids \ {i} : slots[j] = s.slots[j]
    BY <1>1, <1>8, <1>9
  <1>11. PICK a : a = [s.alive EXCEPT !.pictures = s.alive.pictures + 1]
    OBVIOUS
  <1>12. /\ a \in [pictures : Int, contexts : Int, fonts : Int] /\ a.pictures = s.alive.pictures + 1
         /\ a.contexts = s.alive.contexts /\ a.fonts = s.alive.fonts
    BY <1>1, <1>11
  <1>13. r = [s EXCEPT !.slots = slots, !.alive = a]
    <2>1. r = [s EXCEPT !.slots[i].texture = t, !.slots[i].resource = o.seq, !.slots[i].retry = 0,
                        !.alive.pictures = @ + 1]
      BY <1>2, <1>4 DEF Ovl!Picture
    <2>2. PICK q : q = [s EXCEPT !.slots[i].texture = t, !.slots[i].resource = o.seq, !.slots[i].retry = 0]
      OBVIOUS
    <2>3. q = [s EXCEPT !.slots = slots]
      <3>1. PICK n : n = o.seq
        OBVIOUS
      <3>2. q = Filled(s, i, t, n)
        BY <2>2, <3>1 DEF Filled
      <3>3. x = FilledSlot(o, t, n)
        BY <1>7, <3>1 DEF FilledSlot
      <3>4. Filled(s, i, t, n) = WithSlot(s, i, FilledSlot(o, t, n))
        BY <1>1, <1>2, PictureEntry
      <3>5. q = WithSlot(s, i, x)
        BY <3>2, <3>3, <3>4
      <3> QED
        BY <1>9, <3>5 DEF WithSlot
    <2>4. r = [q EXCEPT !.alive.pictures = @ + 1]
      BY <2>1, <2>2
    <2> QED
      BY <1>1, <1>11, <2>3, <2>4 DEF Ovl!Screen
  <1>14. r \in Ovl!Screen
    BY <1>1, <1>10, <1>12, <1>13 DEF Ovl!Screen
  <1>15. r.slots = slots /\ r.context = s.context /\ r.chat = s.chat /\ r.text = s.text /\ r.alive = a
    BY <1>1, <1>13 DEF Ovl!Screen
  <1>16. a.pictures = Ovl!Held(slots)
    <2>1. PICK b : b = s.slots
      OBVIOUS
    <2>2. b[i].texture = Ovl!None /\ slots[i].texture # Ovl!None
      BY <1>6, <1>8, <1>10, <2>1
    <2>3. \A j \in Ovl!Ids \ {i} : (b[j].texture # Ovl!None) <=> (slots[j].texture # Ovl!None)
      BY <1>10, <2>1
    <2>4. Ovl!Held(slots) = Ovl!Held(b) + 1
      BY <2>2, <2>3, HeldMore
    <2> QED
      BY <1>12, <1>w, <2>1, <2>4
  <1>17. Ovl!PicturesFit(r)
    <2>1. ASSUME NEW j \in Ovl!Ids, slots[j].texture # Ovl!None
          PROVE  /\ slots[j].texture.device = s.context.device
                 /\ slots[j].active /\ slots[j].texture.of = slots[j].shown
      <3>1. CASE j = i
        <4>1. slots[j] = x
          BY <1>10, <3>1
        <4>2. x.texture.device = device /\ x.texture.of = o.shown
          BY <1>5, <1>8
        <4>3. x.active
          BY <1>2, <1>8
        <4> QED
          BY <1>8, <4>1, <4>2, <4>3
      <3>2. CASE j # i
        <4>1. slots[j] = s.slots[j]
          BY <1>10, <3>2
        <4> QED
          BY <1>w, <2>1, <4>1 DEF Ovl!PicturesFit
      <3> QED
        BY <3>1, <3>2
    <2>2. PICK camera : camera = s.context
      OBVIOUS
    <2>3. r.slots = slots /\ r.context = camera /\ camera # Ovl!None
      BY <1>15, <2>2
    <2>4. \A j \in Ovl!Ids : slots[j].texture # Ovl!None =>
             slots[j].texture.device = camera.device /\ slots[j].active /\ slots[j].texture.of = slots[j].shown
      BY <2>1, <2>2
    <2>5. FitsWith(slots, camera)
      BY <2>4 DEF FitsWith
    <2> QED
      BY <2>3, <2>5, FitIs
  <1>18. Ovl!Whole(r)
    <2>1. r.alive.pictures = Ovl!Held(r.slots)
      BY <1>15, <1>16
    <2>2. r.alive.contexts = Ovl!One(r.context # Ovl!None)
      BY <1>12, <1>15, <1>w
    <2>3. r.alive.fonts = Ovl!One(r.chat # "none") + Ovl!One(r.text # "none")
      BY <1>12, <1>15, <1>w
    <2> QED
      BY <1>14, <1>17, <2>1, <2>2, <2>3, WholeIs
  <1>19. SameShown(s, r)
    BY <1>2, <1>8, <1>10, <1>15 DEF SameShown
  <1> QED
    BY <1>6, <1>8, <1>10, <1>15, <1>18, <1>19

\* Whatever fails on the way.
LEMMA MakeKeeps ==
    ASSUME NEW s, Ovl!Whole(s), NEW device \in Ovl!Devices, env.world \in Ovl!Worlds \cup {"none"},
           NEW i \in Ovl!Ids, s.slots[i].texture = Ovl!None, s.slots[i].active, NEW how,
           NEW r, r = Ovl!MakePicture(s, device, i, how)
    PROVE  Ovl!Whole(r) /\ SameShown(s, r)
  <1>1. CASE how = "not_ready"
    BY <1>1 DEF Ovl!MakePicture, SameShown
  <1>2. CASE how # "not_ready"
    <2>1. PICK c : c = Ovl!EnsureContext(s, device, how # "context")
      OBVIOUS
    <2>2. c = Ovl!EnsureContext(s, device, TRUE) \/ c = Ovl!EnsureContext(s, device, FALSE)
      <3>1. CASE how = "context"
        BY <2>1, <3>1 DEF Ovl!EnsureContext
      <3>2. CASE how # "context"
        BY <2>1, <3>2 DEF Ovl!EnsureContext
      <3> QED
        BY <3>1, <3>2
    <2>3. Ovl!Whole(c) /\ NoneNew(s, c)
      BY <2>2, ContextKeeps
    <2>4. c.slots[i].texture = Ovl!None /\ c.slots[i].active
      BY <2>3 DEF NoneNew, SameShown
    <2>5. r = IF c.context = Ovl!Here(device) /\ env.world # "none" /\ how # "no_raster"
              THEN Ovl!Picture(c, device, i, how # "not_rendered") ELSE c
      BY <1>2, <2>1 DEF Ovl!MakePicture
    <2>6. CASE r = c
      BY <2>3, <2>6 DEF NoneNew
    <2>7. CASE r # c
      <3>1. r = Ovl!Picture(c, device, i, TRUE)
        BY <2>5, <2>7 DEF Ovl!Picture
      <3>2. c.context \in Ovl!Camera /\ c.context.device = device
        BY <2>5, <2>7 DEF Ovl!Here, Ovl!Camera
      <3>3. c.context # Ovl!None
        BY <3>2, NoneIsNone
      <3>4. Ovl!Whole(r) /\ SameShown(c, r)
        <4>1. Ovl!Whole(c)
          BY <2>3
        <4>2. c.context.device = device
          BY <3>2
        <4> QED
          BY <2>4, <3>1, <3>3, <4>1, <4>2, PictureKeeps
      <3> QED
        BY <2>3, <3>4 DEF NoneNew, SameShown
    <2> QED
      BY <2>6, <2>7
  <1> QED
    BY <1>1, <1>2

\* What changes neither pictures nor fonts nor camera keeps the screen whole.
LEMMA SameWhole ==
    ASSUME NEW s, Ovl!Whole(s), NEW r, r \in Ovl!Screen,
           r.context = s.context, r.chat = s.chat, r.text = s.text, r.alive = s.alive,
           \A j \in Ovl!Ids : /\ r.slots[j].texture = s.slots[j].texture
                              /\ r.slots[j].active = s.slots[j].active /\ r.slots[j].shown = s.slots[j].shown
    PROVE  Ovl!Whole(r)
  <1>w. /\ s.alive.pictures = Ovl!Held(s.slots) /\ s.alive.contexts = Ovl!One(s.context # Ovl!None)
        /\ s.alive.fonts = Ovl!One(s.chat # "none") + Ovl!One(s.text # "none") /\ Ovl!PicturesFit(s)
    BY WholeHas
  <1>1. Ovl!Held(r.slots) = Ovl!Held(s.slots)
    <2>1. PICK a, b : a = r.slots /\ b = s.slots
      OBVIOUS
    <2>2. \A j \in Ovl!Ids : (a[j].texture # Ovl!None) <=> (b[j].texture # Ovl!None)
      BY <2>1
    <2>3. Ovl!Held(a) = Ovl!Held(b)
      BY <2>2, HeldSame
    <2> QED
      BY <2>1, <2>3
  <1>2. Ovl!PicturesFit(r)
    BY <1>w DEF Ovl!PicturesFit
  <1> QED
    BY <1>w, <1>1, <1>2, WholeIs

\* A picture that is left alone for a while, and may count as of no event.
Left(s, i, n, m) == [s EXCEPT !.slots[i].retry = n, !.slots[i].resource = m]

\* That changes no picture.
LEMMA LeftAlone ==
    ASSUME NEW s, Ovl!Whole(s), NEW i \in Ovl!Ids, NEW n \in 0 .. RetryTicks, NEW m \in 0 .. MaxEvents,
           NEW r, r = Left(s, i, n, m)
    PROVE  Ovl!Whole(r) /\ SameShown(s, r)
  <1>1. s \in Ovl!Screen /\ s.slots \in [Ovl!Ids -> Ovl!Slot]
    BY WholeHas
  <1>2. PICK o : o = s.slots[i]
    OBVIOUS
  <1>3. o \in Ovl!Slot
    BY <1>1, <1>2
  <1>4. PICK x : x = [o EXCEPT !.retry = n, !.resource = m]
    OBVIOUS
  <1>5. x \in Ovl!Slot
    BY <1>3, <1>4 DEF Ovl!Slot
  <1>6. x.texture = o.texture /\ x.active = o.active /\ x.shown = o.shown
    BY <1>3, <1>4 DEF Ovl!Slot
  <1>7. PICK slots : slots = [s.slots EXCEPT ![i] = x]
    OBVIOUS
  <1>8. slots \in [Ovl!Ids -> Ovl!Slot] /\ slots[i] = x /\ \A j \in Ovl!Ids \ {i} : slots[j] = s.slots[j]
    BY <1>1, <1>5, <1>7
  <1>9. r = [s EXCEPT !.slots = slots]
    BY <1>1, <1>2, <1>4, <1>7 DEF Ovl!Screen, Left
  <1>10. r \in Ovl!Screen
    BY <1>1, <1>8, <1>9 DEF Ovl!Screen
  <1>11. /\ r.slots = slots /\ r.context = s.context /\ r.chat = s.chat /\ r.text = s.text /\ r.alive = s.alive
    BY <1>1, <1>9 DEF Ovl!Screen
  <1>12. \A j \in Ovl!Ids : /\ r.slots[j].texture = s.slots[j].texture
                            /\ r.slots[j].active = s.slots[j].active /\ r.slots[j].shown = s.slots[j].shown
    BY <1>2, <1>6, <1>8, <1>11
  <1>13. Ovl!Whole(r)
    <2>1. r.context = s.context /\ r.chat = s.chat /\ r.text = s.text /\ r.alive = s.alive
      BY <1>11
    <2> QED
      BY <1>10, <1>12, <2>1, SameWhole
  <1> QED
    BY <1>12, <1>13 DEF SameShown

\* The picture of a text draw that is shown is there when it can be.
LEMMA PrepareKeeps ==
    ASSUME NEW s, Ovl!Whole(s), NEW device \in Ovl!Devices, env.world \in Ovl!Worlds \cup {"none"},
           NEW i \in Ovl!Ids, s.slots[i].active, NEW how,
           NEW r, r = Ovl!Prepare(s, device, i, how)
    PROVE  Ovl!Whole(r) /\ SameShown(s, r)
  <1>1. PICK a : a = IF s.context # Ovl!None /\ s.context.device # device THEN Ovl!ReleaseAll(s) ELSE s
    OBVIOUS
  <1>2. Ovl!Whole(a) /\ SameShown(s, a)
    <2>1. CASE a = s
      BY <2>1 DEF SameShown
    <2>2. CASE a = Ovl!ReleaseAll(s)
      <3> QED
        BY <2>2, ReleaseAllKeeps DEF Bared
    <2> QED
      BY <1>1, <2>1, <2>2
  <1>3. PICK b : b = IF a.slots[i].texture # Ovl!None /\ a.slots[i].resource # a.slots[i].seq
                     THEN Ovl!ReleaseSlot(a, i) ELSE a
    OBVIOUS
  <1>4. Ovl!Whole(b) /\ SameShown(a, b)
    <2>1. CASE b = a
      BY <1>2, <2>1 DEF SameShown
    <2>2. CASE b = Ovl!ReleaseSlot(a, i)
      <3>1. Ovl!Whole(a)
        BY <1>2
      <3> QED
        BY <2>2, <3>1, ReleaseSlotKeeps DEF NoneNew
    <2> QED
      BY <1>3, <2>1, <2>2
  <1>5. CASE b.slots[i].texture # Ovl!None \/ b.slots[i].retry > 0
    <2>1. r = b
      BY <1>1, <1>3, <1>5 DEF Ovl!Prepare
    <2> QED
      BY <1>2, <1>4, <2>1 DEF SameShown
  <1>6. CASE ~(b.slots[i].texture # Ovl!None \/ b.slots[i].retry > 0)
    <2>1. PICK c : c = Ovl!MakePicture(b, device, i, how)
      OBVIOUS
    <2>2. Ovl!Whole(c) /\ SameShown(b, c)
      <3>1. b.slots[i].texture = Ovl!None /\ b.slots[i].active
        BY <1>2, <1>4, <1>6 DEF SameShown
      <3> QED
        BY <1>4, <2>1, <3>1, MakeKeeps
    <2>3. r = IF c.slots[i].texture = Ovl!None THEN [c EXCEPT !.slots[i].retry = RetryTicks] ELSE c
      BY <1>1, <1>3, <1>6, <2>1 DEF Ovl!Prepare
    <2>4. CASE r = c
      BY <1>2, <1>4, <2>2, <2>4 DEF SameShown
    <2>5. CASE r = [c EXCEPT !.slots[i].retry = RetryTicks]
      <3>1. c \in Ovl!Screen /\ c.slots \in [Ovl!Ids -> Ovl!Slot]
        BY <2>2, WholeHas
      <3>2. PICK o : o = c.slots[i]
        OBVIOUS
      <3>3. PICK m : m = o.resource
        OBVIOUS
      <3>5. PICK x : x = [o EXCEPT !.retry = RetryTicks]
        OBVIOUS
      <3>6. x = [o EXCEPT !.retry = RetryTicks, !.resource = m]
        BY <3>1, <3>2, <3>3, <3>5 DEF Ovl!Slot
      <3>7. r = Left(c, i, RetryTicks, m)
        BY <2>5, <3>1, <3>2, <3>5, <3>6 DEF Ovl!Screen, Left
      <3>8. RetryTicks \in 0 .. RetryTicks /\ m \in 0 .. MaxEvents
        BY <3>1, <3>2, <3>3, ClientAssumption DEF Ovl!Slot
      <3>9. Ovl!Whole(r) /\ SameShown(c, r)
        <4>1. Ovl!Whole(c)
          BY <2>2
        <4> QED
          BY <3>7, <3>8, <4>1, LeftAlone
      <3> QED
        BY <1>2, <1>4, <2>2, <3>9 DEF SameShown
    <2> QED
      BY <2>3, <2>4, <2>5
  <1> QED
    BY <1>5, <1>6

\* A drawing that fails leaves the picture alone for a while; one that spoilt Direct3D's state
\* also makes it old.
LEMMA CachedKeeps ==
    ASSUME NEW s, Ovl!Whole(s), NEW device, NEW i \in Ovl!Ids, NEW how,
           NEW r, r = Ovl!DrawCached(s, device, i, how)
    PROVE  Ovl!Whole(r) /\ SameShown(s, r)
  <1>1. CASE ~Ovl!Drawable(s, device, i) \/ how \notin {"not_drawn", "spoilt"}
    BY <1>1 DEF Ovl!DrawCached, SameShown
  <1>2. CASE ~(~Ovl!Drawable(s, device, i) \/ how \notin {"not_drawn", "spoilt"})
    <2>1. s \in Ovl!Screen /\ s.slots \in [Ovl!Ids -> Ovl!Slot]
      BY WholeHas
    <2>2. PICK o : o = s.slots[i]
      OBVIOUS
    <2>3. PICK m : m = IF how = "spoilt" THEN 0 ELSE o.resource
      OBVIOUS
    <2>6. r = [s EXCEPT !.slots[i].retry = RetryTicks, !.slots[i].resource = IF how = "spoilt" THEN 0 ELSE @]
      BY <1>2 DEF Ovl!DrawCached
    <2>7. r = Left(s, i, RetryTicks, m)
      BY <2>1, <2>2, <2>3, <2>6 DEF Ovl!Screen, Ovl!Slot, Left
    <2>9. RetryTicks \in 0 .. RetryTicks /\ m \in 0 .. MaxEvents
      <3>1. o.resource \in 0 .. MaxEvents
        BY <2>1, <2>2 DEF Ovl!Slot
      <3> QED
        BY <2>3, <3>1, ClientAssumption
    <2> QED
      BY <2>7, <2>9, LeftAlone
  <1> QED
    BY <1>1, <1>2

\* A text draw that is shown is prepared and, in the mode that draws at once, drawn.
LEMMA DrawKeeps ==
    ASSUME NEW s, Ovl!Whole(s), NEW device \in Ovl!Devices, env.world \in Ovl!Worlds \cup {"none"},
           NEW i \in Ovl!Ids, s.slots[i].active, NEW f,
           NEW r, r = Ovl!DrawSlot(s, device, i, f)
    PROVE  Ovl!Whole(r) /\ SameShown(s, r)
  <1>1. PICK how : how = Ovl!How(f, i)
    OBVIOUS
  <1>2. PICK p : p = Ovl!Prepare(s, device, i, how)
    OBVIOUS
  <1>3. Ovl!Whole(p) /\ SameShown(s, p)
    BY <1>2, PrepareKeeps
  <1>4. CASE env.mode = "game_process"
    <2>1. r = p
      BY <1>1, <1>2, <1>4 DEF Ovl!DrawSlot
    <2> QED
      BY <1>3, <2>1
  <1>5. CASE env.mode # "game_process"
    <2>1. r = Ovl!DrawCached(p, device, i, how)
      BY <1>1, <1>2, <1>5 DEF Ovl!DrawSlot
    <2>2. Ovl!Whole(r) /\ SameShown(p, r)
      BY <1>3, <2>1, CachedKeeps
    <2> QED
      BY <1>3, <2>2 DEF SameShown
  <1> QED
    BY <1>4, <1>5

-----------------------------------------------------------------------------
(* The loops over the text draws. *)

\* g is the loop of EndScene, up to text draw n.
SceneLoop(g, s, device, f, n) ==
    g = [i \in 0 .. n |->
           IF i = 0 THEN s
           ELSE IF g[i - 1].slots[i].active THEN Ovl!DrawSlot(g[i - 1], device, i, f) ELSE g[i - 1]]

\* There is such a function for every n, so the recursive definition has a value.
LEMMA SceneLoopIs ==
    ASSUME NEW s, NEW device, NEW f
    PROVE  /\ \E g : SceneLoop(g, s, device, f, TextDraws)
           /\ \E g : SceneLoop(g, s, device, f, TextDraws) /\ Ovl!DrawSlots(s, device, f) = g[TextDraws]
  <1> DEFINE Draw(x, i) == IF x.slots[i].active THEN Ovl!DrawSlot(x, device, i, f) ELSE x
             Loop(g, n) == g = [i \in 0 .. n |-> IF i = 0 THEN s ELSE Draw(g[i - 1], i)]
             S == {n \in Nat : \E g : Loop(g, n)}
  <1>1. 0 \in S
    <2>1. Loop([i \in 0 .. 0 |-> s], 0)
      OBVIOUS
    <2> QED
      BY <2>1
  <1>2. ASSUME NEW n \in Nat, n \in S PROVE n + 1 \in S
    <2> HIDE DEF Draw
    <2>1. PICK g : Loop(g, n)
      BY <1>2
    <2> DEFINE h == [i \in 0 .. n + 1 |-> IF i = n + 1 THEN Draw(g[n], n + 1) ELSE g[i]]
    <2>2. ASSUME NEW i \in 0 .. n + 1 PROVE h[i] = IF i = 0 THEN s ELSE Draw(h[i - 1], i)
      <3>1. CASE i = 0
        BY <3>1, <2>1
      <3>2. CASE i # 0 /\ i # n + 1
        <4>1. i \in 0 .. n /\ i - 1 \in 0 .. n /\ i - 1 \in 0 .. n + 1 /\ i - 1 # n + 1
          BY <3>2
        <4> QED
          BY <3>2, <4>1, <2>1
      <3>3. CASE i = n + 1
        BY <3>3
      <3> QED
        BY <3>1, <3>2, <3>3
    <2>3. Loop(h, n + 1)
      BY <2>2
    <2>4. \E k : Loop(k, n + 1)
      <3> HIDE DEF Loop, h
      <3> QED
        BY <2>3
    <2> QED
      BY <2>4
  <1>3. \E g : Loop(g, TextDraws)
    <2> HIDE DEF Loop
    <2>1. Nat \subseteq S
      BY <1>1, <1>2, Steps
    <2> QED
      BY <2>1, ClientAssumption
  <1>4. \A g : Loop(g, TextDraws) <=> SceneLoop(g, s, device, f, TextDraws)
    BY DEF SceneLoop
  <1> DEFINE chosen == CHOOSE g : SceneLoop(g, s, device, f, TextDraws)
  <1>5. SceneLoop(chosen, s, device, f, TextDraws)
    <2> HIDE DEF Loop
    <2> QED
      BY <1>3, <1>4
  <1>6. Ovl!DrawSlots(s, device, f) = chosen[TextDraws]
    BY DEF Ovl!DrawSlots, SceneLoop
  <1> HIDE DEF chosen
  <1> QED
    BY <1>5, <1>6

\* Drawing all text draws keeps what drawing one keeps.
LEMMA SceneKeeps ==
    ASSUME NEW s, Ovl!Whole(s), NEW device \in Ovl!Devices, env.world \in Ovl!Worlds \cup {"none"}, NEW f
    PROVE  Ovl!Whole(Ovl!DrawSlots(s, device, f))
  <1>1. PICK g : SceneLoop(g, s, device, f, TextDraws) /\ Ovl!DrawSlots(s, device, f) = g[TextDraws]
    BY SceneLoopIs
  <1> DEFINE S == {n \in Nat : n =< TextDraws => Ovl!Whole(g[n])}
  <1>2. 0 \in S
    <2>1. 0 \in 0 .. TextDraws
      BY ClientAssumption
    <2>2. g[0] = s
      BY <1>1, <2>1 DEF SceneLoop
    <2> QED
      BY <2>2
  <1>3. ASSUME NEW n \in Nat, n \in S PROVE n + 1 \in S
    <2> SUFFICES ASSUME n + 1 =< TextDraws PROVE Ovl!Whole(g[n + 1])
      OBVIOUS
    <2>1. n + 1 \in 0 .. TextDraws /\ n + 1 \in Ovl!Ids /\ n + 1 # 0 /\ (n + 1) - 1 = n
      BY ClientAssumption DEF Ovl!Ids
    <2>2. Ovl!Whole(g[n])
      BY <1>3, ClientAssumption
    <2>3. PICK i : i = n + 1
      OBVIOUS
    <2>4. g[i] = IF g[n].slots[i].active THEN Ovl!DrawSlot(g[n], device, i, f) ELSE g[n]
      <3>1. \A k \in 0 .. TextDraws : k # 0 =>
              g[k] = IF g[k - 1].slots[k].active THEN Ovl!DrawSlot(g[k - 1], device, k, f) ELSE g[k - 1]
        BY <1>1 DEF SceneLoop
      <3>2. i \in 0 .. TextDraws /\ i # 0 /\ i - 1 = n
        BY <2>1, <2>3
      <3>3. PICK m : m = i - 1
        OBVIOUS
      <3>4. g[i] = IF g[m].slots[i].active THEN Ovl!DrawSlot(g[m], device, i, f) ELSE g[m]
        BY <3>1, <3>2, <3>3
      <3> QED
        BY <3>2, <3>3, <3>4
    <2>5. PICK x : x = g[n]
      OBVIOUS
    <2>6. CASE x.slots[i].active
      BY <2>1, <2>2, <2>3, <2>4, <2>5, <2>6, DrawKeeps
    <2>7. CASE ~x.slots[i].active
      BY <2>2, <2>3, <2>4, <2>5, <2>7
    <2> QED
      BY <2>6, <2>7
  <1>4. Nat \subseteq S
    <2> HIDE DEF S
    <2> QED
      BY <1>2, <1>3, Steps
  <1>5. TextDraws \in S
    BY <1>4, ClientAssumption
  <1>6. Ovl!Whole(g[TextDraws])
    BY <1>5, ClientAssumption
  <1> QED
    BY <1>1, <1>6

\* g is the loop of GTA's own frame, up to text draw n.
GameLoop(g, f, n) ==
    g = [i \in 0 .. n |->
           IF i = 0 THEN Ovl!Now
           ELSE IF own.slots[i].active /\ \A j \in 1 .. (i - 1) : ~Ovl!Spoils(j, f)
                THEN Ovl!DrawCached(g[i - 1], env.device, i, Ovl!How(f, i)) ELSE g[i - 1]]

\* There is such a function too.
LEMMA GameLoopIs ==
    ASSUME NEW f
    PROVE  \E g : GameLoop(g, f, TextDraws)
  <1> DEFINE Draw(x, i) == IF own.slots[i].active /\ \A j \in 1 .. (i - 1) : ~Ovl!Spoils(j, f)
                           THEN Ovl!DrawCached(x, env.device, i, Ovl!How(f, i)) ELSE x
             Loop(g, n) == g = [i \in 0 .. n |-> IF i = 0 THEN Ovl!Now ELSE Draw(g[i - 1], i)]
             S == {n \in Nat : \E g : Loop(g, n)}
  <1>1. 0 \in S
    <2>1. Loop([i \in 0 .. 0 |-> Ovl!Now], 0)
      OBVIOUS
    <2> QED
      BY <2>1
  <1>2. ASSUME NEW n \in Nat, n \in S PROVE n + 1 \in S
    <2> HIDE DEF Draw
    <2>1. PICK g : Loop(g, n)
      BY <1>2
    <2> DEFINE h == [i \in 0 .. n + 1 |-> IF i = n + 1 THEN Draw(g[n], n + 1) ELSE g[i]]
    <2>2. ASSUME NEW i \in 0 .. n + 1 PROVE h[i] = IF i = 0 THEN Ovl!Now ELSE Draw(h[i - 1], i)
      <3>1. CASE i = 0
        BY <3>1, <2>1
      <3>2. CASE i # 0 /\ i # n + 1
        <4>1. i \in 0 .. n /\ i - 1 \in 0 .. n /\ i - 1 \in 0 .. n + 1 /\ i - 1 # n + 1
          BY <3>2
        <4> QED
          BY <3>2, <4>1, <2>1
      <3>3. CASE i = n + 1
        BY <3>3
      <3> QED
        BY <3>1, <3>2, <3>3
    <2>3. Loop(h, n + 1)
      BY <2>2
    <2>4. \E k : Loop(k, n + 1)
      <3> HIDE DEF Loop, h
      <3> QED
        BY <2>3
    <2> QED
      BY <2>4
  <1>3. \E g : Loop(g, TextDraws)
    <2> HIDE DEF Loop
    <2>1. Nat \subseteq S
      BY <1>1, <1>2, Steps
    <2> QED
      BY <2>1, ClientAssumption
  <1>4. \A g : Loop(g, TextDraws) <=> GameLoop(g, f, TextDraws)
    BY DEF GameLoop
  <1> HIDE DEF Loop
  <1> QED
    BY <1>3, <1>4

\* And GTA's frame keeps what a drawing keeps.
LEMMA GameKeeps ==
    ASSUME Ovl!Whole(Ovl!Now), NEW f, NEW g, GameLoop(g, f, TextDraws)
    PROVE  /\ Ovl!Whole(g[TextDraws])
           /\ Ovl!Cleared(Ovl!Now) => Ovl!Cleared(g[TextDraws])
  <1> DEFINE StillWhole(x) == Ovl!Whole(x) /\ (Ovl!Cleared(Ovl!Now) => Ovl!Cleared(x))
             S == {n \in Nat : n =< TextDraws => StillWhole(g[n])}
  <1>2. 0 \in S
    <2>1. 0 \in 0 .. TextDraws
      BY ClientAssumption
    <2>2. g[0] = Ovl!Now
      BY <2>1 DEF GameLoop
    <2> QED
      BY <2>2
  <1>3. ASSUME NEW n \in Nat, n \in S PROVE n + 1 \in S
    <2> SUFFICES ASSUME n + 1 =< TextDraws PROVE StillWhole(g[n + 1])
      OBVIOUS
    <2>1. n + 1 \in 0 .. TextDraws /\ n + 1 \in Ovl!Ids /\ n + 1 # 0 /\ (n + 1) - 1 = n
      BY ClientAssumption DEF Ovl!Ids
    <2>2. StillWhole(g[n])
      BY <1>3, ClientAssumption
    <2>3. PICK i : i = n + 1
      OBVIOUS
    <2>4. PICK x, how : x = g[n] /\ how = Ovl!How(f, i)
      OBVIOUS
    <2>5. g[i] = x \/ g[i] = Ovl!DrawCached(x, env.device, i, how)
      BY <2>1, <2>3, <2>4 DEF GameLoop
    <2>6. CASE g[i] = x
      BY <2>2, <2>3, <2>4, <2>6
    <2>7. CASE g[i] = Ovl!DrawCached(x, env.device, i, how)
      <3>1. PICK y : y = g[i]
        OBVIOUS
      <3>2. Ovl!Whole(x) /\ (Ovl!Cleared(Ovl!Now) => Ovl!Cleared(x)) /\ i \in Ovl!Ids
        BY <2>1, <2>2, <2>3, <2>4
      <3>3. Ovl!Whole(y)
        BY <2>7, <3>1, <3>2, CachedKeeps
      <3>4. Ovl!Cleared(x) => y = x
        BY <2>7, <3>1, <3>2 DEF Ovl!Cleared, Ovl!DrawCached, Ovl!Drawable
      <3> QED
        BY <2>3, <3>1, <3>2, <3>3, <3>4
    <2> QED
      BY <2>5, <2>6, <2>7
  <1>4. Nat \subseteq S
    <2> HIDE DEF S
    <2> QED
      BY <1>2, <1>3, Steps
  <1>5. TextDraws \in S
    BY <1>4, ClientAssumption
  <1> QED
    BY <1>5, ClientAssumption

-----------------------------------------------------------------------------
(* The steps of Overlay. *)

\* What is whole is so in the next state, if that is what the next state shows.
LEMMA WholeNext ==
    ASSUME NEW s, Ovl!Whole(s), Ovl!Now' = s
    PROVE  Ovl!Whole(Ovl!Now)'
  <1>1. Ovl!Whole(Ovl!Now')
    OBVIOUS
  <1> QED
    BY <1>1 DEF Ovl!Whole, Ovl!Screen, Ovl!Counts, Ovl!PicturesFit, Ovl!Held, Ovl!One, Ovl!None, Ovl!Ids,
       Ovl!Slot, Ovl!Texture, Ovl!Camera, Ovl!Devices, Ovl!Worlds, Ovl!Now, Ovl!Cardinality

\* What it takes for the invariant of Overlay to hold in the next state.
LEMMA ScreenIs ==
    ASSUME NEW s, Ovl!Whole(s), Ovl!Now' = s, Ovl!Fields', pc' = "reset" => own'.lost,
           own'.lost => Ovl!Cleared(s)
    PROVE  Ovl!IInv'
  <1>1. Ovl!Whole(Ovl!Now)'
    BY WholeNext
  <1>2. /\ own'.chat = s.chat /\ own'.text = s.text /\ own'.context = s.context /\ own'.slots = s.slots
    <2>1. PICK n : n = Ovl!Now'
      OBVIOUS
    <2>2. n.chat = own'.chat /\ n.text = own'.text /\ n.context = own'.context /\ n.slots = own'.slots
      BY <2>1 DEF Ovl!Now
    <2> QED
      BY <2>1, <2>2
  <1>3. own'.lost => Ovl!Cleared(own')
    BY <1>2 DEF Ovl!Cleared
  <1>4. (own.lost => Ovl!Cleared(own))'
    BY <1>3 DEF Ovl!Cleared, Ovl!Ids, Ovl!None
  <1> QED
    BY <1>1, <1>4 DEF Ovl!IInv

\* What a drawing or a release leaves is kept.
LEMMA KeepNext ==
    ASSUME Ovl!IInv, NEW s, Ovl!Whole(s), NEW cost \in {0, 1}, env.faults + cost =< MaxFaults,
           Ovl!Keep(s, cost), net' \in [seq : 0 .. MaxEvents, restarts : 0 .. MaxRestarts], pc' = pc,
           own.lost => Ovl!Cleared(s)
    PROVE  Ovl!IInv'
  <1>1. Ovl!Fields /\ (pc = "reset" => own.lost)
    BY DEF Ovl!IInv
  <1>2. s \in Ovl!Screen
    BY WholeHas
  <1>3. /\ DOMAIN own = {"slots", "context", "chat", "text", "hooked", "lost"}
        /\ DOMAIN env = {"device", "world", "mode", "alive", "faults", "changes"}
        /\ env.device \in Ovl!Devices /\ env.world \in Ovl!Worlds \cup {"none"}
        /\ env.faults \in 0 .. MaxFaults /\ env.changes \in 0 .. MaxChanges /\ pc \in {"frame", "reset"}
    BY <1>1 DEF Ovl!Fields
  <1>4. PICK slots, context, chat, text, alive :
           slots = s.slots /\ context = s.context /\ chat = s.chat /\ text = s.text /\ alive = s.alive
    OBVIOUS
  <1>5. PICK n : n = env.faults + cost
    OBVIOUS
  <1>6. n \in 0 .. MaxFaults
    BY <1>3, <1>5, ClientAssumption
  <1>7. own' = [own EXCEPT !.slots = slots, !.context = context, !.chat = chat, !.text = text]
    BY <1>4 DEF Ovl!Keep
  <1>8. env' = [env EXCEPT !.alive = alive, !.faults = n]
    <2>1. env' = [env EXCEPT !.alive = s.alive, !.faults = @ + cost]
      BY DEF Ovl!Keep
    <2> QED
      BY <2>1, <1>3, <1>4, <1>5
  <1>9. /\ DOMAIN own' = {"slots", "context", "chat", "text", "hooked", "lost"}
        /\ own'.slots = slots /\ own'.context = context /\ own'.chat = chat /\ own'.text = text
        /\ own'.lost = own.lost
    BY <1>3, <1>7
  <1>10. /\ DOMAIN env' = {"device", "world", "mode", "alive", "faults", "changes"}
         /\ env'.alive = alive /\ env'.faults = n /\ env'.device = env.device /\ env'.world = env.world
         /\ env'.changes = env.changes
    BY <1>3, <1>8
  <1>11. Ovl!Fields'
    <2>1. pc' \in {"frame", "reset"} /\ env'.device \in Ovl!Devices /\ env'.world \in Ovl!Worlds \cup {"none"}
      BY <1>3, <1>10
    <2>2. env'.faults \in 0 .. MaxFaults /\ env'.changes \in 0 .. MaxChanges
      BY <1>3, <1>6, <1>10
    <2> QED
      BY <1>9, <1>10, <2>1, <2>2 DEF Ovl!Fields, Ovl!Devices, Ovl!Worlds
  <1>12. Ovl!Now' = s
    <2>1. Ovl!Now' = [slots |-> own'.slots, context |-> own'.context, chat |-> own'.chat,
                      text |-> own'.text, alive |-> env'.alive]
      BY DEF Ovl!Now
    <2>2. s = [slots |-> s.slots, context |-> s.context, chat |-> s.chat, text |-> s.text, alive |-> s.alive]
      BY <1>2 DEF Ovl!Screen
    <2>3. Ovl!Now' = [slots |-> slots, context |-> context, chat |-> chat, text |-> text, alive |-> alive]
      BY <2>1, <1>9, <1>10
    <2> QED
      BY <1>4, <2>2, <2>3
  <1>13. own'.lost => Ovl!Cleared(s)
    BY <1>9
  <1>14. pc' = "reset" => own'.lost
    BY <1>1, <1>9
  <1> QED
    BY <1>11, <1>12, <1>13, <1>14, ScreenIs

\* The invariant has these parts.
LEMMA OverlayHas ==
    ASSUME Ovl!IInv
    PROVE  /\ Ovl!Whole(Ovl!Now) /\ (own.lost => Ovl!Cleared(Ovl!Now)) /\ (pc = "reset" => own.lost)
           /\ net \in [seq : 0 .. MaxEvents, restarts : 0 .. MaxRestarts]
           /\ DOMAIN own = {"slots", "context", "chat", "text", "hooked", "lost"}
           /\ DOMAIN env = {"device", "world", "mode", "alive", "faults", "changes"}
           /\ env.device \in Ovl!Devices /\ env.world \in Ovl!Worlds \cup {"none"}
           /\ env.faults \in 0 .. MaxFaults /\ env.changes \in 0 .. MaxChanges /\ pc \in {"frame", "reset"}
           /\ Ovl!Now.slots = own.slots /\ Ovl!Now.context = own.context /\ Ovl!Now.chat = own.chat
           /\ Ovl!Now.text = own.text /\ Ovl!Now.alive = env.alive
  <1>1. /\ Ovl!Now.slots = own.slots /\ Ovl!Now.context = own.context /\ Ovl!Now.chat = own.chat
        /\ Ovl!Now.text = own.text /\ Ovl!Now.alive = env.alive
    BY DEF Ovl!Now
  <1>2. own.lost => Ovl!Cleared(Ovl!Now)
    BY <1>1 DEF Ovl!IInv, Ovl!Cleared
  <1>3. Ovl!Whole(Ovl!Now) /\ (pc = "reset" => own.lost) /\ Ovl!Fields
    BY DEF Ovl!IInv
  <1> QED
    BY <1>1, <1>2, <1>3 DEF Ovl!Fields

\* The table with another entry.
With(r, i, x) == [r EXCEPT !.slots[i] = x]

\* An entry without a picture may be written over, if the new one has none either.
LEMMA WithKeeps ==
    ASSUME NEW r, Ovl!Whole(r), NEW i \in Ovl!Ids, r.slots[i].texture = Ovl!None,
           NEW x \in Ovl!Slot, x.texture = Ovl!None, NEW s, s = With(r, i, x)
    PROVE  Ovl!Whole(s) /\ (Ovl!Cleared(r) => Ovl!Cleared(s))
  <1>1. r \in Ovl!Screen /\ r.slots \in [Ovl!Ids -> Ovl!Slot] /\ Ovl!PicturesFit(r)
    BY WholeHas
  <1>w. /\ r.alive.pictures = Ovl!Held(r.slots) /\ r.alive.contexts = Ovl!One(r.context # Ovl!None)
        /\ r.alive.fonts = Ovl!One(r.chat # "none") + Ovl!One(r.text # "none")
    BY WholeHas
  <1>2. PICK slots : slots = [r.slots EXCEPT ![i] = x]
    OBVIOUS
  <1>3. slots \in [Ovl!Ids -> Ovl!Slot] /\ slots[i] = x /\ \A j \in Ovl!Ids \ {i} : slots[j] = r.slots[j]
    BY <1>1, <1>2
  <1>4. s = [r EXCEPT !.slots = slots]
    BY <1>1, <1>2 DEF Ovl!Screen, With
  <1>5. s \in Ovl!Screen
    BY <1>1, <1>3, <1>4 DEF Ovl!Screen
  <1>6. s.slots = slots /\ s.context = r.context /\ s.chat = r.chat /\ s.text = r.text /\ s.alive = r.alive
    BY <1>1, <1>4 DEF Ovl!Screen
  <1>7. Ovl!Held(slots) = Ovl!Held(r.slots)
    <2>1. PICK b : b = r.slots
      OBVIOUS
    <2>2. \A j \in Ovl!Ids : (slots[j].texture # Ovl!None) <=> (b[j].texture # Ovl!None)
      BY <1>3, <2>1
    <2>3. Ovl!Held(slots) = Ovl!Held(b)
      BY <2>2, HeldSame
    <2> QED
      BY <2>1, <2>3
  <1>8. Ovl!PicturesFit(s)
    BY <1>1, <1>3, <1>6 DEF Ovl!PicturesFit
  <1>9. s.alive.pictures = Ovl!Held(s.slots)
    BY <1>w, <1>6, <1>7
  <1>10. s.alive.contexts = Ovl!One(s.context # Ovl!None)
    BY <1>w, <1>6
  <1>11. s.alive.fonts = Ovl!One(s.chat # "none") + Ovl!One(s.text # "none")
    BY <1>w, <1>6
  <1>12. Ovl!Whole(s)
    BY <1>5, <1>8, <1>9, <1>10, <1>11, WholeIs
  <1>13. Ovl!Cleared(r) => Ovl!Cleared(s)
    BY <1>3, <1>6 DEF Ovl!Cleared
  <1> QED
    BY <1>12, <1>13

\* A text draw's picture is released and its entry written over, in one event.
LEMMA OverlayReleased ==
    ASSUME Ovl!IInv, NEW i \in Ovl!Ids, Ovl!Event, pc' = pc,
           NEW r, r = Ovl!ReleaseSlot(Ovl!Now, i),
           NEW x \in Ovl!Slot, x.texture = Ovl!None, NEW s, s = With(r, i, x), Ovl!Keep(s, 0)
    PROVE  Ovl!IInv'
  <1>1. Ovl!Whole(Ovl!Now) /\ (own.lost => Ovl!Cleared(Ovl!Now)) /\ env.faults \in 0 .. MaxFaults
    BY OverlayHas
  <1>2. net' \in [seq : 0 .. MaxEvents, restarts : 0 .. MaxRestarts]
    <2>1. net \in [seq : 0 .. MaxEvents, restarts : 0 .. MaxRestarts]
      BY OverlayHas
    <2>2. PICK n : n = net.seq + 1
      OBVIOUS
    <2>3. net' = [net EXCEPT !.seq = n] /\ net.seq < MaxEvents
      BY <2>2 DEF Ovl!Event
    <2>4. n \in 0 .. MaxEvents
      BY <2>1, <2>2, <2>3, ClientAssumption
    <2> QED
      BY <2>1, <2>3, <2>4
  <1>3. Ovl!Whole(r) /\ r.context = Ovl!Now.context /\ r.chat = Ovl!Now.chat /\ r.text = Ovl!Now.text
        /\ r.slots[i].texture = Ovl!None /\ NoneNew(Ovl!Now, r)
    BY <1>1, ReleaseSlotKeeps
  <1>4. Ovl!Whole(s) /\ (Ovl!Cleared(r) => Ovl!Cleared(s))
    BY <1>3, WithKeeps
  <1>5. own.lost => Ovl!Cleared(s)
    BY <1>1, <1>3, <1>4 DEF Ovl!Cleared, NoneNew
  <1>6. env.faults + 0 =< MaxFaults
    BY <1>1, ClientAssumption
  <1> QED
    BY <1>2, <1>4, <1>5, <1>6, KeepNext

\* A text draw that is shown is shown without a picture.
LEMMA OverlayShow ==
    ASSUME Ovl!IInv, NEW i \in Ovl!Ids, Ovl!Show(i)
    PROVE  Ovl!IInv'
  <1>1. PICK r : r = Ovl!ReleaseSlot(Ovl!Now, i)
    OBVIOUS
  <1>2. Ovl!Whole(r) /\ r.slots[i].texture = Ovl!None
    BY <1>1, OverlayHas, ReleaseSlotKeeps
  <1>3. r \in Ovl!Screen /\ r.slots \in [Ovl!Ids -> Ovl!Slot]
    BY <1>2, WholeHas
  <1>4. PICK n : n = net'.seq
    OBVIOUS
  <1>5. n \in 0 .. MaxEvents
    <2>1. net \in [seq : 0 .. MaxEvents, restarts : 0 .. MaxRestarts]
      BY OverlayHas
    <2>2. net.seq < MaxEvents /\ net' = [net EXCEPT !.seq = @ + 1]
      BY DEF Ovl!Show, Ovl!Event
    <2>3. n = net.seq + 1
      BY <1>4, <2>1, <2>2
    <2> QED
      BY <2>1, <2>2, <2>3, ClientAssumption
  <1>6. PICK o : o = r.slots[i]
    OBVIOUS
  <1>7. PICK x : x = [o EXCEPT !.active = TRUE, !.seq = n, !.shown = n]
    OBVIOUS
  <1>8. x \in Ovl!Slot
    BY <1>3, <1>5, <1>6, <1>7 DEF Ovl!Slot
  <1>9. x.texture = Ovl!None
    BY <1>2, <1>3, <1>6, <1>7 DEF Ovl!Slot
  <1>10. Ovl!Keep([r EXCEPT !.slots[i].active = TRUE, !.slots[i].seq = n, !.slots[i].shown = n], 0)
    BY <1>1, <1>4 DEF Ovl!Show
  <1>11. [r EXCEPT !.slots[i].active = TRUE, !.slots[i].seq = n, !.slots[i].shown = n] = With(r, i, x)
    BY <1>3, <1>6, <1>7 DEF Ovl!Screen, With
  <1>12. PICK s : s = With(r, i, x)
    OBVIOUS
  <1>13. Ovl!Event /\ pc' = pc
    BY DEF Ovl!Show
  <1>14. Ovl!Keep(s, 0)
    BY <1>10, <1>11, <1>12
  <1> QED
    BY <1>1, <1>8, <1>9, <1>12, <1>13, <1>14, OverlayReleased

\* A text draw that is hidden has no picture.
LEMMA OverlayHide ==
    ASSUME Ovl!IInv, NEW i \in Ovl!Ids, Ovl!Hide(i)
    PROVE  Ovl!IInv'
  <1>1. PICK r : r = Ovl!ReleaseSlot(Ovl!Now, i)
    OBVIOUS
  <1>2. Ovl!Whole(r) /\ r.slots[i].texture = Ovl!None
    BY <1>1, OverlayHas, ReleaseSlotKeeps
  <1>3. r \in Ovl!Screen /\ r.slots \in [Ovl!Ids -> Ovl!Slot]
    BY <1>2, WholeHas
  <1>4. PICK o : o = r.slots[i]
    OBVIOUS
  <1>5. PICK x : x = [o EXCEPT !.active = FALSE]
    OBVIOUS
  <1>6. x \in Ovl!Slot
    BY <1>3, <1>4, <1>5 DEF Ovl!Slot
  <1>7. x.texture = Ovl!None
    BY <1>2, <1>3, <1>4, <1>5 DEF Ovl!Slot
  <1>8. Ovl!Keep([r EXCEPT !.slots[i].active = FALSE], 0)
    BY <1>1 DEF Ovl!Hide
  <1>9. [r EXCEPT !.slots[i].active = FALSE] = With(r, i, x)
    BY <1>3, <1>4, <1>5 DEF Ovl!Screen, With
  <1>10. PICK s : s = With(r, i, x)
    OBVIOUS
  <1>11. Ovl!Event /\ pc' = pc
    BY DEF Ovl!Hide
  <1>12. Ovl!Keep(s, 0)
    BY <1>8, <1>9, <1>10
  <1> QED
    BY <1>1, <1>6, <1>7, <1>10, <1>11, <1>12, OverlayReleased

\* What Overlay has in its fields when only the screen or the surroundings change.
LEMMA SameSurroundings ==
    ASSUME Ovl!IInv, env' = env \/ (\E s : env' = [env EXCEPT !.alive = s])
    PROVE  /\ DOMAIN env' = {"device", "world", "mode", "alive", "faults", "changes"}
           /\ env'.device \in Ovl!Devices /\ env'.world \in Ovl!Worlds \cup {"none"}
           /\ env'.faults \in 0 .. MaxFaults /\ env'.changes \in 0 .. MaxChanges
  <1>1. /\ DOMAIN env = {"device", "world", "mode", "alive", "faults", "changes"}
        /\ env.device \in Ovl!Devices /\ env.world \in Ovl!Worlds \cup {"none"}
        /\ env.faults \in 0 .. MaxFaults /\ env.changes \in 0 .. MaxChanges
    BY OverlayHas
  <1>2. CASE env' = env
    BY <1>1, <1>2
  <1>3. ASSUME NEW s, env' = [env EXCEPT !.alive = s]
        PROVE  /\ DOMAIN env' = DOMAIN env /\ env'.device = env.device /\ env'.world = env.world
               /\ env'.faults = env.faults /\ env'.changes = env.changes
    BY <1>1, <1>3
  <1> QED
    BY <1>1, <1>2, <1>3

\* The fields of the next state, one by one.
LEMMA FieldsNext ==
    ASSUME net' \in [seq : 0 .. MaxEvents, restarts : 0 .. MaxRestarts],
           DOMAIN own' = {"slots", "context", "chat", "text", "hooked", "lost"},
           DOMAIN env' = {"device", "world", "mode", "alive", "faults", "changes"},
           env'.device \in Ovl!Devices, env'.world \in Ovl!Worlds \cup {"none"},
           env'.faults \in 0 .. MaxFaults, env'.changes \in 0 .. MaxChanges, pc' \in {"frame", "reset"}
    PROVE  Ovl!Fields'
  BY DEF Ovl!Fields, Ovl!Devices, Ovl!Worlds

\* Only the text is new.
LEMMA OverlayEdit ==
    ASSUME Ovl!IInv, NEW i \in Ovl!Ids, Ovl!Edit(i)
    PROVE  Ovl!IInv'
  <1>1. /\ Ovl!Whole(Ovl!Now) /\ (own.lost => Ovl!Cleared(Ovl!Now)) /\ (pc = "reset" => own.lost)
        /\ net \in [seq : 0 .. MaxEvents, restarts : 0 .. MaxRestarts]
        /\ DOMAIN own = {"slots", "context", "chat", "text", "hooked", "lost"} /\ pc \in {"frame", "reset"}
        /\ Ovl!Now.slots = own.slots
    BY OverlayHas
  <1>2. Ovl!Event /\ pc' = pc /\ env' = env
    BY DEF Ovl!Edit
  <1>3. PICK n : n = net.seq + 1
    OBVIOUS
  <1>4. net' = [net EXCEPT !.seq = n] /\ net.seq < MaxEvents
    BY <1>2, <1>3 DEF Ovl!Event
  <1>5. n \in 0 .. MaxEvents
    BY <1>1, <1>3, <1>4, ClientAssumption
  <1>6. net' \in [seq : 0 .. MaxEvents, restarts : 0 .. MaxRestarts] /\ net'.seq = n
    BY <1>1, <1>4, <1>5
  <1>7. PICK o : o = own.slots[i]
    OBVIOUS
  <1>8. own.slots \in [Ovl!Ids -> Ovl!Slot] /\ o \in Ovl!Slot
    BY <1>1, <1>7, WholeHas
  <1>9. PICK x : x = IF o.active THEN [o EXCEPT !.seq = n] ELSE o
    OBVIOUS
  <1>10. x \in Ovl!Slot
    BY <1>5, <1>8, <1>9 DEF Ovl!Slot
  <1>11. x.texture = o.texture /\ x.active = o.active /\ x.shown = o.shown
    BY <1>8, <1>9 DEF Ovl!Slot
  <1>12. PICK slots : slots = [own.slots EXCEPT ![i] = x]
    OBVIOUS
  <1>13. slots \in [Ovl!Ids -> Ovl!Slot] /\ slots[i] = x /\ \A j \in Ovl!Ids \ {i} : slots[j] = own.slots[j]
    BY <1>8, <1>10, <1>12
  <1>15. /\ DOMAIN own' = DOMAIN own /\ own'.slots = slots /\ own'.context = own.context /\ own'.chat = own.chat
         /\ own'.text = own.text /\ own'.lost = own.lost
    <2>1. CASE o.active
      <3>1. own' = [own EXCEPT !.slots[i].seq = n]
        BY <1>6, <1>7, <2>1 DEF Ovl!Edit
      <3>2. own' = [own EXCEPT !.slots = slots]
        BY <1>1, <1>7, <1>8, <1>9, <1>12, <2>1, <3>1 DEF Ovl!Slot
      <3> QED
        BY <1>1, <3>2
    <2>2. CASE ~o.active
      <3>1. own' = own
        BY <1>7, <2>2 DEF Ovl!Edit
      <3>2. slots = own.slots
        BY <1>7, <1>8, <1>9, <1>12, <2>2
      <3> QED
        BY <3>1, <3>2
    <2> QED
      BY <2>1, <2>2
  <1>16. PICK s : s = Ovl!Now'
    OBVIOUS
  <1>17. PICK t : t = Ovl!Now
    OBVIOUS
  <1>18. t \in Ovl!Screen
    BY <1>1, <1>17, WholeHas
  <1>19. /\ s = [slots |-> slots, context |-> own.context, chat |-> own.chat, text |-> own.text, alive |-> env.alive]
         /\ t = [slots |-> own.slots, context |-> own.context, chat |-> own.chat, text |-> own.text, alive |-> env.alive]
    BY <1>2, <1>15, <1>16, <1>17 DEF Ovl!Now
  <1>20. s \in Ovl!Screen
    BY <1>13, <1>18, <1>19 DEF Ovl!Screen
  <1>21. /\ s.context = t.context /\ s.chat = t.chat /\ s.text = t.text /\ s.alive = t.alive
         /\ s.slots = slots /\ t.slots = own.slots
    BY <1>19
  <1>22. \A j \in Ovl!Ids : /\ s.slots[j].texture = t.slots[j].texture
                            /\ s.slots[j].active = t.slots[j].active /\ s.slots[j].shown = t.slots[j].shown
    BY <1>7, <1>11, <1>13, <1>21
  <1>23. Ovl!Whole(s)
    <2>1. Ovl!Whole(t)
      BY <1>1, <1>17
    <2>2. s.context = t.context /\ s.chat = t.chat /\ s.text = t.text /\ s.alive = t.alive
      BY <1>21
    <2> QED
      BY <1>20, <1>22, <2>1, <2>2, SameWhole
  <1>24. own.lost => Ovl!Cleared(s)
    BY <1>1, <1>17, <1>21, <1>22 DEF Ovl!Cleared
  <1>25. Ovl!Fields'
    BY <1>1, <1>2, <1>6, <1>15, SameSurroundings, FieldsNext
  <1> QED
    BY <1>1, <1>2, <1>15, <1>16, <1>23, <1>24, <1>25, ScreenIs

\* A new session forgets every text draw.
LEMMA OverlayRestart ==
    ASSUME Ovl!IInv, Ovl!Restart
    PROVE  Ovl!IInv'
  <1>1. /\ Ovl!Whole(Ovl!Now) /\ (own.lost => Ovl!Cleared(Ovl!Now))
        /\ net \in [seq : 0 .. MaxEvents, restarts : 0 .. MaxRestarts] /\ env.faults \in 0 .. MaxFaults
    BY OverlayHas
  <1>2. PICK n : n = net.restarts + 1
    OBVIOUS
  <1>3. net' = [seq |-> 0, restarts |-> n] /\ net.restarts < MaxRestarts /\ pc' = pc
    BY <1>2 DEF Ovl!Restart
  <1>4. n \in 0 .. MaxRestarts /\ 0 \in 0 .. MaxEvents /\ 0 \in 0 .. RetryTicks
    BY <1>1, <1>2, <1>3, ClientAssumption
  <1>5. net' \in [seq : 0 .. MaxEvents, restarts : 0 .. MaxRestarts]
    BY <1>3, <1>4
  <1>6. PICK r : r = Ovl!ReleaseAll(Ovl!Now)
    OBVIOUS
  <1>7. /\ Ovl!Whole(r) /\ r.context = Ovl!None /\ r.chat = Ovl!Now.chat /\ r.text = Ovl!Now.text
        /\ r.alive.pictures = 0 /\ r.alive.contexts = 0
    BY <1>1, <1>6, ReleaseAllKeeps
  <1>8. r \in Ovl!Screen /\ r.alive.fonts = Ovl!One(r.chat # "none") + Ovl!One(r.text # "none")
    BY <1>7, WholeHas
  <1>9. PICK slots : slots = [i \in Ovl!Ids |-> Ovl!Empty]
    OBVIOUS
  <1>10. PICK s : s = [r EXCEPT !.slots = slots]
    OBVIOUS
  <1>11. Ovl!Keep(s, 0)
    BY <1>6, <1>9, <1>10 DEF Ovl!Restart
  <1>12. Ovl!Empty \in Ovl!Slot /\ Ovl!Empty.texture = Ovl!None
    BY <1>4 DEF Ovl!Empty, Ovl!Slot
  <1>13. slots \in [Ovl!Ids -> Ovl!Slot] /\ \A i \in Ovl!Ids : slots[i].texture = Ovl!None
    BY <1>9, <1>12
  <1>14. s \in Ovl!Screen
    BY <1>8, <1>10, <1>13 DEF Ovl!Screen
  <1>15. s.slots = slots /\ s.context = r.context /\ s.chat = r.chat /\ s.text = r.text /\ s.alive = r.alive
    BY <1>8, <1>10 DEF Ovl!Screen
  <1>16. Ovl!Held(slots) = 0 /\ Ovl!PicturesFit(s)
    BY <1>13, <1>15, HeldNone DEF Ovl!PicturesFit
  <1>17. Ovl!Whole(s)
    <2>1. s.alive.pictures = Ovl!Held(s.slots)
      BY <1>7, <1>15, <1>16
    <2>2. s.alive.contexts = Ovl!One(s.context # Ovl!None)
      BY <1>7, <1>15 DEF Ovl!One
    <2>3. s.alive.fonts = Ovl!One(s.chat # "none") + Ovl!One(s.text # "none")
      BY <1>8, <1>15
    <2> QED
      BY <1>14, <1>16, <2>1, <2>2, <2>3, WholeIs
  <1>18. own.lost => Ovl!Cleared(s)
    BY <1>1, <1>7, <1>13, <1>15 DEF Ovl!Cleared
  <1>19. env.faults + 0 =< MaxFaults
    BY <1>1, ClientAssumption
  <1> QED
    BY <1>3, <1>5, <1>11, <1>17, <1>18, <1>19, KeepNext

\* A fault is counted while there may be one.
LEMMA OneFault ==
    ASSUME Ovl!IInv, NEW f \in Ovl!Possible
    PROVE  Ovl!One(f # Ovl!Nothing) \in {0, 1} /\ env.faults + Ovl!One(f # Ovl!Nothing) =< MaxFaults
  <1>1. env.faults \in 0 .. MaxFaults
    BY OverlayHas
  <1>2. CASE f = Ovl!Nothing
    BY <1>1, <1>2, ClientAssumption DEF Ovl!One
  <1>3. CASE f # Ovl!Nothing
    <2>1. env.faults < MaxFaults
      BY <1>3 DEF Ovl!Possible
    <2> QED
      BY <1>1, <1>3, <2>1, ClientAssumption DEF Ovl!One
  <1> QED
    BY <1>2, <1>3

\* EndScene: the fonts, then the text draws one after the other.
LEMMA OverlayEndScene ==
    ASSUME Ovl!IInv, Ovl!EndScene
    PROVE  Ovl!IInv'
  <1>1. /\ Ovl!Whole(Ovl!Now) /\ net \in [seq : 0 .. MaxEvents, restarts : 0 .. MaxRestarts]
        /\ env.device \in Ovl!Devices /\ env.world \in Ovl!Worlds \cup {"none"}
    BY OverlayHas
  <1>2. ~own.lost /\ net' = net /\ pc' = pc
    BY DEF Ovl!EndScene
  <1>3. PICK f \in Ovl!Possible, scoreboard \in BOOLEAN, plain \in BOOLEAN :
          LET c == Ovl!EnsureChatFont(Ovl!Now, env.device, f.is # "font")
              t == IF plain THEN Ovl!EnsureTextFont(c, env.device) ELSE c
          IN  Ovl!Keep(IF c.chat = "none" \/ Ovl!Active = {} \/ scoreboard THEN c
                       ELSE Ovl!DrawSlots(t, env.device, f), Ovl!One(f # Ovl!Nothing))
    BY DEF Ovl!EndScene
  <1>4. PICK device : device = env.device
    OBVIOUS
  <1>5. PICK works \in BOOLEAN : works = (f.is # "font")
    OBVIOUS
  <1>6. PICK c : c = Ovl!EnsureChatFont(Ovl!Now, device, works)
    OBVIOUS
  <1>7. c = Ovl!EnsureChatFont(Ovl!Now, env.device, f.is # "font")
    BY <1>4, <1>5, <1>6 DEF Ovl!EnsureChatFont
  <1>8. PICK t : t = IF plain THEN Ovl!EnsureTextFont(c, device) ELSE c
    OBVIOUS
  <1>9. PICK s : s = IF c.chat = "none" \/ Ovl!Active = {} \/ scoreboard THEN c ELSE Ovl!DrawSlots(t, device, f)
    OBVIOUS
  <1>10. PICK cost : cost = Ovl!One(f # Ovl!Nothing)
    OBVIOUS
  <1>11. Ovl!Keep(s, cost)
    BY <1>3, <1>4, <1>7, <1>8, <1>9, <1>10
  <1>12. device \in Ovl!Devices
    BY <1>1, <1>4
  <1>13. Ovl!Whole(c)
    BY <1>1, <1>6, <1>12, ChatFontKeeps
  <1>14. Ovl!Whole(t)
    <2>1. CASE plain
      BY <1>8, <1>12, <1>13, <2>1, TextFontKeeps
    <2>2. CASE ~plain
      BY <1>8, <1>13, <2>2
    <2> QED
      BY <2>1, <2>2
  <1>15. Ovl!Whole(s)
    <2>1. CASE s = c
      BY <1>13, <2>1
    <2>2. CASE s = Ovl!DrawSlots(t, device, f)
      BY <1>1, <1>12, <1>14, <2>2, SceneKeeps
    <2> QED
      BY <1>9, <2>1, <2>2
  <1>16. cost \in {0, 1} /\ env.faults + cost =< MaxFaults
    BY <1>10, OneFault
  <1>17. net' \in [seq : 0 .. MaxEvents, restarts : 0 .. MaxRestarts] /\ (own.lost => Ovl!Cleared(s))
    BY <1>1, <1>2
  <1> QED
    BY <1>2, <1>11, <1>15, <1>16, <1>17, KeepNext

\* GTA's own frame draws what EndScene has made.
LEMMA OverlayGame ==
    ASSUME Ovl!IInv, Ovl!GameProcess
    PROVE  Ovl!IInv'
  <1>1. /\ Ovl!Whole(Ovl!Now) /\ net \in [seq : 0 .. MaxEvents, restarts : 0 .. MaxRestarts]
        /\ (own.lost => Ovl!Cleared(Ovl!Now))
    BY OverlayHas
  <1>2. net' = net /\ pc' = pc
    BY DEF Ovl!GameProcess
  <1>3. \E f \in Ovl!Possible :
          Ovl!Keep((CHOOSE g : GameLoop(g, f, TextDraws))[TextDraws], Ovl!One(f # Ovl!Nothing))
    BY DEF Ovl!GameProcess, GameLoop
  <1>4. PICK f \in Ovl!Possible :
          Ovl!Keep((CHOOSE g : GameLoop(g, f, TextDraws))[TextDraws], Ovl!One(f # Ovl!Nothing))
    BY <1>3
  <1>5. PICK g : g = CHOOSE h : GameLoop(h, f, TextDraws)
    OBVIOUS
  <1>6. GameLoop(g, f, TextDraws)
    BY <1>5, GameLoopIs
  <1>7. PICK s, cost : s = g[TextDraws] /\ cost = Ovl!One(f # Ovl!Nothing)
    OBVIOUS
  <1>8. Ovl!Keep(s, cost)
    BY <1>4, <1>5, <1>7
  <1>9. Ovl!Whole(s) /\ (Ovl!Cleared(Ovl!Now) => Ovl!Cleared(s))
    BY <1>1, <1>6, <1>7, GameKeeps
  <1>10. cost \in {0, 1} /\ env.faults + cost =< MaxFaults
    BY <1>7, OneFault
  <1>11. net' \in [seq : 0 .. MaxEvents, restarts : 0 .. MaxRestarts] /\ (own.lost => Ovl!Cleared(s))
    BY <1>1, <1>2, <1>9
  <1> QED
    BY <1>2, <1>8, <1>9, <1>10, <1>11, KeepNext

\* The device's table has the hooks.
LEMMA OverlayInstall ==
    ASSUME Ovl!IInv, Ovl!InstallHook
    PROVE  Ovl!IInv'
  <1>1. /\ Ovl!Whole(Ovl!Now) /\ (own.lost => Ovl!Cleared(Ovl!Now)) /\ (pc = "reset" => own.lost)
        /\ net \in [seq : 0 .. MaxEvents, restarts : 0 .. MaxRestarts]
        /\ DOMAIN own = {"slots", "context", "chat", "text", "hooked", "lost"} /\ pc \in {"frame", "reset"}
    BY OverlayHas
  <1>2. own' = [own EXCEPT !.hooked = TRUE] /\ net' = net /\ env' = env /\ pc' = pc
    BY DEF Ovl!InstallHook
  <1>3. /\ DOMAIN own' = DOMAIN own /\ own'.slots = own.slots /\ own'.context = own.context
        /\ own'.chat = own.chat /\ own'.text = own.text /\ own'.lost = own.lost
    BY <1>1, <1>2
  <1>4. PICK s : s = Ovl!Now
    OBVIOUS
  <1>5. Ovl!Now' = s
    BY <1>2, <1>3, <1>4 DEF Ovl!Now
  <1>6. Ovl!Fields'
    BY <1>1, <1>2, <1>3, SameSurroundings, FieldsNext
  <1>7. Ovl!Whole(s) /\ (own'.lost => Ovl!Cleared(s)) /\ (pc' = "reset" => own'.lost)
    BY <1>1, <1>2, <1>3, <1>4
  <1> QED
    BY <1>5, <1>6, <1>7, ScreenIs

\* A reset of the device begins with the release of everything.
LEMMA OverlayResetBegins ==
    ASSUME Ovl!IInv, Ovl!ResetBegins
    PROVE  Ovl!IInv'
  <1>1. /\ Ovl!Whole(Ovl!Now)
        /\ net \in [seq : 0 .. MaxEvents, restarts : 0 .. MaxRestarts]
        /\ DOMAIN own = {"slots", "context", "chat", "text", "hooked", "lost"}
        /\ DOMAIN env = {"device", "world", "mode", "alive", "faults", "changes"}
    BY OverlayHas
  <1>2. PICK s : s = Ovl!ReleaseOverlay(Ovl!Now)
    OBVIOUS
  <1>3. Ovl!Whole(s) /\ Ovl!Cleared(s) /\ s \in Ovl!Screen
    <2>1. Ovl!Whole(s) /\ Ovl!Cleared(s)
      BY <1>1, <1>2, ReleaseOverlayKeeps
    <2> QED
      BY <2>1, WholeHas
  <1>4. PICK slots, context, chat, text, alive :
           slots = s.slots /\ context = s.context /\ chat = s.chat /\ text = s.text /\ alive = s.alive
    OBVIOUS
  <1>5. /\ own' = [own EXCEPT !.slots = slots, !.context = context, !.chat = chat, !.text = text, !.lost = TRUE]
        /\ env' = [env EXCEPT !.alive = alive] /\ pc' = "reset" /\ net' = net
    BY <1>2, <1>4 DEF Ovl!ResetBegins
  <1>6. /\ DOMAIN own' = DOMAIN own /\ own'.slots = slots /\ own'.context = context
        /\ own'.chat = chat /\ own'.text = text /\ own'.lost
    BY <1>1, <1>5
  <1>7. env'.alive = alive
    BY <1>1, <1>5
  <1>8. Ovl!Now' = s
    <2>1. Ovl!Now' = [slots |-> slots, context |-> context, chat |-> chat, text |-> text, alive |-> alive]
      BY <1>6, <1>7 DEF Ovl!Now
    <2>2. s = [slots |-> s.slots, context |-> s.context, chat |-> s.chat, text |-> s.text, alive |-> s.alive]
      BY <1>3 DEF Ovl!Screen
    <2> QED
      BY <1>4, <2>1, <2>2
  <1>9. Ovl!Fields'
    <2>1. env' = env \/ (\E a : env' = [env EXCEPT !.alive = a])
      BY <1>5
    <2> QED
      BY <1>1, <1>5, <1>6, <2>1, SameSurroundings, FieldsNext
  <1> QED
    BY <1>3, <1>6, <1>8, <1>9, ScreenIs

\* After a reset that worked the overlay draws again.
LEMMA OverlayResetEnds ==
    ASSUME Ovl!IInv, Ovl!ResetEnds
    PROVE  Ovl!IInv'
  <1>1. /\ Ovl!Whole(Ovl!Now) /\ (own.lost => Ovl!Cleared(Ovl!Now))
        /\ net \in [seq : 0 .. MaxEvents, restarts : 0 .. MaxRestarts]
        /\ DOMAIN own = {"slots", "context", "chat", "text", "hooked", "lost"}
    BY OverlayHas
  <1>2. net' = net /\ env' = env /\ pc' = "frame"
    BY DEF Ovl!ResetEnds
  <1>3. /\ DOMAIN own' = DOMAIN own /\ own'.slots = own.slots /\ own'.context = own.context
        /\ own'.chat = own.chat /\ own'.text = own.text /\ (own'.lost => own.lost)
    <2>1. CASE own' = [own EXCEPT !.lost = FALSE]
      BY <1>1, <2>1
    <2>2. CASE own' = own
      BY <2>2
    <2> QED
      BY <2>1, <2>2 DEF Ovl!ResetEnds
  <1>4. PICK s : s = Ovl!Now
    OBVIOUS
  <1>5. Ovl!Now' = s
    BY <1>2, <1>3, <1>4 DEF Ovl!Now
  <1>6. Ovl!Fields'
    BY <1>1, <1>2, <1>3, SameSurroundings, FieldsNext
  <1>7. Ovl!Whole(s) /\ (own'.lost => Ovl!Cleared(s)) /\ (pc' = "reset" => own'.lost)
    BY <1>1, <1>2, <1>3, <1>4
  <1> QED
    BY <1>5, <1>6, <1>7, ScreenIs

\* A new size of the font releases everything.
LEMMA OverlayFontSize ==
    ASSUME Ovl!IInv, Ovl!SetFontSize
    PROVE  Ovl!IInv'
  <1>1. /\ Ovl!Whole(Ovl!Now) /\ net \in [seq : 0 .. MaxEvents, restarts : 0 .. MaxRestarts]
        /\ env.faults \in 0 .. MaxFaults
    BY OverlayHas
  <1>2. PICK s : s = Ovl!ReleaseOverlay(Ovl!Now)
    OBVIOUS
  <1>3. Ovl!Whole(s) /\ Ovl!Cleared(s)
    BY <1>1, <1>2, ReleaseOverlayKeeps
  <1>4. Ovl!Keep(s, 0) /\ net' = net /\ pc' = pc
    BY <1>2 DEF Ovl!SetFontSize
  <1>5. env.faults + 0 =< MaxFaults
    BY <1>1, ClientAssumption
  <1>6. net' \in [seq : 0 .. MaxEvents, restarts : 0 .. MaxRestarts]
    BY <1>1, <1>4
  <1> QED
    BY <1>3, <1>4, <1>5, <1>6, KeepNext

\* The entries after a tick.
Ticked(slots) == [i \in Ovl!Ids |-> Ovl!Cooled(slots[i])]

\* It passes for every entry alike.
LEMMA TickedIs ==
    ASSUME NEW slots \in [Ovl!Ids -> Ovl!Slot], NEW r, r = Ticked(slots)
    PROVE  /\ r \in [Ovl!Ids -> Ovl!Slot]
           /\ \A i \in Ovl!Ids : /\ r[i].texture = slots[i].texture
                                 /\ r[i].active = slots[i].active /\ r[i].shown = slots[i].shown
  <1> SUFFICES ASSUME NEW i \in Ovl!Ids
               PROVE  /\ r[i] \in Ovl!Slot /\ r[i].texture = slots[i].texture
                      /\ r[i].active = slots[i].active /\ r[i].shown = slots[i].shown
    BY DEF Ticked
  <1>1. PICK o : o = slots[i]
    OBVIOUS
  <1>2. PICK n : n = IF o.retry > 0 THEN o.retry - 1 ELSE 0
    OBVIOUS
  <1>3. o \in Ovl!Slot /\ r[i] = [o EXCEPT !.retry = n]
    BY <1>1, <1>2 DEF Ticked, Ovl!Cooled
  <1>4. n \in 0 .. RetryTicks
    BY <1>2, <1>3, ClientAssumption DEF Ovl!Slot
  <1> QED
    BY <1>1, <1>3, <1>4 DEF Ovl!Slot

\* Time passes.
LEMMA OverlayTick ==
    ASSUME Ovl!IInv, Ovl!Tick
    PROVE  Ovl!IInv'
  <1>1. /\ Ovl!Whole(Ovl!Now) /\ (own.lost => Ovl!Cleared(Ovl!Now)) /\ (pc = "reset" => own.lost)
        /\ net \in [seq : 0 .. MaxEvents, restarts : 0 .. MaxRestarts]
        /\ DOMAIN own = {"slots", "context", "chat", "text", "hooked", "lost"} /\ pc \in {"frame", "reset"}
        /\ Ovl!Now.slots = own.slots
    BY OverlayHas
  <1>2. PICK slots : slots = Ticked(own.slots)
    OBVIOUS
  <1>3. own' = [own EXCEPT !.slots = slots] /\ net' = net /\ env' = env /\ pc' = pc
    BY <1>2 DEF Ovl!Tick, Ticked
  <1>4. /\ DOMAIN own' = DOMAIN own /\ own'.slots = slots /\ own'.context = own.context
        /\ own'.chat = own.chat /\ own'.text = own.text /\ own'.lost = own.lost
    BY <1>1, <1>3
  <1>5. own.slots \in [Ovl!Ids -> Ovl!Slot]
    BY <1>1, WholeHas
  <1>6. /\ slots \in [Ovl!Ids -> Ovl!Slot]
        /\ \A i \in Ovl!Ids : /\ slots[i].texture = own.slots[i].texture
                              /\ slots[i].active = own.slots[i].active /\ slots[i].shown = own.slots[i].shown
    BY <1>2, <1>5, TickedIs
  <1>7. PICK s : s = Ovl!Now'
    OBVIOUS
  <1>8. PICK t : t = Ovl!Now
    OBVIOUS
  <1>9. t \in Ovl!Screen
    BY <1>1, <1>8, WholeHas
  <1>10. /\ s = [slots |-> slots, context |-> own.context, chat |-> own.chat, text |-> own.text, alive |-> env.alive]
         /\ t = [slots |-> own.slots, context |-> own.context, chat |-> own.chat, text |-> own.text, alive |-> env.alive]
    BY <1>3, <1>4, <1>7, <1>8 DEF Ovl!Now
  <1>11. s \in Ovl!Screen
    BY <1>6, <1>9, <1>10 DEF Ovl!Screen
  <1>12. /\ s.context = t.context /\ s.chat = t.chat /\ s.text = t.text /\ s.alive = t.alive
         /\ s.slots = slots /\ t.slots = own.slots
    BY <1>10
  <1>13. \A j \in Ovl!Ids : /\ s.slots[j].texture = t.slots[j].texture
                            /\ s.slots[j].active = t.slots[j].active /\ s.slots[j].shown = t.slots[j].shown
    BY <1>6, <1>12
  <1>14. Ovl!Whole(s)
    <2>1. Ovl!Whole(t)
      BY <1>1, <1>8
    <2>2. s.context = t.context /\ s.chat = t.chat /\ s.text = t.text /\ s.alive = t.alive
      BY <1>12
    <2> QED
      BY <1>11, <1>13, <2>1, <2>2, SameWhole
  <1>15. own.lost => Ovl!Cleared(s)
    BY <1>1, <1>8, <1>12, <1>13 DEF Ovl!Cleared
  <1>16. Ovl!Fields'
    BY <1>1, <1>3, <1>4, SameSurroundings, FieldsNext
  <1> QED
    BY <1>1, <1>3, <1>4, <1>7, <1>14, <1>15, <1>16, ScreenIs

\* GTA has another device or another world.
LEMMA OverlayChanges ==
    ASSUME Ovl!IInv, Ovl!Changes
    PROVE  Ovl!IInv'
  <1>1. /\ Ovl!Whole(Ovl!Now) /\ (own.lost => Ovl!Cleared(Ovl!Now)) /\ (pc = "reset" => own.lost)
        /\ net \in [seq : 0 .. MaxEvents, restarts : 0 .. MaxRestarts]
        /\ DOMAIN own = {"slots", "context", "chat", "text", "hooked", "lost"} /\ pc \in {"frame", "reset"}
        /\ DOMAIN env = {"device", "world", "mode", "alive", "faults", "changes"}
        /\ env.device \in Ovl!Devices /\ env.world \in Ovl!Worlds \cup {"none"}
        /\ env.faults \in 0 .. MaxFaults /\ env.changes \in 0 .. MaxChanges
    BY OverlayHas
  <1>2. net' = net /\ own' = own /\ pc' = pc /\ env.changes < MaxChanges
    BY DEF Ovl!Changes
  <1>3. PICK n : n = env.changes + 1
    OBVIOUS
  <1>4. n \in 0 .. MaxChanges
    BY <1>1, <1>2, <1>3, ClientAssumption
  <1>5. /\ DOMAIN env' = {"device", "world", "mode", "alive", "faults", "changes"}
        /\ env'.device \in Ovl!Devices /\ env'.world \in Ovl!Worlds \cup {"none"}
        /\ env'.faults = env.faults /\ env'.changes = n /\ env'.alive = env.alive
    <2>1. CASE \E d \in Ovl!Devices \ {env.device} : env' = [env EXCEPT !.device = d, !.changes = @ + 1]
      BY <1>1, <1>3, <2>1
    <2>2. CASE \E w \in (Ovl!Worlds \cup {"none"}) \ {env.world} : env' = [env EXCEPT !.world = w, !.changes = @ + 1]
      BY <1>1, <1>3, <2>2
    <2> QED
      BY <2>1, <2>2 DEF Ovl!Changes
  <1>6. Ovl!Fields'
    BY <1>1, <1>2, <1>4, <1>5, FieldsNext
  <1>7. PICK s : s = Ovl!Now
    OBVIOUS
  <1>8. Ovl!Now' = s
    BY <1>2, <1>5, <1>7 DEF Ovl!Now
  <1>9. Ovl!Whole(s) /\ (own'.lost => Ovl!Cleared(s)) /\ (pc' = "reset" => own'.lost)
    BY <1>1, <1>2, <1>7
  <1> QED
    BY <1>6, <1>8, <1>9, ScreenIs

\* At first nothing is made.
LEMMA OverlayInit ==
    ASSUME ClientAssumption, Ovl!Init
    PROVE  Ovl!IInv
  <1>1. 0 \in 0 .. MaxEvents /\ 0 \in 0 .. RetryTicks /\ 0 \in 0 .. MaxRestarts /\ 0 \in 0 .. MaxFaults /\ 0 \in 0 .. MaxChanges
    BY DEF ClientAssumption
  <1>2. PICK slots : slots = [i \in Ovl!Ids |-> Ovl!Empty]
    OBVIOUS
  <1>3. PICK zero : zero = [pictures |-> 0, contexts |-> 0, fonts |-> 0]
    OBVIOUS
  <1>4. own = [slots |-> slots, context |-> Ovl!None, chat |-> "none", text |-> "none", hooked |-> FALSE, lost |-> FALSE]
    BY <1>2 DEF Ovl!Init
  <1>5. /\ env.device = "d1" /\ env.world = "w1" /\ env.alive = zero /\ env.faults = 0 /\ env.changes = 0
        /\ DOMAIN env = {"device", "world", "mode", "alive", "faults", "changes"}
    BY <1>3 DEF Ovl!Init
  <1>6. Ovl!Fields
    BY <1>1, <1>4, <1>5 DEF Ovl!Init, Ovl!Fields, Ovl!Devices, Ovl!Worlds
  <1>7. Ovl!Empty \in Ovl!Slot /\ Ovl!Empty.texture = Ovl!None
    BY <1>1 DEF Ovl!Empty, Ovl!Slot
  <1>8. slots \in [Ovl!Ids -> Ovl!Slot] /\ \A i \in Ovl!Ids : slots[i].texture = Ovl!None
    BY <1>2, <1>7
  <1>9. PICK s : s = Ovl!Now
    OBVIOUS
  <1>10. s = [slots |-> slots, context |-> Ovl!None, chat |-> "none", text |-> "none", alive |-> zero]
    BY <1>4, <1>5, <1>9 DEF Ovl!Now
  <1>11. s.slots = slots /\ s.context = Ovl!None /\ s.chat = "none" /\ s.text = "none" /\ s.alive = zero
    BY <1>10
  <1>12. zero \in [pictures : Int, contexts : Int, fonts : Int]
    BY <1>3
  <1>13. s \in Ovl!Screen
    BY <1>8, <1>10, <1>12 DEF Ovl!Screen
  <1>14. Ovl!Held(slots) = 0 /\ Ovl!PicturesFit(s)
    BY <1>8, <1>11, HeldNone DEF Ovl!PicturesFit
  <1>15. Ovl!Whole(s)
    <2>1. s.alive.pictures = Ovl!Held(s.slots)
      BY <1>3, <1>11, <1>14
    <2>2. s.alive.contexts = Ovl!One(s.context # Ovl!None)
      BY <1>3, <1>11 DEF Ovl!One
    <2>3. s.alive.fonts = Ovl!One(s.chat # "none") + Ovl!One(s.text # "none")
      BY <1>3, <1>11 DEF Ovl!One
    <2> QED
      BY <1>13, <1>14, <2>1, <2>2, <2>3, WholeIs
  <1>16. ~own.lost /\ pc = "frame"
    BY <1>4 DEF Ovl!Init
  <1>17. Ovl!Whole(Ovl!Now)
    BY <1>9, <1>15
  <1> QED
    BY <1>6, <1>16, <1>17 DEF Ovl!IInv

\* Every step of Overlay keeps its invariant.
LEMMA OverlayStep ==
    ASSUME ClientAssumption, Ovl!IInv, Ovl!Next
    PROVE  Ovl!IInv'
  BY OverlayShow, OverlayEdit, OverlayHide, OverlayRestart, OverlayEndScene, OverlayGame, OverlayInstall,
     OverlayResetBegins, OverlayResetEnds, OverlayFontSize, OverlayTick, OverlayChanges DEF Ovl!Next

\* A step of another part leaves it alone.
LEMMA OverlayStutter ==
    ASSUME Ovl!IInv, net' = net, own' = own, env' = env, pc' = pc
    PROVE  Ovl!IInv'
  <1>1. /\ Ovl!Whole(Ovl!Now) /\ (own.lost => Ovl!Cleared(Ovl!Now)) /\ (pc = "reset" => own.lost)
        /\ net \in [seq : 0 .. MaxEvents, restarts : 0 .. MaxRestarts]
        /\ DOMAIN own = {"slots", "context", "chat", "text", "hooked", "lost"} /\ pc \in {"frame", "reset"}
    BY OverlayHas
  <1>2. PICK s : s = Ovl!Now
    OBVIOUS
  <1>3. Ovl!Now' = s
    BY <1>2 DEF Ovl!Now
  <1>4. Ovl!Fields'
    BY <1>1, SameSurroundings, FieldsNext
  <1>5. Ovl!Whole(s) /\ (own'.lost => Ovl!Cleared(s)) /\ (pc' = "reset" => own'.lost)
    BY <1>1, <1>2
  <1> QED
    BY <1>3, <1>4, <1>5, ScreenIs

\* The invariant of the part that draws over GTA's picture.
OverlayInv == part = "overlay" => Ovl!IInv

\* The inductive invariant of Overlay holds for any number of text draws, events, failures,
\* new devices and sessions.
THEOREM OverlayInvariant == Spec => []OverlayInv
  <1>1. Init => OverlayInv
    <2> SUFFICES ASSUME Init, part = "overlay" PROVE Ovl!IInv
      BY DEF OverlayInv
    <2>1. Ovl!Init
      BY DEF Init
    <2> QED
      BY <2>1, ClientAssumption, OverlayInit
  <1>2. ASSUME OverlayInv, [Next]_vars PROVE OverlayInv'
    <2> SUFFICES ASSUME part' = "overlay" PROVE Ovl!IInv'
      BY DEF OverlayInv
    <2>1. CASE Next
      <3>1. part = "overlay" /\ Ovl!Next
        BY <2>1 DEF Next
      <3> QED
        BY <1>2, <3>1, ClientAssumption, OverlayStep DEF OverlayInv
    <2>2. CASE UNCHANGED vars
      <3>1. part = "overlay" /\ net' = net /\ own' = own /\ env' = env /\ pc' = pc
        BY <2>2 DEF vars
      <3>2. Ovl!IInv
        BY <1>2, <3>1 DEF OverlayInv
      <3> QED
        BY <3>1, <3>2, OverlayStutter
    <2> QED
      BY <1>2, <2>1, <2>2
  <1> QED
    BY <1>1, <1>2, PTL DEF Spec

\* Nothing is in the way of a reset, and no picture is drawn that is of another device or
\* another time (chat_compat_reset_hook, the cached pictures of text draws).
THEOREM PicturesAreRight == Spec => []PicturesBehave
  <1>1. ASSUME OverlayInv PROVE PicturesBehave
    <2> SUFFICES ASSUME part = "overlay" PROVE Ovl!ResetFindsNothing /\ Ovl!PictureIsCurrent
      BY DEF PicturesBehave
    <2>1. Ovl!IInv
      BY <1>1 DEF OverlayInv
    <2>2. /\ Ovl!Whole(Ovl!Now) /\ (own.lost => Ovl!Cleared(Ovl!Now)) /\ (pc = "reset" => own.lost)
          /\ Ovl!Now.slots = own.slots /\ Ovl!Now.context = own.context /\ Ovl!Now.chat = own.chat
          /\ Ovl!Now.text = own.text /\ Ovl!Now.alive = env.alive
      BY <2>1, OverlayHas
    <2>3. Ovl!ResetFindsNothing
      <3>1. ASSUME own.lost
            PROVE  own.chat = "none" /\ own.text = "none" /\ env.alive = [pictures |-> 0, contexts |-> 0, fonts |-> 0]
        <4>1. PICK s : s = Ovl!Now
          OBVIOUS
        <4>2. Ovl!Whole(s) /\ Ovl!Cleared(s)
          BY <2>2, <3>1, <4>1
        <4>3. s.alive = [pictures |-> 0, contexts |-> 0, fonts |-> 0]
          BY <4>2, ClearedIs
        <4>4. s.chat = "none" /\ s.text = "none"
          BY <4>2 DEF Ovl!Cleared
        <4> QED
          BY <2>2, <4>1, <4>3, <4>4
      <3> QED
        BY <2>2, <3>1 DEF Ovl!ResetFindsNothing
    <2>4. Ovl!PictureIsCurrent
      <3>1. Ovl!PicturesFit(Ovl!Now)
        <4>1. PICK s : s = Ovl!Now
          OBVIOUS
        <4>2. Ovl!Whole(s)
          BY <2>2, <4>1
        <4> QED
          BY <4>1, <4>2, WholeHas
      <3> SUFFICES ASSUME NEW i \in Ovl!Ids, own.slots[i].texture # Ovl!None
                   PROVE  /\ own.context # Ovl!None /\ own.context.device = own.slots[i].texture.device
                          /\ own.slots[i].active /\ own.slots[i].texture.of = own.slots[i].shown
                          /\ Ovl!Drawable(own, env.device, i) => own.slots[i].texture.device = env.device
        BY DEF Ovl!PictureIsCurrent
      <3>2. /\ own.context # Ovl!None /\ own.context.device = own.slots[i].texture.device
            /\ own.slots[i].active /\ own.slots[i].texture.of = own.slots[i].shown
        BY <2>2, <3>1 DEF Ovl!PicturesFit
      <3> QED
        BY <3>2 DEF Ovl!Drawable
    <2> QED
      BY <2>3, <2>4
  <1> QED
    BY <1>1, OverlayInvariant, PTL

-----------------------------------------------------------------------------
(* The types of every part. *)

\* A load makes two managers at most, and is counted.
LEMMA LaunchTypes ==
    ASSUME ClientAssumption, Lch!Fields, Lch!ThreadsOut, Lch!MadeByTwo, Lch!LoadsCounted, Lch!Next
    PROVE  Lch!MadeByTwo' /\ Lch!LoadsCounted'
  <1>1. /\ net \in Lch!Network /\ own \in Lch!Library /\ env \in Lch!Options /\ pc \in Lch!Places
        /\ MaxRestarts \in Nat
    BY DEF Lch!Fields, ClientAssumption
  <1>2. ASSUME UNCHANGED net, pc.loader # "out" \/ pc'.loader = "out",
               own'.loads = own.loads, own'.initialized = own.initialized,
               \/ pc'.loader = pc.loader
               \/ pc.loader # "out" /\ (pc.loader \in Lch!Attaching <=> pc'.loader \in Lch!Attaching \cup {"out"})
        PROVE  Lch!MadeByTwo' /\ Lch!LoadsCounted'
    <2>1. Lch!MadeByTwo'
      BY <1>2 DEF Lch!MadeByTwo
    <2>2. Lch!LoadsCounted'
      BY <1>2 DEF Lch!LoadsCounted, Lch!Attaching
    <2> QED
      BY <2>1, <2>2
  <1>3. ASSUME Lch!Fails, pc.loader \in Lch!Attaching PROVE Lch!MadeByTwo' /\ Lch!LoadsCounted'
    <2>1. pc'.loader = "out" /\ UNCHANGED net
      BY <1>1, <1>3 DEF Lch!Fails, Lch!Places
    <2>2. own'.loads = own.loads /\ own'.initialized = own.initialized
      BY <1>1, <1>3 DEF Lch!Fails, Lch!Rollback, Lch!Library
    <2> QED
      BY <1>2, <1>3, <2>1, <2>2 DEF Lch!Attaching
  <1>4. CASE Lch!Guard
    <2>1. own'.loads = own.loads + 1 /\ own'.initialized = own.initialized /\ pc'.loader = "filter" /\ own.loads =< MaxRestarts
          /\ pc.loader = "out"
      BY <1>1, <1>4 DEF Lch!Guard, Lch!Library
    <2>2. net' = Lch!NoNetwork
      BY <1>4 DEF Lch!Guard
    <2>3. net'.made = 0 /\ net'.inited = FALSE
      BY <2>2 DEF Lch!NoNetwork
    <2>4. Lch!MadeByTwo'
      BY <2>3 DEF Lch!MadeByTwo
    <2>5. Lch!LoadsCounted'
      BY <1>1, <2>1 DEF Lch!LoadsCounted, Lch!Attaching
    <2> QED
      BY <2>4, <2>5
  <1>5. ASSUME NEW phase, NEW got, NEW to, Lch!Enters(phase, got, to), pc.loader \in Lch!Attaching, to \in Lch!Attaching
        PROVE  Lch!MadeByTwo' /\ Lch!LoadsCounted'
    <2>1. pc'.loader = to /\ UNCHANGED net
      BY <1>1, <1>5 DEF Lch!Enters, Lch!Places
    <2>2. own'.loads = own.loads /\ own'.initialized = own.initialized
      BY <1>1, <1>5 DEF Lch!Enters, Lch!Library
    <2> QED
      BY <1>2, <1>5, <2>1, <2>2 DEF Lch!Attaching
  <1>6. CASE Lch!Filter \/ Lch!Settings \/ Lch!Configure \/ Lch!StartBootstrap \/ Lch!InitNetwork
    <2>1. pc.loader \in Lch!Attaching
      BY <1>6 DEF Lch!Filter, Lch!Settings, Lch!Configure, Lch!StartBootstrap, Lch!InitNetwork, Lch!Attaching
    <2>2. CASE Lch!Filter
      BY <1>5, <2>1, <2>2 DEF Lch!Filter, Lch!Attaching
    <2>3. CASE Lch!Settings
      BY <1>3, <1>5, <2>1, <2>3 DEF Lch!Settings, Lch!Attaching
    <2>4. CASE Lch!Configure
      BY <1>3, <1>5, <2>1, <2>4 DEF Lch!Configure, Lch!Attaching
    <2>5. CASE Lch!StartBootstrap
      BY <1>3, <1>5, <2>1, <2>5 DEF Lch!StartBootstrap, Lch!Attaching
    <2>6. CASE Lch!InitNetwork
      BY <1>3, <1>5, <2>1, <2>6 DEF Lch!InitNetwork, Lch!Attaching
    <2> QED
      BY <1>6, <2>2, <2>3, <2>4, <2>5, <2>6
  <1>7. CASE Lch!StartMonitor /\ ~Lch!Fails
    <2>1. /\ own' = [own EXCEPT !.phase = 7, !.initialized = TRUE, !.held = @ \cup {"event", "thread"}]
          /\ pc' = [pc EXCEPT !.loader = "ready", !.monitor = "init"] /\ UNCHANGED <<net, env>> /\ pc.loader = "monitor"
      BY <1>7 DEF Lch!StartMonitor
    <2>2. pc'.loader = "ready" /\ own'.initialized = TRUE
      BY <1>1, <2>1 DEF Lch!Places, Lch!Library
    <2>3. own'.loads = own.loads
      BY <1>1, <2>1 DEF Lch!Library
    <2>4. Lch!MadeByTwo'
      BY <2>1, <2>2 DEF Lch!MadeByTwo, Lch!Attaching
    <2>5. Lch!LoadsCounted'
      BY <2>1, <2>2, <2>3 DEF Lch!LoadsCounted, Lch!Attaching
    <2> QED
      BY <2>4, <2>5
  <1>8. CASE Lch!Terminate \/ Lch!Signal \/ Lch!Join \/ Lch!Uninstall
    <2>1. PICK to \in {"terminated", "join", "uninstall", "shutdown"} :
             pc' = [pc EXCEPT !.loader = to] /\ UNCHANGED <<net, env>> /\ pc.loader \in {"ready", "join", "uninstall"}
      BY <1>8 DEF Lch!Terminate, Lch!Signal, Lch!Join, Lch!Uninstall
    <2>2. own'.loads = own.loads /\ own'.initialized = own.initialized
      BY <1>1, <1>8 DEF Lch!Terminate, Lch!Signal, Lch!Join, Lch!Uninstall, Lch!Library
    <2>3. pc'.loader = to
      BY <1>1, <2>1 DEF Lch!Places
    <2> QED
      BY <1>2, <2>1, <2>2, <2>3 DEF Lch!Attaching
  <1>9. CASE Lch!Shutdown
    <2>1. pc'.loader = "out" /\ pc.loader = "shutdown"
      BY <1>1, <1>9 DEF Lch!Shutdown, Lch!Places
    <2>2. own'.loads = own.loads /\ own'.initialized = FALSE
      BY <1>1, <1>9 DEF Lch!Shutdown, Lch!Library
    <2>3. PICK n : n = IF net.inited THEN net.made - 1 ELSE net.made
      OBVIOUS
    <2>4. net' = [Lch!NoNetwork EXCEPT !.made = n]
      BY <1>9, <2>3 DEF Lch!Shutdown
    <2>5. net'.made = n /\ net'.saw = [t \in Lch!Runners |-> FALSE]
      BY <2>4 DEF Lch!NoNetwork
    <2>6. n \in {0, 1}
      BY <2>1, <2>3 DEF Lch!MadeByTwo
    <2>7. Lch!MadeByTwo'
      BY <2>1, <2>5, <2>6 DEF Lch!MadeByTwo, Lch!Runners
    <2>8. Lch!LoadsCounted'
      BY <2>1, <2>2 DEF Lch!LoadsCounted, Lch!Attaching
    <2> QED
      BY <2>7, <2>8
  <1>10. ASSUME NEW t \in Lch!Runners, NEW to, Lch!Goes(t, to) PROVE pc'.loader = pc.loader
    BY <1>1, <1>10 DEF Lch!Goes, Lch!Places, Lch!Runners
  <1>11. ASSUME NEW t \in Lch!Runners, Lch!TakeGuard(t) PROVE Lch!MadeByTwo' /\ Lch!LoadsCounted'
    <2>1. pc'.loader = pc.loader /\ UNCHANGED own
      BY <1>10, <1>11 DEF Lch!TakeGuard
    <2>2. net' = [net EXCEPT !.guard = TRUE]
      BY <1>11 DEF Lch!TakeGuard
    <2>3. net'.made = net.made /\ net'.inited = net.inited /\ net'.saw = net.saw
      BY <1>1, <2>2 DEF Lch!Network
    <2> QED
      BY <2>1, <2>3 DEF Lch!MadeByTwo, Lch!LoadsCounted
  <1>12. ASSUME NEW t \in Lch!Runners, Lch!LoadModules(t) PROVE Lch!MadeByTwo' /\ Lch!LoadsCounted'
    <2>1. pc'.loader = pc.loader /\ UNCHANGED net
      BY <1>10, <1>12 DEF Lch!LoadModules
    <2>2. own'.loads = own.loads /\ own'.initialized = own.initialized
      BY <1>1, <1>12 DEF Lch!LoadModules, Lch!Library
    <2> QED
      BY <1>2, <2>1, <2>2
  <1>13. ASSUME NEW t \in Lch!Runners, Lch!Look(t) PROVE Lch!MadeByTwo' /\ Lch!LoadsCounted'
    <2>1. pc'.loader = pc.loader /\ UNCHANGED own /\ pc.loader # "out"
      BY <1>10, <1>13 DEF Lch!Look, Lch!Mapped
    <2>2. PICK b \in BOOLEAN : b = (env.online /\ ~net.inited)
      OBVIOUS
    <2>3. net' = [net EXCEPT !.saw[t] = b]
      BY <1>13, <2>2 DEF Lch!Look
    <2>4. net'.made = net.made /\ net'.inited = net.inited /\ net'.saw = [net.saw EXCEPT ![t] = b]
      BY <1>1, <2>3 DEF Lch!Network
    <2>5. b => net.made = 0
      BY <2>1, <2>2 DEF Lch!MadeByTwo
    <2>6. \A u \in Lch!Runners : net'.saw[u] => net.saw[u] \/ net.made = 0
      BY <1>1, <2>4, <2>5 DEF Lch!Network
    <2> QED
      BY <2>1, <2>4, <2>6 DEF Lch!MadeByTwo, Lch!LoadsCounted, Lch!Runners
  <1>14. ASSUME NEW t \in Lch!Runners, Lch!Make(t) PROVE Lch!MadeByTwo' /\ Lch!LoadsCounted'
    <2>1. pc'.loader = pc.loader /\ UNCHANGED own /\ pc.loader # "out"
      BY <1>10, <1>14 DEF Lch!Make, Lch!Mapped
    <2>2. PICK ok \in BOOLEAN :
             LET made == net.saw[t] /\ ok
                 bare == t = "monitor" /\ net.bare
             IN  net' = [net EXCEPT !.saw[t] = FALSE, !.made = IF made THEN @ + 1 ELSE @, !.inited = @ \/ made,
                                    !.guard = IF bare THEN @ ELSE FALSE, !.bare = IF bare THEN FALSE ELSE @]
      BY <1>14 DEF Lch!Make
    <2>3. PICK made \in BOOLEAN : made = (net.saw[t] /\ ok)
      OBVIOUS
    <2>4. PICK m : m = IF made THEN net.made + 1 ELSE net.made
      OBVIOUS
    <2>5. PICK i \in BOOLEAN : i = (net.inited \/ made)
      OBVIOUS
    <2>6. PICK g : g = IF t = "monitor" /\ net.bare THEN net.guard ELSE FALSE
      OBVIOUS
    <2>7. PICK b : b = IF t = "monitor" /\ net.bare THEN FALSE ELSE net.bare
      OBVIOUS
    <2>8. net' = [net EXCEPT !.saw[t] = FALSE, !.made = m, !.inited = i, !.guard = g, !.bare = b]
      BY <2>2, <2>3, <2>4, <2>5, <2>6, <2>7
    <2>9. net'.made = m /\ net'.saw = [net.saw EXCEPT ![t] = FALSE]
      BY <1>1, <2>8 DEF Lch!Network
    <2>10. net'.inited = i
      BY <1>1, <2>8 DEF Lch!Network
    <2>11. /\ ~net'.saw[t] /\ \A u \in Lch!Runners : u # t => net'.saw[u] = net.saw[u]
      BY <1>1, <2>9 DEF Lch!Network
    <2>12. made => net.saw[t] /\ net.made # 2
      BY <2>3 DEF Lch!MadeByTwo
    <2>13. net.made \in {0, 1, 2} /\ (i <=> m # 0) /\ m \in 0 .. 2
      <3>1. net.made \in {0, 1, 2} /\ (net.inited <=> net.made # 0)
        BY <2>1 DEF Lch!MadeByTwo
      <3>2. CASE made
        <4>1. m = net.made + 1 /\ net.made \in {0, 1} /\ i
          BY <2>4, <2>5, <2>12, <3>1, <3>2
        <4> QED
          BY <3>1, <4>1
      <3>3. CASE ~made
        <4>1. m = net.made /\ (i <=> net.inited)
          BY <1>1, <2>4, <2>5, <3>3 DEF Lch!Network
        <4> QED
          BY <3>1, <4>1
      <3> QED
        BY <3>2, <3>3
    <2>14. m = 2 => \A u \in Lch!Runners : ~net'.saw[u]
      BY <2>4, <2>11, <2>12, <2>13 DEF Lch!MadeByTwo, Lch!Runners
    <2>15. m = 1 => ~(net'.saw["monitor"] /\ net'.saw["game"])
      BY <2>11 DEF Lch!Runners
    <2>17. pc'.loader \notin Lch!Attaching \cup {"out"}
      BY <1>14, <2>1 DEF Lch!ThreadsOut, Lch!Make, Lch!Runners
    <2>16. Lch!MadeByTwo'
      BY <2>9, <2>10, <2>13, <2>14, <2>15, <2>17 DEF Lch!MadeByTwo
    <2> QED
      BY <2>1, <2>16 DEF Lch!LoadsCounted
  <1>15. CASE Lch!MonitorInit \/ Lch!MonitorWait \/ Lch!MonitorCheck \/ Lch!MonitorStart \/ Lch!Callback
    <2>1. UNCHANGED net /\ pc'.loader = pc.loader
      BY <1>10, <1>15 DEF Lch!MonitorInit, Lch!MonitorWait, Lch!MonitorCheck, Lch!MonitorStart, Lch!Callback, Lch!Runners
    <2>2. own'.loads = own.loads /\ own'.initialized = own.initialized
      BY <1>1, <1>15 DEF Lch!MonitorInit, Lch!MonitorWait, Lch!MonitorCheck, Lch!MonitorStart, Lch!Callback, Lch!Library
    <2> QED
      BY <1>2, <2>1, <2>2
  <1>16. CASE Lch!MonitorTick
    <2>1. pc'.loader = pc.loader /\ UNCHANGED own /\ (UNCHANGED net \/ net' = [net EXCEPT !.bare = TRUE])
      BY <1>10, <1>16 DEF Lch!MonitorTick, Lch!Runners
    <2>2. net'.made = net.made /\ net'.inited = net.inited /\ net'.saw = net.saw
      BY <1>1, <2>1 DEF Lch!Network
    <2> QED
      BY <2>1, <2>2 DEF Lch!MadeByTwo, Lch!LoadsCounted
  <1> QED
    BY <1>3, <1>4, <1>6, <1>7, <1>8, <1>9, <1>11, <1>12, <1>13, <1>14, <1>15, <1>16
       DEF Lch!Next, Lch!StartMonitor, Lch!Attaching

\* A hook without a stub never has code.
LEMMA HookTypes ==
    ASSUME ClientAssumption, Hks!IInv, Hks!CodeCounted, Hks!Next PROVE Hks!CodeCounted'
  <1>1. /\ own \in Hks!Hook /\ net \in Hks!Game /\ env \in [kind : Hks!Kinds] /\ MaxEvents \in Nat
        /\ net.taken =< MaxEvents /\ (env.kind \notin Hks!Stubs => ~own.code)
    BY DEF Hks!IInv, Hks!Kept, Hks!CodeCounted, ClientAssumption
  <1>2. env' = env
    BY DEF Hks!Next, Hks!LookImpact, Hks!LookDamage, Hks!LookZones, Hks!LookMaterial, Hks!LookProcess, Hks!LookSelect,
           Hks!LookGraphics, Hks!LookScripts, Hks!LooksEntry, Hks!Begins, Hks!Write, Hks!Verify, Hks!Unload,
           Hks!Restore, Hks!Free, Hks!Enter, Hks!Leave, Hks!OtherMod
  <1>3. net'.taken =< MaxEvents
    <2>1. CASE Hks!OtherMod
      <3>1. PICK s \in Hks!Used : net' = [net EXCEPT !.taken = net.taken + 1, !.chain[s] = own.site[s]]
        BY <2>1 DEF Hks!OtherMod
      <3>2. net'.taken = net.taken + 1 /\ net.taken < MaxEvents /\ net.taken \in Nat
        BY <1>1, <2>1, <3>1 DEF Hks!OtherMod, Hks!Game
      <3> QED
        BY <1>1, <3>2
    <2>2. CASE UNCHANGED net
      BY <1>1, <2>2
    <2>3. CASE Hks!Free \/ Hks!Enter \/ Hks!Leave
      <3>1. net'.taken = net.taken
        BY <1>1, <2>3 DEF Hks!Free, Hks!Enter, Hks!Leave, Hks!Game
      <3> QED
        BY <1>1, <3>1
    <2> QED
      BY <2>1, <2>2, <2>3
      DEF Hks!Next, Hks!LookImpact, Hks!LookDamage, Hks!LookZones, Hks!LookMaterial, Hks!LookProcess, Hks!LookSelect,
          Hks!LookGraphics, Hks!LookScripts, Hks!LooksEntry, Hks!Begins, Hks!Write, Hks!Verify, Hks!Unload, Hks!Restore
  <1>4. ASSUME env.kind \in {"script", "material"} PROVE ~own'.code
    <2>1. ~own.code
      BY <1>1, <1>4 DEF Hks!Stubs
    <2>2. ASSUME NEW ready, Hks!Looks(own, ready) PROVE own'.code = own.code
      BY <1>1, <2>2 DEF Hks!Looks, Hks!Hook
    <2>3. CASE Hks!LookMaterial \/ Hks!LookScripts
      BY <2>1, <2>2, <2>3 DEF Hks!LookMaterial, Hks!LookScripts
    <2>4. ~(Hks!LookImpact \/ Hks!LookDamage \/ Hks!LookZones \/ Hks!LookProcess \/ Hks!LookSelect \/ Hks!LookGraphics)
      BY <1>4 DEF Hks!LookImpact, Hks!LookDamage, Hks!LookZones, Hks!LookProcess, Hks!LookSelect, Hks!LookGraphics
    <2>5. ASSUME NEW s, NEW what, NEW ok \in BOOLEAN PROVE Hks!Overwrite(own, s, what, ok).code = own.code
      BY <1>1 DEF Hks!Overwrite, Hks!Hook
    <2>6. CASE Hks!Write
      <3>1. PICK s : s = Hks!Min(own.todo)
        OBVIOUS
      <3>2. PICK ok \in BOOLEAN :
               own' = [Hks!Overwrite(own, s, "ours", ok)
                          EXCEPT !.saved[s] = IF env.kind = "process" THEN @ ELSE own.site[s], !.todo = @ \ {s},
                                 !.installed = IF ok THEN @ \cup {s} ELSE @]
        BY <2>6, <3>1 DEF Hks!Write
      <3>3. PICK o : o = Hks!Overwrite(own, s, "ours", ok)
        OBVIOUS
      <3>4. o.code = own.code /\ "code" \in DOMAIN o
        BY <1>1, <2>5, <3>3 DEF Hks!Overwrite, Hks!Hook
      <3>5. own'.code = o.code
        BY <3>2, <3>3, <3>4
      <3> QED
        BY <2>1, <3>4, <3>5
    <2>7. CASE Hks!Verify
      <3>1. Hks!VerifyOther
        BY <1>4, <2>7 DEF Hks!Verify, Hks!VerifyEntry, Hks!VerifyZones, Hks!VerifyProcess, Hks!Entries
      <3>2. own'.code = (own.code /\ own.installed # {})
        BY <1>1, <3>1 DEF Hks!VerifyOther, Hks!Hook
      <3> QED
        BY <2>1, <3>2
    <2>8. CASE Hks!Unload
      BY <1>1, <2>1, <2>8 DEF Hks!Unload, Hks!Hook
    <2>9. CASE Hks!Restore
      <3>1. CASE own' = own
        BY <2>1, <3>1
      <3>2. CASE own' # own
        <4> DEFINE s == Hks!Min(own.todo)
        <4>6. env.kind # "process"
          BY <1>4
        <4>1. PICK ok \in BOOLEAN :
               own' = [Hks!Overwrite(own, s, own.saved[s], ok)
                               EXCEPT !.todo = @ \ {s},
                                      !.installed = IF ok \/ env.kind # "zones" THEN @ \ {s} ELSE @]
          BY <2>9, <3>2, <4>6 DEF Hks!Restore
        <4>2. PICK what : what = own.saved[s]
          OBVIOUS
        <4>3. PICK o : o = Hks!Overwrite(own, s, what, ok)
          OBVIOUS
        <4>4. o.code = own.code /\ "code" \in DOMAIN o
          BY <1>1, <2>5, <4>3 DEF Hks!Overwrite, Hks!Hook
        <4>5. own'.code = o.code
          BY <4>1, <4>2, <4>3, <4>4
        <4> QED
          BY <2>1, <4>4, <4>5
      <3> QED
        BY <3>1, <3>2
    <2>10. CASE Hks!Free
      <3>1. own'.code = (own.code /\ (own.installed # {} \/ (env.kind = "process" /\ ~own.leaving)))
        BY <1>1, <2>10 DEF Hks!Free, Hks!Hook
      <3> QED
        BY <2>1, <3>1
    <2>11. CASE Hks!Enter \/ Hks!Leave
      BY <2>1, <2>11 DEF Hks!Enter, Hks!Leave
    <2>12. CASE Hks!OtherMod
      <3>1. PICK s : own' = [own EXCEPT !.site[s] = "other"]
        BY <2>12 DEF Hks!OtherMod
      <3>2. own'.code = own.code
        BY <1>1, <3>1 DEF Hks!Hook
      <3> QED
        BY <2>1, <3>2
    <2> QED
      BY <2>3, <2>4, <2>6, <2>7, <2>8, <2>9, <2>10, <2>11, <2>12 DEF Hks!Next
  <1> QED
    BY <1>1, <1>2, <1>3, <1>4 DEF Hks!CodeCounted, Hks!Stubs

\* A mark of the bridge is never above what the server has said.
LEMMA SyncTypes ==
    ASSUME ClientAssumption, Snc!IInv, Snc!NumbersSaid, Snc!Next PROVE Snc!NumbersSaid'
  <1>1. /\ own \in Snc!Marks /\ net \in Snc!Server /\ env \in Snc!Player /\ MaxEvents \in Nat
        /\ pc \in {"idle", "refreshed"} /\ env.ammo \in 0 .. 2
        /\ net.seq =< net.said /\ net.said =< MaxEvents /\ own.mark =< MaxEvents
        /\ own.handled > 0 /\ net.restart > 0
    BY DEF Snc!IInv, Snc!NumbersSaid, ClientAssumption
  <1>2. net.seq \in Nat /\ net.said \in Nat /\ net.restart \in Nat /\ own.mark \in Nat /\ own.handled \in Nat /\ env.ammo \in Int
    BY <1>1 DEF Snc!Server, Snc!Marks, Snc!Player
  <1>3. CASE Snc!OnToggleSpectating \/ Snc!OnSpectate
    <2>1. net'.said = net.said + 1 /\ net'.seq \in {net.seq, net.seq + 1} /\ net'.restart = net.restart
      BY <1>1, <1>3 DEF Snc!OnToggleSpectating, Snc!OnSpectate, Snc!Server
    <2>2. net.said < MaxEvents /\ UNCHANGED <<own, env, pc>>
      BY <1>3 DEF Snc!OnToggleSpectating, Snc!OnSpectate, Snc!Receives
    <2> QED
      BY <1>1, <1>2, <2>1, <2>2 DEF Snc!NumbersSaid
  <1>4. CASE Snc!OnForceClass
    <2>1. own'.mark = own.mark /\ own'.handled = own.handled
      BY <1>1, <1>4 DEF Snc!OnForceClass, Snc!Marks
    <2> QED
      BY <1>1, <1>4, <2>1 DEF Snc!OnForceClass, Snc!NumbersSaid
  <1>5. CASE Snc!OnRestart
    <2>1. net' = [Snc!NewSession EXCEPT !.restart = net.restart + 1] /\ UNCHANGED <<own, env, pc>>
      BY <1>1, <1>5 DEF Snc!OnRestart, Snc!NewSession, Snc!Server
    <2>2. net'.said = net.said /\ net'.seq = 0 /\ net'.restart = net.restart + 1
      BY <1>1, <2>1 DEF Snc!NewSession, Snc!Server
    <2> QED
      BY <1>1, <1>2, <2>1, <2>2 DEF Snc!NumbersSaid
  <1>6. CASE Snc!Refresh
    <2>1. /\ SyncIs /\ UNCHANGED <<net, env>> /\ pc' = "refreshed"
      BY <1>6 DEF Snc!IInv, SyncIs, Snc!Refresh
    <2>2. PICK b : b = IF own.handled = net.restart THEN own ELSE [Snc!SessionReset(own) EXCEPT !.handled = net.restart]
      OBVIOUS
    <2>3. PICK t : t = Snc!Toggle(b)
      OBVIOUS
    <2>4. own' = Snc!Target(t)
      BY <1>6, <2>2, <2>3 DEF Snc!Refresh
    <2>5. /\ t \in Snc!Marks /\ t.handled = net.restart /\ t.mark \in {own.mark, net.seq}
      <3>1. /\ b \in Snc!Marks /\ KeepsRate(b) /\ Snc!DeathMarked(b) /\ b.mark = own.mark
            /\ b.handled = net.restart /\ b.markOf =< net.session
            /\ b.markOf < net.session => ~b.spectating
            /\ b.markOf = net.session => b.mark \in 1 .. net.seq /\ (b.mark = net.seq => b.spectating = net.on)
        BY <2>2, HandledIs
      <3> QED
        BY <1>1, <2>1, <2>3, <3>1, ToggleKeeps
    <2>6. own'.mark = t.mark /\ own'.handled = t.handled
      <3>1. CASE own' = t
        BY <3>1
      <3>2. CASE own' = [t EXCEPT !.targetMark = net.target, !.type = TRUE]
        BY <2>5, <3>2 DEF Snc!Marks
      <3> QED
        BY <2>4, <3>1, <3>2 DEF Snc!Target
    <2>7. own'.mark =< MaxEvents /\ own'.handled > 0
      BY <1>1, <1>2, <2>5, <2>6
    <2> QED
      BY <1>1, <2>1, <2>7 DEF Snc!NumbersSaid
  <1>7. CASE Snc!Reconnect
    <2>1. net' = Snc!NewSession /\ UNCHANGED <<env, pc>>
      BY <1>7 DEF Snc!Reconnect
    <2>2. net'.said = net.said /\ net'.seq = 0 /\ net'.restart = net.restart
      BY <1>1, <2>1 DEF Snc!NewSession, Snc!Server
    <2>3. own'.mark = own.mark /\ own'.handled = own.handled
      <3>1. PICK r : r = Snc!SessionReset(own)
        OBVIOUS
      <3>2. SyncIs /\ KeepsRate(own) /\ Snc!DeathMarked(own)
        BY DEF Snc!IInv, SyncIs, KeepsRate, Snc!RateHonored
      <3>3. /\ r \in Snc!Marks /\ KeepsRate(r) /\ r.mark = own.mark /\ r.handled = own.handled
        BY <1>1, <3>1, <3>2, ResetKeeps
      <3>4. PICK s : s = Snc!Restarts(r, Snc!Kinds)
        OBVIOUS
      <3>5. s \in Snc!Marks /\ Toggles(s) = Toggles(r)
        BY <3>2, <3>3, <3>4, RestartsKeep
      <3>6. own' = [s EXCEPT !.sampled = FALSE, !.ammo = 0]
        BY <1>7, <3>1, <3>4 DEF Snc!Reconnect
      <3>7. own'.mark = s.mark /\ own'.handled = s.handled
        BY <3>5, <3>6 DEF Snc!Marks
      <3> QED
        BY <3>3, <3>5, <3>7 DEF Toggles
    <2> QED
      BY <1>1, <1>2, <2>1, <2>2, <2>3 DEF Snc!NumbersSaid
  <1>8. CASE Snc!Bridge
    <2>1. own'.mark = own.mark /\ own'.handled = own.handled
      BY <1>8, BridgeOwn DEF Toggles
    <2> QED
      BY <1>1, <1>8, <2>1 DEF Snc!Bridge, Snc!NumbersSaid
  <1>9. CASE Snc!Tick \/ Snc!Move
    <2>1. env'.ammo = env.ammo /\ UNCHANGED <<own, net, pc>>
      BY <1>1, <1>9 DEF Snc!Tick, Snc!Move, Snc!Simulates, Snc!Player
    <2> QED
      BY <1>1, <2>1 DEF Snc!NumbersSaid
  <1>10. CASE Snc!Shoot
    <2>1. env'.ammo = env.ammo - 1 /\ env.ammo > 0 /\ UNCHANGED <<net, pc>>
      BY <1>1, <1>10 DEF Snc!Shoot, Snc!Simulates, Snc!Player
    <2>2. PICK ok, hit \in BOOLEAN : own' = IF hit THEN Snc!Damage(Snc!Impact(own, ok), ok) ELSE Snc!Impact(own, ok)
      BY <1>10 DEF Snc!Shoot
    <2>3. Toggles(own') = Toggles(own)
      BY <1>1, <2>2, HooksReport
    <2>4. own'.mark = own.mark /\ own'.handled = own.handled
      BY <2>3 DEF Toggles
    <2>5. env'.ammo \in 0 .. 2
      BY <1>1, <1>2, <2>1
    <2> QED
      BY <1>1, <2>1, <2>4, <2>5 DEF Snc!NumbersSaid
  <1>11. CASE Snc!SetAmmo
    <2>1. net' = [net EXCEPT !.said = net.said + 1] /\ net.said < MaxEvents /\ UNCHANGED <<own, pc>>
      BY <1>11 DEF Snc!SetAmmo
    <2>2. net'.said = net.said + 1 /\ net'.seq = net.seq /\ net'.restart = net.restart
      BY <1>1, <2>1 DEF Snc!Server
    <2>3. env'.ammo \in 0 .. 2
      BY <1>1, <1>11 DEF Snc!SetAmmo, Snc!Player
    <2> QED
      BY <1>1, <1>2, <2>1, <2>2, <2>3 DEF Snc!NumbersSaid
  <1>12. CASE Snc!Live
    <2>1. env'.ammo = env.ammo /\ UNCHANGED <<net, pc>>
      BY <1>1, <1>12 DEF Snc!Live, Snc!Simulates, Snc!Player
    <2>2. own'.mark = own.mark /\ own'.handled = own.handled
      BY <1>1, <1>12 DEF Snc!Live, Snc!Marks
    <2> QED
      BY <1>1, <2>1, <2>2 DEF Snc!NumbersSaid
  <1> QED
    BY <1>3, <1>4, <1>5, <1>6, <1>7, <1>8, <1>9, <1>10, <1>11, <1>12 DEF Snc!Next

\* Sockets and addresses stay within their bounds.
LEMMA SocketTypes ==
    ASSUME ClientAssumption, Skt!IInv, Skt!Bounded, Skt!Next PROVE Skt!Bounded'
  <1>1. /\ env \in Skt!World /\ pc \in [Threads -> Skt!Place] /\ MaxSockets \in Nat /\ Addresses \in Nat
        /\ env.made =< MaxSockets /\ \A t \in Threads : pc[t].left =< Addresses /\ pc[t].left \in Nat
    BY DEF Skt!IInv, Skt!Fields, Skt!Bounded, Skt!Place, ClientAssumption
  <1>2. /\ Skt!Opened.made = env.made + 1
        /\ \A s : Skt!Closed(env, s).made = env.made /\ Skt!Closed(Skt!Opened, s).made = env.made + 1
    BY <1>1 DEF Skt!Opened, Skt!Closed, Skt!World
  <1>3. Skt!CanOpen => env.made + 1 =< MaxSockets
    BY <1>1 DEF Skt!CanOpen, Skt!World
  <1>4. ASSUME NEW t \in Threads, NEW p, pc' = [pc EXCEPT ![t] = p], p.left =< Addresses
        PROVE  \A u \in Threads : pc'[u].left =< Addresses
    BY <1>1, <1>4
  <1>5. Skt!Home.left =< Addresses /\ 0 =< Addresses
    BY <1>1 DEF Skt!Home
  <1>6. ASSUME NEW t \in Threads, NEW at, Skt!Moves(t, at) PROVE \A u \in Threads : pc'[u].left =< Addresses
    <2>1. PICK p : p = [pc[t] EXCEPT !.at = at]
      OBVIOUS
    <2>2. p.left = pc[t].left
      BY <1>1, <2>1 DEF Skt!Place
    <2>3. pc' = [pc EXCEPT ![t] = p]
      BY <1>6, <2>1 DEF Skt!Moves
    <2> QED
      BY <1>1, <1>4, <2>2, <2>3
  <1>7. ASSUME NEW t \in Threads, Skt!Leaves(t) PROVE \A u \in Threads : pc'[u].left =< Addresses
    BY <1>4, <1>5, <1>7 DEF Skt!Leaves
  <1>8. ASSUME NEW t \in Threads, pc' = [pc EXCEPT ![t].at = "next", ![t].socket = 0]
        PROVE  \A u \in Threads : pc'[u].left =< Addresses
    <2>1. PICK p : p = [pc[t] EXCEPT !.at = "next", !.socket = 0]
      OBVIOUS
    <2>2. p.left = pc[t].left
      BY <1>1, <2>1 DEF Skt!Place
    <2>3. pc' = [pc EXCEPT ![t] = p]
      BY <1>1, <1>8, <2>1
    <2> QED
      BY <1>1, <1>4, <2>2, <2>3
  <1>9. ASSUME NEW t \in Threads,
               Skt!Enter(t) \/ Skt!Claim(t) \/ Skt!Look(t) \/ Skt!Publish(t) \/ Skt!PassEnsure(t)
        PROVE  Skt!Bounded'
    <2>1. UNCHANGED env
      BY <1>9 DEF Skt!Enter, Skt!Claim, Skt!Look, Skt!Publish, Skt!PassEnsure
    <2>2. CASE Skt!Enter(t)
      <3>1. PICK way : pc' = [pc EXCEPT ![t] = [Skt!Home EXCEPT !.at = "ensure", !.way = way]]
        BY <2>2 DEF Skt!Enter
      <3>2. PICK p : p = [Skt!Home EXCEPT !.at = "ensure", !.way = way]
        OBVIOUS
      <3>3. p.left =< Addresses
        BY <1>5, <3>2 DEF Skt!Home
      <3> QED
        BY <1>1, <1>4, <2>1, <3>1, <3>2, <3>3 DEF Skt!Bounded
    <2>3. CASE ~Skt!Enter(t)
      <3>1. (\E at : Skt!Moves(t, at)) \/ Skt!Leaves(t)
        BY <1>9, <2>3 DEF Skt!Claim, Skt!Look, Skt!Publish, Skt!PassEnsure
      <3> QED
        BY <1>1, <1>6, <1>7, <2>1, <3>1 DEF Skt!Bounded
    <2> QED
      BY <2>2, <2>3
  <1>10. ASSUME NEW t \in Threads, Skt!Resolve(t) PROVE Skt!Bounded'
    <2>1. env'.made = env.made
      BY <1>1, <1>10 DEF Skt!Resolve, Skt!World
    <2>2. CASE Skt!Leaves(t)
      BY <1>1, <1>7, <2>1, <2>2 DEF Skt!Bounded
    <2>3. CASE ~Skt!Leaves(t)
      <3>1. PICK n \in 1 .. Addresses : pc' = [pc EXCEPT ![t].at = "next", ![t].left = n]
        BY <1>10, <2>3 DEF Skt!Resolve
      <3>2. PICK p : p = [pc[t] EXCEPT !.at = "next", !.left = n]
        OBVIOUS
      <3>3. p.left = n
        BY <1>1, <3>2 DEF Skt!Place
      <3>4. pc' = [pc EXCEPT ![t] = p]
        BY <1>1, <3>1, <3>2
      <3>5. p.left =< Addresses
        BY <1>1, <3>3
      <3> QED
        BY <1>1, <1>4, <2>1, <3>4, <3>5 DEF Skt!Bounded
    <2> QED
      BY <2>2, <2>3
  <1>11. ASSUME NEW t \in Threads, Skt!NextAddress(t) PROVE Skt!Bounded'
    <2>1. CASE pc[t].left = 0 /\ Skt!Leaves(t) /\ env' = [env EXCEPT !.lists = @ \ {t}]
      <3>1. env'.made = env.made
        BY <1>1, <2>1 DEF Skt!World
      <3> QED
        BY <1>1, <1>7, <2>1, <3>1 DEF Skt!Bounded
    <2>2. ASSUME NEW p, pc[t].left > 0, p.left = pc[t].left - 1, pc' = [pc EXCEPT ![t] = p],
                 UNCHANGED env \/ (Skt!CanOpen /\ env' = Skt!Opened)
          PROVE  Skt!Bounded'
      <3>1. env'.made =< MaxSockets
        BY <1>1, <1>2, <1>3, <2>2
      <3>2. p.left =< Addresses
        BY <1>1, <2>2
      <3> QED
        BY <1>4, <2>2, <3>1, <3>2 DEF Skt!Bounded
    <2>3. CASE pc[t].left > 0 /\ pc' = [pc EXCEPT ![t].left = pc[t].left - 1] /\ UNCHANGED env
      <3>1. PICK p : p = [pc[t] EXCEPT !.left = pc[t].left - 1]
        OBVIOUS
      <3>2. p.left = pc[t].left - 1
        BY <1>1, <3>1 DEF Skt!Place
      <3>3. pc' = [pc EXCEPT ![t] = p]
        BY <1>1, <2>3, <3>1
      <3>4. p.left =< Addresses
        BY <1>1, <2>3, <3>2
      <3> QED
        BY <1>1, <1>4, <2>3, <3>3, <3>4 DEF Skt!Bounded
    <2>4. CASE /\ pc[t].left > 0 /\ Skt!CanOpen /\ env' = Skt!Opened
               /\ pc' = [pc EXCEPT ![t] = [@ EXCEPT !.left = pc[t].left - 1, !.socket = Skt!NewSocket, !.at = "mode"]]
      <3>1. PICK p : p = [pc[t] EXCEPT !.left = pc[t].left - 1, !.socket = Skt!NewSocket, !.at = "mode"]
        OBVIOUS
      <3>2. p.left = pc[t].left - 1
        BY <1>1, <3>1 DEF Skt!Place
      <3>3. pc' = [pc EXCEPT ![t] = p]
        BY <1>1, <2>4, <3>1
      <3> QED
        BY <2>2, <2>4, <3>2, <3>3
    <2> QED
      BY <1>11, <2>1, <2>3, <2>4 DEF Skt!NextAddress
  <1>12. ASSUME NEW t \in Threads, Skt!SetMode(t) \/ Skt!Connect(t) \/ Skt!Select(t) PROVE Skt!Bounded'
    <2>1. env'.made = env.made
      <3>1. CASE UNCHANGED env
        BY <3>1
      <3>2. CASE Skt!Succeeds(t)
        BY <1>1, <3>2 DEF Skt!Succeeds, Skt!World
      <3>3. CASE env' = Skt!Closed(env, pc[t].socket)
        BY <1>2, <3>3
      <3> QED
        BY <1>12, <3>1, <3>2, <3>3 DEF Skt!SetMode, Skt!Connect, Skt!Select, Skt!GivesUp
    <2>2. \/ \E at : Skt!Moves(t, at)
          \/ Skt!Leaves(t)
          \/ pc' = [pc EXCEPT ![t].at = "next", ![t].socket = 0]
      BY <1>12 DEF Skt!SetMode, Skt!Connect, Skt!Select, Skt!Succeeds, Skt!GivesUp
    <2>3. \A u \in Threads : pc'[u].left =< Addresses
      BY <1>6, <1>7, <1>8, <2>2
    <2> QED
      BY <1>1, <2>1, <2>3 DEF Skt!Bounded
  <1>13. CASE Skt!MgrInit \/ Skt!StartListener \/ Skt!MgrConnect \/ Skt!CreateUdpBound \/ Skt!MgrStop \/ Skt!CloseGiven
              \/ Skt!MgrDestroy
    <2>1. UNCHANGED pc
      BY <1>13 DEF Skt!MgrInit, Skt!StartListener, Skt!MgrConnect, Skt!CreateUdpBound, Skt!MgrStop, Skt!CloseGiven, Skt!MgrDestroy
    <2>2. env'.made = env.made \/ (Skt!CanOpen /\ env'.made = env.made + 1)
      <3>1. CASE UNCHANGED env
        BY <3>1
      <3>2. CASE Skt!StartListener \/ Skt!MgrConnect \/ Skt!CreateUdpBound
        <4>1. Skt!CanOpen
          BY <3>2 DEF Skt!StartListener, Skt!MgrConnect, Skt!CreateUdpBound
        <4>2. \/ env' = Skt!Opened
              \/ env' = Skt!Closed(Skt!Opened, Skt!NewSocket)
              \/ env' = [Skt!Opened EXCEPT !.given = @ \cup {Skt!NewSocket}]
          BY <3>2 DEF Skt!StartListener, Skt!MgrConnect, Skt!CreateUdpBound
        <4>3. env' = [Skt!Opened EXCEPT !.given = @ \cup {Skt!NewSocket}] => env'.made = env.made + 1
          BY <1>1 DEF Skt!Opened, Skt!World
        <4> QED
          BY <1>2, <4>1, <4>2, <4>3
      <3>3. CASE Skt!MgrStop \/ Skt!MgrDestroy
        BY <1>2, <3>3 DEF Skt!MgrStop, Skt!MgrDestroy
      <3>4. CASE Skt!CloseGiven
        BY <1>1, <3>4 DEF Skt!CloseGiven, Skt!Closed, Skt!World
      <3> QED
        BY <1>13, <3>1, <3>2, <3>3, <3>4 DEF Skt!MgrInit
    <2> QED
      BY <1>1, <1>3, <2>1, <2>2 DEF Skt!Bounded
  <1> QED
    BY <1>9, <1>10, <1>11, <1>12, <1>13 DEF Skt!Next

\* What the types of the parts rest on besides their inductive invariants.
CountsInv ==
    /\ part = "launch" => Lch!MadeByTwo /\ Lch!LoadsCounted
    /\ part = "hooks" => Hks!CodeCounted
    /\ part = "sync" => Snc!NumbersSaid
    /\ part = "sockets" => Skt!Bounded

\* It holds at first.
LEMMA CountsInit ==
    ASSUME ClientAssumption, Init PROVE CountsInv
  <1>1. ASSUME Lch!Init PROVE Lch!MadeByTwo /\ Lch!LoadsCounted
    <2>1. MaxRestarts \in Nat
      BY DEF ClientAssumption
    <2>2. net.made = 0 /\ net.inited = FALSE /\ pc.loader = "out" /\ own.loads = 0 /\ own.initialized = FALSE
      BY <1>1 DEF Lch!Init, Lch!NoNetwork
    <2> QED
      BY <2>1, <2>2 DEF Lch!MadeByTwo, Lch!LoadsCounted
  <1>2. ASSUME Hks!Init PROVE Hks!CodeCounted
    <2>1. net.taken = 0 /\ MaxEvents \in Nat
      BY <1>2 DEF Hks!Init, ClientAssumption
    <2>2. own.code = FALSE
      BY <1>2 DEF Hks!Init
    <2> QED
      BY <2>1, <2>2 DEF Hks!CodeCounted
  <1>3. ASSUME Snc!Init PROVE Snc!NumbersSaid
    <2>1. pc = "idle" /\ env.ammo = 2
      BY <1>3 DEF Snc!Init
    <2>2. net.seq = 0 /\ net.said = 0 /\ own.mark = 0 /\ own.handled = 1 /\ net.restart = 1
      BY <1>3 DEF Snc!Init
    <2>3. MaxEvents \in Nat
      BY DEF ClientAssumption
    <2> QED
      BY <2>1, <2>2, <2>3 DEF Snc!NumbersSaid
  <1>4. ASSUME Skt!Init PROVE Skt!Bounded
    BY <1>4 DEF Skt!Init, Skt!Home, Skt!Bounded, ClientAssumption
  <1> QED
    BY <1>1, <1>2, <1>3, <1>4 DEF Init, CountsInv

\* The bounds of the parts hold on every load, of every hook, session and connection.
THEOREM CountsInvariant == Spec => []CountsInv
  <1>1. Init => CountsInv
    BY CountsInit, ClientAssumption
  <1>2. LaunchInv /\ HookInv /\ SyncInv /\ SocketsInv /\ CountsInv /\ [Next]_vars => CountsInv'
    <2> SUFFICES ASSUME LaunchInv, HookInv, SyncInv, SocketsInv, CountsInv, [Next]_vars PROVE CountsInv'
      OBVIOUS
    <2>1. CASE UNCHANGED vars
      <3>1. part' = part /\ net' = net /\ own' = own /\ env' = env /\ pc' = pc
        BY <2>1 DEF vars
      <3>2. ASSUME Lch!MadeByTwo /\ Lch!LoadsCounted PROVE Lch!MadeByTwo' /\ Lch!LoadsCounted'
        BY <3>1, <3>2 DEF Lch!MadeByTwo, Lch!LoadsCounted
      <3>3. ASSUME Hks!CodeCounted PROVE Hks!CodeCounted'
        BY <3>1, <3>3 DEF Hks!CodeCounted
      <3>4. ASSUME Snc!NumbersSaid PROVE Snc!NumbersSaid'
        BY <3>1, <3>4 DEF Snc!NumbersSaid
      <3>5. ASSUME Skt!Bounded PROVE Skt!Bounded'
        BY <3>1, <3>5 DEF Skt!Bounded
      <3> QED
        BY <3>1, <3>2, <3>3, <3>4, <3>5 DEF CountsInv
    <2>2. CASE Next
      <3>1. part' = part
        BY <2>2 DEF Next
      <3>2. ASSUME part = "launch" PROVE Lch!MadeByTwo' /\ Lch!LoadsCounted'
        <4>1. Lch!Next
          BY <2>2, <3>2 DEF Next
        <4>2. Lch!Fields /\ Lch!ThreadsOut /\ Lch!MadeByTwo /\ Lch!LoadsCounted
          BY <3>2 DEF LaunchInv, CountsInv, Lch!IInv
        <4> QED
          BY <4>1, <4>2, ClientAssumption, LaunchTypes
      <3>3. ASSUME part = "hooks" PROVE Hks!CodeCounted'
        <4>1. Hks!Next
          BY <2>2, <3>3 DEF Next
        <4> QED
          BY <3>3, <4>1, ClientAssumption, HookTypes DEF HookInv, CountsInv
      <3>4. ASSUME part = "sync" PROVE Snc!NumbersSaid'
        <4>1. Snc!Next
          BY <2>2, <3>4 DEF Next
        <4> QED
          BY <3>4, <4>1, ClientAssumption, SyncTypes DEF SyncInv, CountsInv
      <3>5. ASSUME part = "sockets" PROVE Skt!Bounded'
        <4>1. Skt!Next
          BY <2>2, <3>5 DEF Next
        <4> QED
          BY <3>5, <4>1, ClientAssumption, SocketTypes DEF SocketsInv, CountsInv
      <3> QED
        BY <3>1, <3>2, <3>3, <3>4, <3>5 DEF CountsInv
    <2> QED
      BY <2>1, <2>2
  <1> QED
    BY <1>1, <1>2, LaunchInvariant, HookInvariant, SyncInvariant, SocketsInvariant, PTL DEF Spec

\* GTA's thread and the monitor never make two network managers where the monitor takes the
\* guard, two at most where it does not (SAMPDLL_MONITOR_DRIVE_INIT=0); and no thread that
\* connects resolves a name before the procedures for it are there.
THEOREM OneIsMade == Spec => []MadeOnce
  <1>1. LaunchInv /\ CountsInv /\ SocketsInv => MadeOnce
    <2>1. ASSUME Lch!IInv, Lch!MadeByTwo PROVE Lch!ManagerMadeOnce
      <3>1. net.made =< 2
        BY <2>1 DEF Lch!MadeByTwo
      <3>2. env.drive => net.made =< 1
        BY <2>1 DEF Lch!IInv, Lch!GuardHeld
      <3> QED
        BY <3>1, <3>2 DEF Lch!ManagerMadeOnce
    <2>2. ASSUME Skt!IInv PROVE Skt!ResolverIsReady
      BY <2>2 DEF Skt!IInv
    <2> QED
      BY <2>1, <2>2 DEF LaunchInv, CountsInv, SocketsInv, MadeOnce
  <1> QED
    BY <1>1, LaunchInvariant, CountsInvariant, SocketsInvariant, PTL

\* What a start, a connection or a text draw has taken is given back (the parts Launch,
\* Sockets and Overlay).
THEOREM NothingIsLost == Spec => []NothingLeaks
  <1>1. ASSUME LaunchInv, UnmadeInv, CountsInv, SocketsInv, OverlayInv PROVE NothingLeaks
    <2>1. ASSUME part = "launch" PROVE Lch!NothingLeaks
      <3>1. Lch!HeldByPhase /\ Lch!ThreadsOut /\ Unmade /\ Lch!MadeByTwo
        BY <1>1, <2>1 DEF LaunchInv, Lch!IInv, UnmadeInv, CountsInv
      <3> SUFFICES ASSUME pc.loader = "out", ~own.late
                   PROVE  /\ own.held \subseteq Lch!Permanent /\ own.phase = 0 /\ net.made =< (IF env.drive THEN 0 ELSE 1)
                          /\ pc.monitor \in {"none", "done"} /\ pc.game = "out"
        BY DEF Lch!NothingLeaks
      <3>2. own.held \ Lch!Permanent = {} /\ own.phase = 0
        BY <3>1 DEF Lch!HeldByPhase
      <3>3. net.made =< (IF env.drive THEN 0 ELSE 1)
        BY <3>1 DEF Unmade, Lch!MadeByTwo
      <3> QED
        BY <3>1, <3>2, <3>3 DEF Lch!ThreadsOut
    <2>2. ASSUME part = "sockets" PROVE Skt!SocketsReturn
      BY <1>1, <2>2 DEF SocketsInv, Skt!IInv
    <2>3. ASSUME part = "overlay" PROVE Ovl!PicturesReturn
      <3>1. Ovl!IInv
        BY <1>1, <2>3 DEF OverlayInv
      <3>2. Ovl!Whole(Ovl!Now) /\ Ovl!Now.slots = own.slots /\ Ovl!Now.context = own.context
            /\ Ovl!Now.chat = own.chat /\ Ovl!Now.text = own.text /\ Ovl!Now.alive = env.alive
        BY <3>1, OverlayHas
      <3>3. PICK s : s = Ovl!Now
        OBVIOUS
      <3>4. Ovl!Whole(s)
        BY <3>2, <3>3
      <3>5. /\ s.alive.pictures = Ovl!Held(s.slots) /\ s.alive.contexts = Ovl!One(s.context # Ovl!None)
            /\ s.alive.fonts = Ovl!One(s.chat # "none") + Ovl!One(s.text # "none")
        BY <3>4, WholeHas
      <3> QED
        BY <3>2, <3>3, <3>5 DEF Ovl!PicturesReturn
    <2> QED
      BY <2>1, <2>2, <2>3 DEF NothingLeaks
  <1> QED
    BY <1>1, LaunchInvariant, ManagerFreed, CountsInvariant, SocketsInvariant, OverlayInvariant, PTL

\* Every part keeps its types and bounds: the phases of the loader, the numbers the mirrors
\* compare, the tables, records and lists, and what GTA and Windows hold for the library.
THEOREM TypesAreRight == Spec => []TypeOK
  <1>1. ASSUME InputInv, LaunchInv, HookInv, SyncInv, TableInv, FilesOpenInv, AssetsInv, SocketsInv, OverlayInv, CountsInv
        PROVE  TypeOK
    <2>1. ASSUME part = "input" PROVE Inp!TypeOK
      <3>1. net \in Inp!Adapter /\ own \in Inp!Bridge /\ pc \in Inp!Points /\ Inp!NumbersGiven /\ Inp!SessionKnown
        BY <1>1, <2>1 DEF InputInv, Inp!IInv, Inp!Fields
      <3>2. /\ net.rpcs \in Nat /\ net.sent \in Nat /\ net.restart \in Nat /\ own.handled \in Nat
            /\ own.release \in 0 .. ReleaseFrames /\ MaxEvents \in Nat
        BY <3>1, ClientAssumption DEF Inp!Adapter, Inp!Bridge, ClientAssumption
      <3>3. /\ net.rpcs \in 0 .. MaxEvents /\ net.sent \in 0 .. MaxEvents /\ own.handled \in 0 .. net.restart
            /\ own.dialog \in 0 .. net.rpcs /\ own.menu \in 0 .. net.rpcs
        BY <3>1, <3>2, ClientAssumption DEF Inp!NumbersGiven, Inp!SessionKnown, ClientAssumption
      <3>4. \A f \in {"edit", "select", "class", "chat", "score", "owner", "patched", "kept", "mouse"} : own[f] \in BOOLEAN
        BY <3>1 DEF Inp!Bridge
      <3> QED
        BY <3>1, <3>2, <3>3, <3>4 DEF Inp!TypeOK, Inp!Points
    <2>2. ASSUME part = "launch" PROVE Lch!TypeOK
      <3>1. own \in Lch!Library /\ Lch!MadeByTwo /\ Lch!LoadsCounted
        BY <1>1, <2>2 DEF LaunchInv, Lch!IInv, Lch!Fields, CountsInv
      <3>2. /\ own.phase \in 0 .. 7 /\ own.held \subseteq Lch!Things
        BY <3>1 DEF Lch!Library
      <3>3. net.made \in 0 .. 2 * own.loads
        <4>1. own.loads \in Nat /\ net.made \in {0, 1, 2} /\ (own.loads = 0 => net.made = 0)
          BY <3>1, ClientAssumption DEF Lch!MadeByTwo, Lch!LoadsCounted, ClientAssumption
        <4> QED
          BY <4>1
      <3> QED
        BY <3>1, <3>2, <3>3 DEF Lch!TypeOK, Lch!LoadsCounted, Lch!Things, Lch!Attaching
    <2>3. ASSUME part = "hooks" PROVE Hks!TypeOK
      <3>1. own \in Hks!Hook /\ net \in Hks!Game /\ Hks!WorkIsUsed /\ Hks!CodeCounted
        BY <1>1, <2>3 DEF HookInv, Hks!IInv, Hks!Kept, CountsInv
      <3>2. net.taken \in 0 .. MaxEvents
        BY <3>1, ClientAssumption DEF Hks!Game, Hks!CodeCounted, ClientAssumption
      <3> QED
        BY <3>1, <3>2 DEF Hks!TypeOK, Hks!Hook, Hks!Bytes, Hks!WorkIsUsed, Hks!CodeCounted
    <2>4. ASSUME part = "sync" PROVE Snc!TypeOK
      <3>1. /\ own \in Snc!Marks /\ net \in Snc!Server /\ env \in Snc!Player /\ Snc!ClockRuns /\ Snc!TimerFollows(own)
            /\ Snc!ToggleFollowed /\ Snc!NumbersSaid
        BY <1>1, <2>4 DEF SyncInv, Snc!IInv, CountsInv
      <3>2. /\ env.ticks \in Nat /\ Wrap \in Nat /\ MaxTicks < Wrap /\ MaxTicks \in Nat /\ MaxEvents \in Nat
            /\ own.mark \in Nat /\ own.handled \in Nat /\ net.restart \in Nat
        BY <3>1, ClientAssumption DEF Snc!Marks, Snc!Server, Snc!Player, ClientAssumption
      <3>3. env.clock \in 0 .. Wrap - 1 /\ own.last \in 0 .. Wrap - 1
        BY <3>1, <3>2 DEF Snc!ClockRuns, Snc!TimerFollows
      <3>4. own.mark \in 0 .. MaxEvents /\ own.handled \in 1 .. net.restart
        BY <3>1, <3>2 DEF Snc!NumbersSaid, Snc!ToggleFollowed
      <3>5. \A f \in {"finalized", "spectating", "type", "sampled", "reported", "class", "seenDead"} : own[f] \in BOOLEAN
        BY <3>1 DEF Snc!Marks
      <3> QED
        BY <3>1, <3>3, <3>4, <3>5 DEF Snc!TypeOK, Snc!NumbersSaid
    <2>5. ASSUME part = "archive" PROVE Arc!TypeOK
      <3>1. Arc!Fields /\ Arc!FileFields
        BY <1>1, <2>5 DEF TableInv, FilesOpenInv, Arc!IInv, Arc!FilesInv
      <3>2. net.installed \in 0 .. 6
        BY <3>1 DEF Arc!Fields
      <3>3. Arc!Open \cup {Arc!None} \subseteq [file : Arc!Files \cup {"none"}, handle : 0 .. FakeHandles, position : 0 .. 3]
        <4>1. FakeHandles \in Nat
          BY ClientAssumption DEF ClientAssumption
        <4>2. Arc!None \in [file : Arc!Files \cup {"none"}, handle : 0 .. FakeHandles, position : 0 .. 3]
          BY <4>1 DEF Arc!None
        <4>3. 1 .. FakeHandles \subseteq 0 .. FakeHandles
          BY <4>1
        <4>4. Arc!Open \subseteq [file : Arc!Files \cup {"none"}, handle : 0 .. FakeHandles, position : 0 .. 3]
          BY <4>3 DEF Arc!Open
        <4> QED
          BY <4>2, <4>4
      <3>4. own.records \in [1 .. Slots -> [file : Arc!Files \cup {"none"}, handle : 0 .. FakeHandles, position : 0 .. 3]]
        BY <3>1, <3>3 DEF Arc!FileFields
      <3> QED
        BY <3>1, <3>2, <3>4 DEF Arc!TypeOK, Arc!FileFields, Arc!Phases
    <2>6. ASSUME part = "assets" PROVE Ast!TypeOK
      <3>1. /\ net \in Ast!List /\ own \in Ast!Notes /\ env \in Ast!World /\ Ast!Listed(net, own, env.slot)
            /\ Ast!Streamed(own.image, env.table, own.passes)
        BY <1>1, <2>6 DEF AssetsInv, Ast!IInv, Ast!Fields
      <3>2. /\ net.queue \in Seq(Ast!Models) /\ net.seq \in Nat /\ net.applied \in Nat /\ net.preview \in Nat
        BY <3>1 DEF Ast!List
      <3>3. /\ Len(net.queue) =< PendingMax /\ \A i \in 1 .. Len(net.queue) : net.queue[i] \in Ast!Models
            /\ net.applied \in 0 .. net.seq /\ net.preview \in 0 .. net.seq
        BY <3>1, <3>2 DEF Ast!Listed
      <3>4. /\ own.infos \subseteq Ast!Models /\ own.blocked \subseteq Ast!Models /\ own.col \in BOOLEAN
            /\ own.image \in [Ast!Archives -> -2 .. Images] /\ own.passes \in 0 .. ReloadLimit + 1
            /\ own.bulk \in {"untried", "some", "nothing"}
        BY <3>1 DEF Ast!Notes
      <3>5. /\ env.slot \in [Ast!Models -> {"empty", "heap", "native", "bare"}] /\ env.store \in 0 .. TimeStore
            /\ env.known \subseteq Ast!Models /\ env.bound \subseteq Ast!Models
        BY <3>1 DEF Ast!World
      <3>6. Len(env.table) =< Images
        BY <3>1 DEF Ast!Streamed
      <3> QED
        BY <3>2, <3>3, <3>4, <3>5, <3>6 DEF Ast!TypeOK
    <2>7. ASSUME part = "sockets" PROVE Skt!TypeOK
      <3>1. /\ Skt!Fields /\ Skt!OneHolder /\ Skt!SocketsReturn /\ Skt!Bounded
        BY <1>1, <2>7 DEF SocketsInv, Skt!IInv, CountsInv
      <3>2. /\ MaxSockets \in Nat /\ Addresses \in Nat
        BY ClientAssumption DEF ClientAssumption
      <3>3. /\ net.resolver \in {-1, 0, 1, 2} /\ net.found \in BOOLEAN /\ net.started \in BOOLEAN
            /\ own.initialized \in BOOLEAN /\ own.running \in BOOLEAN /\ own.listener \in Nat
            /\ env.made \in Nat /\ env.lists \subseteq Threads
        BY <3>1 DEF Skt!Fields, Skt!Resolver, Skt!Manager, Skt!World
      <3>4. \A t \in Threads : pc[t].left \in 0 .. Addresses /\ pc[t].socket \in Nat
        BY <3>1, <3>2 DEF Skt!Fields, Skt!Place, Skt!Bounded
      <3>5. env.made \in 0 .. MaxSockets /\ own.listener \in 0 .. env.made
        BY <3>1, <3>2, <3>3 DEF Skt!Bounded, Skt!OneHolder
      <3>6. own.listener \in 0 .. MaxSockets
        BY <3>2, <3>3, <3>5
      <3>7. env.open \subseteq 1 .. env.made
        <4> SUFFICES ASSUME NEW s \in env.open PROVE s \in 1 .. env.made
          OBVIOUS
        <4>1. s # 0 /\ (s \in env.given \/ s = own.listener \/ \E t \in Threads : s = pc[t].socket)
          BY <3>1 DEF Skt!SocketsReturn
        <4>2. CASE s \in env.given
          BY <3>1, <4>2 DEF Skt!OneHolder
        <4>3. CASE s = own.listener
          BY <3>3, <3>5, <4>1, <4>3
        <4>4. ASSUME NEW t \in Threads, s = pc[t].socket PROVE s \in 1 .. env.made
          <5>1. pc[t].socket =< env.made /\ pc[t].socket \in Nat
            BY <3>1, <3>4, <4>1, <4>4 DEF Skt!OneHolder
          <5> QED
            BY <3>3, <4>1, <4>4, <5>1
        <4> QED
          BY <4>1, <4>2, <4>3, <4>4
      <3> QED
        BY <3>1, <3>3, <3>4, <3>5, <3>6, <3>7 DEF Skt!TypeOK, Skt!OneHolder
    <2>8. ASSUME part = "overlay" PROVE Ovl!TypeOK
      <3>1. Ovl!IInv
        BY <1>1, <2>8 DEF OverlayInv
      <3>2. Ovl!Fields
        BY <3>1 DEF Ovl!IInv
      <3>3. PICK s : s = Ovl!Now
        OBVIOUS
      <3>4. Ovl!Whole(s) /\ s.slots = own.slots /\ s.context = own.context /\ s.chat = own.chat /\ s.text = own.text
        BY <3>1, <3>3, OverlayHas
      <3>5. s \in Ovl!Screen
        BY <3>4 DEF Ovl!Whole
      <3>6. /\ own.slots \in [Ovl!Ids -> Ovl!Slot] /\ own.context \in Ovl!Camera \cup {Ovl!None}
            /\ own.chat \in Ovl!Devices \cup {"none"} /\ own.text \in Ovl!Devices \cup {"none"}
        BY <3>4, <3>5 DEF Ovl!Screen
      <3>7. ASSUME NEW i \in Ovl!Ids
            PROVE  /\ own.slots[i].active \in BOOLEAN /\ own.slots[i].retry \in 0 .. RetryTicks
                   /\ own.slots[i].seq \in 0 .. MaxEvents /\ own.slots[i].resource \in 0 .. MaxEvents
                   /\ own.slots[i].texture # Ovl!None => own.slots[i].texture.device \in Ovl!Devices
        <4>1. PICK x \in Ovl!Slot : x = own.slots[i]
          BY <3>6
        <4>2. /\ x.active \in BOOLEAN /\ x.retry \in 0 .. RetryTicks /\ x.seq \in 0 .. MaxEvents
              /\ x.resource \in 0 .. MaxEvents /\ x.texture \in Ovl!Texture \cup {Ovl!None}
          BY DEF Ovl!Slot
        <4>3. x.texture # Ovl!None => x.texture.device \in Ovl!Devices
          BY <4>2 DEF Ovl!Texture
        <4> QED
          BY <4>1, <4>2, <4>3
      <3>8. own.context # Ovl!None => own.context.device \in Ovl!Devices /\ own.context.world \in Ovl!Worlds
        BY <3>6 DEF Ovl!Camera
      <3>9. /\ net.seq \in 0 .. MaxEvents /\ net.restarts \in 0 .. MaxRestarts
            /\ env.faults \in 0 .. MaxFaults /\ env.changes \in 0 .. MaxChanges /\ pc \in {"frame", "reset"}
        BY <3>2 DEF Ovl!Fields
      <3> QED
        BY <3>6, <3>7, <3>8, <3>9 DEF Ovl!TypeOK
    <2> QED
      BY <2>1, <2>2, <2>3, <2>4, <2>5, <2>6, <2>7, <2>8 DEF TypeOK
  <1> QED
    BY <1>1, InputInvariant, LaunchInvariant, HookInvariant, SyncInvariant, TableInvariant, FilesInvariant, AssetsInvariant,
       SocketsInvariant, OverlayInvariant, CountsInvariant, PTL
=============================================================================
