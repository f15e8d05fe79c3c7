--------------------------- MODULE NetGame_proofs ---------------------------
(***************************************************************************)
(* The invariants of NetGame hold for every size of RakNet's queue and every *)
(* pump budget.  IInv (in NetGame) ties RakNet's peer, its queue, the packet *)
(* being answered and the client's own flags together; each of its parts is *)
(* kept by every action, and JoinedLasts and NewsOfTheEnd are what it says   *)
(* between two frames.                                                       *)
(***************************************************************************)
EXTENDS NetGame, TLAPS

(* The parts of TypeOK and of IInv that have no name of their own. *)

SessionTypes ==
    /\ terminal \in BOOLEAN /\ connected \in BOOLEAN /\ marked \in BOOLEAN /\ flags \in BOOLEAN
    /\ ready \in BOOLEAN /\ waited \in BOOLEAN /\ menu \in BOOLEAN
    /\ sawInit \in BOOLEAN /\ restart \in BOOLEAN /\ sampled \in BOOLEAN /\ logon \in BOOLEAN

TimersTypes ==
    /\ state \in States /\ since \in Ages /\ pc \in {"frame", "drain", "refresh", "answer"}
    /\ last \in Packets \cup {NoPacket} /\ drained \in 0 .. Budget
    /\ server \in {"idle", "joined", "playing"}

RakNetTypes ==
    peer \in {"down", "opening", "up"} /\ inbox \in Seq(Packets \cup Rpcs)

FrameInv ==
    /\ terminal => peer = "down"
    /\ pc \in {"frame", "drain"} => ~sampled
    /\ pc = "frame" => last = NoPacket /\ drained = 0

-----------------------------------------------------------------------------
(* Types. *)

LEMMA SessionStep ==
    ASSUME TypeOK, Next PROVE SessionTypes'
  <1>1. CASE Ready
    BY <1>1 DEF TypeOK, SessionTypes, Ready, session, adapter, frame, raknet
  <1>2. CASE DelayPasses
    BY <1>2 DEF TypeOK, SessionTypes, DelayPasses, session, adapter, frame, raknet
  <1>3. CASE Attempt
    BY <1>3 DEF TypeOK, SessionTypes, Attempt, gate
  <1>4. CASE Continue
    BY <1>4 DEF TypeOK, SessionTypes, Continue, gate, adapter, raknet
  <1>5. CASE OnInitGame
    BY <1>5 DEF TypeOK, SessionTypes, OnInitGame, Receives, session, gate
  <1>6. CASE OnRestart
    BY <1>6 DEF TypeOK, SessionTypes, OnRestart, Receives, session, gate
  <1>7. CASE OnPacket
    BY <1>7 DEF TypeOK, SessionTypes, OnPacket, Receives, session, gate, adapter
  <1>8. CASE DrainEnds
    BY <1>8 DEF TypeOK, SessionTypes, DrainEnds, session, gate, adapter, raknet
  <1>9. CASE Refresh
    BY <1>9 DEF TypeOK, SessionTypes, Refresh, SessionReset, gate, raknet
  <1>10. CASE Lost
    BY <1>10 DEF TypeOK, SessionTypes, Lost, Answers, SessionReset, adapter, raknet
  <1>11. CASE TerminalDisconnect
    BY <1>11 DEF TypeOK, SessionTypes, TerminalDisconnect, Answers, gate, adapter, raknet
  <1>12. CASE Refused
    BY <1>12 DEF TypeOK, SessionTypes, Refused, Answers, gate, adapter, raknet
  <1>13. CASE LogOn
    BY <1>13 DEF TypeOK, SessionTypes, LogOn, Answers, gate, adapter
  <1>14. CASE PeerAccepted
    BY <1>14 DEF TypeOK, SessionTypes, PeerAccepted, Arrives, Own, session, gate, adapter, frame
  <1>15. CASE PeerRefused
    BY <1>15 DEF TypeOK, SessionTypes, PeerRefused, Arrives, Own, session, gate, adapter, frame
  <1>16. CASE PeerEnds
    BY <1>16 DEF TypeOK, SessionTypes, PeerEnds, Arrives, Own, session, gate, adapter, frame
  <1>17. CASE Modified
    BY <1>17 DEF TypeOK, SessionTypes, Modified, Arrives, Own, session, gate, adapter, frame
  <1>18. CASE ServerInitGame
    BY <1>18 DEF TypeOK, SessionTypes, ServerInitGame, Arrives, Own, session, gate, adapter, frame
  <1>19. CASE ServerRestart
    BY <1>19 DEF TypeOK, SessionTypes, ServerRestart, Arrives, Own, session, gate, adapter, frame
  <1>20. CASE ToggleMenu
    BY <1>20 DEF TypeOK, SessionTypes, ToggleMenu, session, adapter, frame, raknet
  <1>21. CASE Tick
    BY <1>21 DEF TypeOK, SessionTypes, Tick, session, gate, adapter, frame, raknet
  <1> QED
    BY <1>1, <1>2, <1>3, <1>4, <1>5, <1>6, <1>7, <1>8, <1>9, <1>10, <1>11, <1>12, <1>13, <1>14,
       <1>15, <1>16, <1>17, <1>18, <1>19, <1>20, <1>21 DEF Next, Pump, RakNet

LEMMA TimersStep ==
    ASSUME TypeOK, Next PROVE TimersTypes'
  <1>1. CASE Ready
    BY <1>1 DEF TypeOK, TimersTypes, Ready, session, frame
  <1>2. CASE DelayPasses
    BY <1>2 DEF TypeOK, TimersTypes, DelayPasses, session, frame
  <1>3. CASE Attempt
    BY <1>3 DEF TypeOK, TimersTypes, Attempt, States, Ages
  <1>4. CASE Continue
    BY <1>4 DEF TypeOK, TimersTypes, Continue, States
  <1>5. CASE OnInitGame
    BY <1>5 DEF TypeOK, TimersTypes, OnInitGame, Receives, session
  <1>6. CASE OnRestart
    BY <1>6 DEF TypeOK, TimersTypes, OnRestart, Receives, session
  <1>7. CASE OnPacket
    BY <1>7, BudgetAssumption DEF TypeOK, TimersTypes, OnPacket, Receives, session
  <1>8. CASE DrainEnds
    BY <1>8 DEF TypeOK, TimersTypes, DrainEnds, session
  <1>9. CASE Refresh
    BY <1>9 DEF TypeOK, TimersTypes, Refresh, SessionReset, States, Ages
  <1>10. CASE Lost
    BY <1>10, BudgetAssumption DEF TypeOK, TimersTypes, Lost, Answers, SessionReset, States, Ages
  <1>11. CASE TerminalDisconnect
    BY <1>11, BudgetAssumption DEF TypeOK, TimersTypes, TerminalDisconnect, Answers, States
  <1>12. CASE Refused
    BY <1>12, BudgetAssumption DEF TypeOK, TimersTypes, Refused, Answers, States
  <1>13. CASE LogOn
    BY <1>13, BudgetAssumption DEF TypeOK, TimersTypes, LogOn, Answers, States
  <1>14. CASE PeerAccepted
    BY <1>14 DEF TypeOK, TimersTypes, PeerAccepted, Arrives, Own, session, frame
  <1>15. CASE PeerRefused
    BY <1>15 DEF TypeOK, TimersTypes, PeerRefused, Arrives, Own, session, frame
  <1>16. CASE PeerEnds
    BY <1>16 DEF TypeOK, TimersTypes, PeerEnds, Arrives, Own, session, frame
  <1>17. CASE Modified
    BY <1>17 DEF TypeOK, TimersTypes, Modified, Arrives, Own, session, frame
  <1>18. CASE ServerInitGame
    BY <1>18 DEF TypeOK, TimersTypes, ServerInitGame, Arrives, Own, session, frame
  <1>19. CASE ServerRestart
    BY <1>19 DEF TypeOK, TimersTypes, ServerRestart, Arrives, Own, session, frame
  <1>20. CASE ToggleMenu
    BY <1>20 DEF TypeOK, TimersTypes, ToggleMenu, session, frame
  <1>21. CASE Tick
    BY <1>21 DEF TypeOK, TimersTypes, Tick, session, frame, Ages
  <1> QED
    BY <1>1, <1>2, <1>3, <1>4, <1>5, <1>6, <1>7, <1>8, <1>9, <1>10, <1>11, <1>12, <1>13, <1>14,
       <1>15, <1>16, <1>17, <1>18, <1>19, <1>20, <1>21 DEF Next, Pump, RakNet

LEMMA RakNetStep ==
    ASSUME TypeOK, Next PROVE RakNetTypes'
  <1>1. CASE Ready
    BY <1>1 DEF TypeOK, RakNetTypes, Ready, raknet
  <1>2. CASE DelayPasses
    BY <1>2 DEF TypeOK, RakNetTypes, DelayPasses, raknet
  <1>3. CASE Attempt
    BY <1>3 DEF RakNetTypes, Attempt
  <1>4. CASE Continue
    BY <1>4 DEF TypeOK, RakNetTypes, Continue, raknet
  <1>5. CASE OnInitGame
    BY <1>5 DEF TypeOK, RakNetTypes, OnInitGame, Receives
  <1>6. CASE OnRestart
    BY <1>6 DEF TypeOK, RakNetTypes, OnRestart, Receives
  <1>7. CASE OnPacket
    BY <1>7 DEF TypeOK, RakNetTypes, OnPacket, Receives
  <1>8. CASE DrainEnds
    BY <1>8 DEF TypeOK, RakNetTypes, DrainEnds, raknet
  <1>9. CASE Refresh
    BY <1>9 DEF TypeOK, RakNetTypes, Refresh, raknet
  <1>10. CASE Lost
    BY <1>10 DEF TypeOK, RakNetTypes, Lost, raknet
  <1>11. CASE TerminalDisconnect
    <2>1. CASE last = "banned"
      BY <1>11, <2>1 DEF TypeOK, RakNetTypes, TerminalDisconnect, raknet
    <2>2. CASE last # "banned"
      BY <1>11, <2>2 DEF RakNetTypes, TerminalDisconnect
    <2> QED
      BY <2>1, <2>2
  <1>12. CASE Refused
    BY <1>12 DEF TypeOK, RakNetTypes, Refused, raknet
  <1>13. CASE LogOn
    BY <1>13 DEF TypeOK, RakNetTypes, LogOn
  <1>14. CASE PeerAccepted
    BY <1>14 DEF TypeOK, RakNetTypes, PeerAccepted, Arrives, Packets
  <1>15. CASE PeerRefused
    BY <1>15 DEF TypeOK, RakNetTypes, PeerRefused, Arrives, Final, Packets
  <1>16. CASE PeerEnds
    BY <1>16 DEF TypeOK, RakNetTypes, PeerEnds, Arrives, Final, Packets
  <1>17. CASE Modified
    BY <1>17 DEF TypeOK, RakNetTypes, Modified, Arrives, Packets
  <1>18. CASE ServerInitGame
    BY <1>18 DEF TypeOK, RakNetTypes, ServerInitGame, Arrives, Rpcs
  <1>19. CASE ServerRestart
    BY <1>19 DEF TypeOK, RakNetTypes, ServerRestart, Arrives, Rpcs
  <1>20. CASE ToggleMenu
    BY <1>20 DEF TypeOK, RakNetTypes, ToggleMenu, raknet
  <1>21. CASE Tick
    BY <1>21 DEF TypeOK, RakNetTypes, Tick, raknet
  <1> QED
    BY <1>1, <1>2, <1>3, <1>4, <1>5, <1>6, <1>7, <1>8, <1>9, <1>10, <1>11, <1>12, <1>13, <1>14,
       <1>15, <1>16, <1>17, <1>18, <1>19, <1>20, <1>21 DEF Next, Pump, RakNet

-----------------------------------------------------------------------------
(* The parts of the inductive invariant, one lemma each. *)

\* Only an end of the connection is appended as one, and then nothing is
\* appended before the next attempt.
LEMMA EndIsLastStep ==
    ASSUME IInv, Next PROVE EndIsLast'
  <1>1. CASE Ready \/ DelayPasses \/ Continue \/ DrainEnds \/ Refresh
            \/ ToggleMenu \/ Tick
    BY <1>1 DEF IInv, EndIsLast, Ready, DelayPasses, Continue, DrainEnds, Refresh, ToggleMenu,
                Tick, frame, raknet
  <1>2. CASE Attempt
    BY <1>2 DEF IInv, EndIsLast, Attempt, FrameStarts, Refusals, Final, NoPacket, Ends
  <1>3. CASE OnInitGame
    BY <1>3 DEF IInv, EndIsLast, OnInitGame, Receives
  <1>4. CASE OnRestart
    BY <1>4 DEF IInv, EndIsLast, OnRestart, Receives
  <1>5. CASE OnPacket
    BY <1>5 DEF IInv, EndIsLast, OnPacket, Receives
  <1>6. CASE Lost
    BY <1>6 DEF IInv, EndIsLast, Lost, Answers, raknet, Ends
  <1>7. CASE TerminalDisconnect
    BY <1>7 DEF IInv, EndIsLast, TerminalDisconnect, Answers, raknet, Ends
  <1>8. CASE Refused
    BY <1>8 DEF IInv, EndIsLast, Refused, Answers, raknet, Ends
  <1>9. CASE LogOn
    BY <1>9 DEF IInv, EndIsLast, LogOn, Answers, Refusals, Final, NoPacket, Ends
  <1>10. CASE PeerAccepted
    BY <1>10 DEF IInv, EndIsLast, PeerAccepted, Arrives, Own, frame, Refusals, Final, Ends
  <1>11. CASE PeerRefused
    BY <1>11 DEF IInv, EndIsLast, PeerRefused, Arrives, Own, frame
  <1>12. CASE PeerEnds
    BY <1>12 DEF IInv, EndIsLast, PeerEnds, Arrives, Own, frame
  <1>13. CASE Modified
    BY <1>13 DEF IInv, EndIsLast, Modified, Arrives, Own, frame, Refusals, Final, Ends
  <1>14. CASE ServerInitGame
    BY <1>14 DEF IInv, EndIsLast, ServerInitGame, Arrives, Own, frame, Refusals, Final, Ends
  <1>15. CASE ServerRestart
    BY <1>15 DEF IInv, EndIsLast, ServerRestart, Arrives, Own, frame, Refusals, Final, Ends
  <1> QED
    BY <1>1, <1>2, <1>3, <1>4, <1>5, <1>6, <1>7, <1>8, <1>9, <1>10, <1>11, <1>12, <1>13, <1>14,
       <1>15 DEF Next, Pump, RakNet

\* The transport that ends leaves its packet; draining it makes it the last
\* packet, and answering that packet takes connected back.
LEMMA EndIsNewsStep ==
    ASSUME IInv, Next PROVE EndIsNews'
  <1>1. CASE Ready \/ DelayPasses \/ Continue \/ ToggleMenu \/ Tick
    BY <1>1 DEF IInv, EndIsNews, News, Ready, DelayPasses, Continue, ToggleMenu, Tick, session,
                frame, raknet
  <1>2. CASE Attempt
    BY <1>2 DEF IInv, EndIsNews, Attempt, FrameStarts, Tries
  <1>3. CASE OnInitGame
    <2>1. UNCHANGED <<last, connected, sampled, peer>> /\ Head(inbox) \in Rpcs
      BY <1>3 DEF OnInitGame, Receives, session, Rpcs
    <2>2. inbox' = Tail(inbox) /\ inbox # <<>> /\ inbox \in Seq(Packets \cup Rpcs)
      BY <1>3 DEF OnInitGame, Receives, IInv, TypeOK
    <2>3. News => News'
      BY <2>1, <2>2 DEF News, Rpcs, Losses
    <2> QED
      BY <2>1, <2>3 DEF IInv, EndIsNews
  <1>4. CASE OnRestart
    <2>1. UNCHANGED <<last, connected, sampled, peer>> /\ Head(inbox) \in Rpcs
      BY <1>4 DEF OnRestart, Receives, session, Rpcs
    <2>2. inbox' = Tail(inbox) /\ inbox # <<>> /\ inbox \in Seq(Packets \cup Rpcs)
      BY <1>4 DEF OnRestart, Receives, IInv, TypeOK
    <2>3. News => News'
      BY <2>1, <2>2 DEF News, Rpcs, Losses
    <2> QED
      BY <2>1, <2>3 DEF IInv, EndIsNews
  <1>5. CASE OnPacket
    BY <1>5 DEF IInv, EndIsLast, EndIsNews, News, OnPacket, Receives, session, Rpcs, Final,
                Packets, Losses, Ends
  <1>6. CASE DrainEnds
    BY <1>6 DEF IInv, EndIsNews, News, DrainEnds, session, raknet
  <1>7. CASE Refresh
    BY <1>7 DEF IInv, EndIsNews, News, Refresh, SessionReset, raknet
  <1>8. CASE Lost
    BY <1>8 DEF EndIsNews, Lost, Answers, SessionReset
  <1>9. CASE TerminalDisconnect
    BY <1>9 DEF EndIsNews, TerminalDisconnect, Answers
  <1>10. CASE Refused
    BY <1>10 DEF EndIsNews, Refused, Answers
  <1>11. CASE LogOn
    BY <1>11 DEF IInv, EndIsNews, News, LogOn, Answers, Losses
  <1>12. CASE PeerAccepted
    BY <1>12 DEF EndIsNews, PeerAccepted, Arrives
  <1>13. CASE PeerRefused
    BY <1>13 DEF IInv, EndIsNews, OpensAfresh, PeerRefused, Arrives, Own, session, frame
  <1>14. CASE PeerEnds
    BY <1>14 DEF EndIsNews, News, PeerEnds, Arrives, Losses
  <1>15. CASE Modified
    BY <1>15 DEF EndIsNews, Modified, Arrives
  <1>16. CASE ServerInitGame
    BY <1>16 DEF EndIsNews, ServerInitGame, Arrives
  <1>17. CASE ServerRestart
    BY <1>17 DEF EndIsNews, ServerRestart, Arrives
  <1> QED
    BY <1>1, <1>2, <1>3, <1>4, <1>5, <1>6, <1>7, <1>8, <1>9, <1>10, <1>11, <1>12, <1>13, <1>14,
       <1>15, <1>16, <1>17 DEF Next, Pump, RakNet

\* An attempt is made only when not connected, and clears the rest.
LEMMA OpensAfreshStep ==
    ASSUME IInv, Next PROVE OpensAfresh'
  <1>1. CASE Ready \/ DelayPasses \/ Continue \/ ToggleMenu \/ Tick
    BY <1>1 DEF IInv, OpensAfresh, Ready, DelayPasses, Continue, ToggleMenu, Tick, session, frame,
                raknet
  <1>2. CASE Attempt
    BY <1>2 DEF IInv, OpensAfresh, Attempt, FrameStarts, Tries
  <1>3. CASE OnInitGame
    BY <1>3 DEF IInv, OpensAfresh, OnInitGame, Receives
  <1>4. CASE OnRestart
    BY <1>4 DEF IInv, OpensAfresh, OnRestart, Receives
  <1>5. CASE OnPacket
    BY <1>5 DEF IInv, OpensAfresh, OnPacket, Receives
  <1>6. CASE DrainEnds
    BY <1>6 DEF IInv, OpensAfresh, DrainEnds, session, raknet
  <1>7. CASE Refresh
    BY <1>7 DEF IInv, OpensAfresh, Refresh, SessionReset, raknet
  <1>8. CASE Lost
    BY <1>8 DEF IInv, OpensAfresh, Lost, Answers, SessionReset, raknet
  <1>9. CASE TerminalDisconnect
    BY <1>9 DEF IInv, OpensAfresh, TerminalDisconnect, Answers, raknet
  <1>10. CASE Refused
    BY <1>10 DEF IInv, OpensAfresh, Refused, Answers, raknet
  <1>11. CASE LogOn
    BY <1>11 DEF IInv, OpensAfresh, LogOn, Answers
  <1>12. CASE PeerAccepted
    BY <1>12 DEF OpensAfresh, PeerAccepted, Arrives
  <1>13. CASE PeerRefused
    BY <1>13 DEF OpensAfresh, PeerRefused, Arrives
  <1>14. CASE PeerEnds
    BY <1>14 DEF OpensAfresh, PeerEnds, Arrives
  <1>15. CASE Modified
    BY <1>15 DEF OpensAfresh, Modified, Arrives
  <1>16. CASE ServerInitGame
    BY <1>16 DEF OpensAfresh, ServerInitGame, Arrives
  <1>17. CASE ServerRestart
    BY <1>17 DEF OpensAfresh, ServerRestart, Arrives
  <1> QED
    BY <1>1, <1>2, <1>3, <1>4, <1>5, <1>6, <1>7, <1>8, <1>9, <1>10, <1>11, <1>12, <1>13, <1>14,
       <1>15, <1>16, <1>17 DEF Next, Pump, RakNet

\* The mark is made on a peer that is up, and taken back with it.
LEMMA MarkHoldsStep ==
    ASSUME IInv, Next PROVE MarkHolds'
  <1>1. CASE Ready \/ DelayPasses \/ OnInitGame \/ OnRestart \/ OnPacket
            \/ DrainEnds \/ Modified \/ ServerInitGame \/ ServerRestart \/ ToggleMenu \/ Tick
    BY <1>1 DEF IInv, MarkHolds, Ready, DelayPasses, OnInitGame, Receives, OnRestart, OnPacket,
                DrainEnds, Modified, Arrives, Own, ServerInitGame, ServerRestart, ToggleMenu,
                Tick, session, raknet
  <1>2. CASE Attempt
    BY <1>2 DEF MarkHolds, Attempt
  <1>3. CASE Continue
    BY <1>3 DEF IInv, MarkHolds, Continue, raknet
  <1>4. CASE Refresh
    BY <1>4 DEF IInv, MarkHolds, Refresh, SessionReset, raknet
  <1>5. CASE Lost
    BY <1>5 DEF MarkHolds, Lost, SessionReset
  <1>6. CASE TerminalDisconnect
    BY <1>6 DEF MarkHolds, TerminalDisconnect
  <1>7. CASE Refused
    BY <1>7 DEF IInv, MarkHolds, Refused, raknet
  <1>8. CASE LogOn
    BY <1>8 DEF IInv, TypeOK, OpensAfresh, MarkHolds, LogOn
  <1>9. CASE PeerAccepted
    BY <1>9 DEF IInv, OpensAfresh, MarkHolds, PeerAccepted, Arrives, Own, session
  <1>10. CASE PeerRefused
    BY <1>10 DEF MarkHolds, PeerRefused, Arrives
  <1>11. CASE PeerEnds
    BY <1>11 DEF MarkHolds, PeerEnds, Arrives
  <1> QED
    BY <1>1, <1>2, <1>3, <1>4, <1>5, <1>6, <1>7, <1>8, <1>9, <1>10, <1>11 DEF Next, Pump, RakNet

\* The drain that lets the server in ends with the transport up, and nothing
\* but the end of the connection disconnects it.
LEMMA JoinedStep ==
    ASSUME IInv, Next PROVE JoinedIsConnected'
  <1>1. CASE Ready \/ DelayPasses \/ OnInitGame \/ OnRestart \/ Modified
            \/ ToggleMenu \/ Tick
    BY <1>1 DEF IInv, JoinedIsConnected, Ready, DelayPasses, OnInitGame, Receives, OnRestart,
                Modified, Arrives, Own, ToggleMenu, Tick, session, frame, raknet
  <1>2. CASE Attempt
    BY <1>2 DEF JoinedIsConnected, Attempt
  <1>3. CASE Continue
    BY <1>3 DEF IInv, JoinedIsConnected, Continue, raknet
  <1>4. CASE OnPacket
    BY <1>4 DEF IInv, JoinedIsConnected, OnPacket, Receives
  <1>5. CASE DrainEnds
    BY <1>5 DEF IInv, JoinedIsConnected, DrainEnds, raknet
  <1>6. CASE Refresh
    BY <1>6 DEF IInv, JoinedIsConnected, Refresh, raknet
  <1>7. CASE Lost
    BY <1>7 DEF IInv, EndIsLast, JoinedIsConnected, Lost, Answers, Ends
  <1>8. CASE TerminalDisconnect
    BY <1>8 DEF IInv, EndIsLast, JoinedIsConnected, TerminalDisconnect, Answers, Ends
  <1>9. CASE Refused
    BY <1>9 DEF IInv, EndIsLast, JoinedIsConnected, Refused, Answers, Ends
  <1>10. CASE LogOn
    BY <1>10 DEF IInv, JoinedIsConnected, LogOn, Answers
  <1>11. CASE PeerAccepted
    BY <1>11 DEF IInv, JoinedIsConnected, PeerAccepted
  <1>12. CASE PeerRefused
    BY <1>12 DEF IInv, JoinedIsConnected, PeerRefused
  <1>13. CASE PeerEnds
    BY <1>13 DEF JoinedIsConnected, PeerEnds
  <1>14. CASE ServerInitGame
    BY <1>14 DEF IInv, JoinedIsConnected, ServerInitGame, Arrives, Own, session, frame
  <1>15. CASE ServerRestart
    BY <1>15 DEF IInv, JoinedIsConnected, ServerRestart, Arrives, Own, session, frame
  <1> QED
    BY <1>1, <1>2, <1>3, <1>4, <1>5, <1>6, <1>7, <1>8, <1>9, <1>10, <1>11, <1>12, <1>13, <1>14,
       <1>15 DEF Next, Pump, RakNet

\* What a frame leaves for the next one.
LEMMA FrameStep ==
    ASSUME IInv, Next PROVE FrameInv'
  <1>1. CASE Ready \/ DelayPasses \/ OnInitGame \/ OnRestart \/ Modified
            \/ ServerInitGame \/ ServerRestart \/ ToggleMenu \/ Tick
    BY <1>1 DEF FrameInv, IInv, Ready, DelayPasses, OnInitGame, Receives, OnRestart, Modified,
                Arrives, Own, ServerInitGame, ServerRestart, ToggleMenu, Tick, session, frame,
                raknet
  <1>2. CASE Attempt
    BY <1>2 DEF FrameInv, IInv, Attempt, FrameStarts
  <1>3. CASE Continue
    BY <1>3 DEF FrameInv, IInv, Continue, FrameStarts
  <1>4. CASE OnPacket
    BY <1>4 DEF FrameInv, IInv, OnPacket, Receives, session
  <1>5. CASE DrainEnds
    BY <1>5 DEF FrameInv, IInv, DrainEnds, session, raknet
  <1>6. CASE Refresh
    BY <1>6 DEF FrameInv, IInv, Refresh, SessionReset, raknet
  <1>7. CASE Lost
    BY <1>7 DEF FrameInv, Lost, Answers, SessionReset
  <1>8. CASE TerminalDisconnect
    BY <1>8 DEF FrameInv, IInv, EndIsLast, TerminalDisconnect, Answers, raknet, Ends
  <1>9. CASE Refused
    BY <1>9 DEF FrameInv, IInv, Refused, Answers, raknet
  <1>10. CASE LogOn
    BY <1>10 DEF FrameInv, IInv, LogOn, Answers
  <1>11. CASE PeerAccepted
    BY <1>11 DEF FrameInv, IInv, PeerAccepted, Arrives, Own, session, frame
  <1>12. CASE PeerRefused
    BY <1>12 DEF FrameInv, IInv, PeerRefused, Arrives, Own, frame
  <1>13. CASE PeerEnds
    BY <1>13 DEF FrameInv, IInv, PeerEnds, Arrives, Own, frame
  <1> QED
    BY <1>1, <1>2, <1>3, <1>4, <1>5, <1>6, <1>7, <1>8, <1>9, <1>10, <1>11, <1>12, <1>13 DEF Next,
                                                                                            Pump,
                                                                                            RakNet

-----------------------------------------------------------------------------
(* The theorems. *)

LEMMA InitInv == Init => IInv
  <1> SUFFICES ASSUME Init PROVE IInv
    OBVIOUS
  <1>1. SessionTypes
    BY DEF Init, SessionTypes
  <1>2. TimersTypes
    BY BudgetAssumption DEF Init, TimersTypes, States, Ages
  <1>3. RakNetTypes
    BY DEF Init, RakNetTypes
  <1>4. TypeOK
    BY <1>1, <1>2, <1>3 DEF TypeOK, SessionTypes, TimersTypes, RakNetTypes
  <1>5. EndIsLast /\ EndIsNews
    BY DEF Init, EndIsLast, EndIsNews, Ends, Refusals, Final, NoPacket
  <1>6. OpensAfresh /\ MarkHolds /\ JoinedIsConnected
    BY DEF Init, OpensAfresh, MarkHolds, JoinedIsConnected
  <1>7. FrameInv
    BY DEF Init, FrameInv
  <1> QED
    BY <1>4, <1>5, <1>6, <1>7 DEF IInv, FrameInv

LEMMA NextInv ==
    ASSUME IInv, [Next]_vars PROVE IInv'
  <1>1. CASE Next
    <2>1. TypeOK
      BY DEF IInv
    <2>2. TypeOK'
      BY <1>1, <2>1, SessionStep, TimersStep, RakNetStep
         DEF TypeOK, SessionTypes, TimersTypes, RakNetTypes
    <2>3. EndIsLast' /\ EndIsNews' /\ OpensAfresh' /\ MarkHolds' /\ JoinedIsConnected' /\ FrameInv'
      BY <1>1, EndIsLastStep, EndIsNewsStep, OpensAfreshStep, MarkHoldsStep, JoinedStep, FrameStep
    <2> QED
      BY <2>2, <2>3 DEF IInv, FrameInv
  <1>2. CASE UNCHANGED vars
    BY <1>2 DEF IInv, TypeOK, EndIsLast, EndIsNews, News, OpensAfresh, MarkHolds, JoinedIsConnected,
                vars, session, gate, adapter, frame, raknet
  <1> QED
    BY <1>1, <1>2

\* The connection's end is the last thing RakNet says of it, the client's
\* flags stand for a transport that is there or whose end it will hear of.
THEOREM SessionInvariant == Spec => []IInv
  BY InitInv, NextInv, PTL DEF Spec

\* Every state is well formed: no drain takes more packets than its budget.
THEOREM TypeCorrect == Spec => []TypeOK
  <1>1. IInv => TypeOK
    BY DEF IInv
  <1> QED
    BY <1>1, SessionInvariant, PTL

\* A session once joined goes on through restarts and menus: every frame pumps
\* it, and the peer is logged on wherever the client says CONNECTED.
THEOREM JoinedGoesOn == Spec => []JoinedLasts
  <1>1. ASSUME IInv PROVE ConnectedIsLoggedOn
    BY <1>1 DEF IInv, MarkHolds, ConnectedIsLoggedOn
  <1>2. ASSUME IInv PROVE JoinedIsPumped
    BY <1>2 DEF IInv, JoinedIsConnected, JoinedIsPumped, FrameStarts
  <1>3. IInv => JoinedLasts
    BY <1>1, <1>2 DEF JoinedLasts
  <1> QED
    BY <1>3, SessionInvariant, PTL

\* Wherever in a frame the transport ends, and however the drain is cut short
\* by its budget, a client that is connected between two frames has a transport
\* or will drain the packet that says it is gone.
THEOREM EndIsAnnounced == Spec => []NewsOfTheEnd
  <1>1. ASSUME IInv PROVE NewsOfTheEnd
    BY <1>1 DEF IInv, EndIsNews, News, NewsOfTheEnd, Losses, NoPacket
  <1>2. IInv => NewsOfTheEnd
    BY <1>1
  <1> QED
    BY <1>2, SessionInvariant, PTL
=============================================================================
