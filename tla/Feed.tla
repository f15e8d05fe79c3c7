-------------------------------- MODULE Feed --------------------------------
(***************************************************************************)
(* What an event ring between the RPC handlers and the game bridge promises *)
(* (abstract: no sequence numbers, no watermarks).  A delivery hands over   *)
(* the newest events the ring can hold, in the order the server sent them,  *)
(* once each; a new session (restart, loss or reconnection) forgets every   *)
(* event of the old one, delivered or not.                                  *)
(***************************************************************************)
EXTENDS Integers, Sequences

CONSTANT Capacity   \* events the ring holds

VARIABLES
    session,    \* sessions begun
    sent,       \* events sent in this session
    pending,    \* events of this session not handed over yet
    delivered   \* events of this session handed over

fvars == <<session, sent, pending, delivered>>

Newest(s) ==
    IF Len(s) <= Capacity THEN s ELSE SubSeq(s, Len(s) - Capacity + 1, Len(s))

Init ==
    /\ session = 1
    /\ sent = 0
    /\ pending = <<>>
    /\ delivered = <<>>

Send ==
    /\ sent' = sent + 1
    /\ pending' = Append(pending, [session |-> session, n |-> sent'])
    /\ UNCHANGED <<session, delivered>>

Deliver ==
    /\ delivered' = delivered \o Newest(pending)
    /\ pending' = <<>>
    /\ UNCHANGED <<session, sent>>

NewSession ==
    /\ session' = session + 1
    /\ sent' = 0
    /\ pending' = <<>>
    /\ delivered' = <<>>

Next == Send \/ Deliver \/ NewSession

Spec == Init /\ [][Next]_fvars
=============================================================================
