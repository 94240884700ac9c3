----------------------------- MODULE ByteChannel -----------------------------
(***************************************************************************)
(* What the output of a WorldSocket promises its peer: the units written   *)
(* are received in order, each once, and with no gap as long as nobody is  *)
(* about to end the connection; what was received before stays received.   *)
(***************************************************************************)
EXTENDS Integers, Sequences

VARIABLES
  written,   \* units written so far; they are numbered from 1
  received,  \* the units the peer has read
  ending     \* the connection is closed, or somebody is about to close it

channelVars == <<written, received, ending>>

Init == written \in Nat /\ received = <<>> /\ ending = FALSE

\* A unit may be refused, if the connection then ends.
Write ==
  /\ written' \in Nat /\ written' > written
  /\ ending' \in {ending, TRUE}
  /\ UNCHANGED received

Latest == IF received = <<>> THEN 0 ELSE received[Len(received)]

Read ==
  /\ \E u \in (Latest + 1)..written :
       /\ ~ending => u = Latest + 1
       /\ received' = Append(received, u)
  /\ UNCHANGED <<written, ending>>

End ==
  /\ ending' = TRUE
  /\ UNCHANGED <<written, received>>

Next == Write \/ Read \/ End

Spec == Init /\ [][Next]_channelVars
=============================================================================
