-------------------------- MODULE MCWorldSessions --------------------------
(* Instances of WorldSessions for TLC.                                     *)
EXTENDS WorldSessions
CONSTANTS anna, boris, gm, none, a1, a2, a3, b1, g1, elf, orc

NoLimits == {}
NewLimits == {-1, 0, 2}

\* Two plain accounts, one of which reconnects, and a game master.
QueueAccounts == {anna, boris, gm}
QueueSessions == {a1, a2, b1, g1}
QueueAccountOf ==
  [k \in QueueSessions |-> CASE k \in {a1, a2} -> anna
                             [] k = b1 -> boris
                             [] k = g1 -> gm]
QueueSecurity == [a \in QueueAccounts |-> IF a = gm THEN 3 ELSE 0]
NoOwners == [c \in {} |-> none]

\* One account with two characters that reconnects twice.
LoginAccounts == {anna}
LoginSessions == {a1, a2, a3}
LoginAccountOf == [k \in LoginSessions |-> anna]
TwoSessions == {a1, a2}
TwoAccountOf == [k \in TwoSessions |-> anna]
LoginSecurity == [a \in LoginAccounts |-> 0]
LoginChars == {elf, orc}
LoginOwners == [c \in LoginChars |-> anna]
=============================================================================
