----------------------------- MODULE MCAuction -----------------------------
(* Instances of Auction for TLC.                                           *)
EXTENDS Auction, TLC
CONSTANTS p1, p2, p3, anna, boris

\* The first and the last are characters of one account.
Accounts == [p \in Players |-> IF p = p2 THEN boris ELSE anna]
Symmetric == Permutations({p1, p3}) \cup Permutations(Items)
             \cup Permutations(MailIds)

\* Bounds: nothing goes on from states with more than two mails or with a COD of
\* more than one; of two mails that players have sent, one pays for the other.
FewMails ==
  /\ Cardinality(Sent) <= 2
  /\ \A k \in Sent : mails[k].COD <= 1
  /\ Cardinality({k \in Sent : mails[k].sender # NoPlayer}) > 1 =>
       Running = {} /\ sunk <= Postage
=============================================================================
