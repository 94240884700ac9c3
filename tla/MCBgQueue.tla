----------------------------- MODULE MCBgQueue ------------------------------
(* Three ways in which the queues are used, each with types of its own:    *)
(* groups in warsong, players who come and go in arathi, and one player in *)
(* the queues of two types, eye and isle.                                  *)
EXTENDS BgQueue, TLC

CONSTANTS a1, a2, h1, h2, b1, b2, warsong, arathi, eye, isle

MCPlayers == {a1, a2, h1, h2}
MCTypes == {warsong, arathi, eye, isle}
MCTeamOf == [p \in MCPlayers |-> IF p \in {a1, a2} THEN "alliance" ELSE "horde"]
MCInstancesOf == [t \in MCTypes |-> IF t = isle THEN {b2} ELSE {b1}]
MCPlayersPerTeam == [t \in MCTypes |-> IF t = warsong THEN 2 ELSE 1]
MCEntries == {
  {<<{a1, a2}, warsong>>, <<{h1, h2}, warsong>>, <<{h1}, warsong>>},
  {<<{p}, arathi>> : p \in {a1, a2, h1}},
  {<<{p}, t>> : p \in {a1, h1}, t \in {eye, isle}}}
MCMaxEvents == [t \in MCTypes |-> IF t = arathi THEN 2 ELSE 1]
=============================================================================
