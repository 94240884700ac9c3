----------------------------- MODULE MCSqlDelay -----------------------------
(* Instances of SqlDelay for TLC.                                          *)
EXTENDS SqlDelay
CONSTANTS main, world, net, none

\* CharacterDatabase: the world thread is the only issuer until it ends.
CharThreads == {main, world}
\* loginDatabase: a network thread writes last_ip while the world thread runs.
LoginThreads == {main, world, net}
JustWorld == {world}
NoThreads == {}
=============================================================================
