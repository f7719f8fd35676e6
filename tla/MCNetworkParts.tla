--------------------------- MODULE MCNetworkParts ---------------------------
(* Three networks: the compiled-in one, one whose key has more than 32     *)
(* bytes, and the one its first 32 bytes give.                             *)
EXTENDS NetworkParts

CONSTANTS hard, short, long, none

MCNets == {hard, short, long}
MCFirst32 == [n \in MCNets |-> IF n = long THEN short ELSE n]
=============================================================================
