---------------------------- MODULE MCStackParts ----------------------------
(* Values for the constants of StackParts that a configuration cannot write. *)
EXTENDS StackParts

(* T1 of 0 or for ever, T2 of 0, too long or for ever.                     *)
MCLeaseTimes == {<<0, CoarseMod + 1>>, <<1, Forever>>, <<Forever, 0>>}

MCCyclicTimers == <<"arp", "dns">>

(* Times of one tick and of two, two that are alike, and one between.      *)
MCInterval ==
  [h \in Handlers |-> CASE h = "arp" -> 4 [] h = "dns" -> 2 [] h = "tcp" -> 2 [] OTHER -> 3]

(* Nothing is left of it.                                                  *)
MCTornLists == {<<>>}
=============================================================================
