--------------------------- MODULE MCInternalQueue ---------------------------
(* Two producers, two consumers and four items: two consumers, because with   *)
(* one the question which waiting thread notify_one picks never arises, and   *)
(* four items, so that the queue empties and refills while both wait.         *)
EXTENDS InternalQueue, TLC
CONSTANTS p1, p2, c1, c2

MCProducers == {p1, p2}
MCConsumers == {c1, c2}
==============================================================================
