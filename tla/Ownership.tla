----------------------------- MODULE Ownership ------------------------------
(***************************************************************************)
(* What the instances promise of a bot: it has one gateway session and one *)
(* set of voice connections, with one instance, at a time.  An instance    *)
(* takes a bot nobody has, and gives up all it has at once, when it dies,  *)
(* exits or has shut its sessions down.  How they come to agree, by locks  *)
(* and key events, is Takeover.                                            *)
(***************************************************************************)
EXTENDS Naturals, FiniteSets

CONSTANTS Instances, Bots

VARIABLE holders    \* of each bot, the instances with a session of it

Init == holders = [b \in Bots |-> {}]

Acquire(i, b) ==
    /\ holders[b] = {}
    /\ holders' = [holders EXCEPT ![b] = {i}]

Release(i) == holders' = [b \in Bots |-> holders[b] \ {i}]

Next == \E i \in Instances : Release(i) \/ \E b \in Bots : Acquire(i, b)

Spec == Init /\ [][Next]_holders

(* A bot is never with two instances.                                      *)
Exclusive == \A b \in Bots, i, j \in Instances : i \in holders[b] /\ j \in holders[b] => i = j
=============================================================================
