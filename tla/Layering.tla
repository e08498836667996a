------------------------------ MODULE Layering ------------------------------
(***************************************************************************)
(* What the engine needs of the layers it runs one after another: each of  *)
(* the steps S is in one of them, and what it depends on in earlier ones.  *)
(***************************************************************************)
EXTENDS Integers, Sequences

Layered(layers, dependsOn, S) ==
  \A s \in S : \E i \in DOMAIN layers :
    /\ s \in layers[i]
    /\ \A k \in DOMAIN layers : s \in layers[k] => k = i
    /\ \A d \in dependsOn[s] : \E k \in 1..(i - 1) : d \in layers[k]
=============================================================================
