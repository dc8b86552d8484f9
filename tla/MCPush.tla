------------------------------- MODULE MCPush -------------------------------
(* Push on small instances.                                                *)
EXTENDS Push, TLC

(* One service renews its tokens, the other has one.                        *)
MCTokens == (1 :> 2) @@ (2 :> 1)

(* Tasks are interchangeable.                                               *)
PushSymmetry == Permutations(Wakes)
=============================================================================
