----------------------------- MODULE MCRegistry -----------------------------
(* Registry on small instances, with its mutants.                          *)
EXTENDS Registry, TLC

CONSTANTS w1, w2, h1, h2, c1, c2

(* w2 signed a proof for w1 here at time 4, and an older one; w1 signed    *)
(* one for w2 at another mediator only.                                    *)
MCProofs ==
    {[iss |-> w2, sub |-> w1, aud |-> "here", iat |-> 4],
     [iss |-> w2, sub |-> w1, aud |-> "here", iat |-> 2],
     [iss |-> w1, sub |-> w2, aud |-> "elsewhere", iat |-> 4]}

(* Handlers are interchangeable.                                           *)
HandlerSymmetry == Permutations(Handlers)
=============================================================================
