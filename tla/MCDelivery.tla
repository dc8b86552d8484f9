----------------------------- MODULE MCDelivery -----------------------------
(* Delivery on small instances.                                            *)
EXTENDS Delivery, TLC

CONSTANTS w1, w2, s1, s2, d1, d2

(* Every wallet of the instance uses the first connection, in turn; w1     *)
(* also has one of its own.                                                *)
Shared == [s \in Sessions |-> IF s = s1 THEN Wallets ELSE {w1}]

(* Only w2 ever connects.                                                  *)
NeverW1 == [s \in Sessions |-> {w2}]

(* The recipients are w1's: live mode for w2 is what a session leaves w1   *)
(* for.                                                                    *)
Owners == [d \in Dids |-> w1]

(* Forwards are interchangeable, and so are the recipients.                *)
Symmetry == Permutations(Forwards) \union Permutations(Dids)
=============================================================================
