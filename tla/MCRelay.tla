------------------------------ MODULE MCRelay ------------------------------
(* Relay with the program's own times; MCProgress has the small instance.  *)
EXTENDS Relay, TLC

(* The program's waits of 5, 30, 120 and 600 s, in units of 15 s.          *)
ProgramBackoff == <<1, 2, 8, 40>>

(* The case of destinations that do not answer: every request ends with    *)
(* its timeout.                                                            *)
NoAnswer ==
    /\ accepted' = {}
    /\ \A i \in Ids : first[i].pc = "post" /\ first'[i].pc # "post"
                       => first[i].elapsed = Timeout
    /\ \A w \in Workers : worker[w].pc = "post" /\ worker'[w].pc # "post"
                           => worker[w].elapsed = Timeout
NoAnswerSpec == Init /\ [][Next /\ NoAnswer]_vars

(* Relays are interchangeable, and so are workers.                         *)
Symmetry == Permutations(Ids) \union Permutations(Workers)
=============================================================================
