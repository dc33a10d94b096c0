------------------------------ MODULE MCSessions ------------------------------
(* Two tabs, two accounts and two sessions, of one account or of both.       *)
EXTENDS Sessions, TLC

CONSTANTS t1, t2, u1, u2

Symmetry == Permutations(Tabs) \cup Permutations(Users)
===============================================================================
