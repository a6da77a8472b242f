---------------------------- MODULE MCManagement ----------------------------
(***************************************************************************)
(* Two callers, who are alike, and documents of two fields, for model      *)
(* checking Management.                                                    *)
(***************************************************************************)
EXTENDS Management, TLC

MCMaxCalls == [r \in Resources |-> IF r \in {"secret", "plan"} THEN 5 ELSE 3]

Alike == Permutations(Callers) \cup Permutations(Fields)
=============================================================================
