--------------------------- MODULE MCSourceCommit ---------------------------
(***************************************************************************)
(* A small instance of SourceCommit: two modules and the two schemas; the   *)
(* second commit changes one module and the policy schema.                 *)
(***************************************************************************)
EXTENDS SourceCommit

MCModules == {"cli", "verify"}
MCOrder == <<"cli", "verify", "receipt", "policy">>
MCTree ==
    [c1 |-> [f \in Files |-> "old"],
     c2 |-> [f \in Files |-> IF f \in {"cli", "policy"} THEN "new" ELSE "old"]]
=============================================================================
