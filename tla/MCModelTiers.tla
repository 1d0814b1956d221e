---------------------------- MODULE MCModelTiers -----------------------------
(***************************************************************************)
(* Small instances of ModelTiers: two places with loops the detection does *)
(* not understand, one of which may become a tool.  Examples is {}: an     *)
(* agent the model names is filed under production wherever it lies        *)
(* (facts/models.py), and nothing binds the tool.                          *)
(***************************************************************************)
EXTENDS ModelTiers, TLC

CONSTANTS loop, while, search

MCToolOf == loop :> None @@ while :> None @@ search :> 1

MCContents == AllNodes \X (Texts \cup {Clear, None})

TwoTrees == {<<loop, while>>, <<loop, search>>}

ThreeTrees == TwoTrees \cup {<<while, loop>>}
=============================================================================
