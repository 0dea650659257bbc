------------------------ MODULE MC_LibRsDeterminism ------------------------
(***************************************************************************)
(* Two runs on files whose conflict declares one module in two forms on    *)
(* its two sides, next to another module.                                  *)
(***************************************************************************)
EXTENDS LibRsDeterminism, MC_LibRs

TieInputs ==
    {<<StartL, Decl("pub", 1), SepL, Decl("pub(crate)", 1), EndL>> \o p \o <<Blank>> :
        p \in {<<>>, <<Decl("pub", 2)>>, <<CodeL>>}}

=============================================================================
