------------------------- MODULE LibRsDeterminism -------------------------
(***************************************************************************)
(* Two runs of resolve_librs_conflict on the same file, as two separate   *)
(* invocations of the tool (two interpreter processes) would make them.   *)
(* The first run is LibRsResolver's own variables, the second a copy with  *)
(* every variable renamed.                                                 *)
(***************************************************************************)
EXTENDS LibRsResolver

VARIABLES exists2, file2, orig2, pc2, lines2, i2, resolved2, allMods2,
          inConflict2, section2, insPt2

vars2 == <<exists2, file2, orig2, pc2, lines2, i2, resolved2, allMods2,
           inConflict2, section2, insPt2>>

Second == INSTANCE LibRsResolver
            WITH exists <- exists2, file <- file2, orig <- orig2, pc <- pc2,
                 lines <- lines2, i <- i2, resolved <- resolved2,
                 allMods <- allMods2, inConflict <- inConflict2,
                 section <- section2, insPt <- insPt2

TwoInit == Init /\ Second!Init /\ exists2 = exists /\ file2 = file

TwoNext ==
    \/ Next /\ UNCHANGED vars2
    \/ Second!Next /\ UNCHANGED vars

TwoSpec == TwoInit /\ [][TwoNext]_<<vars, vars2>>

(***************************************************************************)
(* Determinism (spec section 8): identical input yields byte-identical    *)
(* output across repeated runs.  Line 126 sorts the set all_pub_mods by    *)
(* module name only; sorted() is stable, so declarations of one module in *)
(* two forms come out in the set's iteration order, which depends on the   *)
(* per-process string hash seed.                                           *)
(***************************************************************************)
Deterministic == pc = "done" /\ pc2 = "done" => file = file2

=============================================================================
