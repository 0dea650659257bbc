--------------------------- MODULE MC_ResolverText ---------------------------
(***************************************************************************)
(* The blank-line clean-up of both resolvers (ResolverText), applied to   *)
(* every line sequence up to MaxLen lines built from the empty line and    *)
(* two other lines.  The state machine builds the sequences one line at a *)
(* time.                                                                   *)
(***************************************************************************)
EXTENDS Naturals, Sequences, ResolverText

CONSTANTS EmptyLine, LineA, LineB, MaxLen

LineVals == {EmptyLine, LineA, LineB}

VARIABLE ls

Init == ls \in {<<l>> : l \in LineVals}

Extend ==
    /\ Len(ls) < MaxLen
    /\ \E l \in LineVals : ls' = Append(ls, l)

Spec == Init /\ [][Extend]_ls

\* Lines k and k + 1 of c are a run of exactly two blank lines between text.
TwoBlankRunAt(c, k) ==
    /\ 2 =< k /\ k + 2 =< Len(c)
    /\ c[k - 1] # EmptyLine /\ c[k + 2] # EmptyLine
    /\ c[k] = EmptyLine /\ c[k + 1] = EmptyLine

(***************************************************************************)
(* spec.md section 4.4 step 4: the rewriter collapses runs of 3 or more   *)
(* consecutive blank lines; a run of two blank lines between two lines of  *)
(* text is left as it is.  The code (re.sub(r'\n{3,}', '\n\n', ...) at     *)
(* resolve_librs_conflict.py:152 and resolve_cargo_conflict.py:147)       *)
(* matches three newlines, which two blank lines already make.             *)
(***************************************************************************)
TwoBlankLinesKept ==
    (\E k \in 1..Len(ls) : TwoBlankRunAt(ls, k)) =>
        \E k \in 1..Len(CollapseBlankLines(ls, EmptyLine)) :
            TwoBlankRunAt(CollapseBlankLines(ls, EmptyLine), k)

=============================================================================
