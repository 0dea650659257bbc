---------------------------- MODULE ResolverText ----------------------------
(***************************************************************************)
(* Text conversions shared by src/tools/worktree/resolve_cargo_conflict.py *)
(* and src/tools/worktree/resolve_librs_conflict.py.                       *)
(*                                                                         *)
(* A file's content is represented by content.split('\n'): the sequence of *)
(* its lines; the operators take the value standing for the empty line "" *)
(* as their parameter e.  The representation is exact: '\n'.join(...) and  *)
(* split('\n') are inverse, a content ending in a newline has e as its     *)
(* last line and the empty content is <<e>>.                               *)
(***************************************************************************)
EXTENDS Naturals, Sequences, FiniteSets

(***************************************************************************)
(* '\n'.join(ls) in split form: the lines themselves, except that joining *)
(* no lines gives the empty content, whose split form is one empty line.  *)
(***************************************************************************)
JoinLines(ls, e) == IF ls = <<>> THEN <<e>> ELSE ls

(***************************************************************************)
(* re.sub(r'\n{3,}', '\n\n', '\n'.join(ls)), in split form.  The newline   *)
(* between lines k and k+1 is the third of a run exactly when lines k-1    *)
(* and k are empty and a newline precedes line k-1; deleting that newline  *)
(* merges the empty line k into line k+1, i.e. deletes line k.  Replacing  *)
(* every maximal run of 3 or more newlines by 2 deletes all of these at    *)
(* once.                                                                   *)
(***************************************************************************)
SurplusNewline(ls, k, e) ==
    /\ 3 =< k /\ k < Len(ls)
    /\ ls[k - 1] = e
    /\ ls[k] = e

Kept(ls, e) == {k \in 1..Len(ls) : ~SurplusNewline(ls, k, e)}

\* Position k of ls is the j-th position kept.
IsNthKept(ls, e, j, k) ==
    k \in Kept(ls, e) /\ Cardinality({x \in Kept(ls, e) : x =< k}) = j

\* The j-th position kept: a position of ls that is the j-th kept one
\* whenever ls has one (it has, for every j the result asks for).
NthKept(ls, e, j) ==
    CHOOSE k \in 1..Len(ls) :
        (\E m \in 1..Len(ls) : IsNthKept(ls, e, j, m)) => IsNthKept(ls, e, j, k)

CollapseBlankLines(ls, e) ==
    [j \in 1..Cardinality(Kept(ls, e)) |-> ls[NthKept(ls, e, j)]]

(***************************************************************************)
(* content.endswith('\n') and "if not ...: resolved += '\n'".              *)
(***************************************************************************)
EndsWithNewline(ls, e) == Len(ls) >= 2 /\ ls[Len(ls)] = e

EnsureTrailingNewline(ls, e) ==
    IF EndsWithNewline(ls, e) THEN ls ELSE Append(ls, e)

(***************************************************************************)
(* list.insert(at + j, x_j) for j = 0..Len(s)-1: the sequence s spliced in *)
(* after the first `at` lines.                                             *)
(***************************************************************************)
InsertSeqAt(ls, at, s) ==
    SubSeq(ls, 1, at) \o s \o SubSeq(ls, at + 1, Len(ls))

=============================================================================
