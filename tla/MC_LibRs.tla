------------------------------ MODULE MC_LibRs ------------------------------
(***************************************************************************)
(* Instances of LibRsResolver for TLC.                                     *)
(*                                                                         *)
(* Two module names (1 < 2), two visibility forms so that the same module  *)
(* can be declared twice with different text (the case the sort key and    *)
(* the set disagree on), and three other lines.                            *)
(***************************************************************************)
EXTENDS LibRsResolver

MCNames == {1, 2}
MCVis == {"pub", "pub(crate)"}
MCIds == {1, 2, 3}

Decl(v, n) == [kind |-> "mod", vis |-> v, name |-> n]
Other(k, id) == [kind |-> k, vis |-> NoVis, name |-> id]
Marker(k) == [kind |-> k, vis |-> NoVis, name |-> 0]

StartL == Marker("start")
SepL == Marker("sep")
EndL == Marker("end")
UseL == Other("use", 1)
CodeL == Other("code", 2)
OursL == Other("code", 3)

(***************************************************************************)
(* Well-formed conflicted files, as git writes them: up to two segments,   *)
(* each a plain line or a conflict region whose sides hold at most one     *)
(* line, then an optional final newline.  The sides may declare the same   *)
(* module, the same module with another visibility, another module, hold   *)
(* an unrelated line or a blank one.                                       *)
(***************************************************************************)
PlainLines == {Decl("pub", 1), Decl("pub", 2), UseL, CodeL, Blank}
SideLines == {Decl("pub", 1), Decl("pub(crate)", 1), Decl("pub", 2), OursL, Blank}
Sides == {<<>>} \cup {<<x>> : x \in SideLines}
Regions == {<<StartL>> \o o \o <<SepL>> \o t \o <<EndL>> : o, t \in Sides}
Segments == {<<p>> : p \in PlainLines} \cup Regions

WellFormedInputs ==
    {a \o b \o e : a \in Segments, b \in Segments \cup {<<>>},
                   e \in {<<>>, <<Blank>>}}

(***************************************************************************)
(* Any sequence of up to four lines over markers, declarations and other   *)
(* lines: stray separators and end markers, nested start markers, regions  *)
(* never closed, files without any marker line.                            *)
(***************************************************************************)
AnyLines == {StartL, SepL, EndL, Decl("pub", 1), Decl("pub(crate)", 1),
             UseL, CodeL, Blank}
AnyInputs == UNION {[1..n -> AnyLines] : n \in 1..4}

AllInputs == WellFormedInputs \cup AnyInputs

=============================================================================
