------------------------------- MODULE MC_Cargo -------------------------------
(***************************************************************************)
(* Instances of CargoResolver for TLC.  Three entries (1 < 2 < 3), the    *)
(* [workspace] and [package] tables and two other lines.  A file is a      *)
(* sequence of up to three segments, each a plain line or a conflict       *)
(* region as git writes it (start, ours, separator, theirs, end) whose     *)
(* sides hold at most one line, then an optional final newline.           *)
(***************************************************************************)
EXTENDS CargoResolver

MCMembers == {1, 2, 3}
MCTables == {"workspace", "package"}
MCIds == {"x", "y"}

L(k) == Mk(k, NoKey, {}, "")
Hdr(t) == Mk("header", NoKey, {}, t)
Oth(id) == Mk("other", NoKey, {}, id)
Inl(key, S) == Mk("inline", key, S, "")
Opn(key) == Mk("open", key, {}, "")
Itm(m) == Mk("item", NoKey, {m}, "")

Region(o, t) == <<L("start")>> \o o \o <<L("sep")>> \o t \o <<L("end")>>

Files(Segs, n) ==
    {a \o b \o c \o e : a \in Segs, b \in Segs \cup {<<>>}, c \in Segs \cup {<<>>},
                        e \in {<<>>, <<CBlank>>}}

(***************************************************************************)
(* Any mix of tables, literals on one line, multi-line arrays, other      *)
(* lines and regions whose sides hold a literal, an entry line of a       *)
(* multi-line array, or another line.                                      *)
(***************************************************************************)
PlainSegs == {<<l>> : l \in {Hdr("workspace"), Oth("x"), Inl("members", {1}),
                             Opn("members"), L("close"), Itm(1)}}
SideSegs == {<<>>, <<Inl("members", {2})>>, <<Itm(2)>>, <<Oth("y")>>}
AnyInputs == Files(PlainSegs \cup {Region(o, t) : o, t \in SideSegs}, 3)

(***************************************************************************)
(* The case the tool was written for (spec, scenario A): [workspace], then *)
(* regions whose sides hold whole `members = [...]` literals or nothing,  *)
(* with other lines and another table around them.                         *)
(***************************************************************************)
LiteralSides == {<<>>, <<Inl("members", {1})>>, <<Inl("members", {2, 3})>>,
                 <<Inl("members", {})>>}
ScenarioAInputs ==
    {<<Hdr("workspace")>> \o r \o p \o e :
        r \in {Region(o, t) : o, t \in LiteralSides},
        p \in {<<>>, <<Oth("x")>>, <<Hdr("package")>>, <<Inl("members", {3})>>},
        e \in {<<>>, <<CBlank>>}}

(***************************************************************************)
(* A generic conflict (sides holding other lines) in front of the table    *)
(* whose members literal is in conflict, another line or table between.    *)
(***************************************************************************)
SpanInputs ==
    {Region(<<Oth("x")>>, <<Oth("y")>>) \o b \o
       Region(<<Inl("members", {1})>>, <<Inl("members", {2})>>) \o e :
        b \in {<<Hdr("workspace")>>, <<Oth("x"), Hdr("workspace")>>,
               <<Hdr("package"), Hdr("workspace")>>},
        e \in {<<>>, <<CBlank>>}}

(***************************************************************************)
(* A region inside a multi-line members array, as git writes it when two   *)
(* branches each add an entry line.                                        *)
(***************************************************************************)
ArrayInputs ==
    {<<Hdr("workspace"), Opn("members"), Itm(1)>> \o Region(o, t) \o <<L("close"), CBlank>> :
        o, t \in {<<>>, <<Itm(2)>>, <<Itm(3)>>}}

=============================================================================
