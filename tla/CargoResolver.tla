--------------------------- MODULE CargoResolver ---------------------------
(***************************************************************************)
(* resolve_cargo_conflict(file_path) of                                    *)
(* src/tools/worktree/resolve_cargo_conflict.py: the manifest-array        *)
(* adapter.  The tool is a straight line of regular-expression passes over *)
(* the whole text; each pass is modelled by what Python's re engine        *)
(* returns for it, computed over the file's lines.                         *)
(*                                                                         *)
(* A line is abstracted to the features the patterns react to: a marker    *)
(* line at its start ("<<<<<<< x", "=======", ">>>>>>> x"); a line holding *)
(* `KEY = [` with no `]` after it ("open", KEY one of members or           *)
(* default-members, both of which contain the text `members`); a line     *)
(* holding one quoted entry ("item", `"a",`); a line `]` ("close"); a line *)
(* `KEY = ["a", ...]` ("inline", with its entries); a table header such   *)
(* as `[workspace]` ("header"); any other line and the empty line.  Which  *)
(* lines contain `members\s*=\s*\[`, which contain a `]` and which quoted  *)
(* strings a line holds is all the patterns look at.                       *)
(***************************************************************************)
EXTENDS Integers, Sequences, SequencesExt, ResolverText

CONSTANTS
    Members,    \* entry strings, ordered by < as str orders them
    Tables,     \* table names of header lines; "workspace" is one
    Ids,        \* identities of the other lines
    Inputs      \* the file contents (split form) a run may start from

Keys == {"members", "default-members"}
NoKey == ""

Mk(k, key, ms, id) == [kind |-> k, key |-> key, mems |-> ms, id |-> id]

CLine ==
    [kind : {"start", "sep", "end", "close", "blank"}, key : {NoKey},
     mems : {{}}, id : {""}]
    \cup [kind : {"open"}, key : Keys, mems : {{}}, id : {""}]
    \cup [kind : {"item"}, key : {NoKey}, mems : {{m} : m \in Members}, id : {""}]
    \cup [kind : {"inline"}, key : Keys, mems : SUBSET Members, id : {""}]
    \cup [kind : {"header"}, key : {NoKey}, mems : {{}}, id : Tables]
    \cup [kind : {"other"}, key : {NoKey}, mems : {{}}, id : Ids]

CBlank == Mk("blank", NoKey, {}, "")

ASSUME CargoInputsAssumption ==
    /\ "workspace" \in Tables
    /\ Inputs \subseteq Seq(CLine) \ {<<>>}

IsStart(l) == l.kind = "start"
IsSep(l) == l.kind = "sep"
IsEnd(l) == l.kind = "end"
\* The text `members\s*=\s*\[` occurs in the line.
HasKey(l) == l.kind \in {"open", "inline"}
\* The text `]` occurs in the line.
HasBracket(l) == l.kind \in {"close", "inline", "header"}

(***************************************************************************)
(* `members\s*=\s*\[.*?\]` (DOTALL) searched in lines a..b: the lines with *)
(* the key that some `]` follows, and the line of the first `]` from m on. *)
(***************************************************************************)
KeyLines(ls, a, b) == {m \in a..b : HasKey(ls[m]) /\ \E c \in m..b : HasBracket(ls[c])}
CloseOf(ls, m, b) == Min({c \in m..b : HasBracket(ls[c])})

(***************************************************************************)
(* extract_members_from_block (lines 28-42) of the text of lines a..b:     *)
(* re.search finds the first literal only; its quoted strings up to the    *)
(* first `]` are the entries.                                              *)
(***************************************************************************)
ExtractMembers(ls, a, b) ==
    IF KeyLines(ls, a, b) = {} THEN {}
    ELSE LET m == Min(KeyLines(ls, a, b))
         IN  UNION {ls[j].mems : j \in m..CloseOf(ls, m, b)}

Ends(ls, a) == {e \in a..Len(ls) : IsEnd(ls[e])}
Seps(ls, a, b) == {q \in a..b : IsSep(ls[q])}

(***************************************************************************)
(* conflict_pattern (line 69) from a start line s:                         *)
(* <<<<<<<[^\n]*\n(.*?)(?:=======\n(.*?))?>>>>>>>[^\n]*\n?                 *)
(* The lazy group stops at the first end line, or at a separator before it *)
(* (the optional group is tried first); the region has no `=======` side   *)
(* when no separator precedes the end.                                     *)
(***************************************************************************)
CMatch(ls, s) == IsStart(ls[s]) /\ s < Len(ls) /\ Ends(ls, s + 1) # {}
CEnd(ls, s) == Min(Ends(ls, s + 1))
CSep(ls, s) ==
    IF Seps(ls, s + 1, CEnd(ls, s) - 1) = {} THEN CEnd(ls, s)
    ELSE Min(Seps(ls, s + 1, CEnd(ls, s) - 1))

(***************************************************************************)
(* members_conflict_pattern (lines 103-109) from a start line s:           *)
(*   <<<<<<<[^\n]*\n (?:.*?members\s*=\s*\[.*?\].*?)? =======\n            *)
(*                   (?:.*?members\s*=\s*\[.*?\].*?)? >>>>>>>[^\n]*\n?     *)
(* in the order the backtracking engine tries it: with the first optional  *)
(* group, the separator is the first one after the first literal (its `]`) *)
(* from which the rest matches; the rest ends at the first end line after  *)
(* the next literal or, failing that, at an end line right after the       *)
(* separator; without the group, the separator must follow the start line.*)
(* `.*?` crosses every line, markers of other regions included.            *)
(***************************************************************************)
TailEnd(ls, q) ==
    LET ks == KeyLines(ls, q + 1, Len(ls))
        es == IF ks = {} THEN {} ELSE Ends(ls, CloseOf(ls, Min(ks), Len(ls)) + 1)
    IN  IF es # {} THEN Min(es)
        ELSE IF q < Len(ls) /\ IsEnd(ls[q + 1]) THEN q + 1 ELSE 0

SepFrom(ls, q) == q < Len(ls) /\ IsSep(ls[q]) /\ TailEnd(ls, q) # 0

MCSeps(ls, s) ==
    LET ks == KeyLines(ls, s + 1, Len(ls))
    IN  IF ks = {} THEN {}
        ELSE {q \in (CloseOf(ls, Min(ks), Len(ls)) + 1)..Len(ls) : SepFrom(ls, q)}

MCEnd(ls, s) ==
    IF MCSeps(ls, s) # {} THEN TailEnd(ls, Min(MCSeps(ls, s)))
    ELSE IF s < Len(ls) /\ SepFrom(ls, s + 1) THEN TailEnd(ls, s + 1)
    ELSE 0

MCMatch(ls, s) == IsStart(ls[s]) /\ s < Len(ls) /\ MCEnd(ls, s) # 0

(***************************************************************************)
(* The generic pattern (line 124) from a start line s:                     *)
(* <<<<<<<[^\n]*\n(.*?)=======\n.*?>>>>>>>[^\n]*\n?: the first separator   *)
(* after s and the first end line after it; group 1 is kept.               *)
(***************************************************************************)
GSep(ls, s) == Min(Seps(ls, s + 1, Len(ls) - 1))
GEnd(ls, s) == Min(Ends(ls, GSep(ls, s) + 1))

\* Mutant: `\n` instead of `\n?` after the end marker.
GMatchNeedsNewline(ls, s) ==
    /\ IsStart(ls[s]) /\ s < Len(ls)
    /\ Seps(ls, s + 1, Len(ls) - 1) # {}
    /\ Ends(ls, GSep(ls, s) + 1) # {}
    /\ GEnd(ls, s) < Len(ls)

GMatch(ls, s) ==
    /\ IsStart(ls[s]) /\ s < Len(ls)
    /\ Seps(ls, s + 1, Len(ls) - 1) # {}
    /\ Ends(ls, GSep(ls, s) + 1) # {}

(***************************************************************************)
(* re.sub(pattern, repl, text) in split form: scan from the first line;    *)
(* where a match starts, emit its replacement and go on after its last     *)
(* line.  Every replacement here is a run of whole lines; a pattern ending *)
(* in `\n?` (nl) also eats the newline after its last line, so a match     *)
(* that reaches the last line leaves an empty last line behind.            *)
(***************************************************************************)
Sub(ls, Match(_, _), EndAt(_, _), Repl(_, _), nl) ==
    LET g[p \in 1..(Len(ls) + 1)] ==
            IF p > Len(ls) THEN <<>>
            ELSE IF Match(ls, p)
                 THEN Repl(ls, p) \o
                      (IF nl /\ EndAt(ls, p) = Len(ls) THEN <<CBlank>>
                       ELSE g[EndAt(ls, p) + 1])
                 ELSE <<ls[p]>> \o g[p + 1]
    IN  g[1]

\* The start lines of the regions re.finditer(conflict_pattern) returns.
ConflictStarts(ls) ==
    LET f[p \in 1..(Len(ls) + 1)] ==
            IF p > Len(ls) THEN {}
            ELSE IF CMatch(ls, p) THEN {p} \cup f[CEnd(ls, p) + 1]
            ELSE f[p + 1]
    IN  f[1]

Nothing(ls, s) == <<>>

(***************************************************************************)
(* Lines 64-81: the entries of both sides of every region, and of the     *)
(* content with every region cut out (again the first literal only).      *)
(***************************************************************************)
\* Mutant: the "theirs" side (group 2) not read.
CollectMembersOursOnly(ls) ==
    LET clean == Sub(ls, CMatch, CEnd, Nothing, TRUE)
    IN  UNION {ExtractMembers(ls, s + 1, CSep(ls, s) - 1) : s \in ConflictStarts(ls)}
        \cup ExtractMembers(clean, 1, Len(clean))

CollectMembers(ls) ==
    LET clean == Sub(ls, CMatch, CEnd, Nothing, TRUE)
    IN  UNION {ExtractMembers(ls, s + 1, CSep(ls, s) - 1)
                 \cup ExtractMembers(ls, CSep(ls, s) + 1, CEnd(ls, s) - 1) :
               s \in ConflictStarts(ls)}
        \cup ExtractMembers(clean, 1, Len(clean))

(***************************************************************************)
(* Lines 88-95: new_members_block for key KEY (the text before `members`   *)
(* on the replaced line, "default-" included, stays in front of it).       *)
(***************************************************************************)
\* Mutant: all entries joined onto one line of the array.
NewBlockOneLine(key, S) ==
    IF S # {}
    THEN <<Mk("open", key, {}, ""), Mk("item", NoKey, S, ""), Mk("close", NoKey, {}, "")>>
    ELSE <<Mk("inline", key, {}, "")>>

NewBlock(key, S) ==
    IF S # {}
    THEN <<Mk("open", key, {}, "")>>
         \o [k \in 1..Cardinality(S) |-> Mk("item", NoKey, {SetToSortSeq(S, LAMBDA x, y : x < y)[k]}, "")]
         \o <<Mk("close", NoKey, {}, "")>>
    ELSE <<Mk("inline", key, {}, "")>>

\* Line 124: keep group 1, the lines between the start marker and the separator.
KeepOurs(ls, s) == SubSeq(ls, s + 1, GSep(ls, s) - 1)

\* Lines 131-137: every `members\s*=\s*\[.*?\]` replaced by the new block.
ArrayAt(ls, m) == HasKey(ls[m]) /\ \E c \in m..Len(ls) : HasBracket(ls[c])
ArrayEnd(ls, m) == CloseOf(ls, m, Len(ls))

\* Lines 138-144: every `[workspace]` followed by the new block.
WorkspaceAt(ls, p) == ls[p].kind = "header" /\ ls[p].id = "workspace"
SameLine(ls, p) == p

\* Mutant: the \\1 left out of the replacement, the header replaced.
BlockWithoutHeader(ls, p, S) == NewBlock("members", S)

HeaderThenBlock(ls, p, S) == <<ls[p]>> \o NewBlock("members", S)

(***************************************************************************)
(* Lines 97-147: the rewrite, given the collected entries S.              *)
(***************************************************************************)
Rewrite(ls, S) ==
    LET r1 == Sub(ls, MCMatch, MCEnd, Nothing, TRUE)
        r2 == Sub(r1, GMatch, GEnd, KeepOurs, TRUE)
        Block(l, p) == NewBlock(l[p].key, S)
        r3 == IF \E k \in 1..Len(r2) : HasKey(r2[k])
              THEN Sub(r2, ArrayAt, ArrayEnd, Block, FALSE)
              ELSE IF (\E k \in 1..Len(r2) : WorkspaceAt(r2, k)) /\ S # {}
              THEN Sub(r2, WorkspaceAt, SameLine, LAMBDA l, p : HeaderThenBlock(l, p, S), FALSE)
              ELSE r2
    IN  CollapseBlankLines(r3, CBlank)

VARIABLES
    exists,     \* path.exists()
    file,       \* the file's content, split form
    orig,       \* the content the run started from (history)
    pc,         \* "init", "writing", "done" (returned True), "failed"
    out         \* the text being written (resolved)

vars == <<exists, file, orig, pc, out>>

Init ==
    /\ exists \in BOOLEAN
    /\ file \in Inputs
    /\ orig = file
    /\ pc = "init"
    /\ out = <<>>

\* Lines 53-55: no such file; return False.
NotFound ==
    /\ pc = "init" /\ ~exists
    /\ pc' = "failed"
    /\ UNCHANGED <<exists, file, orig, out>>

\* Lines 57-62: no "<<<<<<< " in the content; return True, nothing written.
NoMarkers ==
    /\ pc = "init" /\ exists
    /\ \A k \in 1..Len(file) : ~IsStart(file[k])
    /\ pc' = "done"
    /\ UNCHANGED <<exists, file, orig, out>>

(***************************************************************************)
(* Lines 57-150 up to the write: read, collect, rewrite, then              *)
(* path.write_text opens the file for writing, which truncates it.        *)
(***************************************************************************)
Resolve ==
    /\ pc = "init" /\ exists
    /\ \E k \in 1..Len(file) : IsStart(file[k])
    /\ out' = Rewrite(file, CollectMembers(file))
    /\ file' = <<CBlank>>
    /\ pc' = "writing"
    /\ UNCHANGED <<exists, orig>>

\* Line 150: the text is written; return True.
WriteDone ==
    /\ pc = "writing"
    /\ file' = out
    /\ pc' = "done"
    /\ UNCHANGED <<exists, orig, out>>

(***************************************************************************)
(* Line 150 failing part-way (no space left, the process killed): the     *)
(* file holds what was written so far, the tool exits 1.                  *)
(***************************************************************************)
WriteFails ==
    /\ pc = "writing"
    /\ file' \in {<<CBlank>>} \cup {SubSeq(out, 1, k) : k \in 1..(Len(out) - 1)}
    /\ pc' = "failed"
    /\ UNCHANGED <<exists, orig, out>>

Next == NotFound \/ NoMarkers \/ Resolve \/ WriteDone \/ WriteFails

Spec == Init /\ [][Next]_vars

-----------------------------------------------------------------------------
(***************************************************************************)
(* Properties.                                                             *)
(***************************************************************************)

CTypeOK ==
    /\ exists \in BOOLEAN
    /\ file \in Seq(CLine)
    /\ orig \in Seq(CLine)
    /\ pc \in {"init", "writing", "done", "failed"}
    /\ out \in Seq(CLine)

\* Line k of c lies inside a conflict region: after a start line that no
\* end line has closed yet.
InRegion(c, k) ==
    \E s \in 1..(k - 1) :
        /\ IsStart(c[s])
        /\ \A j \in s..(k - 1) : ~IsEnd(c[j])

IsMarker(l) == l.kind \in {"start", "sep", "end"}

\* The entries written on either side of some conflict region of c.
SideEntries(c) == UNION {c[k].mems : k \in {k \in 1..Len(c) : InRegion(c, k)}}

\* The entries of the `members` literals of c (key members, not default-members).
FinalMembers(c) ==
    UNION {UNION {c[j].mems : j \in m..CloseOf(c, m, Len(c))} :
             m \in {m \in 1..Len(c) : ArrayAt(c, m) /\ c[m].key = "members"}}

(***************************************************************************)
(* Marker elimination (spec section 8): after a run on a file whose        *)
(* regions are well formed, no marker line is left.  Two passes must       *)
(* cooperate for this: the members pass (line 115) removes some regions,   *)
(* whose spans may cover others, and the generic pass (line 124) must find *)
(* every region left whole.                                                *)
(***************************************************************************)
MarkersEliminated ==
    pc = "done" => \A k \in 1..Len(file) : ~IsMarker(file[k])

(***************************************************************************)
(* Completeness (spec section 8): after a run on a file with markers,      *)
(* every entry written on either side of a conflict region is in the       *)
(* `members` literal of the result: collected at lines 71-81 and written   *)
(* back at lines 131-144.                                                  *)
(***************************************************************************)
MembersComplete ==
    pc = "done" /\ (\E k \in 1..Len(orig) : IsStart(orig[k]))
        => SideEntries(orig) \subseteq FinalMembers(file)

\* Lines no pass of the tool may drop or change: headers, other lines and
\* default-members literals written on one line.
Plain(l) ==
    \/ l.kind \in {"header", "other"}
    \/ l.kind = "inline" /\ l.key = "default-members"

(***************************************************************************)
(* Preservation (spec section 8): every header, other line and one-line    *)
(* default-members literal outside all conflict regions is still in the   *)
(* file after a run.  The members pass (lines 103-115) deletes from a      *)
(* start line to the end line its lazy groups reach, and the literal pass  *)
(* (lines 131-137) rewrites every `members\s*=\s*\[` literal.              *)
(***************************************************************************)
Preservation ==
    pc = "done" =>
        \A k \in 1..Len(orig) :
            ~InRegion(orig, k) /\ Plain(orig[k]) =>
                \E j \in 1..Len(file) : file[j] = orig[k]

(***************************************************************************)
(* All-or-nothing write (spec sections 5 and 7): a run that fails leaves  *)
(* the file as it was.  path.write_text (line 150) truncates the file      *)
(* before it writes.                                                       *)
(***************************************************************************)
WriteAllOrNothing == pc = "failed" => file = orig

=============================================================================
