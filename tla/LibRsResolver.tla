--------------------------- MODULE LibRsResolver ---------------------------
(***************************************************************************)
(* resolve_librs_conflict(file_path) of                                    *)
(* src/tools/worktree/resolve_librs_conflict.py: the declaration-list     *)
(* adapter.  One run of the tool on one file: the existence check, the     *)
(* "no markers" early return, the line-by-line scan (one action per branch *)
(* of its while loop) and the merge, insertion, clean-up and write that    *)
(* follow the loop.                                                        *)
(*                                                                         *)
(* A line is abstracted to its kind and what the code tells apart in it:   *)
(* a `pub mod` declaration to its visibility form and its module name (the *)
(* sort key; names are numbers so that their order is str's order on the   *)
(* names they stand for), any other line to an identity.  Markers carry no *)
(* label: the code ignores it.                                             *)
(***************************************************************************)
EXTENDS Integers, Sequences, FiniteSets, ResolverText

CONSTANTS
    Names,          \* module names of `pub mod` lines, ordered by <
    Vis,            \* visibility forms: "pub", "pub(crate)", ...
    Ids,            \* identities of the other lines
    MarkerTextIds,  \* ids of code lines containing the text "<<<<<<< "
    Inputs          \* the file contents (split form) a run may start from

ASSUME NamesAssumption == Names \subseteq Nat /\ IsFiniteSet(Names)
ASSUME VisAssumption == IsFiniteSet(Vis) /\ "none" \notin Vis
ASSUME IdsAssumption == Ids \subseteq Nat /\ MarkerTextIds \subseteq Ids

NoVis == "none"

(***************************************************************************)
(* Lines.  "start", "sep", "end" are lines starting with "<<<<<<< ",       *)
(* "=======" and ">>>>>>> "; "mod" a line whose strip() matches           *)
(* ^pub(?:\([^)]+\))?\s+mod\s+\w+\s*; ; "use" one whose strip() starts     *)
(* with "use "; "comment" one starting with "//" or "#"; "blank" the empty *)
(* line; "code" anything else.                                             *)
(***************************************************************************)
MarkerLine == [kind : {"start", "sep", "end", "blank"}, vis : {NoVis}, name : {0}]
ModLine    == [kind : {"mod"}, vis : Vis, name : Names]
OtherLine  == [kind : {"use", "comment", "code"}, vis : {NoVis}, name : Ids]
Line == MarkerLine \cup ModLine \cup OtherLine

Blank == [kind |-> "blank", vis |-> NoVis, name |-> 0]

ASSUME InputsAssumption == Inputs \subseteq Seq(Line) \ {<<>>}

IsMod(l) == l.kind = "mod"

\* The code's sentinel None for pub_mods_insertion_point.
None == -1

VARIABLES
    exists,         \* path.exists()
    file,           \* the file's content, split form
    orig,           \* the content the run started from (history)
    pc,             \* "init", "scan", "done" (returned True), "failed"
    lines,          \* lines = content.split('\n')
    i,              \* the loop index, 1-based
    resolved,       \* resolved_lines
    allMods,        \* all_pub_mods
    inConflict,     \* in_conflict
    section,        \* conflict_section, as the lines appended to it
    insPt           \* pub_mods_insertion_point

vars == <<exists, file, orig, pc, lines, i, resolved, allMods, inConflict,
          section, insPt>>
scanVars == <<lines, i, resolved, allMods, inConflict, section, insPt>>

(***************************************************************************)
(* extract_pub_mods(conflict_section): the declarations among the lines.   *)
(***************************************************************************)
ExtractPubMods(sec) == {sec[k] : k \in {k \in 1..Len(sec) : IsMod(sec[k])}}

\* "<<<<<<< " in content: a start marker or the text inside another line.
HasMarkerText(c) ==
    \E k \in 1..Len(c) : c[k].kind = "start" \/ (c[k].kind = "code" /\ c[k].name \in MarkerTextIds)

\* Mutant: an insertion point one past the lines kept so far.
FirstPointPastEnd(pt, r) == IF pt = None THEN Len(r) + 1 ELSE pt

\* len(resolved_lines) if pub_mods_insertion_point is None.
FirstPoint(pt, r) == IF pt = None THEN Len(r) ELSE pt

Init ==
    /\ exists \in BOOLEAN
    /\ file \in Inputs
    /\ orig = file
    /\ pc = "init"
    /\ lines = <<>>
    /\ i = 1
    /\ resolved = <<>>
    /\ allMods = {}
    /\ inConflict = FALSE
    /\ section = <<>>
    /\ insPt = None

(***************************************************************************)
(* Lines 56-60: the file does not exist; return False (exit code 1).       *)
(***************************************************************************)
NotFound ==
    /\ pc = "init" /\ ~exists
    /\ pc' = "failed"
    /\ UNCHANGED <<exists, file, orig, scanVars>>

(***************************************************************************)
(* Lines 62-67: read the file; no "<<<<<<< " in it, return True unchanged. *)
(***************************************************************************)
NoMarkers ==
    /\ pc = "init" /\ exists
    /\ ~HasMarkerText(file)
    /\ pc' = "done"
    /\ UNCHANGED <<exists, file, orig, scanVars>>

(***************************************************************************)
(* Lines 62-77: read the file, markers present, set up the scan.           *)
(***************************************************************************)
Begin ==
    /\ pc = "init" /\ exists
    /\ HasMarkerText(file)
    /\ pc' = "scan"
    /\ lines' = file
    /\ i' = 1
    /\ resolved' = <<>>
    /\ allMods' = {}
    /\ inConflict' = FALSE
    /\ section' = <<>>
    /\ insPt' = None
    /\ UNCHANGED <<exists, file, orig>>

(***************************************************************************)
(* The branches of the while loop, lines 78-123, in the order the code     *)
(* tries them.                                                             *)
(***************************************************************************)
Scanning == pc = "scan" /\ i =< Len(lines)

\* Mutant: the `i += 1` before `continue` forgotten.
ScanStartNoAdvance ==
    /\ Scanning /\ lines[i].kind = "start"
    /\ inConflict' = TRUE
    /\ section' = <<>>
    /\ UNCHANGED <<exists, file, orig, pc, lines, i, resolved, allMods, insPt>>

\* Lines 81-85: a start marker opens a conflict and empties the section.
ScanStart ==
    /\ Scanning /\ lines[i].kind = "start"
    /\ inConflict' = TRUE
    /\ section' = <<>>
    /\ i' = i + 1
    /\ UNCHANGED <<exists, file, orig, pc, lines, resolved, allMods, insPt>>

\* Lines 87-93: a separator (also outside a conflict) harvests the section.
ScanSep ==
    /\ Scanning /\ lines[i].kind = "sep"
    /\ allMods' = allMods \cup ExtractPubMods(section)
    /\ section' = <<>>
    /\ i' = i + 1
    /\ UNCHANGED <<exists, file, orig, pc, lines, resolved, inConflict, insPt>>

\* Mutants: the "theirs" harvest forgotten; in_conflict left set.
ScanEndNoHarvest ==
    /\ Scanning /\ lines[i].kind = "end"
    /\ inConflict' = FALSE
    /\ section' = <<>>
    /\ insPt' = FirstPoint(insPt, resolved)
    /\ i' = i + 1
    /\ UNCHANGED <<exists, file, orig, pc, lines, resolved, allMods>>

ScanEndStaysOpen ==
    /\ Scanning /\ lines[i].kind = "end"
    /\ allMods' = allMods \cup ExtractPubMods(section)
    /\ section' = <<>>
    /\ insPt' = FirstPoint(insPt, resolved)
    /\ i' = i + 1
    /\ UNCHANGED <<exists, file, orig, pc, lines, resolved, inConflict>>

\* Lines 95-107: an end marker harvests the section, closes the conflict and
\* fixes the insertion point if none is set yet.
ScanEnd ==
    /\ Scanning /\ lines[i].kind = "end"
    /\ allMods' = allMods \cup ExtractPubMods(section)
    /\ inConflict' = FALSE
    /\ section' = <<>>
    /\ insPt' = FirstPoint(insPt, resolved)
    /\ i' = i + 1
    /\ UNCHANGED <<exists, file, orig, pc, lines, resolved>>

\* Lines 109-112: any other line inside a conflict goes to the section.
ScanInConflict ==
    /\ Scanning /\ lines[i].kind \notin {"start", "sep", "end"}
    /\ inConflict
    /\ section' = Append(section, lines[i])
    /\ i' = i + 1
    /\ UNCHANGED <<exists, file, orig, pc, lines, resolved, allMods,
                   inConflict, insPt>>

\* Mutant: the declaration collected and also kept in place.
ScanOutsideModKept ==
    /\ Scanning /\ IsMod(lines[i])
    /\ ~inConflict
    /\ allMods' = allMods \cup {lines[i]}
    /\ resolved' = Append(resolved, lines[i])
    /\ insPt' = FirstPoint(insPt, resolved)
    /\ i' = i + 1
    /\ UNCHANGED <<exists, file, orig, pc, lines, inConflict, section>>

\* Lines 115-119: a declaration outside a conflict is collected, not kept.
ScanOutsideMod ==
    /\ Scanning /\ IsMod(lines[i])
    /\ ~inConflict
    /\ allMods' = allMods \cup {lines[i]}
    /\ insPt' = FirstPoint(insPt, resolved)
    /\ i' = i + 1
    /\ UNCHANGED <<exists, file, orig, pc, lines, resolved, inConflict,
                   section>>

\* Lines 120-121: any other line outside a conflict is kept.
ScanOutsideOther ==
    /\ Scanning /\ lines[i].kind \notin {"start", "sep", "end", "mod"}
    /\ ~inConflict
    /\ resolved' = Append(resolved, lines[i])
    /\ i' = i + 1
    /\ UNCHANGED <<exists, file, orig, pc, lines, allMods, inConflict,
                   section, insPt>>

(***************************************************************************)
(* Line 126: sorted(all_pub_mods, key=extract_mod_name).  sorted is stable *)
(* and iterates a set of str, whose order varies between interpreter runs  *)
(* (hash randomisation): declarations with the same name come out in any   *)
(* order.                                                                  *)
(***************************************************************************)
SortedByName(S) ==
    {s \in [1..Cardinality(S) -> S] :
        /\ \A x \in S : \E k \in DOMAIN s : s[k] = x
        /\ \A j, k \in DOMAIN s : j < k => s[j].name =< s[k].name}

(***************************************************************************)
(* Lines 137-143: after the last `use` line that precedes the first line   *)
(* that is neither blank, a comment nor a `use`; else at the start.        *)
(***************************************************************************)
IsUseAnchor(r, k) ==
    LET uses == {m \in 1..Len(r) :
                    /\ r[m].kind = "use"
                    /\ \A j \in 1..m : r[j].kind \in {"use", "comment", "blank"}}
    IN  \/ uses = {} /\ k = 0
        \/ k \in uses /\ \A m \in uses : m =< k

\* CHOOSE over 0..Len(r), which holds the anchor for every r.
UseAnchor(r) ==
    CHOOSE k \in 0..Len(r) :
        (\E m \in 0..Len(r) : IsUseAnchor(r, m)) => IsUseAnchor(r, k)

(***************************************************************************)
(* Lines 149-159: join, re.sub(r'\n{3,}', '\n\n', ...), add the missing    *)
(* final newline, path.write_text(resolved), return True.                  *)
(***************************************************************************)
WriteBack(out) ==
    /\ file' = EnsureTrailingNewline(CollapseBlankLines(JoinLines(out, Blank), Blank), Blank)
    /\ pc' = "done"
    /\ UNCHANGED <<exists, orig, scanVars>>

Scanned == pc = "scan" /\ i > Len(lines)

\* Lines 129-135: insert the sorted declarations at the insertion point.
FinishAtPoint ==
    /\ Scanned /\ allMods # {} /\ insPt # None
    /\ \E s \in SortedByName(allMods) :
          WriteBack(InsertSeqAt(resolved, insPt, s))

\* Lines 136-146: no insertion point (a conflict never closed): anchor them.
FinishAtAnchor ==
    /\ Scanned /\ allMods # {} /\ insPt = None
    /\ \E s \in SortedByName(allMods) :
          WriteBack(InsertSeqAt(resolved, UseAnchor(resolved), s))

\* No declaration found anywhere: only the clean-up and the write.
FinishNoMods ==
    /\ Scanned /\ allMods = {}
    /\ WriteBack(resolved)

Next ==
    \/ NotFound \/ NoMarkers \/ Begin
    \/ ScanStart \/ ScanSep \/ ScanEnd
    \/ ScanInConflict \/ ScanOutsideMod \/ ScanOutsideOther
    \/ FinishAtPoint \/ FinishAtAnchor \/ FinishNoMods

(***************************************************************************)
(* The tool is one sequential process that runs until it returns: weak     *)
(* fairness on its steps.                                                  *)
(***************************************************************************)
Spec == Init /\ [][Next]_vars /\ WF_vars(Next)

-----------------------------------------------------------------------------
(***************************************************************************)
(* Properties.                                                             *)
(***************************************************************************)

TypeOK ==
    /\ exists \in BOOLEAN
    /\ file \in Seq(Line)
    /\ orig \in Seq(Line)
    /\ pc \in {"init", "scan", "done", "failed"}
    /\ lines \in Seq(Line)
    /\ i \in 1..(Len(lines) + 1)
    /\ resolved \in Seq(Line)
    /\ allMods \subseteq ModLine
    /\ inConflict \in BOOLEAN
    /\ section \in Seq(Line)
    /\ insPt \in {None} \cup 0..Len(resolved)

\* The declarations of a content, and how often a line occurs in it.
ModsOf(c) == {c[k] : k \in {k \in 1..Len(c) : IsMod(c[k])}}
Occurrences(c, l) == Cardinality({k \in 1..Len(c) : c[k] = l})

\* Line k of c lies after a start marker that no end marker has closed.
OpenAt(c, k) ==
    \E s \in 1..(k - 1) :
        /\ c[s].kind = "start"
        /\ \A j \in (s + 1)..(k - 1) : c[j].kind # "end"

\* Lines that are neither blank, markers nor declarations.
KeptLine(l) == l.kind \in {"use", "comment", "code"}

\* The kept lines of c outside every conflict region, in order.
OutsideKept(c) ==
    LET idx == SelectSeq([k \in 1..Len(c) |-> k],
                         LAMBDA k : ~OpenAt(c, k) /\ KeptLine(c[k]))
    IN  [j \in 1..Len(idx) |-> c[idx[j]]]

(***************************************************************************)
(* Spec section 4.1: a conflict region is a start marker, the ours side, a *)
(* separator, the theirs side and an end marker.  In a well-formed file    *)
(* the marker lines come in that order, none nested and none left open.    *)
(***************************************************************************)
IsMarker(l) == l.kind \in {"start", "sep", "end"}

\* The last marker line of c before line k is of kind x ("none": there is none).
LastMarkerBefore(c, k, x) ==
    \/ x = "none" /\ \A j \in 1..(k - 1) : ~IsMarker(c[j])
    \/ \E j \in 1..(k - 1) :
          /\ IsMarker(c[j]) /\ c[j].kind = x
          /\ \A m \in (j + 1)..(k - 1) : ~IsMarker(c[m])

\* The marker kinds that may come last before a marker of each kind.
MayFollow == [start |-> {"none", "end"}, sep |-> {"start"}, end |-> {"sep"}]

WellFormed(c) ==
    /\ \A k \in 1..Len(c) :
          IsMarker(c[k]) => \E x \in MayFollow[c[k].kind] : LastMarkerBefore(c, k, x)
    /\ \E x \in {"none", "end"} : LastMarkerBefore(c, Len(c) + 1, x)

(***************************************************************************)
(* When the scan of a well-formed file has read its last line, every      *)
(* `pub mod` declaration of it, inside a conflict region or not, has been  *)
(* collected into all_pub_mods (the harvests at the separator and end      *)
(* markers, lines 87-107, and the outside branch, lines 115-119).  A start *)
(* marker inside an open region (line 83) empties the section, so on a     *)
(* malformed file declarations may be lost.                                *)
(***************************************************************************)
ScanCollectsAllMods == Scanned /\ WellFormed(lines) => ModsOf(lines) \subseteq allMods

(***************************************************************************)
(* Completeness and uniqueness: after a run on a well-formed file that     *)
(* holds the marker text, every declaration the file had anywhere (either  *)
(* side of a conflict or outside one) occurs exactly once in the written   *)
(* file, and no other declaration does.  Covers lines 78-159.              *)
(***************************************************************************)
ModsMergedOnce ==
    pc = "done" /\ HasMarkerText(orig) /\ WellFormed(orig) =>
        \A l \in ModLine :
            Occurrences(file, l) = IF l \in ModsOf(orig) THEN 1 ELSE 0

(***************************************************************************)
(* Preservation: after any run, the non-blank lines other than             *)
(* declarations that the written file holds are exactly those outside      *)
(* every conflict region of the original, in their original order.  The   *)
(* scan keeps them (lines 120-121) while the markers, the conflict bodies  *)
(* and the declarations go elsewhere.                                      *)
(***************************************************************************)
OutsideLinesPreserved ==
    pc = "done" => SelectSeq(file, KeptLine) = OutsideKept(orig)

(***************************************************************************)
(* Termination: every run of the tool returns, whatever the file holds:    *)
(* each branch of the while loop (lines 78-123) advances i.                *)
(***************************************************************************)
Termination == <>(pc \in {"done", "failed"})

(***************************************************************************)
(* Spec, section 4.4 step 2 and scenario C: a conflict region without      *)
(* declarations is resolved by keeping its "ours" side.  Every kept line   *)
(* between a start marker and the next separator must be in the output.   *)
(* The scan (lines 109-112) puts such lines only into conflict_section,    *)
(* which only declarations leave.                                          *)
(***************************************************************************)
InOurs(c, k) ==
    \E s \in 1..(k - 1) :
        /\ c[s].kind = "start"
        /\ \A j \in (s + 1)..(k - 1) : c[j].kind \notin {"start", "sep", "end"}

GenericConflictKeepsOurs ==
    pc = "done" =>
        \A k \in 1..Len(orig) :
            InOurs(orig, k) /\ KeptLine(orig[k]) =>
                \E m \in 1..Len(file) : file[m] = orig[k]

=============================================================================
