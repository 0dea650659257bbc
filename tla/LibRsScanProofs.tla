-------------------------- MODULE LibRsScanProofs --------------------------
(***************************************************************************)
(* Proof that the scan of resolve_librs_conflict (lines 78-123) collects   *)
(* every `pub mod` declaration of a well-formed file, for files of any     *)
(* length and any names.                                                   *)
(***************************************************************************)
EXTENDS LibRsResolverProofs

(***************************************************************************)
(* The markers of the lines read so far, lines[1 .. n - 1], come in the   *)
(* order of a conflict region (the first conjunct of WellFormed, cut at n). *)
(***************************************************************************)
PrefixWellFormed(c, n) ==
    \A k \in 1..(n - 1) :
        IsMarker(c[k]) => \E x \in MayFollow[c[k].kind] : LastMarkerBefore(c, k, x)

(***************************************************************************)
(* ScanCollectsAllMods is not inductive: it speaks only of the end of the  *)
(* scan.  During the scan the section is empty outside a region, and, as   *)
(* long as the markers read so far are in order, in_conflict records      *)
(* whether the last marker read opened a region (a start or a separator)   *)
(* and every declaration read so far is either in all_pub_mods or still   *)
(* in the section.  Out of order, both fail: a stray separator leaves      *)
(* in_conflict unset, and a start marker inside an open region (line 83)   *)
(* empties a section holding declarations.                                 *)
(***************************************************************************)
CollectInv ==
    pc = "scan" =>
        /\ \E x \in {"none", "start", "sep", "end"} : LastMarkerBefore(lines, i, x)
        /\ ~inConflict => section = <<>>
        /\ PrefixWellFormed(lines, i) =>
              /\ inConflict <=> (LastMarkerBefore(lines, i, "start") \/ LastMarkerBefore(lines, i, "sep"))
              /\ \A k \in 1..(i - 1) :
                    IsMod(lines[k]) => lines[k] \in allMods \cup ExtractPubMods(section)

-----------------------------------------------------------------------------
(***************************************************************************)
(* Lemmas on the last marker before a line.                                *)
(***************************************************************************)

\* There is only one last marker before a line.
LEMMA LastUnique ==
    ASSUME NEW c, NEW k \in Nat, NEW x, NEW y,
           LastMarkerBefore(c, k, x), LastMarkerBefore(c, k, y)
    PROVE  x = y
<1>1. CASE x = "none" /\ \A j \in 1..(k - 1) : ~IsMarker(c[j])
    BY <1>1 DEF LastMarkerBefore
<1>2. CASE y = "none" /\ \A j \in 1..(k - 1) : ~IsMarker(c[j])
    BY <1>2 DEF LastMarkerBefore
<1>3. CASE /\ \E j \in 1..(k - 1) : IsMarker(c[j]) /\ c[j].kind = x
                                     /\ \A m \in (j + 1)..(k - 1) : ~IsMarker(c[m])
           /\ \E j \in 1..(k - 1) : IsMarker(c[j]) /\ c[j].kind = y
                                     /\ \A m \in (j + 1)..(k - 1) : ~IsMarker(c[m])
    <2>1. PICK j1 \in 1..(k - 1) : IsMarker(c[j1]) /\ c[j1].kind = x
                                    /\ \A m \in (j1 + 1)..(k - 1) : ~IsMarker(c[m])
        BY <1>3
    <2>2. PICK j2 \in 1..(k - 1) : IsMarker(c[j2]) /\ c[j2].kind = y
                                    /\ \A m \in (j2 + 1)..(k - 1) : ~IsMarker(c[m])
        BY <1>3
    <2>3. j1 = j2
        BY <2>1, <2>2
    <2>. QED
        BY <2>1, <2>2, <2>3
<1>. QED
    BY <1>1, <1>2, <1>3 DEF LastMarkerBefore

\* Past a marker, the last marker is that one.
LEMMA LastAfterMarker ==
    ASSUME NEW c, NEW k \in Nat \ {0}, IsMarker(c[k])
    PROVE  LastMarkerBefore(c, k + 1, c[k].kind)
BY DEF LastMarkerBefore

\* Past any other line, the last marker is unchanged.
LEMMA LastAfterOther ==
    ASSUME NEW c, NEW k \in Nat \ {0}, ~IsMarker(c[k]), NEW x
    PROVE  LastMarkerBefore(c, k + 1, x) <=> LastMarkerBefore(c, k, x)
<1>1. LastMarkerBefore(c, k + 1, x) => LastMarkerBefore(c, k, x)
    BY DEF LastMarkerBefore
<1>2. LastMarkerBefore(c, k, x) => LastMarkerBefore(c, k + 1, x)
    BY DEF LastMarkerBefore
<1>. QED
    BY <1>1, <1>2

\* Reading one more line: the markers read so far stay in order.
LEMMA PrefixStep ==
    ASSUME NEW c, NEW k \in Nat \ {0}, PrefixWellFormed(c, k + 1)
    PROVE  /\ PrefixWellFormed(c, k)
           /\ IsMarker(c[k]) => \E x \in MayFollow[c[k].kind] : LastMarkerBefore(c, k, x)
BY DEF PrefixWellFormed

\* extract_pub_mods of an empty section, and of a section one line longer.
LEMMA ExtractEmpty == ExtractPubMods(<<>>) = {}
BY DEF ExtractPubMods

LEMMA ExtractAppend ==
    ASSUME NEW sec \in Seq(Line), NEW l
    PROVE  /\ ExtractPubMods(sec) \subseteq ExtractPubMods(Append(sec, l))
           /\ IsMod(l) => l \in ExtractPubMods(Append(sec, l))
BY AppendProperties DEF ExtractPubMods

IInv == TypeInv /\ CollectInv


LEMMA CollectInit == Init => IInv
<1> SUFFICES ASSUME Init PROVE IInv
    OBVIOUS
<1>1. TypeInv
    BY TypeInit
<1>2. CollectInv
    BY DEF Init, CollectInv
<1>. QED
    BY <1>1, <1>2 DEF IInv

(***************************************************************************)
(* One step of the scan loop: reading line i, of kind K, keeps the         *)
(* invariant.  The facts every branch shares.                              *)
(***************************************************************************)
LEMMA ScanFacts ==
    ASSUME TypeInv, Scanning
    PROVE  /\ i \in Nat \ {0}
           /\ lines \in Seq(Line)
           /\ lines[i] \in Line
           /\ section \in Seq(Line)
BY ElementOfSeq DEF TypeInv, TypeOK, Scanning

LEMMA CollectStep == IInv /\ [Next]_vars => IInv'
<1> SUFFICES ASSUME IInv, [Next]_vars PROVE IInv'
    OBVIOUS
<1>0. TypeInv'
    BY TypeStep DEF IInv
<1> SUFFICES CollectInv'
    BY <1>0 DEF IInv
<1> USE DEF IInv
\* The branches that leave the scan.
<1>1. CASE NotFound \/ NoMarkers
    BY <1>1 DEF NotFound, NoMarkers, CollectInv
<1>2. CASE FinishAtPoint \/ FinishAtAnchor \/ FinishNoMods
    BY <1>2 DEF FinishAtPoint, FinishAtAnchor, FinishNoMods, WriteBack, CollectInv
<1>3. CASE UNCHANGED vars
    BY <1>3 DEF vars, CollectInv
<1>4. CASE Begin
    <2>1. LastMarkerBefore(lines', 1, "none")
        BY <1>4 DEF Begin, LastMarkerBefore
    <2>2. ~LastMarkerBefore(lines', 1, "start") /\ ~LastMarkerBefore(lines', 1, "sep")
        BY <1>4 DEF Begin, LastMarkerBefore
    <2>. QED
        BY <1>4, <2>1, <2>2 DEF Begin, CollectInv
\* The scan branches.
<1>5. CASE ScanStart
    <2>1. Scanning /\ lines[i].kind = "start" /\ IsMarker(lines[i])
        BY <1>5 DEF ScanStart, IsMarker
    <2>2. /\ i \in Nat \ {0} /\ lines \in Seq(Line) /\ section \in Seq(Line)
          /\ lines' = lines /\ i' = i + 1 /\ pc' = pc /\ pc = "scan"
          /\ inConflict' = TRUE /\ section' = <<>> /\ allMods' = allMods
        BY <1>5, <2>1, ScanFacts DEF ScanStart, Scanning
    <2>3. LastMarkerBefore(lines, i + 1, "start")
        BY <2>1, <2>2, LastAfterMarker
    <2>4. ASSUME PrefixWellFormed(lines, i + 1)
          PROVE  /\ ~inConflict
                 /\ \A k \in 1..(i - 1) : IsMod(lines[k]) => lines[k] \in allMods
        <3>1. PrefixWellFormed(lines, i)
              /\ \E x \in {"none", "end"} : LastMarkerBefore(lines, i, x)
            BY <2>1, <2>2, <2>4, PrefixStep DEF MayFollow
        <3>2. ~LastMarkerBefore(lines, i, "start") /\ ~LastMarkerBefore(lines, i, "sep")
            BY <2>2, <3>1, LastUnique
        <3>3. ~inConflict
            BY <2>2, <3>1, <3>2 DEF CollectInv
        <3>4. section = <<>>
            BY <2>2, <3>3 DEF CollectInv
        <3>. QED
            BY <2>2, <3>1, <3>3, <3>4, ExtractEmpty DEF CollectInv
    <2>5. ~IsMod(lines[i])
        BY <2>1 DEF IsMod
    <2>. QED
        BY <2>2, <2>3, <2>4, <2>5, ExtractEmpty DEF CollectInv
<1>6. CASE ScanSep
    <2>1. Scanning /\ lines[i].kind = "sep" /\ IsMarker(lines[i])
        BY <1>6 DEF ScanSep, IsMarker
    <2>2. /\ i \in Nat \ {0} /\ lines \in Seq(Line) /\ section \in Seq(Line)
          /\ lines' = lines /\ i' = i + 1 /\ pc' = pc /\ pc = "scan"
          /\ inConflict' = inConflict /\ section' = <<>>
          /\ allMods' = allMods \cup ExtractPubMods(section)
        BY <1>6, <2>1, ScanFacts DEF ScanSep, Scanning
    <2>3. LastMarkerBefore(lines, i + 1, "sep")
        BY <2>1, <2>2, LastAfterMarker
    <2>4. ASSUME PrefixWellFormed(lines, i + 1)
          PROVE  /\ inConflict
                 /\ \A k \in 1..(i - 1) :
                       IsMod(lines[k]) => lines[k] \in allMods \cup ExtractPubMods(section)
        <3>1. PrefixWellFormed(lines, i) /\ LastMarkerBefore(lines, i, "start")
            BY <2>1, <2>2, <2>4, PrefixStep DEF MayFollow
        <3>. QED
            BY <2>2, <3>1 DEF CollectInv
    <2>5. ~IsMod(lines[i])
        BY <2>1 DEF IsMod
    <2>. QED
        BY <2>2, <2>3, <2>4, <2>5, ExtractEmpty DEF CollectInv
<1>7. CASE ScanEnd
    <2>1. Scanning /\ lines[i].kind = "end" /\ IsMarker(lines[i])
        BY <1>7 DEF ScanEnd, IsMarker
    <2>2. /\ i \in Nat \ {0} /\ lines \in Seq(Line) /\ section \in Seq(Line)
          /\ lines' = lines /\ i' = i + 1 /\ pc' = pc /\ pc = "scan"
          /\ inConflict' = FALSE /\ section' = <<>>
          /\ allMods' = allMods \cup ExtractPubMods(section)
        BY <1>7, <2>1, ScanFacts DEF ScanEnd, Scanning
    <2>3. /\ LastMarkerBefore(lines, i + 1, "end")
          /\ ~LastMarkerBefore(lines, i + 1, "start")
          /\ ~LastMarkerBefore(lines, i + 1, "sep")
        BY <2>1, <2>2, LastAfterMarker, LastUnique
    <2>4. ASSUME PrefixWellFormed(lines, i + 1)
          PROVE  \A k \in 1..(i - 1) :
                    IsMod(lines[k]) => lines[k] \in allMods \cup ExtractPubMods(section)
        <3>1. PrefixWellFormed(lines, i)
            BY <2>2, <2>4, PrefixStep
        <3>. QED
            BY <2>2, <3>1 DEF CollectInv
    <2>5. ~IsMod(lines[i])
        BY <2>1 DEF IsMod
    <2>. QED
        BY <2>2, <2>3, <2>4, <2>5, ExtractEmpty DEF CollectInv
<1>8. CASE ScanInConflict
    <2>1. Scanning /\ ~IsMarker(lines[i]) /\ inConflict
        BY <1>8 DEF ScanInConflict, IsMarker
    <2>2. /\ i \in Nat \ {0} /\ lines \in Seq(Line) /\ section \in Seq(Line)
          /\ lines' = lines /\ i' = i + 1 /\ pc' = pc /\ pc = "scan"
          /\ inConflict' = inConflict /\ section' = Append(section, lines[i])
          /\ allMods' = allMods
        BY <1>8, <2>1, ScanFacts DEF ScanInConflict, Scanning
    <2>3. \A x : LastMarkerBefore(lines, i + 1, x) <=> LastMarkerBefore(lines, i, x)
        BY <2>1, <2>2, LastAfterOther
    <2>4. /\ ExtractPubMods(section) \subseteq ExtractPubMods(section')
          /\ IsMod(lines[i]) => lines[i] \in ExtractPubMods(section')
        BY <2>2, ExtractAppend
    <2>5. PrefixWellFormed(lines, i + 1) => PrefixWellFormed(lines, i)
        BY <2>2, PrefixStep
    <2>6. \E x \in {"none", "start", "sep", "end"} : LastMarkerBefore(lines, i + 1, x)
        BY <2>2, <2>3 DEF CollectInv
    <2>7. PrefixWellFormed(lines, i + 1) =>
             /\ inConflict <=> (LastMarkerBefore(lines, i + 1, "start")
                                  \/ LastMarkerBefore(lines, i + 1, "sep"))
             /\ \A k \in 1..i :
                   IsMod(lines[k]) => lines[k] \in allMods \cup ExtractPubMods(section')
        BY <2>2, <2>3, <2>4, <2>5 DEF CollectInv
    <2>. QED
        BY <2>1, <2>2, <2>6, <2>7 DEF CollectInv
<1>9. CASE ScanOutsideMod \/ ScanOutsideOther
    <2>1. Scanning /\ ~IsMarker(lines[i]) /\ ~inConflict
        BY <1>9 DEF ScanOutsideMod, ScanOutsideOther, IsMarker, IsMod
    <2>2. /\ i \in Nat \ {0} /\ lines \in Seq(Line) /\ section \in Seq(Line)
          /\ lines' = lines /\ i' = i + 1 /\ pc' = pc /\ pc = "scan"
          /\ inConflict' = inConflict /\ section' = section
          /\ allMods \subseteq allMods'
          /\ IsMod(lines[i]) => lines[i] \in allMods'
        BY <1>9, <2>1, ScanFacts DEF ScanOutsideMod, ScanOutsideOther, Scanning, IsMod
    <2>3. \A x : LastMarkerBefore(lines, i + 1, x) <=> LastMarkerBefore(lines, i, x)
        BY <2>1, <2>2, LastAfterOther
    <2>4. PrefixWellFormed(lines, i + 1) => PrefixWellFormed(lines, i)
        BY <2>2, PrefixStep
    <2>5. \E x \in {"none", "start", "sep", "end"} : LastMarkerBefore(lines, i + 1, x)
        BY <2>2, <2>3 DEF CollectInv
    <2>6. PrefixWellFormed(lines, i + 1) =>
             /\ inConflict <=> (LastMarkerBefore(lines, i + 1, "start")
                                  \/ LastMarkerBefore(lines, i + 1, "sep"))
             /\ \A k \in 1..i :
                   IsMod(lines[k]) => lines[k] \in allMods' \cup ExtractPubMods(section')
        BY <2>2, <2>3, <2>4 DEF CollectInv
    <2>. QED
        BY <2>1, <2>2, <2>5, <2>6 DEF CollectInv
<1>. QED
    BY <1>1, <1>2, <1>3, <1>4, <1>5, <1>6, <1>7, <1>8, <1>9 DEF Next

\* At the end of the scan the invariant gives the property.
LEMMA CollectEnd == IInv => ScanCollectsAllMods
<1> SUFFICES ASSUME IInv, Scanned, WellFormed(lines)
             PROVE  ModsOf(lines) \subseteq allMods
    BY DEF ScanCollectsAllMods
<1>1. pc = "scan" /\ i = Len(lines) + 1 /\ lines \in Seq(Line)
    BY DEF IInv, TypeInv, TypeOK, Scanned
<1>2. PrefixWellFormed(lines, i)
    BY <1>1 DEF WellFormed, PrefixWellFormed
<1>3. \E x \in {"none", "end"} : LastMarkerBefore(lines, i, x)
    BY <1>1 DEF WellFormed
<1>4. ~LastMarkerBefore(lines, i, "start") /\ ~LastMarkerBefore(lines, i, "sep")
    BY <1>1, <1>3, LastUnique
<1>5. ~inConflict /\ section = <<>>
    BY <1>1, <1>2, <1>4 DEF IInv, CollectInv
<1>6. \A k \in 1..(i - 1) : IsMod(lines[k]) => lines[k] \in allMods
    BY <1>1, <1>2, <1>5, ExtractEmpty DEF IInv, CollectInv
<1>. QED
    BY <1>1, <1>6 DEF ModsOf

(***************************************************************************)
(* When the scan of resolve_librs_conflict (lines 78-123) has read the     *)
(* last line of a well-formed file, every `pub mod` declaration of the     *)
(* file, on either side of a conflict or outside one, is in all_pub_mods:  *)
(* the harvests at the separator and end markers and the outside branch    *)
(* miss none, whatever the length of the file and the names in it.         *)
(***************************************************************************)
THEOREM ScanCollects == Spec => []ScanCollectsAllMods
<1>1. Init => IInv
    BY CollectInit
<1>2. IInv /\ [Next]_vars => IInv'
    BY CollectStep
<1>3. IInv => ScanCollectsAllMods
    BY CollectEnd
<1>. QED
    BY <1>1, <1>2, <1>3, PTL DEF Spec


-----------------------------------------------------------------------------
(***************************************************************************)
(* No invented declarations.  The lines of c that are no declaration, or  *)
(* a declaration c has.                                                    *)
(***************************************************************************)
DeclFrom(c) == {l \in Line : IsMod(l) => l \in ModsOf(c)}

(***************************************************************************)
(* Whatever the file holds, well-formed or not, every `pub mod` line that  *)
(* resolve_librs_conflict writes back (line 158) was a declaration of the *)
(* file it read: the harvests (lines 87-107), the outside branch (lines    *)
(* 115-119), the sort and the insertion (lines 126-146) and the clean-up   *)
(* (lines 149-156) only move declarations around or add blank lines.       *)
(***************************************************************************)
NoInventedMods == pc = "done" => ModsOf(file) \subseteq ModsOf(orig)

(***************************************************************************)
(* NoInventedMods speaks only of the end.  During the scan the lines read  *)
(* are the original ones, and the collected declarations, the section and  *)
(* the lines kept so far hold no declaration the original lacks; before    *)
(* the scan and on failure the file is still the original.                 *)
(***************************************************************************)
DInv ==
    /\ TypeInv
    /\ pc \in {"init", "failed"} => file = orig
    /\ pc = "scan" =>
          /\ lines = orig
          /\ allMods \subseteq ModsOf(orig)
          /\ section \in Seq(DeclFrom(orig))
          /\ resolved \in Seq(DeclFrom(orig))
    /\ pc = "done" => file \in Seq(DeclFrom(orig))


\* Splicing one sequence into another keeps every element in the set both
\* were drawn from.
LEMMA InsertIn ==
    ASSUME NEW S, NEW ls \in Seq(S), NEW at \in 0..Len(ls), NEW s \in Seq(S)
    PROVE  InsertSeqAt(ls, at, s) \in Seq(S)
<1>1. SubSeq(ls, 1, at) \in Seq(S) /\ SubSeq(ls, at + 1, Len(ls)) \in Seq(S)
    BY SubSeqProperties, ElementOfSeq
<1>2. QED
    BY <1>1, ConcatProperties DEF InsertSeqAt

\* The clean-up after the scan (lines 149-156) adds nothing but blank lines.
LEMMA CleanupIn ==
    ASSUME NEW S, Blank \in S, NEW ls \in Seq(S)
    PROVE  EnsureTrailingNewline(CollapseBlankLines(JoinLines(ls, Blank), Blank), Blank)
               \in Seq(S)
<1>1. JoinLines(ls, Blank) \in Seq(S)
    BY DEF JoinLines
<1>2. CollapseBlankLines(JoinLines(ls, Blank), Blank) \in Seq(S)
    BY <1>1, CollapseType
<1>3. QED
    BY <1>2, AppendProperties DEF EnsureTrailingNewline

\* An order of a finite set of declarations draws from any superset of it.
LEMMA SortedIn ==
    ASSUME NEW T, NEW S \in SUBSET T, IsFiniteSet(S), NEW s \in SortedByName(S)
    PROVE  s \in Seq(T)
<1>1. Cardinality(S) \in Nat
    BY FS_CardinalityType
<1>2. s \in [1..Cardinality(S) -> T]
    BY DEF SortedByName
<1>3. QED
    BY <1>1, <1>2

LEMMA BlankFrom ==
    ASSUME NEW c
    PROVE  Blank \in DeclFrom(c)
BY DEF DeclFrom, Blank, Line, MarkerLine, NoVis, IsMod

LEMMA SeqFrom ==
    ASSUME NEW c \in Seq(Line)
    PROVE  /\ c \in Seq(DeclFrom(c))
           /\ ModsOf(c) \subseteq DeclFrom(c)
<1>1. \A k \in 1..Len(c) : c[k] \in DeclFrom(c)
    BY DEF DeclFrom, ModsOf
<1>2. c \in Seq(DeclFrom(c))
    BY <1>1
<1>3. QED
    BY <1>1, <1>2 DEF ModsOf

\* extract_pub_mods finds only the declarations the section holds.
LEMMA ExtractFrom ==
    ASSUME NEW c, NEW sec \in Seq(DeclFrom(c))
    PROVE  ExtractPubMods(sec) \subseteq ModsOf(c)
BY DEF ExtractPubMods, DeclFrom

LEMMA DInit == Init => DInv
<1> SUFFICES ASSUME Init PROVE DInv
    OBVIOUS
<1>1. TypeInv
    BY TypeInit
<1>2. QED
    BY <1>1 DEF Init, DInv

LEMMA DEnd == DInv => NoInventedMods
BY DEF DInv, NoInventedMods, DeclFrom, ModsOf


LEMMA DStep == DInv /\ [Next]_vars => DInv'
<1> SUFFICES ASSUME DInv, [Next]_vars PROVE DInv'
    OBVIOUS
<1> DEFINE D == DeclFrom(orig)
<1>0. /\ TypeInv'
      /\ orig \in Seq(Line)
      /\ orig \in Seq(D)
      /\ ModsOf(orig) \subseteq D
    BY TypeStep, SeqFrom DEF DInv, TypeInv, TypeOK
<1>1. CASE NotFound
    BY <1>0, <1>1 DEF NotFound, DInv
<1>2. CASE NoMarkers
    BY <1>0, <1>2 DEF NoMarkers, DInv
<1>3. CASE Begin
    BY <1>0, <1>3, EmptySeq DEF Begin, DInv
<1>4. CASE ScanStart
    BY <1>0, <1>4, EmptySeq DEF ScanStart, Scanning, DInv
<1>5. CASE ScanSep
    <2>1. ExtractPubMods(section) \subseteq ModsOf(orig)
        BY <1>5, ExtractFrom DEF ScanSep, Scanning, DInv
    <2>2. QED
        BY <1>0, <1>5, <2>1, EmptySeq DEF ScanSep, Scanning, DInv
<1>6. CASE ScanEnd
    <2>1. ExtractPubMods(section) \subseteq ModsOf(orig)
        BY <1>6, ExtractFrom DEF ScanEnd, Scanning, DInv
    <2>2. QED
        BY <1>0, <1>6, <2>1, EmptySeq DEF ScanEnd, Scanning, DInv
<1>7. CASE ScanInConflict
    <2>1. lines[i] \in D
        BY <1>0, <1>7, ElementOfSeq DEF ScanInConflict, Scanning, DInv, TypeInv, TypeOK
    <2>2. QED
        BY <1>0, <1>7, <2>1, AppendProperties DEF ScanInConflict, Scanning, DInv
<1>8. CASE ScanOutsideMod
    <2>1. lines[i] \in ModsOf(orig)
        BY <1>8 DEF ScanOutsideMod, Scanning, DInv, TypeInv, TypeOK, ModsOf
    <2>2. QED
        BY <1>0, <1>8, <2>1 DEF ScanOutsideMod, Scanning, DInv
<1>9. CASE ScanOutsideOther
    <2>1. lines[i] \in D
        BY <1>0, <1>9, ElementOfSeq DEF ScanOutsideOther, Scanning, DInv, TypeInv, TypeOK
    <2>2. QED
        BY <1>0, <1>9, <2>1, AppendProperties DEF ScanOutsideOther, Scanning, DInv
<1>10. ASSUME NEW out \in Seq(D), WriteBack(out)
       PROVE  DInv'
    <2>1. file' \in Seq(D)
        BY <1>10, BlankFrom, CleanupIn DEF WriteBack
    <2>2. QED
        BY <1>0, <1>10, <2>1 DEF WriteBack, DInv
<1>11. ASSUME pc = "scan", allMods # {}, NEW s \in SortedByName(allMods)
       PROVE  s \in Seq(D)
    <2>1. allMods \subseteq D /\ IsFiniteSet(allMods)
        BY <1>0, <1>11 DEF DInv, TypeInv
    <2>2. QED
        BY <2>1, SortedIn
<1>12. CASE FinishAtPoint
    <2>1. PICK s \in SortedByName(allMods) :
              WriteBack(InsertSeqAt(resolved, insPt, s))
        BY <1>12 DEF FinishAtPoint
    <2>2. s \in Seq(D)
        BY <1>11, <1>12 DEF FinishAtPoint, Scanned
    <2>3. resolved \in Seq(D) /\ insPt \in 0..Len(resolved)
        BY <1>12 DEF FinishAtPoint, Scanned, DInv, TypeInv, TypeOK, None
    <2>4. InsertSeqAt(resolved, insPt, s) \in Seq(D)
        BY <2>2, <2>3, InsertIn
    <2>5. QED
        BY <2>1, <2>4, <1>10
<1>13. CASE FinishAtAnchor
    <2>1. PICK s \in SortedByName(allMods) :
              WriteBack(InsertSeqAt(resolved, UseAnchor(resolved), s))
        BY <1>13 DEF FinishAtAnchor
    <2>2. s \in Seq(D)
        BY <1>11, <1>13 DEF FinishAtAnchor, Scanned
    <2>3. resolved \in Seq(D)
        BY <1>13 DEF FinishAtAnchor, Scanned, DInv
    <2>4. UseAnchor(resolved) \in 0..Len(resolved)
        BY AnchorType DEF DInv, TypeInv, TypeOK
    <2>5. InsertSeqAt(resolved, UseAnchor(resolved), s) \in Seq(D)
        BY <2>2, <2>3, <2>4, InsertIn
    <2>6. QED
        BY <2>1, <2>5, <1>10
<1>14. CASE FinishNoMods
    <2>1. resolved \in Seq(D)
        BY <1>14 DEF FinishNoMods, Scanned, DInv
    <2>2. QED
        BY <1>14, <2>1, <1>10 DEF FinishNoMods
<1>15. CASE UNCHANGED vars
    BY <1>0, <1>15 DEF vars, DInv
<1>16. QED
    BY <1>1, <1>2, <1>3, <1>4, <1>5, <1>6, <1>7, <1>8, <1>9, <1>12,
       <1>13, <1>14, <1>15 DEF Next

(***************************************************************************)
(* For files of any length, any names and any arrangement of markers,     *)
(* every declaration resolve_librs_conflict writes back was a declaration  *)
(* of the file it read: the merge never invents a `pub mod` line.          *)
(***************************************************************************)
THEOREM NoInvention == Spec => []NoInventedMods
<1>1. Init => DInv
    BY DInit
<1>2. DInv /\ [Next]_vars => DInv'
    BY DStep
<1>3. DInv => NoInventedMods
    BY DEnd
<1>. QED
    BY <1>1, <1>2, <1>3, PTL DEF Spec

=============================================================================
