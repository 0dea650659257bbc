------------------------ MODULE LibRsResolverProofs ------------------------
(***************************************************************************)
(* Proofs about LibRsResolver, the model of resolve_librs_conflict.py.     *)
(***************************************************************************)
EXTENDS LibRsResolver, FiniteSetTheorems, SequenceTheorems, TLAPS

-----------------------------------------------------------------------------
(***************************************************************************)
(* Lemmas on the helpers the actions are built from.                       *)
(***************************************************************************)

\* The values a function takes on a finite set form a finite set.
LEMMA ImageFinite ==
    ASSUME NEW f, NEW K, IsFiniteSet(K)
    PROVE  IsFiniteSet({f[k] : k \in K})
<1> DEFINE T == {f[k] : k \in K}
           g == [k \in K |-> f[k]]
<1>1. g \in Surjection(K, T)
    BY DEF Surjection
<1>2. QED
    BY <1>1, FS_Surjection

\* extract_pub_mods returns finitely many declarations.
LEMMA ExtractType ==
    ASSUME NEW sec \in Seq(Line)
    PROVE  /\ ExtractPubMods(sec) \subseteq ModLine
           /\ IsFiniteSet(ExtractPubMods(sec))
<1>1. ExtractPubMods(sec) \subseteq ModLine
    BY DEF ExtractPubMods, IsMod, Line, MarkerLine, OtherLine, ModLine
<1>2. IsFiniteSet({k \in 1..Len(sec) : IsMod(sec[k])})
    BY FS_Interval, FS_Subset
<1>3. QED
    BY <1>1, <1>2, ImageFinite DEF ExtractPubMods

\* The blank-line clean-up keeps a line sequence a line sequence.
LEMMA CollapseType ==
    ASSUME NEW S, NEW ls \in Seq(S)
    PROVE  CollapseBlankLines(ls, Blank) \in Seq(S)
<1> DEFINE K == Kept(ls, Blank)
           n == Cardinality(K)
<1>1. IsFiniteSet(K) /\ n \in Nat
    <2>1. IsFiniteSet(1..Len(ls))
        BY FS_Interval
    <2>2. K \subseteq 1..Len(ls)
        BY DEF Kept
    <2>3. IsFiniteSet(K)
        BY <2>1, <2>2, FS_Subset
    <2>4. QED
        BY <2>3, FS_CardinalityType
<1>2. ASSUME NEW j \in 1..n
      PROVE  NthKept(ls, Blank, j) \in 1..Len(ls)
    <2>1. K # {}
        BY <1>1, FS_EmptySet
    <2>2. 1 \in 1..Len(ls)
        BY <2>1 DEF Kept
    <2> DEFINE P(k) == IsNthKept(ls, Blank, j, k)
    <2>3. \E k \in 1..Len(ls) : (\E m \in 1..Len(ls) : P(m)) => P(k)
        BY <2>2
    <2>4. QED
        BY <2>3 DEF NthKept
<1>3. \A j \in 1..n : ls[NthKept(ls, Blank, j)] \in S
    BY <1>2, ElementOfSeq
<1>4. [j \in 1..n |-> ls[NthKept(ls, Blank, j)]] \in [1..n -> S]
    BY <1>3
<1>5. [1..n -> S] \subseteq Seq(S)
    BY <1>1, SeqDef
<1>6. CollapseBlankLines(ls, Blank) = [j \in 1..n |-> ls[NthKept(ls, Blank, j)]]
    BY DEF CollapseBlankLines, n, K
<1>7. QED
    BY <1>4, <1>5, <1>6

LEMMA CleanupType ==
    ASSUME NEW ls \in Seq(Line)
    PROVE  EnsureTrailingNewline(CollapseBlankLines(JoinLines(ls, Blank), Blank), Blank)
               \in Seq(Line)
<1>1. Blank \in Line
    BY DEF Blank, Line, MarkerLine, NoVis
<1>2. JoinLines(ls, Blank) \in Seq(Line)
    BY <1>1 DEF JoinLines
<1>3. CollapseBlankLines(JoinLines(ls, Blank), Blank) \in Seq(Line)
    BY <1>2, CollapseType
<1>4. QED
    BY <1>1, <1>3, AppendProperties DEF EnsureTrailingNewline

\* Splicing declarations in after `at` kept lines.
LEMMA InsertType ==
    ASSUME NEW ls \in Seq(Line), NEW at \in 0..Len(ls), NEW s \in Seq(Line)
    PROVE  InsertSeqAt(ls, at, s) \in Seq(Line)
<1>1. SubSeq(ls, 1, at) \in Seq(Line) /\ SubSeq(ls, at + 1, Len(ls)) \in Seq(Line)
    BY SubSeqProperties, ElementOfSeq
<1>2. QED
    BY <1>1, ConcatProperties DEF InsertSeqAt

\* An order of the collected declarations is a line sequence.
LEMMA SortedType ==
    ASSUME NEW S \in SUBSET ModLine, IsFiniteSet(S), NEW s \in SortedByName(S)
    PROVE  s \in Seq(Line)
<1>1. Cardinality(S) \in Nat
    BY FS_CardinalityType
<1>2. s \in [1..Cardinality(S) -> Line]
    BY DEF SortedByName, Line
<1>3. QED
    BY <1>1, <1>2

\* The fallback insertion point lies within the kept lines.
LEMMA AnchorType ==
    ASSUME NEW r \in Seq(Line)
    PROVE  UseAnchor(r) \in 0..Len(r)
<1> DEFINE P(k) == IsUseAnchor(r, k)
<1>1. \E k \in 0..Len(r) : (\E m \in 0..Len(r) : P(m)) => P(k)
    BY 0 \in 0..Len(r)
<1>2. QED
    BY <1>1 DEF UseAnchor

-----------------------------------------------------------------------------
(***************************************************************************)
(* Type correctness.  TypeOK is inductive once the finiteness of           *)
(* all_pub_mods, which the sort needs, is carried along.                   *)
(***************************************************************************)
TypeInv == TypeOK /\ IsFiniteSet(allMods)

LEMMA TypeInit == Init => TypeInv
<1> SUFFICES ASSUME Init PROVE TypeInv
    OBVIOUS
<1>1. file \in Seq(Line)
    BY InputsAssumption DEF Init
<1>2. IsFiniteSet(allMods)
    BY FS_EmptySet DEF Init
<1>3. lines \in Seq(Line) /\ i \in 1..(Len(lines) + 1)
    BY DEF Init
<1>4. insPt \in {None} \cup 0..Len(resolved)
    BY DEF Init
<1>5. QED
    BY <1>1, <1>2, <1>3, <1>4 DEF Init, TypeInv, TypeOK

\* The write at the end of a run: the argument is a line sequence.
LEMMA WriteBackType ==
    ASSUME TypeInv, NEW out \in Seq(Line), WriteBack(out)
    PROVE  TypeInv'
BY CleanupType DEF WriteBack, TypeInv, TypeOK, scanVars

LEMMA TypeStep == TypeInv /\ [Next]_vars => TypeInv'
<1> SUFFICES ASSUME TypeInv, [Next]_vars PROVE TypeInv'
    OBVIOUS
<1> USE DEF TypeInv, TypeOK
<1>1. CASE NotFound
    BY <1>1 DEF NotFound, scanVars
<1>2. CASE NoMarkers
    BY <1>2 DEF NoMarkers, scanVars
<1>3. CASE Begin
    <2>1. lines' \in Seq(Line) /\ i' \in 1..(Len(lines') + 1)
        BY <1>3, LenProperties DEF Begin
    <2>2. QED
        BY <1>3, <2>1, FS_EmptySet, EmptySeq DEF Begin, None
<1>4. CASE ScanStart
    BY <1>4 DEF ScanStart, Scanning
<1>5. CASE ScanSep
    <2>1. allMods' \subseteq ModLine /\ IsFiniteSet(allMods')
        <3>1. ExtractPubMods(section) \subseteq ModLine
              /\ IsFiniteSet(ExtractPubMods(section))
            BY ExtractType
        <3>2. QED
            BY <1>5, <3>1, FS_Union DEF ScanSep
    <2>2. i' \in 1..(Len(lines') + 1)
        BY <1>5 DEF ScanSep, Scanning
    <2>3. QED
        BY <1>5, <2>1, <2>2, EmptySeq DEF ScanSep
<1>6. CASE ScanEnd
    <2>1. allMods' \subseteq ModLine /\ IsFiniteSet(allMods')
        <3>1. ExtractPubMods(section) \subseteq ModLine
              /\ IsFiniteSet(ExtractPubMods(section))
            BY ExtractType
        <3>2. QED
            BY <1>6, <3>1, FS_Union DEF ScanEnd
    <2>2. i' \in 1..(Len(lines') + 1)
        BY <1>6 DEF ScanEnd, Scanning
    <2>3. insPt' \in {None} \cup 0..Len(resolved')
        BY <1>6, LenProperties DEF ScanEnd, FirstPoint
    <2>4. QED
        BY <1>6, <2>1, <2>2, <2>3, EmptySeq DEF ScanEnd
<1>7. CASE ScanInConflict
    <2>1. lines[i] \in Line
        BY <1>7, ElementOfSeq DEF ScanInConflict, Scanning
    <2>2. QED
        BY <1>7, <2>1, AppendProperties DEF ScanInConflict, Scanning
<1>8. CASE ScanOutsideMod
    <2>1. lines[i] \in ModLine
        <3>1. lines[i] \in Line
            BY <1>8, ElementOfSeq DEF ScanOutsideMod, Scanning
        <3>2. lines[i].kind = "mod"
            BY <1>8 DEF ScanOutsideMod, IsMod
        <3>3. lines[i] \notin MarkerLine /\ lines[i] \notin OtherLine
            BY <3>2 DEF MarkerLine, OtherLine
        <3>4. QED
            BY <3>1, <3>3 DEF Line
    <2>2. allMods' \subseteq ModLine /\ IsFiniteSet(allMods')
        BY <1>8, <2>1, FS_AddElement DEF ScanOutsideMod
    <2>3. i' \in 1..(Len(lines') + 1)
        BY <1>8 DEF ScanOutsideMod, Scanning
    <2>4. insPt' \in {None} \cup 0..Len(resolved')
        BY <1>8, LenProperties DEF ScanOutsideMod, FirstPoint
    <2>5. QED
        BY <1>8, <2>2, <2>3, <2>4 DEF ScanOutsideMod
<1>9. CASE ScanOutsideOther
    <2>1. lines[i] \in Line
        BY <1>9, ElementOfSeq DEF ScanOutsideOther, Scanning
    <2>2. QED
        BY <1>9, <2>1, AppendProperties DEF ScanOutsideOther, Scanning
<1>10. CASE FinishAtPoint
    <2>1. PICK s \in SortedByName(allMods) :
              WriteBack(InsertSeqAt(resolved, insPt, s))
        BY <1>10 DEF FinishAtPoint
    <2>2. InsertSeqAt(resolved, insPt, s) \in Seq(Line)
        BY <1>10, SortedType, InsertType DEF FinishAtPoint, None
    <2>3. QED
        BY <2>1, <2>2, WriteBackType
<1>11. CASE FinishAtAnchor
    <2>1. PICK s \in SortedByName(allMods) :
              WriteBack(InsertSeqAt(resolved, UseAnchor(resolved), s))
        BY <1>11 DEF FinishAtAnchor
    <2>2. InsertSeqAt(resolved, UseAnchor(resolved), s) \in Seq(Line)
        BY SortedType, AnchorType, InsertType
    <2>3. QED
        BY <2>1, <2>2, WriteBackType
<1>12. CASE FinishNoMods
    BY <1>12, WriteBackType DEF FinishNoMods
<1>13. CASE UNCHANGED vars
    BY <1>13 DEF vars
<1>14. QED
    BY <1>1, <1>2, <1>3, <1>4, <1>5, <1>6, <1>7, <1>8, <1>9, <1>10,
       <1>11, <1>12, <1>13 DEF Next

(***************************************************************************)
(* Every reachable state of a run of resolve_librs_conflict is well typed: *)
(* the scan index stays within the lines read plus one, the insertion      *)
(* point within the lines kept so far, and what the write puts in the file *)
(* is a sequence of lines.                                                 *)
(***************************************************************************)
THEOREM TypeCorrect == Spec => []TypeOK
<1>1. Init => TypeInv
    BY TypeInit
<1>2. TypeInv /\ [Next]_vars => TypeInv'
    BY TypeStep
<1>3. TypeInv => TypeOK
    BY DEF TypeInv
<1>4. QED
    BY <1>1, <1>2, <1>3, PTL DEF Spec

=============================================================================
