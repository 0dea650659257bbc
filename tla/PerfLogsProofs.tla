--------------------------- MODULE PerfLogsProofs ---------------------------
(***************************************************************************)
(* Proof that collect_data (collect_data.py lines 8-40) keeps its loop     *)
(* positions within n_cores and blk_size and builds a frame of well-typed  *)
(* rows, for any lists of core counts and block sizes and any logs.        *)
(***************************************************************************)
EXTENDS PerfLogs, TLAPS

CoreSet == {Cores[c] : c \in 1..Len(Cores)}
BlkSet == {Blks[b] : b \in 1..Len(Blks)}
RowType == [tps : Sample, cores : Nat, blk : Nat, platform : Platforms]

\* The constants' facts the proofs use, each on its own (the SMT backend
\* does not take the record-of-sequences sets of PerfLogsAssumption).
LEMMA ConstantFacts ==
    /\ Cores \in Seq(Nat) /\ Blks \in Seq(Nat) /\ Blks # <<>>
    /\ Nums \subseteq Nat /\ Times \subseteq Nat
BY PerfLogsAssumption, Zenon

-----------------------------------------------------------------------------
(***************************************************************************)
(* Lemmas on the parsers: each returns a list of exact throughputs.        *)
(***************************************************************************)

\* The pairing of consecutive records (proc.py lines 31-38, plot_errbind.py
\* lines 40-45) and the per-record throughput (cm_perf.py lines 18-22), for
\* any list of records: each gives a list of samples.
LEMMA YzPairsType ==
    ASSUME NEW c \in Seq(YzLine)
    PROVE  [k \in 1..(Len(c) - 1) |->
               [num |-> c[k + 1].size * 1000000, den |-> c[k + 1].ts - c[k].ts]]
           \in Seq(Sample)
<1>1. ASSUME NEW k \in 1..(Len(c) - 1)
      PROVE  [num |-> c[k + 1].size * 1000000, den |-> c[k + 1].ts - c[k].ts] \in Sample
    <2>1. c[k] \in YzLine /\ c[k + 1] \in YzLine
        OBVIOUS
    <2>2. c[k + 1].size \in Nat /\ c[k + 1].ts \in Nat /\ c[k].ts \in Nat
        BY <2>1, ConstantFacts DEF YzLine
    <2>. QED
        BY <2>2 DEF Sample
<1> DEFINE n == IF Len(c) = 0 THEN 0 ELSE Len(c) - 1
<1>2. n \in Nat /\ 1..(Len(c) - 1) = 1..n
    OBVIOUS
<1>. QED
    BY <1>1, <1>2

LEMMA BcosPairsType ==
    ASSUME NEW r \in Seq(BcosLine)
    PROVE  [k \in 1..(Len(r) - 1) |->
               [num |-> r[k + 1].tx * 1000, den |-> r[k + 1].ts - r[k].ts]]
           \in Seq(Sample)
<1>1. ASSUME NEW k \in 1..(Len(r) - 1)
      PROVE  [num |-> r[k + 1].tx * 1000, den |-> r[k + 1].ts - r[k].ts] \in Sample
    <2>1. r[k] \in BcosLine /\ r[k + 1] \in BcosLine
        OBVIOUS
    <2>2. r[k + 1].tx \in Nums \cup {NoTx} /\ r[k + 1].ts \in Times /\ r[k].ts \in Times
        BY <2>1 DEF BcosLine
    <2>3. r[k + 1].tx \in Int
        <3>1. NoTx \in Int /\ Nums \subseteq Int
            BY ConstantFacts DEF NoTx
        <3>. QED
            BY <2>2, <3>1, Zenon
    <2>4. r[k + 1].ts \in Nat /\ r[k].ts \in Nat
        BY <2>2, ConstantFacts
    <2>. QED
        BY <2>3, <2>4 DEF Sample
<1> DEFINE n == IF Len(r) = 0 THEN 0 ELSE Len(r) - 1
<1>2. n \in Nat /\ 1..(Len(r) - 1) = 1..n
    OBVIOUS
<1>. QED
    BY <1>1, <1>2

LEMMA CmRatesType ==
    ASSUME NEW k \in Seq(CmLine)
    PROVE  [j \in 1..Len(k) |-> [num |-> k[j].count * 1000, den |-> k[j].interval]]
           \in Seq(Sample)
<1>1. ASSUME NEW j \in 1..Len(k)
      PROVE  [num |-> k[j].count * 1000, den |-> k[j].interval] \in Sample
    <2>1. k[j] \in CmLine
        OBVIOUS
    <2>2. k[j].count \in Nat /\ k[j].interval \in Nat
        BY <2>1, ConstantFacts DEF CmLine
    <2>. QED
        BY <2>2 DEF Sample
<1>. QED
    BY <1>1

\* yz_perf's, bcos_perf's and cm_perf's samples.
LEMMA SamplesType ==
    /\ \A log \in YzLogs : YzSamples(log) \in Seq(Sample)
    /\ \A log \in BcosLogs : BcosSamples(log) \in Seq(Sample)
    /\ \A log \in CmLogs : CmSamples(log) \in Seq(Sample)
<1>1. /\ \A log \in YzLogs : YzCommits(log) \in Seq(YzLine)
      /\ \A log \in BcosLogs : BcosReports(log) \in Seq(BcosLine)
      /\ \A log \in CmLogs : CmKept(log) \in Seq(CmLine)
    BY SelectSeqAssumption, Zenon
<1> HIDE DEF YzCommits, BcosReports, CmKept
<1>2. \A log \in YzLogs : YzSamples(log) \in Seq(Sample)
    BY <1>1, YzPairsType DEF YzSamples
<1>3. \A log \in BcosLogs : BcosSamples(log) \in Seq(Sample)
    BY <1>1, BcosPairsType DEF BcosSamples
<1>4. \A log \in CmLogs : CmSamples(log) \in Seq(Sample)
    BY <1>1, CmRatesType DEF CmSamples
<1>. QED
    BY <1>2, <1>3, <1>4

\* What the z-score filter keeps (proc.py lines 54-67) is a list of samples.
LEMMA YzOutcomesType ==
    ASSUME NEW log \in YzLogs, NEW s \in YzOutcomes(log)
    PROVE  s \in Seq(Sample)
<1> DEFINE t == YzSamples(log)
<1>1. t \in Seq(Sample)
    BY SamplesType
<1> HIDE DEF YzSamples
<1>2. PICK m \in 0..Len(t) :
         \E f \in Increasing(m, Len(t)) : s = [j \in 1..m |-> t[f[j]]]
    BY DEF YzOutcomes
<1>3. PICK f \in Increasing(m, Len(t)) : s = [j \in 1..m |-> t[f[j]]]
    BY <1>2
<1>4. \A j \in 1..m : t[f[j]] \in Sample
    BY <1>1, <1>3 DEF Increasing
<1>. QED
    BY <1>1, <1>3, <1>4

\* Appending a list of rows to the frame (pd.concat) keeps a list of rows.
LEMMA ConcatType ==
    ASSUME NEW S, NEW a \in Seq(S), NEW b \in Seq(S)
    PROVE  a \o b \in Seq(S)
OBVIOUS

\* The rows appended for a list of samples (lines 18-39).
LEMMA RowsType ==
    ASSUME NEW s \in Seq(Sample), NEW core \in Nat, NEW blk \in Nat
    PROVE  /\ YzRows(s, core, blk) \in Seq(RowType)
           /\ BcosRows(s, core, blk) \in Seq(RowType)
           /\ [j \in 1..Len(s) |-> Row(s[j], core, blk, "ChainMaker")] \in Seq(RowType)
BY DEF YzRows, BlkSizeIs200, BcosRows, Row, RowType, Platforms

-----------------------------------------------------------------------------
(***************************************************************************)
(* PTypeOK is not inductive: a step reads the log files of the current     *)
(* core count and block size, so the invariant must say which logs the     *)
(* files hold.                                                             *)
(***************************************************************************)
PInv ==
    /\ PTypeOK
    /\ yzLog \in [CoreSet \X BlkSet -> YzLogs]
    /\ bcosLog \in [CoreSet \X BlkSet -> BcosLogs]
    /\ cmLog \in [CoreSet -> CmLogs]

LEMMA PInit == Init => PInv
<1> SUFFICES ASSUME Init PROVE PInv
    OBVIOUS
<1>1. 1 \in 1..Len(Blks)
    BY ConstantFacts
<1>2. PTypeOK
    BY <1>1 DEF Init, PTypeOK
<1>3. /\ yzLog \in [CoreSet \X BlkSet -> YzLogs]
      /\ bcosLog \in [CoreSet \X BlkSet -> BcosLogs]
      /\ cmLog \in [CoreSet -> CmLogs]
    BY Zenon DEF Init, CoreSet, BlkSet
<1>. QED
    BY <1>2, <1>3 DEF PInv

LEMMA PStep == PInv /\ [Next]_vars => PInv'
<1> SUFFICES ASSUME PInv, [Next]_vars PROVE PInv'
    OBVIOUS
<1> USE DEF PInv, PTypeOK
<1>1. CASE ReadBlock
    <2> DEFINE core == Cores[ci]
               blk == Blks[bi]
               yz == yzLog[<<core, blk>>]
               bcos == bcosLog[<<core, blk>>]
    <2>1. ci \in 1..Len(Cores) /\ bi \in 1..Len(Blks) /\ pc = "block"
        BY <1>1 DEF ReadBlock
    <2>2. core \in CoreSet /\ blk \in BlkSet
        BY <2>1 DEF CoreSet, BlkSet
    <2>3. core \in Nat /\ blk \in Nat /\ yz \in YzLogs /\ bcos \in BcosLogs
        BY <2>1, <2>2, ConstantFacts
    <2>4. CASE YzCrashes(yz) \/ BcosCrashes(bcos)
        BY <1>1, <2>4 DEF ReadBlock
    <2>5. CASE ~YzCrashes(yz) /\ ~BcosCrashes(bcos)
        <3>1. PICK s \in YzOutcomes(yz) :
                 /\ df' = df \o YzRows(s, core, blk) \o BcosRows(BcosSamples(bcos), core, blk)
                 /\ IF MoreBlocks THEN bi' = bi + 1 /\ pc' = "block"
                    ELSE bi' = bi /\ pc' = "cm"
                 /\ ci' = ci
            BY <1>1, <2>5 DEF ReadBlock
        <3>2. s \in Seq(Sample) /\ BcosSamples(bcos) \in Seq(Sample)
            BY <2>3, YzOutcomesType, SamplesType
        <3>3. df' \in Seq(RowType)
            <4>1. /\ YzRows(s, core, blk) \in Seq(RowType)
                  /\ BcosRows(BcosSamples(bcos), core, blk) \in Seq(RowType)
                BY <2>3, <3>2, RowsType
            <4>2. df \in Seq(RowType)
                BY DEF RowType
            <4> HIDE DEF YzRows, BcosRows
            <4>. QED
                BY <3>1, <4>1, <4>2, ConcatType
        <3>4. bi' \in 1..Len(Blks) /\ pc' \in {"block", "cm"}
            BY <2>1, <3>1 DEF MoreBlocks
        <3>. QED
            BY <1>1, <3>1, <3>3, <3>4 DEF ReadBlock, RowType
    <2>. QED
        BY <2>4, <2>5
<1>2. CASE ReadCm
    <2> DEFINE core == Cores[ci]
               cm == cmLog[core]
               s == CmSamples(cm)
    <2>1. ci \in 1..Len(Cores) /\ bi \in 1..Len(Blks) /\ pc = "cm"
        BY <1>2 DEF ReadCm
    <2>2. core \in CoreSet
        BY <2>1 DEF CoreSet
    <2>3. core \in Nat /\ Blks[bi] \in Nat /\ cm \in CmLogs
        BY <2>1, <2>2, ConstantFacts
    <2>4. CASE CmCrashes(cm)
        BY <1>2, <2>4 DEF ReadCm
    <2>5. CASE ~CmCrashes(cm)
        <3>1. /\ df' = df \o [j \in 1..Len(s) |-> Row(s[j], core, Blks[bi], "ChainMaker")]
              /\ bi' = 1
              /\ IF MoreCores THEN ci' = ci + 1 /\ pc' = "block"
                 ELSE ci' = ci /\ pc' = "done"
            BY <1>2, <2>5 DEF ReadCm
        <3>2. s \in Seq(Sample)
            BY <2>3, SamplesType
        <3>3. df' \in Seq(RowType)
            <4>1. [j \in 1..Len(s) |-> Row(s[j], core, Blks[bi], "ChainMaker")] \in Seq(RowType)
                BY <2>3, <3>2, RowsType
            <4>2. df \in Seq(RowType)
                BY DEF RowType
            <4> HIDE DEF Row
            <4>. QED
                BY <3>1, <4>1, <4>2, ConcatType
        <3>4. ci' \in 1..Len(Cores) /\ bi' \in 1..Len(Blks)
            BY <2>1, <3>1 DEF MoreCores
        <3>. QED
            BY <1>2, <3>1, <3>3, <3>4 DEF ReadCm, RowType
    <2>. QED
        BY <2>4, <2>5
<1>3. CASE UNCHANGED vars
    BY <1>3 DEF vars
<1>. QED
    BY <1>1, <1>2, <1>3 DEF Next

(***************************************************************************)
(* Every reachable state of collect_data is well typed: the positions in   *)
(* n_cores and blk_size never run past the lists (the for loops of lines   *)
(* 13-14), and every row the frame holds carries an exact throughput, a    *)
(* core count, a block size and a platform, whichever parsers ran and      *)
(* whichever of them raised.                                               *)
(***************************************************************************)
THEOREM PTypeCorrect == Spec => []PTypeOK
<1>1. Init => PInv
    BY PInit
<1>2. PInv /\ [Next]_vars => PInv'
    BY PStep
<1>3. PInv => PTypeOK
    BY DEF PInv
<1>. QED
    BY <1>1, <1>2, <1>3, PTL DEF Spec

-----------------------------------------------------------------------------
(***************************************************************************)
(* The ChainMaker label.  CmRowsLastBlock is not inductive: the ChainMaker *)
(* step must know that the inner loop has reached the last block size,    *)
(* which holds from the step that leaves it (MoreBlocks false) on.         *)
(***************************************************************************)
CInv ==
    /\ PInv
    /\ pc = "cm" => bi = Len(Blks)
    /\ CmRowsLastBlock

\* A row of a frame with rows appended is a row of the frame or of the rows.
LEMMA ConcatIndex ==
    ASSUME NEW a \in Seq(RowType), NEW b \in Seq(RowType), NEW k \in 1..Len(a \o b)
    PROVE  /\ k =< Len(a) => (a \o b)[k] = a[k]
           /\ k > Len(a) => k - Len(a) \in 1..Len(b) /\ (a \o b)[k] = b[k - Len(a)]
OBVIOUS

\* The rows of yz_perf's and bcos_perf's samples (lines 18-32) are not
\* ChainMaker rows.
LEMMA RowsPlatform ==
    ASSUME NEW s \in Seq(Sample), NEW core \in Nat, NEW blk \in Nat
    PROVE  /\ \A j \in 1..Len(YzRows(s, core, blk)) :
                 YzRows(s, core, blk)[j].platform # "ChainMaker"
           /\ \A j \in 1..Len(BcosRows(s, core, blk)) :
                 BcosRows(s, core, blk)[j].platform # "ChainMaker"
BY DEF YzRows, BlkSizeIs200, BcosRows, Row

LEMMA CInit == Init => CInv
<1> SUFFICES ASSUME Init PROVE CInv
    OBVIOUS
<1>1. PInv
    BY PInit
<1>. QED
    BY <1>1 DEF Init, CInv, CmRowsLastBlock

LEMMA CStep == CInv /\ [Next]_vars => CInv'
<1> SUFFICES ASSUME CInv, [Next]_vars PROVE CInv'
    OBVIOUS
<1>0. PInv'
    BY PStep DEF CInv
<1> USE DEF CInv, PInv, PTypeOK
<1>1. CASE ReadBlock
    <2> DEFINE core == Cores[ci]
               blk == Blks[bi]
               yz == yzLog[<<core, blk>>]
               bcos == bcosLog[<<core, blk>>]
    <2>1. ci \in 1..Len(Cores) /\ bi \in 1..Len(Blks) /\ pc = "block"
        BY <1>1 DEF ReadBlock
    <2>2. core \in CoreSet /\ blk \in BlkSet
        BY <2>1 DEF CoreSet, BlkSet
    <2>3. core \in Nat /\ blk \in Nat /\ yz \in YzLogs /\ bcos \in BcosLogs
        BY <2>1, <2>2, ConstantFacts
    <2>4. CASE YzCrashes(yz) \/ BcosCrashes(bcos)
        BY <1>0, <1>1, <2>4 DEF ReadBlock, CmRowsLastBlock
    <2>5. CASE ~YzCrashes(yz) /\ ~BcosCrashes(bcos)
        <3>1. PICK s \in YzOutcomes(yz) :
                 /\ df' = df \o YzRows(s, core, blk) \o BcosRows(BcosSamples(bcos), core, blk)
                 /\ IF MoreBlocks THEN bi' = bi + 1 /\ pc' = "block"
                    ELSE bi' = bi /\ pc' = "cm"
            BY <1>1, <2>5 DEF ReadBlock
        <3>2. pc' = "cm" => bi' = Len(Blks)
            BY <2>1, <3>1 DEF MoreBlocks
        <3> DEFINE Y == YzRows(s, core, blk)
                   B == BcosRows(BcosSamples(bcos), core, blk)
        <3>3. s \in Seq(Sample) /\ BcosSamples(bcos) \in Seq(Sample)
            BY <2>3, YzOutcomesType, SamplesType
        <3>4. /\ Y \in Seq(RowType) /\ B \in Seq(RowType)
              /\ \A j \in 1..Len(Y) : Y[j].platform # "ChainMaker"
              /\ \A j \in 1..Len(B) : B[j].platform # "ChainMaker"
            <4>1. Y \in Seq(RowType) /\ B \in Seq(RowType)
                BY <2>3, <3>3, RowsType
            <4>2. \A j \in 1..Len(Y) : Y[j].platform # "ChainMaker"
                BY <2>3, <3>3, RowsPlatform
            <4>3. \A j \in 1..Len(B) : B[j].platform # "ChainMaker"
                BY <2>3, <3>3, RowsPlatform
            <4>. QED
                BY <4>1, <4>2, <4>3
        <3>5. df \in Seq(RowType)
            BY DEF RowType
        <3> HIDE DEF Y, B
        <3>6. df \o Y \in Seq(RowType)
            BY <3>4, <3>5, ConcatType
        <3>7. CmRowsLastBlock'
            <4> SUFFICES ASSUME NEW k \in 1..Len(df'), df'[k].platform = "ChainMaker"
                         PROVE  df'[k].blk = Blks[Len(Blks)]
                BY DEF CmRowsLastBlock
            <4>1. df' = (df \o Y) \o B
                BY <3>1 DEF Y, B
            <4>2. k =< Len(df \o Y)
                BY <3>4, <3>6, <4>1, ConcatIndex
            <4>3. (df \o Y)[k].platform = "ChainMaker"
                BY <3>4, <3>6, <4>1, <4>2, ConcatIndex
            <4>4. k =< Len(df)
                BY <3>4, <3>5, <4>2, <4>3, ConcatIndex
            <4>. QED
                BY <3>4, <3>5, <4>1, <4>2, <4>4, ConcatIndex DEF CmRowsLastBlock
        <3>. QED
            BY <1>0, <3>2, <3>7
    <2>. QED
        BY <2>4, <2>5
<1>2. CASE ReadCm
    <2> DEFINE core == Cores[ci]
               cm == cmLog[core]
               s == CmSamples(cm)
    <2>1. ci \in 1..Len(Cores) /\ pc = "cm" /\ bi = Len(Blks)
        BY <1>2 DEF ReadCm
    <2>2. core \in CoreSet
        BY <2>1 DEF CoreSet
    <2>3. core \in Nat /\ Blks[bi] \in Nat /\ cm \in CmLogs
        BY <2>1, <2>2, ConstantFacts
    <2>4. CASE CmCrashes(cm)
        BY <1>0, <1>2, <2>4 DEF ReadCm, CmRowsLastBlock
    <2>5. CASE ~CmCrashes(cm)
        <3> DEFINE C == [j \in 1..Len(s) |-> Row(s[j], core, Blks[bi], "ChainMaker")]
        <3>1. df' = df \o C /\ pc' \in {"block", "done"}
            BY <1>2, <2>5 DEF ReadCm
        <3>2. s \in Seq(Sample)
            BY <2>3, SamplesType
        <3>3. /\ C \in Seq(RowType)
              /\ \A j \in 1..Len(s) : C[j].blk = Blks[bi]
            <4>1. C \in Seq(RowType)
                BY <2>3, <3>2, RowsType
            <4>2. \A j \in 1..Len(s) : C[j].blk = Blks[bi]
                BY DEF C, Row
            <4>. QED
                BY <4>1, <4>2
        <3>4. df \in Seq(RowType)
            BY DEF RowType
        <3> HIDE DEF C
        <3>5. CmRowsLastBlock'
            <4> SUFFICES ASSUME NEW k \in 1..Len(df'), df'[k].platform = "ChainMaker"
                         PROVE  df'[k].blk = Blks[Len(Blks)]
                BY DEF CmRowsLastBlock
            <4>1. CASE k =< Len(df)
                BY <3>1, <3>3, <3>4, <4>1, ConcatIndex DEF CmRowsLastBlock
            <4>2. CASE k > Len(df)
                <5>1. Len(C) = Len(s)
                    BY DEF C
                <5>. QED
                    BY <2>1, <3>1, <3>3, <3>4, <4>2, <5>1, ConcatIndex
            <4>. QED
                BY <4>1, <4>2, <3>4
        <3>. QED
            BY <1>0, <3>1, <3>5
    <2>. QED
        BY <2>4, <2>5
<1>3. CASE UNCHANGED vars
    BY <1>0, <1>3 DEF vars, CmRowsLastBlock
<1>. QED
    BY <1>1, <1>2, <1>3 DEF Next

(***************************************************************************)
(* Every ChainMaker row collect_data appends (lines 34-39) is labelled     *)
(* with the last block size of blk_size, the value the finished inner      *)
(* loop (line 14) leaves in blk_tx, for any lists of core counts and       *)
(* block sizes and any log files.                                          *)
(***************************************************************************)
THEOREM CmLabelStale == Spec => []CmRowsLastBlock
<1>1. Init => CInv
    BY CInit
<1>2. CInv /\ [Next]_vars => CInv'
    BY CStep
<1>3. CInv => CmRowsLastBlock
    BY DEF CInv
<1>. QED
    BY <1>1, <1>2, <1>3, PTL DEF Spec

=============================================================================
