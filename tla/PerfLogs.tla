------------------------------ MODULE PerfLogs ------------------------------
(***************************************************************************)
(* The throughput collection of the benchmark scripts under               *)
(* src/chainmaker/chain-module/ExpScript-Data/bachledger: collect_data()  *)
(* (collect_data.py) reads, for every core count and block size, the      *)
(* BachLedger perf log (yz_perf, proc.py) and the FISCO-BCOS report       *)
(* (bcos_perf, plot_errbind.py), then for every core count the ChainMaker *)
(* log (cm_perf, cm_perf.py), and appends one data-frame row per          *)
(* throughput sample.  An exception anywhere ends the script.             *)
(*                                                                         *)
(* A log line is abstracted to what the parsers tell apart in it.  A       *)
(* throughput value x / d * k is kept exact as the pair [num, den]; its    *)
(* value is num / den.                                                     *)
(***************************************************************************)
EXTENDS Integers, Sequences

CONSTANTS
    Cores,      \* n_cores, the list of core counts
    Blks,       \* blk_size, the list of block sizes
    Nums,       \* block sizes, tx counts and intervals written in the logs
    Times,      \* timestamps written in the logs
    YzLogs,     \* the BachLedger perf logs a file may hold
    BcosLogs,   \* the FISCO-BCOS reports a file may hold
    CmLogs,     \* the ChainMaker logs a file may hold
    Window      \* the z-score window of yz_perf (window = 300, proc.py line 57)

(***************************************************************************)
(* proc.py lines 12-20.  "commit": a line with "perf: commit blk" and the  *)
(* bracketed height, size and timestamp; "short": one with fewer than      *)
(* three bracketed numbers (matches[2] raises IndexError); "noprefix":     *)
(* "commit blk[" without "perf: commit blk" before it (split(...)[1]      *)
(* raises IndexError); "other": any other line.                            *)
(***************************************************************************)
YzLine == [kind : {"commit", "short", "noprefix", "other"}, size : Nums, ts : Times]

(***************************************************************************)
(* plot_errbind.py lines 5-24 and 35-38.  "report": a "^^^^^^^^Report"    *)
(* line parse_line reads, with its timestamp in milliseconds and its tx=   *)
(* field, or NoTx when it has none; "bad": a report line parse_line       *)
(* cannot read (fewer than four "|" fields, a timestamp strptime rejects); *)
(* "other": any other line.                                                *)
(***************************************************************************)
NoTx == -1
BcosLine == [kind : {"report", "bad", "other"}, ts : Times, tx : Nums \cup {NoTx}]

\* cm_perf.py lines 12-18: a "commit block [" line with its count and
\* interval, one whose interval or count cannot be read (IndexError or
\* ValueError), or any other line.
CmLine == [kind : {"commit", "bad", "other"}, count : Nums, interval : Nums]

Platforms == {"BachLedger", "FISCO-BCOS", "ChainMaker"}

ASSUME PerfLogsAssumption ==
    /\ Cores \in Seq(Nat) /\ Blks \in Seq(Nat) /\ Blks # <<>>
    /\ Nums \subseteq Nat /\ Times \subseteq Nat
    /\ YzLogs \subseteq Seq(YzLine)
    /\ BcosLogs \subseteq Seq(BcosLine)
    /\ CmLogs \subseteq Seq(CmLine)
    /\ Window \in Nat \ {0}

-----------------------------------------------------------------------------
(***************************************************************************)
(* yz_perf(filename), proc.py lines 5-70.  The commit lines in file order *)
(* (lines 12-20); a throughput sample per commit after the first, its size *)
(* over the time since the previous commit, in microseconds (lines 31-38); *)
(* then the rolling z-score filter (lines 54-67), which keeps a            *)
(* subsequence of the samples.  It raises on an unreadable commit line, on *)
(* two commits with the same timestamp (ZeroDivisionError at line 37), and *)
(* on fewer samples than the window: with none, np.array([]) has one       *)
(* dimension and data_tps[:, 2] (line 54) raises IndexError; otherwise     *)
(* np.convolve(..., mode='same') (line 58) returns max(n, window) values,  *)
(* so for 2 to window - 1 samples data - rolling_mean (line 59) raises     *)
(* ValueError, and for one sample the mask of length window (line 67)      *)
(* raises IndexError.                                                      *)
(***************************************************************************)
YzCommits(log) == SelectSeq(log, LAMBDA l : l.kind # "other")

YzCrashes(log) ==
    LET c == YzCommits(log)
    IN  \/ \E k \in 1..Len(c) : c[k].kind # "commit"
        \/ \E k \in 2..Len(c) : c[k].ts = c[k - 1].ts
        \/ Len(c) - 1 < Window

YzSamples(log) ==
    LET c == YzCommits(log)
    IN  [k \in 1..(Len(c) - 1) |->
            [num |-> c[k + 1].size * 1000000, den |-> c[k + 1].ts - c[k].ts]]

\* The ways to keep m of n samples in order: increasing maps 1..m -> 1..n.
Increasing(m, n) == {f \in [1..m -> 1..n] : \A a \in 1..(m - 1) : f[a] < f[a + 1]}

\* The filtered series yz_perf may return: the samples the z-score test keeps.
YzOutcomes(log) ==
    LET t == YzSamples(log)
    IN  UNION {{[j \in 1..m |-> t[f[j]]] : f \in Increasing(m, Len(t))} : m \in 0..Len(t)}

(***************************************************************************)
(* bcos_perf(filename), plot_errbind.py lines 26-46.  Line 0 is skipped    *)
(* (lines 33-34), the report lines after it are parsed (lines 35-38);      *)
(* every report after the first gives its tx count over the milliseconds  *)
(* since the previous one (lines 40-45).  It raises on an unreadable       *)
(* report line, on a report after the first without tx= (KeyError), and on *)
(* two reports with the same timestamp (ZeroDivisionError).                *)
(***************************************************************************)
BcosReports(log) == SelectSeq(SubSeq(log, 2, Len(log)), LAMBDA l : l.kind # "other")

BcosCrashes(log) ==
    LET r == BcosReports(log)
    IN  \/ \E k \in 1..Len(r) : r[k].kind = "bad"
        \/ \E k \in 2..Len(r) : r[k].tx = NoTx \/ r[k].ts = r[k - 1].ts

BcosSamples(log) ==
    LET r == BcosReports(log)
    IN  [k \in 1..(Len(r) - 1) |->
            [num |-> r[k + 1].tx * 1000, den |-> r[k + 1].ts - r[k].ts]]

(***************************************************************************)
(* cm_perf(filename), cm_perf.py lines 7-24: count / interval * 1e3 per    *)
(* commit line, kept when above 500 (count * 1000 > 500 * interval, the    *)
(* interval being positive); an unreadable commit line raises, and so     *)
(* does an interval of 0 (ZeroDivisionError).                             *)
(***************************************************************************)
CmCommits(log) == SelectSeq(log, LAMBDA l : l.kind # "other")

CmCrashes(log) ==
    \E k \in 1..Len(CmCommits(log)) :
        CmCommits(log)[k].kind = "bad" \/ CmCommits(log)[k].interval = 0

CmKept(log) == SelectSeq(CmCommits(log), LAMBDA l : l.count * 1000 > 500 * l.interval)

CmSamples(log) ==
    [k \in 1..Len(CmKept(log)) |->
        [num |-> CmKept(log)[k].count * 1000, den |-> CmKept(log)[k].interval]]

(***************************************************************************)
(* The parsers' lists of records are lists of records: SelectSeq of a      *)
(* sequence is a sequence of its elements (stated for the logs the model   *)
(* enumerates; TLC checks it).                                             *)
(***************************************************************************)
ASSUME SelectSeqAssumption ==
    /\ \A log \in YzLogs : YzCommits(log) \in Seq(YzLine)
    /\ \A log \in BcosLogs : BcosReports(log) \in Seq(BcosLine)
    /\ \A log \in CmLogs : CmKept(log) \in Seq(CmLine)

-----------------------------------------------------------------------------
VARIABLES
    yzLog,      \* core count and block size -> the BachLedger log file
    bcosLog,    \* core count and block size -> the FISCO-BCOS report file
    cmLog,      \* core count -> the ChainMaker log file
    pc,         \* "block" (inner loop), "cm", "done" (returned), "crashed"
    ci,         \* the position in n_cores
    bi,         \* the position in blk_size
    df          \* the data frame: its rows in order

vars == <<yzLog, bcosLog, cmLog, pc, ci, bi, df>>

Row(tps, core, blk, platform) ==
    [tps |-> tps, cores |-> core, blk |-> blk, platform |-> platform]

Init ==
    /\ yzLog \in [{Cores[c] : c \in 1..Len(Cores)} \X {Blks[b] : b \in 1..Len(Blks)} -> YzLogs]
    /\ bcosLog \in [{Cores[c] : c \in 1..Len(Cores)} \X {Blks[b] : b \in 1..Len(Blks)} -> BcosLogs]
    /\ cmLog \in [{Cores[c] : c \in 1..Len(Cores)} -> CmLogs]
    /\ pc = IF Cores = <<>> THEN "done" ELSE "block"
    /\ ci = 1
    /\ bi = 1
    /\ df = <<>>

(***************************************************************************)
(* Line 19: `blk_size == 200` compares the list blk_size with an int,     *)
(* which Python evaluates to False; the trimming of lines 20-21 never      *)
(* happens.                                                                *)
(***************************************************************************)
BlkSizeIs200 == FALSE

Trimmed(i) == i < 200 \/ (i > 360 /\ i < 600) \/ i > 760

\* Lines 18-26: one row per sample i (0-based) the filter lets through.
YzRows(s, core, blk) ==
    IF BlkSizeIs200
    THEN LET keep == SelectSeq([k \in 1..Len(s) |-> k], LAMBDA k : ~Trimmed(k - 1))
         IN  [j \in 1..Len(keep) |-> Row(s[keep[j]], core, blk, "BachLedger")]
    ELSE [j \in 1..Len(s) |-> Row(s[j], core, blk, "BachLedger")]

\* Mutant: the FISCO-BCOS rows taken from the second sample on.
BcosRowsSkipFirst(s, core, blk) ==
    [j \in 1..(Len(s) - 1) |-> Row(s[j + 1], core, blk, "FISCO-BCOS")]

\* Lines 27-32: one row per FISCO-BCOS sample.
BcosRows(s, core, blk) == [j \in 1..Len(s) |-> Row(s[j], core, blk, "FISCO-BCOS")]

(***************************************************************************)
(* The two for loops of lines 13-14: whether n_cores and blk_size hold an *)
(* element after the current one.                                          *)
(***************************************************************************)
MoreBlocksPastEnd == bi <= Len(Blks)
MoreBlocksShort == bi < Len(Blks) - 1
MoreBlocks == bi < Len(Blks)

MoreCoresPastEnd == ci <= Len(Cores)
MoreCores == ci < Len(Cores)

(***************************************************************************)
(* Lines 14-32, one iteration of the inner loop: yz_perf (line 15), then   *)
(* bcos_perf (line 16), then their rows.  An exception in either ends the *)
(* script.                                                                 *)
(***************************************************************************)
ReadBlock ==
    /\ pc = "block" /\ ci \in 1..Len(Cores) /\ bi \in 1..Len(Blks)
    /\ LET core == Cores[ci]
           blk == Blks[bi]
           yz == yzLog[<<core, blk>>]
           bcos == bcosLog[<<core, blk>>]
       IN  \/ /\ YzCrashes(yz) \/ BcosCrashes(bcos)
              /\ pc' = "crashed"
              /\ UNCHANGED <<ci, bi, df>>
           \/ /\ ~YzCrashes(yz) /\ ~BcosCrashes(bcos)
              /\ \E s \in YzOutcomes(yz) :
                    df' = df \o YzRows(s, core, blk) \o BcosRows(BcosSamples(bcos), core, blk)
              /\ IF MoreBlocks THEN bi' = bi + 1 /\ pc' = "block"
                 ELSE bi' = bi /\ pc' = "cm"
              /\ UNCHANGED ci
    /\ UNCHANGED <<yzLog, bcosLog, cmLog>>

(***************************************************************************)
(* Lines 33-39, after the inner loop: cm_perf for the core count, one     *)
(* row per sample, labelled with blk_tx, the variable the finished inner  *)
(* loop left at the last block size.                                       *)
(***************************************************************************)
ReadCm ==
    /\ pc = "cm" /\ ci \in 1..Len(Cores)
    /\ LET core == Cores[ci]
           cm == cmLog[core]
           s == CmSamples(cm)
       IN  \/ /\ CmCrashes(cm)
              /\ pc' = "crashed"
              /\ UNCHANGED <<ci, bi, df>>
           \/ /\ ~CmCrashes(cm)
              /\ df' = df \o [j \in 1..Len(s) |-> Row(s[j], core, Blks[bi], "ChainMaker")]
              /\ bi' = 1
              /\ IF MoreCores THEN ci' = ci + 1 /\ pc' = "block"
                 ELSE ci' = ci /\ pc' = "done"
    /\ UNCHANGED <<yzLog, bcosLog, cmLog>>

Next == ReadBlock \/ ReadCm

\* The script is one sequential process: it runs until it returns or raises.
Spec == Init /\ [][Next]_vars /\ WF_vars(Next)

-----------------------------------------------------------------------------
(***************************************************************************)
(* Properties.                                                             *)
(***************************************************************************)

Sample == [num : Int, den : Int]

PTypeOK ==
    /\ pc \in {"block", "cm", "done", "crashed"}
    /\ ci \in 1..Len(Cores) \cup {1}
    /\ bi \in 1..Len(Blks)
    /\ df \in Seq([tps : Sample, cores : Nat, blk : Nat, platform : Platforms])

\* The rows of df with platform p labelled with core count c (and block size b).
RowsOf(p, c, b) == SelectSeq(df, LAMBDA r : r.platform = p /\ r.cores = c /\ r.blk = b)
CmRowsOf(c) == SelectSeq(df, LAMBDA r : r.platform = "ChainMaker" /\ r.cores = c)
TpsOf(rows) == [j \in 1..Len(rows) |-> rows[j].tps]

\* The files of core count c and block size b have been read, and the
\* ChainMaker log of c.
BlockRead(c, b) ==
    \E i \in 1..Len(Cores), j \in 1..Len(Blks) :
        /\ Cores[i] = c /\ Blks[j] = b
        /\ i < ci \/ (i = ci /\ (j < bi \/ pc \in {"cm", "done"}))
CmRead(c) == \E i \in 1..Len(Cores) : Cores[i] = c /\ (i < ci \/ pc = "done")

(***************************************************************************)
(* The frame holds, for each label, exactly the samples of the files of   *)
(* that label read so far, in the files' order: a subsequence of the      *)
(* BachLedger perf log's samples (the z-score filter drops some), all the *)
(* FISCO-BCOS report's samples, all the ChainMaker log's samples, and     *)
(* nothing for files not read yet.  Two nested loops, three parsers that  *)
(* pair consecutive records, and the rows labelled with the loop          *)
(* variables (collect_data lines 13-39).  Once the script has raised, the *)
(* frame is never returned, so nothing is claimed of it.                   *)
(***************************************************************************)
RowsFollowLogs ==
    pc # "crashed" =>
        /\ \A c \in DOMAIN cmLog, b \in {Blks[j] : j \in 1..Len(Blks)} :
              /\ TpsOf(RowsOf("BachLedger", c, b))
                    \in IF BlockRead(c, b) THEN YzOutcomes(yzLog[c, b]) ELSE {<<>>}
              /\ TpsOf(RowsOf("FISCO-BCOS", c, b))
                    = IF BlockRead(c, b) THEN BcosSamples(bcosLog[c, b]) ELSE <<>>
        /\ \A c \in DOMAIN cmLog :
              TpsOf(CmRowsOf(c)) = IF CmRead(c) THEN CmSamples(cmLog[c]) ELSE <<>>

(***************************************************************************)
(* Every ChainMaker row is labelled with the last block size of blk_size:  *)
(* line 36 reads blk_tx after the inner loop (line 14) has run to its end, *)
(* whatever block size the ChainMaker run itself used.                     *)
(***************************************************************************)
CmRowsLastBlock ==
    \A k \in 1..Len(df) : df[k].platform = "ChainMaker" => df[k].blk = Blks[Len(Blks)]

(***************************************************************************)
(* The script ends: it returns the frame or raises, after one step per     *)
(* file of the finite lists n_cores and blk_size.                          *)
(***************************************************************************)
PTermination == <>(pc \in {"done", "crashed"})

=============================================================================
