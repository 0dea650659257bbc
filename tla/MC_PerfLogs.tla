---------------------------- MODULE MC_PerfLogs ----------------------------
(***************************************************************************)
(* collect_data over two core counts and two block sizes, each file drawn *)
(* from three logs: one that parses into several samples with lines the   *)
(* parser skips, one at an edge that yields no sample or a negative one,  *)
(* and one that makes the parser raise.                                    *)
(***************************************************************************)
EXTENDS PerfLogs

MC_Cores == <<4, 64>>
MC_Blks == <<100, 200>>
MC_Nums == {0, 1, 2}
MC_Times == {1, 3, 4}

Yz(k, n, t) == [kind |-> k, size |-> n, ts |-> t]
Bcos(k, t, x) == [kind |-> k, ts |-> t, tx |-> x]
Cm(k, n, i) == [kind |-> k, count |-> n, interval |-> i]

\* The z-score window, 300 in proc.py, scaled to two samples.
MC_Window == 2

\* Two samples between three commits, with a line yz_perf skips; two samples
\* whose second timestamp goes back (a negative sample); one sample, fewer
\* than the window (the convolution's shape error).
MC_YzLogs ==
    { <<Yz("commit", 2, 1), Yz("other", 0, 1), Yz("commit", 1, 3), Yz("commit", 2, 4)>>,
      <<Yz("commit", 1, 1), Yz("commit", 1, 4), Yz("commit", 2, 3)>>,
      <<Yz("commit", 1, 3), Yz("commit", 2, 4)>> }

\* A first line bcos_perf skips, a first report without tx= and two samples;
\* a single line, which is skipped (no sample); two reports in the same
\* millisecond (ZeroDivisionError).
MC_BcosLogs ==
    { <<Bcos("report", 1, 1), Bcos("report", 1, NoTx), Bcos("report", 3, 2),
        Bcos("other", 3, 0), Bcos("report", 4, 1)>>,
      <<Bcos("report", 1, 1)>>,
      <<Bcos("other", 1, 0), Bcos("report", 3, 1), Bcos("report", 3, 2)>> }

\* A commit kept and one under the 500 tx/s cut; an empty log; a commit
\* with interval 0 (ZeroDivisionError).
MC_CmLogs ==
    { <<Cm("commit", 2, 1), Cm("other", 0, 0), Cm("commit", 1, 2)>>,
      <<>>,
      <<Cm("commit", 1, 0)>> }

=============================================================================
