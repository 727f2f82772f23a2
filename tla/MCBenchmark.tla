---------------------------- MODULE MCBenchmark ----------------------------
(* Benchmark with a log of one line in two bytes, and a few faults.          *)
EXTENDS Benchmark

\* A log may be read in the middle of its line.  The reasoning proxy makes no
\* difference to the log, so a job behind it writes none.
MCMaxBytes == [k \in Kinds |-> IF k = "plain" THEN 2 ELSE 0]
=============================================================================
