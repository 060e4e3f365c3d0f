---------------------------- MODULE MCChartPanel -----------------------------
(* ChartPanel with the chart types that differ in their legends. *)
EXTENDS ChartPanel

MCKindsOf == [t \in ChartTypes |->
                CASE t = "sys-mem"  -> {"used", "swap"}
                  [] t = "proc-cpu" -> {"cpu"}
                  [] t = "proc-io"  -> {"read", "write"}
                  [] t = "threads"  -> {"alive", "wait"}]
=============================================================================
