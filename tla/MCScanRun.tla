------------------------------ MODULE MCScanRun ------------------------------
(* Small instance of ScanRun: two sinks, one of them sanitized in another    *)
(* file, one audit finding, one cross-file finding; filters that drop        *)
(* nothing, one sink, or everything; two signals, two exceptions; a SARIF   *)
(* file of at most two results, so that of three one must go.               *)
EXTENDS ScanRun

MCAst == {"sink", "sanitized"}
MCAux == {"audit"}
MCCross == {"cross"}
MCSanitized == {"sanitized"}
MCUrgent == {"sink", "cross"}
MCFilters == {{}, {"sink"}, {"sink", "audit", "cross"}}
=============================================================================
