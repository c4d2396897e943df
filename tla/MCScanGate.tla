----------------------------- MODULE MCScanGate -----------------------------
(* Two tarballs, one of them with malware.                                    *)
EXTENDS ScanGate

McBytes == [id : {1, 2}, malware : {FALSE}] \cup [id : {3}, malware : {TRUE}]
=============================================================================
