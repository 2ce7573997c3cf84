------------------------- MODULE MCAuditRetention -------------------------
(* AuditRetention on a handful of devices and rows: a table of two rows that *)
(* two devices share evenly and that three devices crowd.                    *)
EXTENDS AuditRetention
=============================================================================
