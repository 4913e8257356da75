--------------------------- MODULE MCAuditWriter ---------------------------
(* Two writable records and one that Postgres rejects race for a queue of  *)
(* one; a batch is flushed at two records or by the ticker.                *)
EXTENDS AuditWriter
=============================================================================
