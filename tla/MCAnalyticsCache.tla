--------------------------- MODULE MCAnalyticsCache ---------------------------
(* Small instances of AnalyticsCache.                                        *)
EXTENDS AnalyticsCache

\* The two reports of a tenant in its one currency.
MCKeys == {"invoice_summary", "revenue_by_status"}
=============================================================================
