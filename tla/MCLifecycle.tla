----------------------------- MODULE MCLifecycle -----------------------------
(* Two invoices, three concurrent admin requests: enough for one request to  *)
(* lose its race to another request, to a payment, and to a chain of both.   *)
EXTENDS InvoiceLifecycle

CONSTANTS i1, i2, m1, m2, m3
=============================================================================
