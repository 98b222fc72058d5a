---------------------------- MODULE PaymentMachine ----------------------------
(***************************************************************************)
(* What the service promises about payments, with all the machinery taken  *)
(* away: no keys, calls, leases, retries or crashes.  An attempt is begun   *)
(* only when its invoice has no other that is pending or succeeded; money   *)
(* moves only while it is pending; it succeeds only once money has moved    *)
(* and fails only if none has, and then none ever will.  The payment flow   *)
(* (PaymentFlow) is shown to implement this specification.                   *)
(***************************************************************************)

CONSTANTS Attempts, Invoices, NoInvoice

VARIABLES
  status,        \* status[a]: the status of attempt a, "none" before it is begun
  invoice,       \* invoice[a]: what it pays
  charged        \* the attempts money has moved for

vars == <<status, invoice, charged>>

Init ==
  /\ status = [a \in Attempts |-> "none"]
  /\ invoice = [a \in Attempts |-> NoInvoice]
  /\ charged = {}

\* No other attempt of the invoice is pending or succeeded.
Begin(a, i) ==
  /\ status[a] = "none"
  /\ \A b \in Attempts : status[b] \in {"pending", "succeeded"} => invoice[b] # i
  /\ status' = [status EXCEPT ![a] = "pending"]
  /\ invoice' = [invoice EXCEPT ![a] = i]
  /\ UNCHANGED charged

Charge(a) ==
  /\ status[a] = "pending"
  /\ charged' = charged \cup {a}
  /\ UNCHANGED <<status, invoice>>

Succeed(a) ==
  /\ status[a] = "pending"
  /\ status' = [status EXCEPT ![a] = "succeeded"]
  /\ a \in charged
  /\ UNCHANGED <<invoice, charged>>

Fail(a) ==
  /\ status[a] = "pending"
  /\ status' = [status EXCEPT ![a] = "failed"]
  /\ a \notin charged
  /\ UNCHANGED <<invoice, charged>>

Next ==
  \E a \in Attempts :
    (\E i \in Invoices : Begin(a, i)) \/ Succeed(a) \/ Fail(a) \/ Charge(a)

Spec == Init /\ [][Next]_vars
=============================================================================
