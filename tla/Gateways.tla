------------------------------ MODULE Gateways ------------------------------
(***************************************************************************)
(* The adapters of the payment gateways                                     *)
(* (src/src/payments/providers/{paystack,flutterwave}.provider.ts): how     *)
(* what a gateway says of a transaction becomes a PaymentResult.            *)
(***************************************************************************)

PAYSTACK == "PAYSTACK"
FLUTTERWAVE == "FLUTTERWAVE"
Gateways == {PAYSTACK, FLUTTERWAVE}

\* The transaction itself.  An orphaned one was opened, but nobody has the
\* address of its checkout page.
PspStatuses == {"unknown", "orphaned", "open", "declined", "charged",
                "reversed"}
Moved == {"charged", "reversed"}    \* the buyer's money reached the gateway

\* The words each gateway has for it.  Paystack calls a transaction abandoned
\* while the buyer may still come back and pay; a refund is accepted before
\* it shows, and with Flutterwave it never shows on the transaction.
PaystackWords(s) ==
    CASE s \in {"open", "orphaned"} -> {"ongoing", "abandoned"}
      [] s = "declined" -> {"failed"}
      [] s = "charged" -> {"success"}
      [] s = "reversed" -> {"success", "reversed"}
      [] OTHER -> {}

FlutterwaveWords(s) ==
    CASE s \in {"open", "orphaned"} -> {"pending"}
      [] s = "declined" -> {"failed", "cancelled"}
      [] s \in Moved -> {"successful"}
      [] OTHER -> {}

Results == {"success", "failed", "pending"}     \* PaymentResult.status

paystackStatus(w) ==
    CASE w = "success" -> "success"
      [] w \in {"failed", "abandoned", "reversed"} -> "failed"
      [] OTHER -> "pending"

flwStatus(w) ==
    CASE w \in {"successful", "success"} -> "success"
      [] w \in {"failed", "cancelled"} -> "failed"
      [] OTHER -> "pending"

\* What gateway v may report of a transaction.
Report(v, s) ==
    IF v = PAYSTACK THEN {paystackStatus(w) : w \in PaystackWords(s)}
                    ELSE {flwStatus(w) : w \in FlutterwaveWords(s)}

\* toPaymentResult keeps the gateway's id, from which providerRef comes.  An
\* answer without data is 'failed', and names no transaction.
NoData == [result |-> "failed", ref |-> FALSE]
Answers(v, s) ==
    {NoData} \cup {[result |-> r, ref |-> TRUE] : r \in Report(v, s)}

\* parseWebhook lets an event through if it is signed by the gateway and names
\* a transaction, which is one the gateway has.
Announces(s) == s # "unknown"

\* What listSince may yield, of the transactions a gateway has: pages are
\* fetched until the last one, and a page without data ends the list.
Yields(txs) == SUBSET txs

=============================================================================
