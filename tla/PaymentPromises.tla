-------------------------- MODULE PaymentPromises ---------------------------
(***************************************************************************)
(* What the documentation and the comments promise of payments, each        *)
(* promise stated on its own.                                               *)
(***************************************************************************)
EXTENDS Payments

\* verify: "already terminal - nothing to do".  A SUCCESS payment stays so
\* until it is refunded and a refund is final, however late or often the
\* gateway's answers, webhooks and listings arrive.
TerminalPaymentsStay ==
    [][\A m \in Payments :
        /\ payStatus[m] = "SUCCESS" => payStatus'[m] \in {"SUCCESS", "REFUNDED"}
        /\ payStatus[m] = "REFUNDED" => payStatus'[m] = "REFUNDED"]_vars

-----------------------------------------------------------------------------
(* What remains of the promise if no two processes have a payment in hand *)

\* The payment p is about to write, or asks the gateway about in order to.
PaymentInHand(p) ==
    IF handler[p].pc \in {"init", "initFailed", "askPsp", "apply", "refund",
                         "refunded"}
    THEN {handler[p].payment}
    ELSE {}

PaymentsDoNotOverlap ==
    \A p, r \in Procs : p # r => PaymentInHand(p) \cap PaymentInHand(r) = {}

\* A SUCCESS payment stays so until it is refunded.  (Nothing of the kind holds
\* of REFUNDED: a webhook that comes after the refund asks the gateway again.)
SuccessStays ==
    [][\A m \in Payments :
        payStatus[m] = "SUCCESS" => payStatus'[m] \in {"SUCCESS", "REFUNDED"}]_vars

=============================================================================
