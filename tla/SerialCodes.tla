---------------------------- MODULE SerialCodes -----------------------------
(***************************************************************************)
(* One-time codes when no two requests have the same number in hand.        *)
(* Nothing in the code enforces this: it is the condition under which a     *)
(* number has one code at a time, as documented, and what a lock per number *)
(* or a check of usedAt and attempts in each update would provide.          *)
(***************************************************************************)
EXTENDS OneTimeCodes

\* The number for which h is between a read and the write relying on it, or
\* between using up the earlier codes and creating the new one.
InHand(h) ==
    CASE At(h, "create") -> {handler[h].phone}
      [] handler[h].pc \in {"lapse", "reject", "redeem"} ->
            {tokens[handler[h].token].phone}
      [] OTHER -> {}

NoOverlap ==
    \A g, h \in Handlers : g # h => InHand(g) \cap InHand(h) = {}

SerialNext == CodesNext /\ NoOverlap'

SerialSpec == CodesInit /\ [][SerialNext]_codeVars

\* The code in force for p, 0 for none, and its failed verifications.
Latest(p) == CHOOSE i \in Unused(p) : \A j \in Unused(p) : j <= i
Code(p) == IF Unused(p) = {} THEN 0 ELSE Latest(p)
Failures(p) == IF Unused(p) = {} THEN 0 ELSE tokens[Latest(p)].attempts

InForce == INSTANCE CodeInForce WITH
    issued <- Len(tokens),
    code <- [p \in Phones |-> Code(p)],
    failures <- [p \in Phones |-> Failures(p)]

-----------------------------------------------------------------------------
(* Properties *)

\* Without overlap a number has at most one code in force, which an expiry, a
\* new code, its acceptance or MaxAttempts failed verifications end for good,
\* whichever requests fail half way.
ImplementsCodeInForce == InForce!Spec

\* A code is good for one verification (usedAt in OtpService.verify).  Without
\* overlap none is accepted twice: no wrong entry, whose update may write usedAt
\* as null, and no request that fails half way makes an accepted code usable.
AcceptedOnce == \A c \in 1..MaxCodes : accepted[c] <= 1

=============================================================================
