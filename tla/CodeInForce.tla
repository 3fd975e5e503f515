---------------------------- MODULE CodeInForce -----------------------------
(***************************************************************************)
(* What the documentation promises of one-time codes (src/src/docs.html.ts, *)
(* "SMS & OTP"): a number has at most one code in force, a new one replaces *)
(* it, it is accepted once, and a limited number of failed verifications    *)
(* ends it.                                                                 *)
(***************************************************************************)
EXTENDS Integers

CONSTANTS Phones, MaxAttempts, MaxCodes

VARIABLES
    issued,         \* codes issued so far
    code,           \* per number the code in force, 0 for none,
    failures,       \* and its failed verifications
    accepted        \* how often each code was accepted

inForceVars == <<issued, code, failures, accepted>>

Init ==
    /\ issued = 0
    /\ code = [p \in Phones |-> 0]
    /\ failures = [p \in Phones |-> 0]
    /\ accepted = [c \in 1..MaxCodes |-> 0]

\* The code of p is no longer in force.
Ends(p) ==
    /\ code[p] # 0
    /\ code' = [code EXCEPT ![p] = 0]
    /\ failures' = [failures EXCEPT ![p] = 0]
    /\ UNCHANGED issued

\* It was replaced or has lapsed.
Withdraw(p) == Ends(p) /\ UNCHANGED accepted

Issue(p) ==
    /\ code[p] = 0
    /\ issued < MaxCodes
    /\ issued' = issued + 1
    /\ code' = [code EXCEPT ![p] = issued + 1]
    /\ UNCHANGED <<failures, accepted>>

FailedVerify(p) ==
    /\ code[p] # 0
    /\ failures[p] + 1 < MaxAttempts
    /\ failures' = [failures EXCEPT ![p] = @ + 1]
    /\ UNCHANGED <<issued, code, accepted>>

LastFailedVerify(p) ==
    /\ failures[p] + 1 = MaxAttempts
    /\ Withdraw(p)

Accept(p) ==
    /\ Ends(p)
    /\ accepted' = [accepted EXCEPT ![code[p]] = @ + 1]

Next ==
    \E p \in Phones :
        \/ Withdraw(p)
        \/ Issue(p)
        \/ FailedVerify(p)
        \/ LastFailedVerify(p)
        \/ Accept(p)

Spec == Init /\ [][Next]_inForceVars

=============================================================================
