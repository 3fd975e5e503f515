------------------------- MODULE SerialCodesProofs --------------------------
(***************************************************************************)
(* Proofs about OneTimeCodes and SerialCodes: the types, that a phone is    *)
(* verified by a code only, the refinement of CodeInForce, and that a code  *)
(* is accepted once.                                                        *)
(***************************************************************************)
EXTENDS SerialCodes, TLAPS

\* A code is used up with its last attempt, and requests deal with codes that
\* exist.
HandsOK ==
    /\ \A i \in DOMAIN tokens :
            ~tokens[i].used => tokens[i].attempts < MaxAttempts
    /\ \A h \in Handlers : handler[h].pc \in {"lapse", "reject", "redeem"} =>
            handler[h].token \in DOMAIN tokens

CodesInv == CodesTypeOK /\ HandsOK

-----------------------------------------------------------------------------
(* Types *)

LEMMA CallTypes ==
    /\ Idle \in Calls
    /\ \A u \in Users, p \in Phones, v \in BOOLEAN :
            [pc |-> "setPhone", user |-> u, phone |-> p, verified |-> v] \in Calls
    /\ \A s \in {"invalidate", "create"}, u \in Users \cup {NoUser},
          p \in Phones : [pc |-> s, user |-> u, phone |-> p] \in Calls
    /\ \A s \in {"lapse", "redeem"}, i \in 1..MaxCodes :
            [pc |-> s, token |-> i] \in Calls
    /\ \A i \in 1..MaxCodes, n \in 1..MaxAttempts :
            [pc |-> "reject", token |-> i, attempts |-> n] \in Calls
    /\ \A u \in Users : [pc |-> "flag", user |-> u] \in Calls
BY DEF Calls

\* What a request has in hand, by the await it is at.
LEMMA CallsByAwait ==
    ASSUME NEW call \in Calls
    PROVE  /\ call.pc = "setPhone" =>
                /\ call.user \in Users
                /\ call.phone \in Phones
                /\ call.verified \in BOOLEAN
           /\ call.pc \in {"invalidate", "create"} =>
                /\ call \in [pc : {"invalidate", "create"},
                             user : Users \cup {NoUser}, phone : Phones]
                /\ call.user \in Users \cup {NoUser}
                /\ call.phone \in Phones
           /\ call.pc \in {"lapse", "redeem", "reject"} =>
                call.token \in 1..MaxCodes
           /\ call.pc = "reject" => call.attempts \in 1..MaxAttempts
           /\ call.pc = "flag" => call.user \in Users
BY DEF Calls, Idle

LEMMA Comparison == \A m, n \in Int : (m >= n) \in BOOLEAN
OBVIOUS

LEMMA TokenChanged ==
    ASSUME NEW t \in Tokens, NEW b \in BOOLEAN, NEW n \in 0..MaxAttempts
    PROVE  /\ [t EXCEPT !.used = b] \in Tokens
           /\ [t EXCEPT !.used = b].used = b
           /\ [t EXCEPT !.used = b].attempts = t.attempts
           /\ [t EXCEPT !.used = b].phone = t.phone
           /\ [t EXCEPT !.used = b].user = t.user
           /\ [t EXCEPT !.expired = TRUE] \in Tokens
           /\ [t EXCEPT !.expired = TRUE].used = t.used
           /\ [t EXCEPT !.expired = TRUE].attempts = t.attempts
           /\ [t EXCEPT !.expired = TRUE].phone = t.phone
           /\ [t EXCEPT !.expired = TRUE].user = t.user
           /\ [t EXCEPT !.attempts = n, !.used = b] \in Tokens
           /\ [t EXCEPT !.attempts = n, !.used = b].used = b
           /\ [t EXCEPT !.attempts = n, !.used = b].attempts = n
           /\ [t EXCEPT !.attempts = n, !.used = b].phone = t.phone
           /\ [t EXCEPT !.attempts = n, !.used = b].user = t.user
BY DEF Tokens

LEMMA TokenFields ==
    ASSUME CodesTypeOK, NEW i \in DOMAIN tokens
    PROVE  /\ tokens[i] \in Tokens
           /\ i \in 1..MaxCodes
           /\ tokens[i].phone \in Phones
           /\ tokens[i].user \in Users \cup {NoUser}
           /\ tokens[i].used \in BOOLEAN
           /\ tokens[i].attempts \in 0..MaxAttempts
<1>1. tokens[i] \in Tokens
  BY DEF CodesTypeOK
<1>2. i \in 1..MaxCodes
  BY CodesAssumption DEF CodesTypeOK
<1>3. QED
  BY <1>1, <1>2 DEF Tokens

LEMMA CreateCall ==
    ASSUME NEW call \in Calls, call.pc = "invalidate"
    PROVE  /\ [call EXCEPT !.pc = "create"] \in Calls
           /\ [call EXCEPT !.pc = "create"].pc = "create"
           /\ [call EXCEPT !.pc = "create"].phone = call.phone
<1>1. call \in [pc : {"invalidate", "create"}, user : Users \cup {NoUser},
                phone : Phones]
  BY CallsByAwait
<1>2. [call EXCEPT !.pc = "create"] \in
            [pc : {"invalidate", "create"}, user : Users \cup {NoUser},
             phone : Phones]
  BY <1>1
<1>3. QED
  BY <1>1, <1>2 DEF Calls

\* A code is changed in place.
LEMMA TokenWritten ==
    ASSUME CodesTypeOK, NEW i \in DOMAIN tokens, NEW t \in Tokens,
           tokens' = [tokens EXCEPT ![i] = t]
    PROVE  /\ tokens' \in Seq(Tokens)
           /\ Len(tokens') = Len(tokens)
           /\ DOMAIN tokens' = DOMAIN tokens
           /\ tokens'[i] = t
           /\ \A j \in DOMAIN tokens \ {i} : tokens'[j] = tokens[j]
BY DEF CodesTypeOK

LEMMA CodesStep ==
    ASSUME CodesInv, [CodesNext]_codeVars
    PROVE  CodesInv'
<1> USE DEF CodesInv, CodesTypeOK
<1>1. CASE UNCHANGED codeVars
  BY <1>1 DEF codeVars, HandsOK
<1>2. ASSUME NEW h \in Handlers, NEW call \in Calls, Await(h, call),
             call.pc \in {"lapse", "reject", "redeem"}
                => call.token \in DOMAIN tokens
      PROVE  /\ handler' \in [Handlers -> Calls]
             /\ \A g \in Handlers :
                    handler'[g].pc \in {"lapse", "reject", "redeem"}
                        => handler'[g].token \in DOMAIN tokens
  BY <1>2 DEF Await, HandsOK
<1>3. ASSUME NEW h \in Handlers, Return(h)
      PROVE  /\ handler' \in [Handlers -> Calls]
             /\ \A g \in Handlers :
                    handler'[g].pc \in {"lapse", "reject", "redeem"}
                        => handler'[g].token \in DOMAIN tokens
  BY <1>2, <1>3, CallTypes DEF Return, Idle
<1>4. ASSUME NEW h \in Handlers, NEW u \in Users, NEW p \in Phones,
             SetPhone(h, u, p)
      PROVE  CodesInv'
  BY <1>2, <1>4, CallTypes DEF SetPhone, HandsOK
<1>5. ASSUME NEW h \in Handlers, NEW p \in Phones, Send(h, p)
      PROVE  CodesInv'
  BY <1>2, <1>5, CallTypes DEF Send, HandsOK
<1>6. ASSUME NEW h \in Handlers, NEW p \in Phones, NEW entered,
             Verify(h, p, entered)
      PROVE  CodesInv'
  <2>1. PICK i \in Unused(p) :
            \/ Await(h, [pc |-> "lapse", token |-> i])
            \/ Await(h, [pc |-> "reject", token |-> i,
                         attempts |-> tokens[i].attempts + 1])
            \/ Await(h, [pc |-> "redeem", token |-> i])
    BY <1>6 DEF Verify
  <2>2. i \in DOMAIN tokens /\ i \in 1..MaxCodes /\ ~tokens[i].used
    BY CodesAssumption DEF Unused
  <2>3. tokens[i].attempts + 1 \in 1..MaxAttempts
    BY <2>2, TokenFields, AttemptsAssumption DEF HandsOK
  <2>4. UNCHANGED <<phone, verified, tokens, accepted>>
    BY <1>6 DEF Verify
  <2>5. QED
    BY <1>2, <2>1, <2>2, <2>3, <2>4, CallTypes DEF HandsOK
<1>7. ASSUME NEW h \in Handlers, SetPhoneWrite(h)
      PROVE  CodesInv'
  <2> DEFINE c == handler[h]
             call == [pc |-> "invalidate", user |-> c.user, phone |-> c.phone]
  <2>1. c.user \in Users /\ c.phone \in Phones /\ c.verified \in BOOLEAN
    BY <1>7, CallsByAwait DEF SetPhoneWrite, At
  <2>2. Await(h, call) /\ call \in Calls /\ call.pc = "invalidate"
    BY <1>7, <2>1, CallTypes DEF SetPhoneWrite
  <2>3. phone' \in [Users -> Phones \cup {NoPhone}]
    BY <1>7, <2>1 DEF SetPhoneWrite
  <2>4. verified' \in [Users -> BOOLEAN] /\ UNCHANGED <<tokens, accepted>>
    BY <1>7, <2>1 DEF SetPhoneWrite
  <2>5. QED
    BY <1>2, <2>2, <2>3, <2>4 DEF HandsOK
<1>8. ASSUME NEW h \in Handlers, Invalidate(h)
      PROVE  CodesInv'
  <2> DEFINE call == [handler[h] EXCEPT !.pc = "create"]
             used(i) == [tokens[i] EXCEPT !.used =
                            @ \/ tokens[i].phone = handler[h].phone]
  <2>1. call \in Calls /\ call.pc = "create"
    BY <1>8, CreateCall DEF Invalidate, At
  <2>2. tokens' = [i \in DOMAIN tokens |-> used(i)]
    BY <1>8 DEF Invalidate
  <2>3. \A i \in DOMAIN tokens : /\ used(i) \in Tokens
                                 /\ used(i).attempts = tokens[i].attempts
                                 /\ ~used(i).used => ~tokens[i].used
    <3> SUFFICES ASSUME NEW i \in DOMAIN tokens
                 PROVE  /\ used(i) \in Tokens
                        /\ used(i).attempts = tokens[i].attempts
                        /\ ~used(i).used => ~tokens[i].used
      OBVIOUS
    <3> DEFINE b == tokens[i].used \/ tokens[i].phone = handler[h].phone
    <3>1. b \in BOOLEAN
      OBVIOUS
    <3>2. ~b => ~tokens[i].used
      OBVIOUS
    <3>3. used(i) = [tokens[i] EXCEPT !.used = b]
      OBVIOUS
    <3>4. 0 \in 0..MaxAttempts /\ tokens[i] \in Tokens
      BY AttemptsAssumption, TokenFields
    <3> HIDE DEF b, used
    <3> DEFINE w == [tokens[i] EXCEPT !.used = b]
    <3>5. w \in Tokens /\ w.used = b /\ w.attempts = tokens[i].attempts
      BY <3>1, <3>4 DEF Tokens
    <3>6. QED
      BY <3>2, <3>3, <3>5, Zenon
  <2>4. tokens' \in Seq(Tokens) /\ DOMAIN tokens' = DOMAIN tokens
        /\ Len(tokens') = Len(tokens)
    BY <2>2, <2>3
  <2>5. \A i \in DOMAIN tokens' :
            ~tokens'[i].used => tokens'[i].attempts < MaxAttempts
    BY <2>2, <2>3, <2>4 DEF HandsOK
  <2>6. QED
    BY <1>2, <1>8, <2>1, <2>4, <2>5 DEF Invalidate, HandsOK
<1>9. ASSUME NEW h \in Handlers, Create(h)
      PROVE  CodesInv'
  <2> DEFINE new == [phone |-> handler[h].phone, user |-> handler[h].user,
                     used |-> FALSE, expired |-> FALSE, attempts |-> 0]
  <2>1. new \in Tokens
    BY <1>9, CallsByAwait, AttemptsAssumption DEF Create, At, Tokens
  <2>2. /\ tokens' = Append(tokens, new) /\ Return(h)
        /\ UNCHANGED <<phone, verified, accepted>>
        /\ Len(tokens) < MaxCodes
    BY <1>9 DEF Create
  <2>3. /\ tokens' \in Seq(Tokens)
        /\ Len(tokens') = Len(tokens) + 1
        /\ DOMAIN tokens' = DOMAIN tokens \cup {Len(tokens) + 1}
        /\ tokens'[Len(tokens) + 1] = new
        /\ \A i \in DOMAIN tokens : tokens'[i] = tokens[i]
    BY <2>1, <2>2
  <2>4. Len(tokens') <= MaxCodes
    BY <2>2, <2>3, CodesAssumption
  <2>5. \A i \in DOMAIN tokens' :
            ~tokens'[i].used => tokens'[i].attempts < MaxAttempts
    BY <2>3, AttemptsAssumption DEF HandsOK
  <2>6. QED
    BY <1>3, <2>2, <2>3, <2>4, <2>5 DEF HandsOK
<1>10. ASSUME NEW i \in DOMAIN tokens, NEW t \in Tokens,
              tokens' = [tokens EXCEPT ![i] = t],
              ~t.used => t.attempts < MaxAttempts
       PROVE  /\ tokens' \in Seq(Tokens) /\ Len(tokens') <= MaxCodes
              /\ DOMAIN tokens' = DOMAIN tokens
              /\ \A j \in DOMAIN tokens' :
                    ~tokens'[j].used => tokens'[j].attempts < MaxAttempts
  BY <1>10, TokenWritten DEF HandsOK
<1>11. ASSUME NEW h \in Handlers, Lapse(h)
       PROVE  CodesInv'
  <2> DEFINE i == handler[h].token
             t == [tokens[i] EXCEPT !.used = TRUE]
  <2>1. i \in DOMAIN tokens
    BY <1>11 DEF Lapse, At, HandsOK
  <2>2. t \in Tokens /\ t.used /\ tokens' = [tokens EXCEPT ![i] = t]
    BY <1>11, <2>1, TokenFields, TokenChanged DEF Lapse
  <2>3. QED
    BY <1>3, <1>10, <1>11, <2>1, <2>2 DEF Lapse, HandsOK
<1>12. ASSUME NEW h \in Handlers, Reject(h)
       PROVE  CodesInv'
  <2> DEFINE i == handler[h].token
             n == handler[h].attempts
             t == [tokens[i] EXCEPT !.attempts = n, !.used = n >= MaxAttempts]
  <2>1. i \in DOMAIN tokens /\ n \in 1..MaxAttempts
    BY <1>12, CallsByAwait DEF Reject, At, HandsOK
  <2>2. t \in Tokens /\ (~t.used => t.attempts < MaxAttempts)
    <3> DEFINE b == n >= MaxAttempts
    <3>1. n \in 0..MaxAttempts /\ n \in Int /\ MaxAttempts \in Int
      BY <2>1, AttemptsAssumption
    <3>2. b \in BOOLEAN
      BY <3>1, Comparison, Zenon
    <3>3. b \/ n < MaxAttempts
      BY <3>1
    <3>4. t = [tokens[i] EXCEPT !.attempts = n, !.used = b]
      OBVIOUS
    <3>5. tokens[i] \in Tokens
      BY <2>1, TokenFields
    <3> HIDE DEF b, t
    <3> DEFINE w == [tokens[i] EXCEPT !.attempts = n, !.used = b]
    <3>6. w \in Tokens /\ w.used = b /\ w.attempts = n
      BY <3>1, <3>2, <3>5 DEF Tokens
    <3>7. QED
      BY <3>3, <3>4, <3>6, Zenon
  <2>3. tokens' = [tokens EXCEPT ![i] = t]
    BY <1>12, <2>1 DEF Reject
  <2>4. QED
    BY <1>3, <1>10, <1>12, <2>1, <2>2, <2>3 DEF Reject, HandsOK
<1>13. ASSUME NEW h \in Handlers, Redeem(h)
       PROVE  CodesInv'
  <2> DEFINE i == handler[h].token
             t == [tokens[i] EXCEPT !.used = TRUE]
  <2>1. i \in DOMAIN tokens /\ i \in 1..MaxCodes
    BY <1>13, CallsByAwait DEF Redeem, At, HandsOK
  <2>2. t \in Tokens /\ t.used /\ tokens' = [tokens EXCEPT ![i] = t]
    BY <1>13, <2>1, TokenFields, TokenChanged DEF Redeem
  <2>3. tokens[i].user # NoUser =>
            [pc |-> "flag", user |-> tokens[i].user] \in Calls
    BY <2>1, TokenFields, CallTypes
  <2>4. accepted' \in [1..MaxCodes -> Nat]
    BY <1>13, <2>1 DEF Redeem
  <2>5. handler' \in [Handlers -> Calls] /\ \A g \in Handlers :
            handler'[g].pc \in {"lapse", "reject", "redeem"}
                => handler'[g].token \in DOMAIN tokens
    BY <1>2, <1>3, <1>13, <2>3 DEF Redeem
  <2>6. QED
    BY <1>10, <1>13, <2>1, <2>2, <2>4, <2>5 DEF Redeem, HandsOK
<1>14. ASSUME NEW h \in Handlers, Flag(h)
       PROVE  CodesInv'
  BY <1>3, <1>14, CallsByAwait DEF Flag, At, HandsOK
<1>15. ASSUME NEW h \in Handlers, Fail(h)
       PROVE  CodesInv'
  BY <1>3, <1>15 DEF Fail, HandsOK
<1>16. ASSUME NEW i \in DOMAIN tokens, Expire(i)
       PROVE  CodesInv'
  <2> DEFINE t == [tokens[i] EXCEPT !.expired = TRUE]
  <2>1. t \in Tokens /\ tokens' = [tokens EXCEPT ![i] = t]
        /\ t.used = tokens[i].used /\ t.attempts = tokens[i].attempts
    BY <1>16, TokenFields, TokenChanged DEF Expire
  <2>2. QED
    BY <1>10, <1>16, <2>1 DEF Expire, HandsOK
<1>17. QED
  BY <1>1, <1>4, <1>5, <1>6, <1>7, <1>8, <1>9, <1>11, <1>12, <1>13, <1>14,
     <1>15, <1>16 DEF CodesNext

LEMMA CodesStart == CodesInit => CodesInv
<1>1. SUFFICES ASSUME CodesInit PROVE CodesInv
  OBVIOUS
<1>2. tokens \in Seq(Tokens) /\ DOMAIN tokens = {} /\ Len(tokens) <= MaxCodes
  BY <1>1, CodesAssumption DEF CodesInit
<1>3. handler \in [Handlers -> Calls] /\ \A h \in Handlers : At(h, "idle")
  BY <1>1, CallTypes DEF CodesInit, Idle, At
<1>4. QED
  BY <1>1, <1>2, <1>3 DEF CodesInit, CodesInv, CodesTypeOK, HandsOK, At

\* Rows and pending requests keep their types; in particular no code is
\* attempted more than MaxAttempts times, whatever races.
THEOREM CodesTyping == CodesSpec => []CodesTypeOK
<1>1. CodesInv => CodesTypeOK
  BY DEF CodesInv
<1>2. QED
  BY <1>1, CodesStart, CodesStep, PTL DEF CodesSpec

-----------------------------------------------------------------------------
(* Verified phones *)

\* A code issued for u was accepted.
Backed(u) == \E i \in DOMAIN tokens : tokens[i].user = u /\ accepted[i] > 0

\* Requests that are about to verify the phone of a user, or to keep it
\* verified, have a code to show for it.
FlagsBacked ==
    \A h \in Handlers :
        /\ At(h, "flag") => Backed(handler[h].user)
        /\ At(h, "setPhone") /\ handler[h].verified => Backed(handler[h].user)

VerifiedInv == CodesInv /\ VerifiedByCode /\ FlagsBacked

\* A code keeps its number and its account, and stays accepted.
LEMMA CodesStay ==
    ASSUME CodesInv, [CodesNext]_codeVars
    PROVE  \A i \in DOMAIN tokens :
                /\ i \in DOMAIN tokens'
                /\ tokens'[i].phone = tokens[i].phone
                /\ tokens'[i].user = tokens[i].user
                /\ accepted[i] > 0 => accepted'[i] > 0
<1> USE DEF CodesInv, CodesTypeOK
<1> DEFINE Kept == \A i \in DOMAIN tokens :
                        /\ i \in DOMAIN tokens'
                        /\ tokens'[i].phone = tokens[i].phone
                        /\ tokens'[i].user = tokens[i].user
                        /\ accepted[i] > 0 => accepted'[i] > 0
<1>1. ASSUME UNCHANGED <<tokens, accepted>>
      PROVE  Kept
  BY <1>1
<1>2. ASSUME NEW h \in Handlers, Invalidate(h)
      PROVE  Kept
  BY <1>2, TokenFields DEF Invalidate, Tokens
<1>3. ASSUME NEW h \in Handlers, Create(h)
      PROVE  Kept
  BY <1>3 DEF Create
<1>4. ASSUME NEW k \in DOMAIN tokens, NEW t,
             tokens' = [tokens EXCEPT ![k] = t],
             t.phone = tokens[k].phone, t.user = tokens[k].user,
             \A i \in DOMAIN tokens : accepted[i] > 0 => accepted'[i] > 0
      PROVE  Kept
  BY <1>4
<1>5. ASSUME NEW h \in Handlers, Lapse(h) \/ Reject(h) \/ Redeem(h)
      PROVE  /\ handler[h].token \in DOMAIN tokens
             /\ handler[h].token \in 1..MaxCodes
  BY <1>5, TokenFields DEF Lapse, Reject, Redeem, At, HandsOK
<1>6. ASSUME NEW h \in Handlers, Redeem(h)
      PROVE  \A i \in DOMAIN tokens : accepted[i] > 0 => accepted'[i] > 0
  <2>1. accepted' = [accepted EXCEPT ![handler[h].token] = @ + 1]
    BY <1>6 DEF Redeem
  <2>2. \A i \in DOMAIN tokens : i \in 1..MaxCodes
    BY TokenFields
  <2>3. QED
    BY <1>5, <1>6, <2>1, <2>2
<1>7. ASSUME NEW k \in DOMAIN tokens
      PROVE  /\ \A b : /\ [tokens[k] EXCEPT !.used = b].phone = tokens[k].phone
                       /\ [tokens[k] EXCEPT !.used = b].user = tokens[k].user
             /\ \A b, n :
                    LET t == [tokens[k] EXCEPT !.attempts = n, !.used = b] IN
                    t.phone = tokens[k].phone /\ t.user = tokens[k].user
             /\ [tokens[k] EXCEPT !.expired = TRUE].phone = tokens[k].phone
             /\ [tokens[k] EXCEPT !.expired = TRUE].user = tokens[k].user
  BY TokenFields DEF Tokens
<1>8. ASSUME NEW h \in Handlers, Lapse(h)
      PROVE  Kept
  BY <1>4, <1>5, <1>7, <1>8 DEF Lapse
<1>9. ASSUME NEW h \in Handlers, Reject(h)
      PROVE  Kept
  BY <1>4, <1>5, <1>7, <1>9 DEF Reject
<1>10. ASSUME NEW h \in Handlers, Redeem(h)
       PROVE  Kept
  BY <1>4, <1>5, <1>6, <1>7, <1>10 DEF Redeem
<1>11. ASSUME NEW i \in DOMAIN tokens, Expire(i)
       PROVE  Kept
  BY <1>4, <1>7, <1>11 DEF Expire
<1>12. QED
  BY <1>1, <1>2, <1>3, <1>8, <1>9, <1>10, <1>11 DEF CodesNext, codeVars,
     SetPhone, SetPhoneWrite, Send, Verify, Flag, Fail

LEMMA VerifiedStep ==
    ASSUME VerifiedInv, [CodesNext]_codeVars
    PROVE  VerifiedInv'
<1> USE DEF VerifiedInv
<1>1. CodesInv'
  BY CodesStep
<1>2. \A u : Backed(u) => Backed(u)'
  BY CodesStay DEF Backed
<1>3. VerifiedByCode <=> \A u \in Users : verified[u] => Backed(u)
  BY DEF VerifiedByCode, Backed
<1>4. VerifiedByCode' <=> \A u \in Users : verified'[u] => Backed(u)'
  BY DEF VerifiedByCode, Backed
<1> HIDE DEF Backed
<1> SUFFICES VerifiedByCode' /\ FlagsBacked'
  BY <1>1
<1>5. ASSUME verified' = verified,
             \A h \in Handlers : handler'[h] = handler[h]
                                    \/ handler'[h].pc \notin {"flag", "setPhone"}
      PROVE  VerifiedByCode' /\ FlagsBacked'
  BY <1>2, <1>3, <1>4, <1>5 DEF FlagsBacked, At
<1>6. ASSUME NEW h \in Handlers, NEW call, Await(h, call)
      PROVE  handler'[h] = call /\ \A g \in Handlers \ {h} : handler'[g] = handler[g]
  BY <1>6 DEF Await, CodesInv, CodesTypeOK
<1>7. ASSUME NEW h \in Handlers, Return(h)
      PROVE  \A g \in Handlers :
                handler'[g] = handler[g] \/ handler'[g].pc \notin {"flag", "setPhone"}
  BY <1>6, <1>7 DEF Return, Idle
<1>8. ASSUME NEW h \in Handlers, NEW u \in Users, NEW p \in Phones,
             SetPhone(h, u, p)
      PROVE  VerifiedByCode' /\ FlagsBacked'
  <2>1. handler'[h] = [pc |-> "setPhone", user |-> u, phone |-> p,
                       verified |-> phone[u] = p /\ verified[u]]
        /\ \A g \in Handlers \ {h} : handler'[g] = handler[g]
    BY <1>6, <1>8 DEF SetPhone
  <2>2. handler'[h].pc = "setPhone" /\ handler'[h].user = u
        /\ (handler'[h].verified => verified[u])
    <3>1. \A v : LET call == [pc |-> "setPhone", user |-> u, phone |-> p,
                              verified |-> v]
                 IN  call.pc = "setPhone" /\ call.user = u /\ call.verified = v
      OBVIOUS
    <3>2. QED
      BY <2>1, <3>1, Zenon
  <2>3. verified' = verified
    BY <1>8 DEF SetPhone
  <2>4. QED
    BY <1>2, <1>3, <1>4, <2>1, <2>2, <2>3 DEF FlagsBacked, At
<1>9. ASSUME NEW h \in Handlers, SetPhoneWrite(h)
      PROVE  VerifiedByCode' /\ FlagsBacked'
  <2>1. /\ handler[h].verified => Backed(handler[h].user)
        /\ handler[h].user \in Users
    BY <1>9, CallsByAwait DEF SetPhoneWrite, FlagsBacked, At, CodesInv,
       CodesTypeOK
  <2>2. verified' = [verified EXCEPT ![handler[h].user] = handler[h].verified]
    BY <1>9 DEF SetPhoneWrite
  <2>3. \A g \in Handlers :
            handler'[g] = handler[g] \/ handler'[g].pc \notin {"flag", "setPhone"}
    BY <1>6, <1>9 DEF SetPhoneWrite
  <2>4. VerifiedByCode'
    BY <1>2, <1>3, <1>4, <2>1, <2>2 DEF CodesInv, CodesTypeOK
  <2>5. QED
    BY <1>2, <2>3, <2>4 DEF FlagsBacked, At
<1>10. ASSUME NEW h \in Handlers, NEW p \in Phones, Send(h, p)
       PROVE  VerifiedByCode' /\ FlagsBacked'
  BY <1>5, <1>6, <1>10 DEF Send
<1>11. ASSUME NEW h \in Handlers, Invalidate(h)
       PROVE  VerifiedByCode' /\ FlagsBacked'
  <2>1. handler'[h].pc = "create"
        /\ \A g \in Handlers \ {h} : handler'[g] = handler[g]
    BY <1>6, <1>11, CreateCall DEF Invalidate, At, CodesInv, CodesTypeOK
  <2>2. QED
    BY <1>5, <1>11, <2>1 DEF Invalidate
<1>12. ASSUME NEW h \in Handlers, Create(h) \/ Lapse(h) \/ Reject(h) \/ Fail(h)
       PROVE  VerifiedByCode' /\ FlagsBacked'
  BY <1>5, <1>7, <1>12 DEF Create, Lapse, Reject, Fail
<1>13. ASSUME NEW h \in Handlers, NEW p \in Phones, NEW entered,
              Verify(h, p, entered)
       PROVE  VerifiedByCode' /\ FlagsBacked'
  <2>1. PICK call : Await(h, call) /\ call.pc \in {"lapse", "reject", "redeem"}
    BY <1>13 DEF Verify
  <2>2. QED
    BY <1>5, <1>6, <1>13, <2>1 DEF Verify
<1>14. ASSUME NEW h \in Handlers, Redeem(h)
       PROVE  VerifiedByCode' /\ FlagsBacked'
  <2> DEFINE i == handler[h].token
  <2>1. i \in DOMAIN tokens /\ i \in 1..MaxCodes
    BY <1>14, TokenFields DEF Redeem, At, CodesInv, HandsOK
  <2> PICK u : u = tokens[i].user
    OBVIOUS
  <2>2. accepted'[i] > 0
    BY <1>14, <2>1 DEF Redeem, CodesInv, CodesTypeOK
  <2>3. Backed(u)'
    BY <2>1, <2>2, CodesStay DEF Backed
  <2>4. verified' = verified
    BY <1>14 DEF Redeem
  <2>5. \A g \in Handlers : \/ handler'[g] = handler[g]
                            \/ handler'[g].pc \notin {"flag", "setPhone"}
                            \/ handler'[g] = [pc |-> "flag", user |-> u]
    BY <1>6, <1>7, <1>14 DEF Redeem
  <2>6. QED
    BY <1>2, <1>3, <1>4, <2>3, <2>4, <2>5 DEF FlagsBacked, At
<1>15. ASSUME NEW h \in Handlers, Flag(h)
       PROVE  VerifiedByCode' /\ FlagsBacked'
  <2>1. Backed(handler[h].user) /\ handler[h].user \in Users
    BY <1>15, CallsByAwait DEF Flag, FlagsBacked, At, CodesInv, CodesTypeOK
  <2>2. VerifiedByCode'
    BY <1>2, <1>3, <1>4, <1>15, <2>1 DEF Flag, CodesInv, CodesTypeOK
  <2>3. QED
    BY <1>2, <1>7, <1>15, <2>2 DEF FlagsBacked, At, Flag
<1>16. ASSUME NEW i \in DOMAIN tokens, Expire(i)
       PROVE  VerifiedByCode' /\ FlagsBacked'
  BY <1>5, <1>16 DEF Expire
<1>17. CASE UNCHANGED codeVars
  BY <1>5, <1>17 DEF codeVars
<1>18. QED
  BY <1>8, <1>9, <1>10, <1>11, <1>12, <1>13, <1>14, <1>15, <1>16, <1>17
     DEF CodesNext

\* No interleaving or failure of requests verifies the phone of a user no code
\* was issued for and accepted.
THEOREM VerifiedNeedsCode == CodesSpec => []VerifiedByCode
<1>1. CodesInit => VerifiedInv
  BY CodesStart DEF CodesInit, VerifiedInv, VerifiedByCode, FlagsBacked, At,
     Idle
<1>2. VerifiedInv => VerifiedByCode
  BY DEF VerifiedInv
<1>3. QED
  BY <1>1, <1>2, VerifiedStep, PTL DEF CodesSpec

-----------------------------------------------------------------------------
(* Without overlap: one code in force *)

OneEach ==
    \A i, j \in DOMAIN tokens :
        ~tokens[i].used /\ ~tokens[j].used /\ tokens[i].phone = tokens[j].phone
            => i = j

\* What h read is still so when it writes.
Fresh(h) ==
    /\ At(h, "create") => Unused(handler[h].phone) = {}
    /\ handler[h].pc \in {"lapse", "reject", "redeem"}
            => ~tokens[handler[h].token].used
    /\ At(h, "reject")
            => handler[h].attempts = tokens[handler[h].token].attempts + 1

SerialInv == CodesInv /\ NoOverlap /\ OneEach /\ \A h \in Handlers : Fresh(h)

LEMMA InHandByAwait ==
    ASSUME NEW h
    PROVE  /\ At(h, "create") => InHand(h) = {handler[h].phone}
           /\ handler[h].pc \in {"lapse", "reject", "redeem"}
                => InHand(h) = {tokens[handler[h].token].phone}
BY DEF InHand, At

\* A step that changes codes for p only, at most by adding one.
OnlyCodesOf(p) ==
    /\ \A i \in DOMAIN tokens : tokens[i].phone # p =>
            /\ tokens'[i].used = tokens[i].used
            /\ tokens'[i].attempts = tokens[i].attempts
    /\ \A i \in DOMAIN tokens' : i \notin DOMAIN tokens => tokens'[i].phone = p

\* A request with no code for p in hand does not notice.
LEMMA FreshKept ==
    ASSUME CodesInv, [CodesNext]_codeVars, NEW p, OnlyCodesOf(p),
           NEW g \in Handlers, Fresh(g), p \notin InHand(g),
           handler'[g] = handler[g]
    PROVE  Fresh(g)'
<1>1. CASE At(g, "create")
  <2>1. handler[g].phone # p /\ Unused(handler[g].phone) = {}
    BY <1>1, InHandByAwait DEF Fresh
  <2>2. \A i \in DOMAIN tokens' :
            ~(tokens'[i].phone = handler[g].phone /\ ~tokens'[i].used)
    BY <2>1, CodesStay DEF OnlyCodesOf, Unused
  <2>3. QED
    BY <1>1, <2>2 DEF Fresh, At, Unused
<1>2. CASE handler[g].pc \in {"lapse", "reject", "redeem"}
  <2> PICK i : i = handler[g].token
    OBVIOUS
  <2>1. i \in DOMAIN tokens /\ tokens[i].phone # p
    BY <1>2, InHandByAwait DEF CodesInv, HandsOK
  <2>2. /\ tokens'[i].used = tokens[i].used
        /\ tokens'[i].attempts = tokens[i].attempts
    BY <2>1 DEF OnlyCodesOf
  <2>3. ~tokens[i].used /\ (At(g, "reject") =>
                                handler[g].attempts = tokens[i].attempts + 1)
    BY <1>2 DEF Fresh
  <2>4. QED
    BY <1>2, <2>2, <2>3 DEF Fresh, At
<1>3. CASE handler[g].pc \notin {"create", "lapse", "reject", "redeem"}
  BY <1>3 DEF Fresh, At
<1>4. QED
  BY <1>1, <1>2, <1>3 DEF At

LEMMA InvalidateEffect ==
    ASSUME CodesInv, NEW h \in Handlers, Invalidate(h),
           NEW p, p = handler[h].phone
    PROVE  /\ DOMAIN tokens' = DOMAIN tokens
           /\ Len(tokens') = Len(tokens)
           /\ OnlyCodesOf(p)
           /\ \A i \in DOMAIN tokens :
                ~tokens'[i].used => ~tokens[i].used /\ tokens[i].phone # p
<1>1. DOMAIN tokens' = DOMAIN tokens /\ Len(tokens') = Len(tokens)
  BY DEF Invalidate, CodesInv, CodesTypeOK
<1>2. ASSUME NEW i \in DOMAIN tokens
      PROVE  /\ tokens'[i].attempts = tokens[i].attempts
             /\ ~tokens'[i].used => ~tokens[i].used /\ tokens[i].phone # p
             /\ tokens[i].phone # p => tokens'[i].used = tokens[i].used
  <2> DEFINE b == tokens[i].used \/ tokens[i].phone = p
  <2>1. tokens'[i] = [tokens[i] EXCEPT !.used = b]
    BY DEF Invalidate
  <2>2. ~b => ~tokens[i].used /\ tokens[i].phone # p
    OBVIOUS
  <2>3. tokens[i].phone # p => b = tokens[i].used
    BY <1>2, TokenFields DEF CodesInv
  <2> HIDE DEF b
  <2>4. [tokens[i] EXCEPT !.used = b].used = b
        /\ [tokens[i] EXCEPT !.used = b].attempts = tokens[i].attempts
    BY TokenFields DEF Tokens, CodesInv
  <2>5. QED
    BY <2>1, <2>2, <2>3, <2>4, Zenon
<1>3. QED
  BY <1>1, <1>2 DEF OnlyCodesOf

LEMMA CreateEffect ==
    ASSUME CodesInv, NEW h \in Handlers, Create(h),
           NEW p, p = handler[h].phone
    PROVE  /\ DOMAIN tokens' = DOMAIN tokens \cup {Len(tokens) + 1}
           /\ Len(tokens') = Len(tokens) + 1
           /\ \A i \in DOMAIN tokens : tokens'[i] = tokens[i]
           /\ tokens'[Len(tokens) + 1].phone = p
           /\ ~tokens'[Len(tokens) + 1].used
           /\ tokens'[Len(tokens) + 1].attempts = 0
           /\ OnlyCodesOf(p)
<1> DEFINE new == [phone |-> p, user |-> handler[h].user, used |-> FALSE,
                   expired |-> FALSE, attempts |-> 0]
<1>1. /\ tokens' = Append(tokens, new)
      /\ new.phone = p /\ ~new.used /\ new.attempts = 0
  BY DEF Create
<1> HIDE DEF new
<1>2. /\ DOMAIN tokens' = DOMAIN tokens \cup {Len(tokens) + 1}
      /\ Len(tokens') = Len(tokens) + 1
      /\ tokens'[Len(tokens) + 1] = new
      /\ \A i \in DOMAIN tokens : tokens'[i] = tokens[i]
  BY <1>1 DEF CodesInv, CodesTypeOK
<1>3. QED
  BY <1>1, <1>2 DEF OnlyCodesOf

\* A request that has a code to write changes that code only.
LEMMA WriteEffect ==
    ASSUME SerialInv, NEW h \in Handlers, Lapse(h) \/ Reject(h) \/ Redeem(h),
           NEW k, k = handler[h].token
    PROVE  /\ k \in DOMAIN tokens
           /\ ~tokens[k].used
           /\ DOMAIN tokens' = DOMAIN tokens
           /\ Len(tokens') = Len(tokens)
           /\ \A i \in DOMAIN tokens \ {k} : tokens'[i] = tokens[i]
           /\ OnlyCodesOf(tokens[k].phone)
<1>1. k \in DOMAIN tokens /\ ~tokens[k].used
  BY DEF Lapse, Reject, Redeem, At, SerialInv, CodesInv, HandsOK, Fresh
<1>2. DOMAIN tokens' = DOMAIN tokens /\ Len(tokens') = Len(tokens)
      /\ \A i \in DOMAIN tokens \ {k} : tokens'[i] = tokens[i]
  BY <1>1 DEF Lapse, Reject, Redeem, SerialInv, CodesInv, CodesTypeOK
<1>3. QED
  BY <1>1, <1>2 DEF OnlyCodesOf

\* A request changes only the codes for the number it has in hand, and is the
\* only one to have it, before the step or after it.
LEMMA ChangesInHand ==
    ASSUME SerialInv, NoOverlap', NEW h \in Handlers,
           Invalidate(h) \/ Create(h) \/ Lapse(h) \/ Reject(h) \/ Redeem(h)
    PROVE  \E p \in Phones :
                /\ OnlyCodesOf(p)
                /\ p \in InHand(h) \cup InHand(h)'
                /\ \A g \in Handlers \ {h} : p \notin InHand(g)
<1> USE DEF SerialInv, CodesInv, CodesTypeOK
<1>0. [CodesNext]_codeVars
  BY DEF CodesNext
<1>1. CASE Invalidate(h)
  <2> PICK p : p = handler[h].phone
    OBVIOUS
  <2>1. /\ p \in Phones
        /\ [handler[h] EXCEPT !.pc = "create"].pc = "create"
        /\ [handler[h] EXCEPT !.pc = "create"].phone = p
    BY <1>1, CreateCall, CallsByAwait DEF Invalidate, At
  <2>2. /\ handler'[h].pc = "create" /\ handler'[h].phone = p
        /\ \A g \in Handlers \ {h} : handler'[g] = handler[g]
    BY <1>1, <2>1 DEF Invalidate, Await
  <2>3. InHand(h)' = {p}
    BY <2>2 DEF InHand, At
  <2>4. \A g \in Handlers \ {h} : InHand(g)' = InHand(g)
    BY <1>0, <2>2, CodesStay DEF InHand, At, HandsOK
  <2>5. \A g \in Handlers \ {h} : p \notin InHand(g)
    BY <2>3, <2>4 DEF NoOverlap
  <2>6. OnlyCodesOf(p)
    BY <1>1, InvalidateEffect
  <2>7. QED
    BY <2>1, <2>3, <2>5, <2>6
<1>2. CASE Create(h)
  <2> PICK p : p = handler[h].phone
    OBVIOUS
  <2>1. p \in Phones /\ InHand(h) = {p}
    BY <1>2, InHandByAwait, CallsByAwait DEF Create, At
  <2>2. OnlyCodesOf(p)
    BY <1>2, CreateEffect
  <2>3. QED
    BY <2>1, <2>2 DEF NoOverlap
<1>3. CASE Lapse(h) \/ Reject(h) \/ Redeem(h)
  <2> PICK k : k = handler[h].token
    OBVIOUS
  <2>1. k \in DOMAIN tokens /\ OnlyCodesOf(tokens[k].phone)
    BY <1>3, WriteEffect
  <2>2. InHand(h) = {tokens[k].phone}
    BY <1>3, InHandByAwait DEF Lapse, Reject, Redeem, At
  <2>3. QED
    BY <2>1, <2>2, TokenFields DEF NoOverlap
<1>4. QED
  BY <1>1, <1>2, <1>3

LEMMA SerialStep ==
    ASSUME SerialInv, [SerialNext]_codeVars
    PROVE  SerialInv'
<1> USE DEF SerialInv, CodesInv, CodesTypeOK
<1>1. CASE UNCHANGED codeVars
  BY <1>1, CodesStep DEF codeVars, NoOverlap, InHand, At, OneEach, Fresh, Unused
<1> SUFFICES ASSUME CodesNext, NoOverlap'
             PROVE  SerialInv'
  BY <1>1 DEF SerialNext
<1>2. CodesInv'
  BY CodesStep
<1> SUFFICES OneEach' /\ \A g \in Handlers : Fresh(g)'
  BY <1>2
<1>3. ASSUME UNCHANGED tokens PROVE OneEach'
  BY <1>3 DEF OneEach
<1>4. ASSUME DOMAIN tokens' = DOMAIN tokens,
             \A i \in DOMAIN tokens : ~tokens'[i].used => ~tokens[i].used
      PROVE  OneEach'
  BY <1>4, CodesStay DEF OneEach
<1>5. ASSUME NEW h \in Handlers, NEW call, Await(h, call)
      PROVE  handler'[h] = call /\ \A g \in Handlers \ {h} : handler'[g] = handler[g]
  BY <1>5 DEF Await
<1>6. ASSUME NEW h \in Handlers,
             handler'[h].pc \notin {"create", "lapse", "reject", "redeem"}
      PROVE  Fresh(h)'
  BY <1>6 DEF Fresh, At
<1>7. ASSUME NEW h \in Handlers, UNCHANGED tokens,
             \A g \in Handlers \ {h} : handler'[g] = handler[g]
      PROVE  \A g \in Handlers \ {h} : Fresh(g)'
  BY <1>7 DEF Fresh, At, Unused
<1>8. ASSUME NEW h \in Handlers,
             Invalidate(h) \/ Create(h) \/ Lapse(h) \/ Reject(h) \/ Redeem(h)
      PROVE  \A g \in Handlers \ {h} : Fresh(g)'
  <2>1. \A g \in Handlers \ {h} : handler'[g] = handler[g]
    BY <1>5, <1>8 DEF Invalidate, Create, Lapse, Reject, Redeem, Return
  <2>2. QED
    BY <1>8, <2>1, ChangesInHand, FreshKept
<1>9. ASSUME NEW h \in Handlers, NEW u \in Users, NEW p \in Phones,
             SetPhone(h, u, p)
      PROVE  OneEach' /\ \A g \in Handlers : Fresh(g)'
  BY <1>3, <1>5, <1>6, <1>7, <1>9 DEF SetPhone
<1>10. ASSUME NEW h \in Handlers,
              SetPhoneWrite(h) \/ Flag(h) \/ Fail(h) \/ \E p \in Phones : Send(h, p)
       PROVE  OneEach' /\ \A g \in Handlers : Fresh(g)'
  <2>1. handler'[h].pc \in {"idle", "invalidate"}
        /\ \A g \in Handlers \ {h} : handler'[g] = handler[g]
    <3>1. CASE SetPhoneWrite(h)
      BY <1>5, <3>1 DEF SetPhoneWrite
    <3>2. CASE Flag(h) \/ Fail(h)
      BY <1>5, <3>2 DEF Flag, Fail, Return, Idle
    <3>3. CASE \E p \in Phones : Send(h, p)
      BY <1>5, <3>3 DEF Send
    <3>4. QED
      BY <1>10, <3>1, <3>2, <3>3
  <2>2. UNCHANGED tokens
    BY <1>10 DEF SetPhoneWrite, Flag, Fail, Send
  <2>3. QED
    BY <1>3, <1>6, <1>7, <2>1, <2>2
<1>11. ASSUME NEW h \in Handlers, NEW p \in Phones, NEW entered,
              Verify(h, p, entered)
       PROVE  OneEach' /\ \A g \in Handlers : Fresh(g)'
  <2>1. PICK i \in Unused(p) :
            \/ Await(h, [pc |-> "lapse", token |-> i])
            \/ Await(h, [pc |-> "reject", token |-> i,
                         attempts |-> tokens[i].attempts + 1])
            \/ Await(h, [pc |-> "redeem", token |-> i])
    BY <1>11 DEF Verify
  <2>2. UNCHANGED tokens
    BY <1>11 DEF Verify
  <2>3. ~tokens[i].used
    BY DEF Unused
  <2>4. Fresh(h)'
    BY <1>5, <2>1, <2>2, <2>3 DEF Fresh, At
  <2>5. \A g \in Handlers \ {h} : handler'[g] = handler[g]
    BY <1>5, <2>1
  <2>6. QED
    BY <1>3, <1>7, <2>2, <2>4, <2>5
<1>12. ASSUME NEW h \in Handlers, Invalidate(h)
       PROVE  OneEach' /\ \A g \in Handlers : Fresh(g)'
  <2>1. /\ handler'[h].pc = "create"
        /\ handler'[h].phone = handler[h].phone
    BY <1>5, <1>12, CreateCall DEF Invalidate, At
  <2>2. DOMAIN tokens' = DOMAIN tokens
    BY <1>12, InvalidateEffect
  <2>3. \A i \in DOMAIN tokens :
            ~tokens'[i].used =>
                ~tokens[i].used /\ tokens[i].phone # handler[h].phone
    BY <1>12, InvalidateEffect
  <2>4. Fresh(h)'
    BY <2>1, <2>2, <2>3, <1>12, CodesStay DEF Fresh, At, Unused, CodesNext
  <2>5. QED
    BY <1>4, <1>8, <1>12, <2>2, <2>3, <2>4
<1>13. ASSUME NEW h \in Handlers, Create(h)
       PROVE  OneEach' /\ \A g \in Handlers : Fresh(g)'
  <2>1. Unused(handler[h].phone) = {}
    BY <1>13 DEF Create, Fresh
  <2> PICK p : p = handler[h].phone
    OBVIOUS
  <2>2. /\ DOMAIN tokens' = DOMAIN tokens \cup {Len(tokens) + 1}
        /\ \A i \in DOMAIN tokens : tokens'[i] = tokens[i]
        /\ tokens'[Len(tokens) + 1].phone = p
    BY <1>13, CreateEffect
  <2>4. OneEach'
    BY <2>1, <2>2 DEF OneEach, Unused
  <2>5. Fresh(h)'
    BY <1>5, <1>6, <1>13 DEF Create, Return, Idle
  <2>6. QED
    BY <1>8, <1>13, <2>4, <2>5
<1>14. ASSUME NEW h \in Handlers, Lapse(h) \/ Reject(h) \/ Redeem(h)
       PROVE  OneEach' /\ \A g \in Handlers : Fresh(g)'
  <2> PICK k : k = handler[h].token
    OBVIOUS
  <2>1. k \in DOMAIN tokens /\ ~tokens[k].used
    BY <1>14, WriteEffect
  <2>2. DOMAIN tokens' = DOMAIN tokens
        /\ \A i \in DOMAIN tokens \ {k} : tokens'[i] = tokens[i]
    BY <1>14, WriteEffect
  <2>3. OneEach'
    BY <1>4, <2>1, <2>2
  <2>4. handler'[h].pc \in {"idle", "flag"}
    BY <1>5, <1>14 DEF Lapse, Reject, Redeem, Return, Idle
  <2>5. QED
    BY <1>6, <1>8, <1>14, <2>3, <2>4
<1>15. ASSUME NEW k \in DOMAIN tokens, Expire(k)
       PROVE  OneEach' /\ \A g \in Handlers : Fresh(g)'
  <2>1. /\ DOMAIN tokens' = DOMAIN tokens
        /\ \A i \in DOMAIN tokens :
                /\ tokens'[i].used = tokens[i].used
                /\ tokens'[i].attempts = tokens[i].attempts
                /\ tokens'[i].phone = tokens[i].phone
    <3>1. tokens[k] \in Tokens /\ 0 \in 0..MaxAttempts
      BY TokenFields, AttemptsAssumption
    <3>2. tokens' = [tokens EXCEPT ![k] = [tokens[k] EXCEPT !.expired = TRUE]]
      BY <1>15 DEF Expire
    <3> DEFINE t == [tokens[k] EXCEPT !.expired = TRUE]
    <3>3. /\ t.used = tokens[k].used /\ t.attempts = tokens[k].attempts
          /\ t.phone = tokens[k].phone
      BY <3>1, TokenChanged
    <3> HIDE DEF t
    <3>4. /\ DOMAIN tokens' = DOMAIN tokens /\ tokens'[k] = t
          /\ \A i \in DOMAIN tokens \ {k} : tokens'[i] = tokens[i]
      BY <3>2 DEF t
    <3>5. QED
      BY <3>3, <3>4
  <2>2. OneEach'
    BY <1>4, <2>1
  <2>3. \A g \in Handlers : Fresh(g)'
    BY <1>15, <2>1 DEF Expire, Fresh, At, Unused, HandsOK
  <2>4. QED
    BY <2>2, <2>3
<1>16. QED
  BY <1>9, <1>10, <1>11, <1>12, <1>13, <1>14, <1>15 DEF CodesNext

-----------------------------------------------------------------------------
(* The refinement *)

Mapping ==
    \A p \in Phones :
        /\ Unused(p) = {} => Code(p) = 0 /\ Failures(p) = 0
        /\ \A i \in Unused(p) : /\ Unused(p) = {i}
                                /\ Code(p) = i
                                /\ Failures(p) = tokens[i].attempts

LEMMA MappingHolds == SerialInv => Mapping
<1> SUFFICES ASSUME SerialInv, NEW p \in Phones
             PROVE  /\ Unused(p) = {} => Code(p) = 0 /\ Failures(p) = 0
                    /\ \A i \in Unused(p) : /\ Unused(p) = {i}
                                            /\ Code(p) = i
                                            /\ Failures(p) = tokens[i].attempts
  BY DEF Mapping
<1>1. Unused(p) = {} => Code(p) = 0 /\ Failures(p) = 0
  BY DEF Code, Failures
<1>2. ASSUME NEW i \in Unused(p)
      PROVE  /\ Unused(p) = {i}
             /\ Code(p) = i
             /\ Failures(p) = tokens[i].attempts
  <2>1. Unused(p) = {i}
    BY <1>2 DEF SerialInv, OneEach, Unused
  <2>2. i <= i
    BY <1>2 DEF Unused, SerialInv, CodesInv, CodesTypeOK
  <2>3. Latest(p) = i
    BY <2>1, <2>2 DEF Latest
  <2>4. QED
    BY <2>1, <2>3 DEF Code, Failures
<1>3. QED
  BY <1>1, <1>2

LEMMA MappingKept == SerialInv' => Mapping'
BY MappingHolds, PTL

\* The codes for the other numbers stay as they are.
LEMMA OthersKept ==
    ASSUME SerialInv, [CodesNext]_codeVars, Mapping, Mapping',
           NEW p \in Phones, OnlyCodesOf(p), NEW q \in Phones \ {p}
    PROVE  Code(q)' = Code(q) /\ Failures(q)' = Failures(q)
<1>1. Unused(q)' = Unused(q)
  BY CodesStay DEF SerialInv, OnlyCodesOf, Unused
<1>2. \A i \in Unused(q) : tokens'[i].attempts = tokens[i].attempts
  BY DEF Unused, OnlyCodesOf
<1>3. CASE Unused(q) = {}
  BY <1>1, <1>3 DEF Mapping
<1>4. CASE Unused(q) # {}
  <2> PICK i : i \in Unused(q)
    BY <1>4
  <2>1. Code(q) = i /\ Failures(q) = tokens[i].attempts
    BY DEF Mapping
  <2>2. Code(q)' = i /\ Failures(q)' = tokens'[i].attempts
    BY <1>1 DEF Mapping
  <2>3. QED
    BY <1>2, <2>1, <2>2
<1>5. QED
  BY <1>3, <1>4

CodeMap == [p \in Phones |-> Code(p)]
FailureMap == [p \in Phones |-> Failures(p)]

\* Only p's code changes, to c with n failed verifications.
LEMMA MapsChange ==
    ASSUME SerialInv, [CodesNext]_codeVars, Mapping, Mapping',
           NEW p \in Phones, OnlyCodesOf(p)
    PROVE  /\ CodeMap' = [CodeMap EXCEPT ![p] = Code(p)']
           /\ FailureMap' = [FailureMap EXCEPT ![p] = Failures(p)']
<1>1. \A q \in Phones \ {p} : Code(q)' = Code(q) /\ Failures(q)' = Failures(q)
  BY OthersKept
<1>2. QED
  BY <1>1 DEF CodeMap, FailureMap

LEMMA NothingChanges ==
    ASSUME UNCHANGED <<tokens, accepted>>
    PROVE  UNCHANGED InForce!inForceVars
<1>1. \A p : Unused(p)' = Unused(p)
  BY DEF Unused
<1>2. \A p : Code(p)' = Code(p) /\ Failures(p)' = Failures(p)
  BY DEF Code, Failures, Latest, Unused
<1>3. QED
  BY <1>2 DEF InForce!inForceVars

\* The code in force for p is no longer.
LEMMA CodeEnds ==
    ASSUME SerialInv, [CodesNext]_codeVars, Mapping, Mapping',
           NEW p \in Phones, OnlyCodesOf(p), NEW i \in Unused(p),
           Unused(p)' = {}, Len(tokens') = Len(tokens)
    PROVE  InForce!Ends(p) /\ Code(p) = i
<1>1. Code(p) = i /\ i # 0
  BY DEF Mapping, Unused, SerialInv, CodesInv, CodesTypeOK
<1>2. Code(p)' = 0 /\ Failures(p)' = 0
  BY DEF Mapping
<1>3. /\ CodeMap' = [CodeMap EXCEPT ![p] = 0]
      /\ FailureMap' = [FailureMap EXCEPT ![p] = 0]
      /\ CodeMap[p] # 0
  BY <1>1, <1>2, MapsChange DEF CodeMap
<1>4. QED
  BY <1>1, <1>3 DEF InForce!Ends, CodeMap, FailureMap

LEMMA InForceStep ==
    ASSUME SerialInv, [SerialNext]_codeVars, Mapping, Mapping'
    PROVE  [InForce!Next]_(InForce!inForceVars)
<1>0. [CodesNext]_codeVars
  BY DEF SerialNext
<1>1. CASE UNCHANGED codeVars
  BY <1>1, NothingChanges DEF codeVars
<1>2. ASSUME NEW h \in Handlers, Invalidate(h)
      PROVE  [InForce!Next]_(InForce!inForceVars)
  <2> PICK p : p = handler[h].phone
    OBVIOUS
  <2>1. p \in Phones
    BY <1>2, CallsByAwait
       DEF Invalidate, At, SerialInv, CodesInv, CodesTypeOK
  <2>2. /\ DOMAIN tokens' = DOMAIN tokens
        /\ Len(tokens') = Len(tokens)
        /\ OnlyCodesOf(p)
        /\ \A i \in DOMAIN tokens :
                ~tokens'[i].used => ~tokens[i].used /\ tokens[i].phone # p
    BY <1>2, InvalidateEffect DEF SerialInv
  <2>3. Unused(p)' = {}
    BY <1>0, <2>2, CodesStay DEF Unused, SerialInv
  <2>4. UNCHANGED accepted
    BY <1>2 DEF Invalidate
  <2>5. CASE Unused(p) = {}
    <3>1. Code(p)' = Code(p) /\ Failures(p)' = Failures(p)
      BY <2>1, <2>3, <2>5 DEF Mapping
    <3>2. CodeMap' = CodeMap /\ FailureMap' = FailureMap
      BY <1>0, <2>1, <2>2, <3>1, MapsChange DEF CodeMap, FailureMap
    <3>3. QED
      BY <2>2, <2>4, <3>2 DEF InForce!inForceVars, CodeMap, FailureMap
  <2>6. CASE Unused(p) # {}
    <3>1. InForce!Ends(p)
      BY <1>0, <2>1, <2>2, <2>3, <2>6, CodeEnds
    <3>2. QED
      BY <2>1, <2>4, <3>1 DEF InForce!Next, InForce!Withdraw
  <2>7. QED
    BY <2>5, <2>6
<1>3. ASSUME NEW h \in Handlers, Create(h)
      PROVE  [InForce!Next]_(InForce!inForceVars)
  <2> PICK p : p = handler[h].phone
    OBVIOUS
  <2> PICK n : n = Len(tokens) + 1
    OBVIOUS
  <2>1. p \in Phones /\ Unused(p) = {} /\ Len(tokens) < MaxCodes
        /\ UNCHANGED accepted
    BY <1>3, CallsByAwait
       DEF Create, At, SerialInv, CodesInv, CodesTypeOK, Fresh
  <2>2. /\ DOMAIN tokens' = DOMAIN tokens \cup {n}
        /\ Len(tokens') = n
        /\ tokens'[n].phone = p /\ ~tokens'[n].used /\ tokens'[n].attempts = 0
        /\ OnlyCodesOf(p)
    BY <1>3, CreateEffect DEF SerialInv
  <2>3. n \in Unused(p)'
    BY <2>2 DEF Unused
  <2>4. Code(p)' = n /\ Failures(p)' = 0 /\ Code(p) = 0 /\ Failures(p) = 0
    BY <2>1, <2>2, <2>3 DEF Mapping
  <2>5. /\ CodeMap' = [CodeMap EXCEPT ![p] = n]
        /\ FailureMap' = [FailureMap EXCEPT ![p] = 0]
    BY <1>0, <2>1, <2>2, <2>4, MapsChange
  <2>6. FailureMap' = FailureMap /\ CodeMap[p] = 0
    BY <2>1, <2>4, <2>5 DEF FailureMap, CodeMap
  <2>7. InForce!Issue(p)
    BY <2>1, <2>2, <2>5, <2>6 DEF InForce!Issue, CodeMap, FailureMap
  <2>8. QED
    BY <2>1, <2>7 DEF InForce!Next
<1>4. ASSUME NEW h \in Handlers, Lapse(h) \/ Reject(h) \/ Redeem(h),
             NEW k, k = handler[h].token
      PROVE  /\ k \in DOMAIN tokens
             /\ k \in Unused(tokens[k].phone)
             /\ tokens[k].phone \in Phones
             /\ OnlyCodesOf(tokens[k].phone)
             /\ Len(tokens') = Len(tokens)
             /\ DOMAIN tokens' = DOMAIN tokens
             /\ \A p : p = tokens[k].phone /\ tokens'[k].used
                    => InForce!Ends(p) /\ Code(p) = k
  <2>1. /\ k \in DOMAIN tokens
        /\ ~tokens[k].used
        /\ DOMAIN tokens' = DOMAIN tokens
        /\ Len(tokens') = Len(tokens)
        /\ \A i \in DOMAIN tokens \ {k} : tokens'[i] = tokens[i]
        /\ OnlyCodesOf(tokens[k].phone)
    BY <1>4, WriteEffect
  <2>2. k \in Unused(tokens[k].phone) /\ tokens[k].phone \in Phones
    BY <2>1, TokenFields DEF Unused, SerialInv, CodesInv
  <2>3. ASSUME NEW p, p = tokens[k].phone, tokens'[k].used
        PROVE  InForce!Ends(p) /\ Code(p) = k
    <3>1. Unused(p) = {k} /\ k \in Unused(p)
      BY <2>2, <2>3 DEF Mapping
    <3>2. Unused(p)' = {}
      BY <2>1, <2>3, <3>1 DEF Unused
    <3>3. QED
      BY <1>0, <2>1, <2>2, <2>3, <3>1, <3>2, CodeEnds
  <2>4. QED
    BY <2>1, <2>2, <2>3
<1>5. ASSUME NEW h \in Handlers, Lapse(h)
      PROVE  [InForce!Next]_(InForce!inForceVars)
  <2> PICK k : k = handler[h].token
    OBVIOUS
  <2> PICK p : p = tokens[k].phone
    OBVIOUS
  <2>1. k \in DOMAIN tokens /\ p \in Phones
    BY <1>4, <1>5
  <2>2. tokens'[k].used /\ UNCHANGED accepted
    BY <1>5, <2>1, TokenFields DEF Lapse, Tokens, SerialInv, CodesInv,
       CodesTypeOK
  <2>3. InForce!Ends(p)
    BY <1>4, <1>5, <2>2
  <2>4. QED
    BY <2>1, <2>2, <2>3 DEF InForce!Next, InForce!Withdraw
<1>6. ASSUME NEW h \in Handlers, Redeem(h)
      PROVE  [InForce!Next]_(InForce!inForceVars)
  <2> PICK k : k = handler[h].token
    OBVIOUS
  <2> PICK p : p = tokens[k].phone
    OBVIOUS
  <2>1. k \in DOMAIN tokens /\ p \in Phones
    BY <1>4, <1>6
  <2>2. tokens'[k].used /\ accepted' = [accepted EXCEPT ![k] = @ + 1]
    BY <1>6, <2>1, TokenFields DEF Redeem, Tokens, SerialInv, CodesInv,
       CodesTypeOK
  <2>3. InForce!Ends(p) /\ Code(p) = k
    BY <1>4, <1>6, <2>2
  <2>4. InForce!Accept(p)
    BY <2>1, <2>2, <2>3 DEF InForce!Accept
  <2>5. QED
    BY <2>1, <2>4 DEF InForce!Next
<1>7. ASSUME NEW h \in Handlers, Reject(h)
      PROVE  [InForce!Next]_(InForce!inForceVars)
  <2> PICK k : k = handler[h].token
    OBVIOUS
  <2> PICK p : p = tokens[k].phone
    OBVIOUS
  <2> PICK n : n = handler[h].attempts
    OBVIOUS
  <2>1. /\ k \in DOMAIN tokens /\ k \in Unused(p) /\ p \in Phones
        /\ OnlyCodesOf(p)
        /\ Len(tokens') = Len(tokens)
        /\ DOMAIN tokens' = DOMAIN tokens
    BY <1>4, <1>7
  <2>2. /\ n \in 1..MaxAttempts
        /\ n = tokens[k].attempts + 1
        /\ UNCHANGED accepted
    BY <1>7, CallsByAwait
       DEF Reject, At, SerialInv, CodesInv, CodesTypeOK, Fresh
  <2>3. /\ tokens'[k].attempts = n
        /\ tokens'[k].phone = p
        /\ tokens'[k].used <=> n >= MaxAttempts
    <3> DEFINE b == n >= MaxAttempts
    <3>1. tokens'[k] = [tokens[k] EXCEPT !.attempts = n, !.used = b]
      BY <1>7, <2>1 DEF Reject, SerialInv, CodesInv, CodesTypeOK
    <3>2. tokens[k] \in Tokens
      BY <2>1, TokenFields DEF SerialInv, CodesInv
    <3> HIDE DEF b
    <3> DEFINE t == [tokens[k] EXCEPT !.attempts = n, !.used = b]
    <3>3. t.attempts = n /\ t.phone = p /\ t.used = b
      BY <3>2 DEF Tokens
    <3> HIDE DEF t
    <3>4. tokens'[k] = t
      BY <3>1 DEF t
    <3>5. /\ tokens'[k].attempts = n /\ tokens'[k].phone = p
          /\ tokens'[k].used <=> b
      BY <3>3, <3>4, Zenon
    <3>6. QED
      BY <3>5 DEF b
  <2>4. Code(p) = k /\ Failures(p) + 1 = n /\ k # 0
    BY <2>1, <2>2 DEF Mapping, SerialInv, CodesInv, CodesTypeOK
  <2>5. CASE n >= MaxAttempts
    <3>1. tokens'[k].used
      BY <2>3, <2>5
    <3>2. InForce!Ends(p)
      BY <1>4, <1>7, <3>1
    <3>3. FailureMap[p] + 1 = MaxAttempts
      BY <2>1, <2>2, <2>4, <2>5, AttemptsAssumption DEF FailureMap
    <3>4. InForce!LastFailedVerify(p)
      BY <2>2, <3>2, <3>3
         DEF InForce!LastFailedVerify, InForce!Withdraw, FailureMap
    <3>5. QED
      BY <2>1, <3>4 DEF InForce!Next
  <2>6. CASE n < MaxAttempts
    <3>1. ~(n >= MaxAttempts)
      BY <2>2, <2>6, AttemptsAssumption
    <3>2. k \in Unused(p)'
      BY <2>1, <2>3, <3>1 DEF Unused
    <3>3. Code(p)' = k /\ Failures(p)' = n
      BY <2>1, <2>3, <3>2 DEF Mapping
    <3>4. /\ CodeMap' = [CodeMap EXCEPT ![p] = k]
          /\ FailureMap' = [FailureMap EXCEPT ![p] = n]
      BY <1>0, <2>1, <3>3, MapsChange
    <3>5. /\ CodeMap' = CodeMap
          /\ CodeMap[p] # 0
          /\ FailureMap' = [FailureMap EXCEPT ![p] = @ + 1]
          /\ FailureMap[p] + 1 < MaxAttempts
      BY <2>1, <2>4, <2>6, <3>4 DEF CodeMap, FailureMap
    <3>6. InForce!FailedVerify(p)
      BY <2>1, <2>2, <3>5 DEF InForce!FailedVerify, CodeMap, FailureMap
    <3>7. QED
      BY <2>1, <3>6 DEF InForce!Next
  <2>7. QED
    BY <2>2, <2>5, <2>6, AttemptsAssumption
<1>8. ASSUME NEW k \in DOMAIN tokens, Expire(k)
      PROVE  [InForce!Next]_(InForce!inForceVars)
  <2>1. \A i \in DOMAIN tokens :
            /\ tokens'[i].used = tokens[i].used
            /\ tokens'[i].attempts = tokens[i].attempts
            /\ tokens'[i].phone = tokens[i].phone
    <3> DEFINE t == [tokens[k] EXCEPT !.expired = TRUE]
    <3>1. /\ t.used = tokens[k].used /\ t.attempts = tokens[k].attempts
          /\ t.phone = tokens[k].phone
      BY TokenFields DEF Tokens, SerialInv, CodesInv
    <3> HIDE DEF t
    <3>2. tokens'[k] = t /\ \A i \in DOMAIN tokens \ {k} : tokens'[i] = tokens[i]
      BY <1>8 DEF Expire, t, SerialInv, CodesInv, CodesTypeOK
    <3>3. QED
      BY <3>1, <3>2
  <2>2. DOMAIN tokens' = DOMAIN tokens /\ Len(tokens') = Len(tokens)
        /\ UNCHANGED accepted
    BY <1>8 DEF Expire, SerialInv, CodesInv, CodesTypeOK
  <2>3. \A p : Unused(p)' = Unused(p)
    BY <2>1, <2>2 DEF Unused
  <2>4. \A p \in Phones : Code(p)' = Code(p) /\ Failures(p)' = Failures(p)
    <3> SUFFICES ASSUME NEW p \in Phones
                 PROVE  Code(p)' = Code(p) /\ Failures(p)' = Failures(p)
      OBVIOUS
    <3>1. CASE Unused(p) = {}
      BY <2>3, <3>1 DEF Mapping
    <3>2. CASE Unused(p) # {}
      <4> PICK i : i \in Unused(p)
        BY <3>2
      <4>1. i \in DOMAIN tokens /\ i \in Unused(p)'
        BY <2>3 DEF Unused
      <4>2. QED
        BY <2>1, <4>1 DEF Mapping
    <3>3. QED
      BY <3>1, <3>2
  <2>5. CodeMap' = CodeMap /\ FailureMap' = FailureMap
    BY <2>4 DEF CodeMap, FailureMap
  <2>6. QED
    BY <2>2, <2>5 DEF InForce!inForceVars, CodeMap, FailureMap
<1>9. ASSUME UNCHANGED <<tokens, accepted>>
      PROVE  [InForce!Next]_(InForce!inForceVars)
  BY <1>9, NothingChanges
<1>10. CASE CodesNext
  BY <1>2, <1>3, <1>5, <1>6, <1>7, <1>8, <1>9, <1>10
     DEF CodesNext, SetPhone, SetPhoneWrite, Send, Verify, Flag, Fail
<1>11. QED
  BY <1>0, <1>1, <1>10

LEMMA SerialStart == CodesInit => SerialInv /\ InForce!Init
<1>1. SUFFICES ASSUME CodesInit PROVE SerialInv /\ InForce!Init
  OBVIOUS
<1>2. tokens = <<>> /\ \A h \in Handlers : handler[h] = Idle
  BY <1>1 DEF CodesInit
<1>3. NoOverlap /\ OneEach /\ \A h \in Handlers : Fresh(h)
  BY <1>2 DEF NoOverlap, InHand, OneEach, Fresh, At, Idle
<1>4. \A p : Unused(p) = {}
  BY <1>2 DEF Unused
<1>5. InForce!Init
  BY <1>1, <1>2, <1>4 DEF CodesInit, InForce!Init, Code, Failures
<1>6. QED
  BY <1>1, <1>3, <1>5, CodesStart DEF SerialInv

\* Without overlap the codes of every number follow CodeInForce, for any number
\* of users, numbers and requests.
THEOREM SerialImplementsInForce == SerialSpec => ImplementsCodeInForce
<1>1. SerialSpec => []SerialInv
  BY SerialStart, SerialStep, PTL DEF SerialSpec
<1>2. SerialInv => Mapping
  BY MappingHolds
<1>3. SerialInv /\ Mapping /\ Mapping' /\ [SerialNext]_codeVars
        => [InForce!Next]_(InForce!inForceVars)
  BY InForceStep
<1>4. QED
  BY <1>1, <1>2, <1>3, SerialStart, PTL
     DEF SerialSpec, ImplementsCodeInForce, InForce!Spec

-----------------------------------------------------------------------------
(* A code is accepted once *)

\* A code that was accepted is used up.
AcceptedInv ==
    \A c \in 1..MaxCodes :
        /\ accepted[c] <= 1
        /\ accepted[c] = 1 => c \in DOMAIN tokens /\ tokens[c].used

\* Codes that were used up stay so: the update that may write usedAt as null is
\* about a code not used up yet.
LEMMA UsedStays ==
    ASSUME SerialInv, CodesNext, NEW c \in DOMAIN tokens, tokens[c].used
    PROVE  c \in DOMAIN tokens' /\ tokens'[c].used
<1> USE DEF SerialInv, CodesInv, CodesTypeOK
<1>1. ASSUME NEW h \in Handlers, Invalidate(h)
      PROVE  c \in DOMAIN tokens' /\ tokens'[c].used
  BY <1>1, InvalidateEffect
<1>2. ASSUME NEW h \in Handlers, Create(h)
      PROVE  c \in DOMAIN tokens' /\ tokens'[c].used
  BY <1>2, CreateEffect
<1>3. ASSUME NEW h \in Handlers, Lapse(h) \/ Reject(h) \/ Redeem(h)
      PROVE  c \in DOMAIN tokens' /\ tokens'[c].used
  BY <1>3, WriteEffect
<1>4. ASSUME NEW k \in DOMAIN tokens, Expire(k)
      PROVE  c \in DOMAIN tokens' /\ tokens'[c].used
  <2>1. /\ [tokens[k] EXCEPT !.expired = TRUE] \in Tokens
        /\ [tokens[k] EXCEPT !.expired = TRUE].used = tokens[k].used
    BY TokenFields, TokenChanged, AttemptsAssumption
  <2>2. QED
    BY <1>4, <2>1, TokenWritten DEF Expire
<1>5. QED
  BY <1>1, <1>2, <1>3, <1>4
     DEF CodesNext, SetPhone, SetPhoneWrite, Send, Verify, Flag, Fail

LEMMA AcceptedStep ==
    ASSUME SerialInv, AcceptedInv, CodesNext
    PROVE  AcceptedInv'
<1> USE DEF SerialInv, CodesInv, CodesTypeOK
<1>1. CASE UNCHANGED accepted
  BY <1>1, UsedStays DEF AcceptedInv
<1>2. ASSUME NEW h \in Handlers, Redeem(h)
      PROVE  AcceptedInv'
  <2> PICK k : k = handler[h].token
    OBVIOUS
  <2>1. k \in DOMAIN tokens /\ ~tokens[k].used
    BY <1>2, WriteEffect
  <2>2. k \in 1..MaxCodes /\ accepted[k] \in Nat
    BY <2>1, TokenFields
  <2>3. accepted[k] = 0
    BY <2>1, <2>2 DEF AcceptedInv
  <2>4. accepted' = [accepted EXCEPT ![k] = 1]
    BY <1>2, <2>3 DEF Redeem
  <2>5. k \in DOMAIN tokens' /\ tokens'[k].used
    BY <1>2, <2>1, TokenFields DEF Redeem, Tokens
  <2>6. QED
    BY <2>4, <2>5, UsedStays DEF AcceptedInv
<1>3. QED
  BY <1>1, <1>2
     DEF CodesNext, SetPhone, SetPhoneWrite, Send, Verify, Invalidate, Create,
         Lapse, Reject, Flag, Fail, Expire

\* Without overlap no code is accepted twice, for any number of users, numbers,
\* codes and requests.
THEOREM SerialAcceptsOnce == SerialSpec => []AcceptedOnce
<1>1. CodesInit => AcceptedInv
  BY DEF CodesInit, AcceptedInv
<1>2. SerialInv /\ AcceptedInv /\ [SerialNext]_codeVars => AcceptedInv'
  BY AcceptedStep DEF SerialNext, codeVars, AcceptedInv
<1>3. AcceptedInv => AcceptedOnce
  BY DEF AcceptedInv, AcceptedOnce
<1>4. SerialSpec => []SerialInv
  BY SerialStart, SerialStep, PTL DEF SerialSpec
<1>5. QED
  BY <1>1, <1>2, <1>3, <1>4, PTL DEF SerialSpec

=============================================================================
