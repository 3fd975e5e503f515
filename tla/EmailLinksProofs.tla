-------------------------- MODULE EmailLinksProofs --------------------------
(***************************************************************************)
(* Proofs about EmailLinks for any users, links and requests: type          *)
(* correctness, OneGoodLink and LinkAvailable.                              *)
(***************************************************************************)
EXTENDS EmailLinks, TLAPS

USE DEF At, Await, Return

-----------------------------------------------------------------------------
(* Types *)

\* What a request has in hand, by the await it is at.
LEMMA CallsByAwait ==
    ASSUME NEW call \in Calls
    PROVE  /\ call.pc \in {"invalidate", "create"} => call.user \in Users
           /\ call.pc \in {"dispatch", "sendNow", "redeem"} => call.link \in Links
BY DEF Calls, Idle

LEMMA CallTypes ==
    /\ Idle \in Calls
    /\ \A u \in Users, pc \in {"invalidate", "create"} :
            [pc |-> pc, user |-> u] \in Calls
    /\ \A l \in Links, pc \in {"dispatch", "sendNow", "redeem"} :
            [pc |-> pc, link |-> l] \in Calls
BY DEF Calls

\* Links and requests that belong to nobody do nothing.
Owned ==
    /\ \A l \in used \cup expired \cup Known : owner[l] # NoUser
    /\ \A h \in Handlers : handler[h].pc \in {"dispatch", "sendNow", "redeem"} =>
                            owner[handler[h].link] # NoUser

LEMMA MailTypes ==
    ASSUME MailTypeOK, MailStep
    PROVE  MailTypeOK'
<1>1. PICK m \in Messages : Work(m) \/ Stalls(m)
  BY DEF MailStep
<1>2. left[m] \in 0..Attempts /\ Attempts \in Nat
  BY AttemptsAssumption DEF MailTypeOK
<1>3. QED
  BY <1>1, <1>2
     DEF MailTypeOK, Work, Stalls, Process, AttemptFails, Send

LEMMA EnqueueTypes ==
    ASSUME MailTypeOK, NEW m \in Messages, Enqueue(m)
    PROVE  MailTypeOK'
BY AttemptsAssumption DEF MailTypeOK, Enqueue

LEMMA RequestTypes ==
    ASSUME LinksTypeOK, Owned, NEW h \in Handlers, RequestStep(h)
    PROVE  LinksTypeOK'
<1>1. handler[h] \in Calls
  BY DEF LinksTypeOK
<1>2. handler' \in [Handlers -> Calls]
  BY <1>1, CallsByAwait, CallTypes
     DEF LinksTypeOK, RequestStep, Register, Resend, Invalidate, Create,
         Dispatch, DispatchFails, SendNow, Verify, Redeem, Fail
<1>3. MailTypeOK'
  <2>1. CASE UNCHANGED mailVars
    BY <2>1 DEF LinksTypeOK, MailTypeOK, mailVars
  <2>2. CASE Dispatch(h) \/ DispatchFails(h)
    <3>1. handler[h].link \in Messages
      BY <1>1, <2>2, CallsByAwait, MessagesAssumption DEF Dispatch,
         DispatchFails
    <3>2. Enqueue(handler[h].link) \/ UNCHANGED mailVars
      BY <2>2 DEF Dispatch, DispatchFails
    <3>3. QED
      BY <2>1, <3>1, <3>2, EnqueueTypes DEF LinksTypeOK
  <2>3. CASE SendNow(h)
    BY <1>1, <2>3, CallsByAwait, MessagesAssumption
       DEF SendNow, Send, LinksTypeOK, MailTypeOK
  <2>4. QED
    BY <2>1, <2>2, <2>3
       DEF RequestStep, Register, Resend, Invalidate, Create, Verify, Redeem,
          Fail
<1>4. registered' \subseteq Users /\ expired' \subseteq Links /\ used' \subseteq Links
  BY <1>1, CallsByAwait
     DEF LinksTypeOK, RequestStep, Register, Resend, Invalidate, Create,
         Dispatch, DispatchFails, SendNow, Verify, Redeem, Fail, linkRows
<1>5. owner' \in [Links -> Users \cup {NoUser}]
  BY <1>1, CallsByAwait
     DEF LinksTypeOK, RequestStep, Register, Resend, Invalidate, Create,
         Dispatch, DispatchFails, SendNow, Verify, Redeem, Fail, linkRows
<1>6. verified' \subseteq Users
  <2>1. CASE Redeem(h)
    <3>1. handler[h].link \in Links /\ owner[handler[h].link] # NoUser
      BY <1>1, <2>1, CallsByAwait DEF Redeem, Owned
    <3>2. QED
      BY <2>1, <3>1 DEF Redeem, LinksTypeOK
  <2>2. QED
    BY <2>1
       DEF LinksTypeOK, RequestStep, Register, Resend, Invalidate, Create,
           Dispatch, DispatchFails, SendNow, Verify, Fail, linkRows
<1>7. crossed' \subseteq Users /\ stranded' \subseteq Users
  BY <1>1, CallsByAwait
     DEF LinksTypeOK, RequestStep, Register, Resend, Invalidate, Create,
         Dispatch, DispatchFails, SendNow, Verify, Redeem, Fail, history
<1>8. QED
  BY <1>2, <1>3, <1>4, <1>5, <1>6, <1>7 DEF LinksTypeOK

LEMMA RequestOwned ==
    ASSUME LinksTypeOK, Owned, NEW h \in Handlers, RequestStep(h)
    PROVE  Owned'
<1>0. handler[h] \in Calls
  BY DEF LinksTypeOK
<1>1. \A l \in Links : owner[l] # NoUser => owner'[l] # NoUser
  <2>1. \A l \in Links : owner[l] # NoUser => owner'[l] = owner[l]
    BY DEF LinksTypeOK, RequestStep, Register, Resend, Invalidate, Create,
           Dispatch, DispatchFails, SendNow, Verify, Redeem, Fail, linkRows
  <2>2. QED
    BY <2>1
<1>2. \A l \in used' \cup expired' : l \in Links /\ owner'[l] # NoUser
  <2>1. CASE Invalidate(h)
    BY <1>0, <1>1, <2>1, CallsByAwait, NoUserAssumption
       DEF Invalidate, Owned, LinksTypeOK
  <2>2. CASE Redeem(h)
    BY <1>0, <1>1, <2>2, CallsByAwait DEF Redeem, Owned, LinksTypeOK
  <2>3. QED
    BY <1>1, <2>1, <2>2
       DEF Owned, LinksTypeOK, RequestStep, Register, Resend, Create, Dispatch,
           DispatchFails, SendNow, Verify, Fail, linkRows
<1>3. \A l \in Known' : l \in Links /\ owner'[l] # NoUser
  <2>1. \A l \in Known : l \in Links /\ owner[l] # NoUser
    BY MessagesAssumption DEF Owned, Known, LinksTypeOK, MailTypeOK
  <2>2. CASE UNCHANGED mailVars
    BY <1>1, <2>1, <2>2 DEF Known, mailVars
  <2>3. CASE Dispatch(h) \/ DispatchFails(h) \/ SendNow(h)
    <3>1. handler[h].link \in Links /\ owner[handler[h].link] # NoUser
      BY <1>0, <2>3, CallsByAwait DEF Dispatch, DispatchFails, SendNow, Owned
    <3>2. Known' \subseteq Known \cup {handler[h].link}
      BY <2>3, MessagesAssumption
         DEF Dispatch, DispatchFails, SendNow, Known, Enqueue, Send,
            LinksTypeOK,
             MailTypeOK, mailVars
    <3>3. QED
      BY <1>1, <2>1, <3>1, <3>2
  <2>4. QED
    BY <2>2, <2>3
       DEF RequestStep, Register, Resend, Invalidate, Create, Verify, Redeem,
          Fail
<1>4. \A g \in Handlers :
        handler'[g].pc \in {"dispatch", "sendNow", "redeem"} =>
            owner'[handler'[g].link] # NoUser
  <2>1. ASSUME NEW g \in Handlers \ {h}
        PROVE  handler'[g].pc \in {"dispatch", "sendNow", "redeem"} =>
                    owner'[handler'[g].link] # NoUser
    <3>1. handler'[g] = handler[g] /\ handler[g] \in Calls
      BY DEF LinksTypeOK, RequestStep, Register, Resend, Invalidate, Create,
             Dispatch, DispatchFails, SendNow, Verify, Redeem, Fail
    <3>2. QED
      BY <1>1, <3>1, CallsByAwait DEF Owned
  <2>2. CASE \E l \in Links : Create(h, l)
    <3>1. PICK l \in Links : Create(h, l)
      BY <2>2
    <3>2. handler[h].user \in Users /\ handler'[h].link = l
      BY <1>0, <3>1, CallsByAwait DEF Create, LinksTypeOK
    <3>3. owner'[l] # NoUser
      BY <3>1, <3>2, NoUserAssumption DEF Create, LinksTypeOK
    <3>4. QED
      BY <2>1, <3>2, <3>3
  <2>3. CASE \E l \in Links : Verify(h, l)
    <3>1. PICK l \in Links : Verify(h, l)
      BY <2>3
    <3>2. handler'[h].link = l /\ l \in Known
      BY <3>1 DEF Verify, Known, LinksTypeOK
    <3>3. QED
      BY <1>1, <2>1, <3>2 DEF Owned
  <2>4. CASE DispatchFails(h)
    <3>1. handler'[h].link = handler[h].link /\ handler[h].link \in Links
      BY <1>0, <2>4, CallsByAwait DEF DispatchFails, LinksTypeOK
    <3>2. QED
      BY <1>1, <2>1, <2>4, <3>1 DEF DispatchFails, Owned
  <2>5. CASE handler'[h].pc \notin {"dispatch", "sendNow", "redeem"}
    BY <2>1, <2>5
  <2>6. QED
    BY <2>2, <2>3, <2>4, <2>5
       DEF LinksTypeOK, RequestStep, Register, Resend, Invalidate, Dispatch,
           SendNow, Redeem, Fail, Idle
<1>5. QED
  BY <1>2, <1>3, <1>4 DEF Owned

LEMMA StepTypes ==
    ASSUME LinksTypeOK, Owned, [LinksNext]_linkVars
    PROVE  LinksTypeOK' /\ Owned'
<1>1. CASE \E h \in Handlers : RequestStep(h)
  BY <1>1, RequestTypes, RequestOwned
<1>2. CASE \E l \in Links : Expire(l)
  BY <1>2 DEF Expire, LinksTypeOK, Owned, MailTypeOK, Known, history, mailVars
<1>3. CASE MailStep /\ UNCHANGED <<linkRows, handler, history>>
  <2>1. MailTypeOK'
    BY <1>3, MailTypes DEF LinksTypeOK
  <2>2. Known' \subseteq Known
    BY <1>3, AttemptsAssumption
       DEF MailStep, Work, Stalls, Process, AttemptFails, Send, Known,
           LinksTypeOK, MailTypeOK
  <2>3. QED
    BY <1>3, <2>1, <2>2 DEF LinksTypeOK, Owned, linkRows, history
<1>4. CASE UNCHANGED linkVars
  BY <1>4
     DEF linkVars, linkRows, history, mailVars, LinksTypeOK, Owned, MailTypeOK,
         Known
<1>5. QED
  BY <1>1, <1>2, <1>3, <1>4 DEF LinksNext

LEMMA TypesAndOwners == LinksSpec => [](LinksTypeOK /\ Owned)
<1>1. LinksInit => LinksTypeOK /\ Owned
  BY CallTypes, AttemptsAssumption
     DEF LinksInit, MailInit, LinksTypeOK, Owned, MailTypeOK, Known, Idle
<1>2. LinksTypeOK /\ Owned /\ [LinksNext]_linkVars => (LinksTypeOK /\ Owned)'
  BY StepTypes
<1>3. QED
  BY <1>1, <1>2, PTL DEF LinksSpec

\* Every variable keeps its type.
THEOREM LinkTypesHold == LinksSpec => []LinksTypeOK
BY TypesAndOwners, PTL

-----------------------------------------------------------------------------
(* The latest link *)

\* Unless issuances crossed, a user has no working link while one is to be
\* created, and at most one otherwise.
LoneInv ==
    \A u \in Users \ crossed :
        /\ \A l, k \in Good(u) : l = k
        /\ Creating(u) # {} => Good(u) = {}

\* The other requests keep what they have in hand.
LEMMA OthersKept ==
    ASSUME LinksTypeOK, NEW h \in Handlers, RequestStep(h)
    PROVE  \A g \in Handlers \ {h} : handler'[g] = handler[g]
BY DEF LinksTypeOK, RequestStep, Register, Resend, Invalidate, Create, Dispatch,
       DispatchFails, SendNow, Verify, Redeem, Fail

LEMMA RequestLone ==
    ASSUME LinksTypeOK, Owned, LoneInv, NEW h \in Handlers, RequestStep(h)
    PROVE  LoneInv'
<1>0. handler[h] \in Calls /\ \A g \in Handlers \ {h} : handler'[g] = handler[g]
  BY OthersKept DEF LinksTypeOK
\* Steps that neither issue a link nor come between the two queries.
<1>1. ASSUME UNCHANGED <<owner, expired, crossed>>, used \subseteq used',
             handler'[h].pc # "create"
      PROVE  LoneInv'
  <2>1. \A u \in Users : Good(u)' \subseteq Good(u)
    BY <1>1 DEF Good
  <2>2. \A u \in Users : Creating(u)' \subseteq Creating(u)
    BY <1>0, <1>1 DEF Creating
  <2>3. QED
    BY <1>1, <2>1, <2>2 DEF LoneInv
<1>2. CASE Invalidate(h)
  <2>1. PICK u : u = handler[h].user
    OBVIOUS
  <2>2. /\ u \in Users
        /\ used' = used \cup {l \in Links : owner[l] = u}
        /\ crossed' = (IF Creating(u) = {} THEN crossed \ {u} ELSE crossed)
        /\ UNCHANGED <<owner, expired>>
        /\ handler'[h].user = u
    BY <1>0, <1>2, <2>1, CallsByAwait DEF Invalidate, LinksTypeOK
  <2>3. Good(u)' = {}
    BY <2>2 DEF Good
  <2>4. ASSUME NEW v \in Users \ crossed', v # u
        PROVE  /\ \A l, k \in Good(v)' : l = k
               /\ Creating(v)' # {} => Good(v)' = {}
    <3>1. v \in Users \ crossed /\ Good(v)' \subseteq Good(v)
      BY <2>2, <2>4 DEF Good
    <3>2. Creating(v)' \subseteq Creating(v)
      BY <1>0, <2>2, <2>4 DEF Creating
    <3>3. QED
      BY <3>1, <3>2 DEF LoneInv
  <2>5. QED
    BY <2>3, <2>4 DEF LoneInv
<1>3. CASE \E l \in Links : Create(h, l)
  <2>1. PICK n \in Links : Create(h, n)
    BY <1>3
  <2>2. PICK u : u = handler[h].user
    OBVIOUS
  <2>3. /\ u \in Users /\ u # NoUser
        /\ owner[n] = NoUser
        /\ owner' = [owner EXCEPT ![n] = u]
        /\ crossed' = (IF Creating(u) = {h} THEN crossed ELSE crossed \cup {u})
        /\ UNCHANGED <<used, expired>>
        /\ handler'[h].pc = "dispatch"
        /\ h \in Creating(u)
    BY <1>0, <2>1, <2>2, CallsByAwait, NoUserAssumption
       DEF Create, LinksTypeOK, Creating
  <2>4. ASSUME NEW v \in Users \ crossed'
        PROVE  /\ \A l, k \in Good(v)' : l = k
               /\ Creating(v)' # {} => Good(v)' = {}
    <3>1. v \in Users \ crossed /\ Creating(v)' \subseteq Creating(v) \ {h}
      BY <1>0, <2>3 DEF Creating
    <3>2. CASE v = u
      <4>1. Creating(u) = {h} /\ Good(u) = {}
        BY <2>3, <3>1, <3>2 DEF LoneInv
      <4>2. Creating(v)' = {}
        BY <3>1, <3>2, <4>1
      <4>3. Good(v)' \subseteq Good(u) \cup {n}
        BY <2>3, <3>2 DEF Good, LinksTypeOK
      <4>4. QED
        BY <4>1, <4>2, <4>3
    <3>3. CASE v # u
      <4>1. Good(v)' = Good(v)
        BY <2>3, <3>3, NoUserAssumption DEF Good, LinksTypeOK
      <4>2. QED
        BY <3>1, <4>1 DEF LoneInv
    <3>4. QED
      BY <3>2, <3>3
  <2>5. QED
    BY <2>4 DEF LoneInv
<1>4. CASE \/ Dispatch(h) \/ DispatchFails(h) \/ SendNow(h) \/ Redeem(h) \/ Fail(h)
           \/ \E l \in Links : Verify(h, l)
           \/ \E u \in Users : Register(h, u) \/ Resend(h, u)
  BY <1>1, <1>4
     DEF Dispatch, DispatchFails, SendNow, Redeem, Fail, Verify, Register,
         Resend, linkRows, history, Idle, LinksTypeOK
<1>5. QED
  BY <1>2, <1>3, <1>4 DEF RequestStep

LEMMA StepLone ==
    ASSUME LinksTypeOK, Owned, LoneInv, [LinksNext]_linkVars
    PROVE  LoneInv'
<1>1. CASE \E h \in Handlers : RequestStep(h)
  BY <1>1, RequestLone
<1>2. CASE \E l \in Links : Expire(l)
  <2>1. \A u \in Users : Good(u)' \subseteq Good(u) /\ Creating(u)' = Creating(u)
    BY <1>2 DEF Expire, Good, Creating
  <2>2. QED
    BY <1>2, <2>1 DEF Expire, LoneInv, history
<1>3. CASE UNCHANGED <<linkRows, handler, history>>
  BY <1>3 DEF LoneInv, Good, Creating, linkRows, history
<1>4. QED
  BY <1>1, <1>2, <1>3 DEF LinksNext, linkVars

\* Only the latest link works, unless issuances crossed.
THEOREM LatestLinkAlone == LinksSpec => []OneGoodLink
<1>1. LinksInit => LoneInv
  BY NoUserAssumption DEF LinksInit, LoneInv, Good, Creating, Idle
<1>2. LinksTypeOK /\ Owned /\ LoneInv /\ [LinksNext]_linkVars => LoneInv'
  BY StepLone
<1>3. LoneInv => OneGoodLink
  BY DEF LoneInv, OneGoodLink
<1>4. QED
  BY TypesAndOwners, <1>1, <1>2, <1>3, PTL DEF LinksSpec

-----------------------------------------------------------------------------
(* A link for everyone *)

LEMMA RequestAvailable ==
    ASSUME LinksTypeOK, Owned, LinkAvailable, NEW h \in Handlers, RequestStep(h)
    PROVE  LinkAvailable'
<1>0. handler[h] \in Calls /\ \A g \in Handlers \ {h} : handler'[g] = handler[g]
  BY OthersKept DEF LinksTypeOK
<1>1. \A u \in Users : Issuing(u) \ {h} \subseteq Issuing(u)'
  BY <1>0 DEF Issuing
\* Steps of requests that issue nothing.
<1>2. ASSUME UNCHANGED <<registered, owner, used, expired>>,
             verified \subseteq verified', stranded \subseteq stranded',
             \A u \in Users \ stranded' : h \notin Issuing(u)
      PROVE  LinkAvailable'
  <2>1. \A u \in Users : Good(u)' = Good(u)
    BY <1>2 DEF Good
  <2>2. \A u \in Users \ stranded' : Issuing(u) \subseteq Issuing(u)'
    BY <1>1, <1>2
  <2>3. QED
    BY <1>2, <2>1, <2>2 DEF LinkAvailable, LinksTypeOK
<1>3. CASE \E u \in Users : Register(h, u) \/ Resend(h, u)
  <2>1. PICK u \in Users : Register(h, u) \/ Resend(h, u)
    BY <1>3
  <2>2. /\ registered' \subseteq registered \cup {u}
        /\ UNCHANGED <<verified, owner, used, expired, stranded>>
        /\ h \in Issuing(u)'
        /\ \A v \in Users : h \notin Issuing(v)
    BY <2>1 DEF Register, Resend, linkRows, history, Issuing, LinksTypeOK
  <2>3. \A v \in Users : Good(v)' = Good(v) /\ Issuing(v) \subseteq Issuing(v)'
    BY <1>1, <2>2 DEF Good
  <2>4. QED
    BY <2>2, <2>3 DEF LinkAvailable, LinksTypeOK
<1>4. CASE Invalidate(h)
  <2>1. PICK u : u = handler[h].user
    OBVIOUS
  <2>2. /\ u \in Users
        /\ used' = used \cup {l \in Links : owner[l] = u}
        /\ UNCHANGED <<registered, verified, owner, expired, stranded>>
        /\ handler'[h].user = u /\ handler'[h].pc = "create"
    BY <1>0, <1>4, <2>1, CallsByAwait DEF Invalidate, LinksTypeOK
  <2>3. h \in Issuing(u)'
    BY <2>2 DEF Issuing
  <2>4. \A v \in Users \ {u} : Good(v)' = Good(v) /\ h \notin Issuing(v)
    BY <2>1, <2>2 DEF Good, Issuing
  <2>5. QED
    BY <1>1, <2>2, <2>3, <2>4 DEF LinkAvailable, LinksTypeOK
<1>5. CASE \E l \in Links : Create(h, l)
  <2>1. PICK n \in Links : Create(h, n)
    BY <1>5
  <2>2. PICK u : u = handler[h].user
    OBVIOUS
  <2>3. /\ u \in Users /\ u # NoUser
        /\ owner[n] = NoUser
        /\ owner' = [owner EXCEPT ![n] = u]
        /\ UNCHANGED <<registered, verified, used, expired>>
        /\ stranded' = stranded \ {u}
    BY <1>0, <2>1, <2>2, CallsByAwait, NoUserAssumption DEF Create
  <2>4. n \in Good(u)'
    BY <2>3 DEF Good, Owned, LinksTypeOK
  <2>5. \A v \in Users \ {u} : Good(v) \subseteq Good(v)' /\ h \notin Issuing(v)
    BY <2>2, <2>3, NoUserAssumption DEF Good, Issuing, LinksTypeOK
  <2>6. \A l \in expired : owner'[l] = owner[l]
    BY <2>3 DEF Owned, LinksTypeOK
  <2>7. QED
    BY <1>1, <2>3, <2>4, <2>5, <2>6 DEF LinkAvailable, LinksTypeOK
<1>6. CASE Redeem(h)
  <2>1. PICK n \in Links : n = handler[h].link
    BY <1>0, <1>6, CallsByAwait DEF Redeem
  <2>2. /\ used' = used \cup {n}
        /\ verified' = verified \cup {owner[n]}
        /\ UNCHANGED <<registered, owner, expired, stranded>>
        /\ \A u \in Users : h \notin Issuing(u)
    BY <1>6, <2>1 DEF Redeem, history, Issuing
  <2>3. \A v \in Users : v # owner[n] => Good(v)' = Good(v)
    BY <2>2 DEF Good
  <2>4. QED
    BY <1>1, <2>2, <2>3 DEF LinkAvailable, LinksTypeOK
<1>7. CASE Fail(h)
  <2>1. \A u \in Users \ stranded' : h \notin Issuing(u)
    BY <1>7 DEF Fail
  <2>2. QED
    BY <1>2, <1>7, <2>1 DEF Fail, linkRows
<1>8. CASE Dispatch(h) \/ DispatchFails(h) \/ SendNow(h)
           \/ \E l \in Links : Verify(h, l)
  <2>1. handler[h].pc \in {"idle", "dispatch", "sendNow"}
    BY <1>8 DEF Dispatch, DispatchFails, SendNow, Verify
  <2>2. \A u \in Users : h \notin Issuing(u)
    BY <2>1 DEF Issuing
  <2>3. QED
    BY <1>2, <1>8, <2>2
       DEF Dispatch, DispatchFails, SendNow, Verify, linkRows, history
<1>9. QED
  BY <1>3, <1>4, <1>5, <1>6, <1>7, <1>8 DEF RequestStep

LEMMA StepAvailable ==
    ASSUME LinksTypeOK, Owned, LinkAvailable, [LinksNext]_linkVars
    PROVE  LinkAvailable'
<1>1. CASE \E h \in Handlers : RequestStep(h)
  BY <1>1, RequestAvailable
<1>2. CASE \E l \in Links : Expire(l)
  <2>1. PICK n \in Links : Expire(n)
    BY <1>2
  <2>2. /\ expired' = expired \cup {n}
        /\ UNCHANGED <<registered, verified, owner, used, handler, stranded>>
    BY <2>1 DEF Expire, history
  <2>3. ASSUME NEW u \in Users, u \in registered \ (verified \cup stranded)
        PROVE  \/ Good(u)' # {}
               \/ Issuing(u)' # {}
               \/ \E l \in expired' : owner'[l] = u
    <3>1. CASE n \in Good(u)
      <4>1. n \in expired' /\ owner'[n] = u
        BY <2>2, <3>1 DEF Good
      <4>2. QED
        BY <4>1
    <3>2. CASE Good(u) # {} /\ n \notin Good(u)
      <4>1. PICK l \in Links : l \in Good(u)
        BY <3>2 DEF Good
      <4>2. l \in Good(u)'
        BY <2>2, <3>2, <4>1 DEF Good
      <4>3. QED
        BY <4>2
    <3>3. CASE Issuing(u) # {}
      <4>1. Issuing(u)' = Issuing(u)
        BY <2>2 DEF Issuing
      <4>2. QED
        BY <3>3, <4>1
    <3>4. CASE \E l \in expired : owner[l] = u
      BY <2>2, <3>4
    <3>5. QED
      BY <2>3, <3>1, <3>2, <3>3, <3>4 DEF LinkAvailable
  <2>4. registered' = registered /\ verified' = verified
        /\ stranded' = stranded /\ registered \subseteq Users
    BY <2>2 DEF LinksTypeOK
  <2>5. QED
    BY <2>3, <2>4 DEF LinkAvailable
<1>3. CASE UNCHANGED <<linkRows, handler, history>>
  BY <1>3 DEF LinkAvailable, Good, Issuing, linkRows, history
<1>4. QED
  BY <1>1, <1>2, <1>3 DEF LinksNext, linkVars

\* A user without a working link is confirmed, late, or owed one.
THEOREM LinkAlwaysAvailable == LinksSpec => []LinkAvailable
<1>1. LinksInit => LinkAvailable
  BY DEF LinksInit, LinkAvailable
<1>2. LinksTypeOK /\ Owned /\ LinkAvailable /\ [LinksNext]_linkVars
        => LinkAvailable'
  BY StepAvailable
<1>3. QED
  BY TypesAndOwners, <1>1, <1>2, PTL DEF LinksSpec

=============================================================================
