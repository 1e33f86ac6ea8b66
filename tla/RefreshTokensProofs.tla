------------------------- MODULE RefreshTokensProofs -------------------------
(***************************************************************************)
(* Proofs about RefreshTokens, for all values of its constants: the type   *)
(* invariant, and the inductive invariant IInv from which follow           *)
(* RemovedStaysRemoved, UsedTokenServedInGrace and UsedTokenIsScheduled;   *)
(* and LInv, which says whose the tokens are and from which follow         *)
(* IdleClientHoldsLiveToken and NoAbandonedToken.                          *)
(***************************************************************************)
EXTENDS RefreshTokens, TLAPS

(***************************************************************************)
(* Requests: each way of changing one keeps its type.                      *)
(***************************************************************************)

LEMMA IdleTyped == Idle \in Request
BY NoneAssumption DEF Idle, Request, Kinds, Forms, Results

LEMMA SentTyped ==
    ASSUME NEW kind \in Kinds, NEW sess \in Nat \cup {None}, NEW ok \in BOOLEAN,
           NEW form \in Forms, NEW sel \in Selectors \cup {None}
    PROVE  [Idle EXCEPT !.pc = "begin", !.kind = kind, !.sess = sess,
               !.sessOk = ok, !.form = form, !.sel = sel] \in Request
BY IdleTyped DEF Request

LEMMA RotatedTyped ==
    ASSUME NEW q \in Request, NEW s \in Selectors, NEW d \in Records,
           NEW e \in Nat, NEW result \in Results
    PROVE  [q EXCEPT !.pc = "store", !.fresh = s, !.found = None,
               !.data = d, !.setSess = e, !.result = result] \in Request
BY DEF Request

LEMMA RepliedTyped ==
    ASSUME NEW q \in Request, NEW e \in Nat \cup {None}, NEW result \in Results
    PROVE  [q EXCEPT !.pc = "reply", !.found = None, !.setSess = e,
               !.result = result] \in Request
BY DEF Request

LEMMA AwaitTyped ==
    ASSUME NEW q \in Request, NEW pc \in {"lookup", "remove"},
           NEW result \in Results
    PROVE  [q EXCEPT !.pc = pc, !.found = None, !.result = result] \in Request
BY DEF Request

LEMMA LookedUpTyped ==
    ASSUME NEW q \in Request, NEW d \in Records \cup {None}
    PROVE  [q EXCEPT !.pc = "check", !.found = d] \in Request
BY DEF Request

LEMMA StoredTyped ==
    ASSUME NEW q \in Request
    PROVE  [q EXCEPT !.pc = "reply", !.data = None] \in Request
BY DEF Request

(***************************************************************************)
(* The type invariant.  That the selector of a decodable token is not None *)
(* is part of it, so RequestShape is proved along with TypeOK.             *)
(***************************************************************************)

TypeInv == TypeOK /\ RequestShape

LEMMA ReplyTyped ==
    ASSUME TypeInv, NEW r \in Requests, NEW e \in Nat \cup {None},
           NEW result \in Results, Reply(r, result, e),
           req[r].pc \in {"begin", "check", "remove"},
           result = "TokenNotFound" => req[r].sel # None
    PROVE  req' \in [Requests -> Request] /\ RequestShape'
<1>1. req[r] \in Request
  BY DEF TypeInv, TypeOK
<1>2. [req[r] EXCEPT !.pc = "reply", !.found = None, !.setSess = e,
          !.result = result] \in Request
  BY <1>1, RepliedTyped
<1>3. req' \in [Requests -> Request]
  BY <1>2 DEF TypeInv, TypeOK, Reply
<1>4. RequestShape'
  BY <1>1 DEF TypeInv, TypeOK, RequestShape, Reply, Request
<1> QED
  BY <1>3, <1>4

LEMMA AwaitingTyped ==
    ASSUME TypeInv, NEW r \in Requests, NEW pc \in {"lookup", "remove"},
           NEW result \in Results \ {"TokenNotFound"}, Await(r, pc, result),
           req[r].pc \in {"begin", "check"}, req[r].sel # None
    PROVE  req' \in [Requests -> Request] /\ RequestShape'
<1>1. req[r] \in Request
  BY DEF TypeInv, TypeOK
<1>2. [req[r] EXCEPT !.pc = pc, !.found = None, !.result = result] \in Request
  BY <1>1, AwaitTyped
<1>3. req' \in [Requests -> Request]
  BY <1>2 DEF TypeInv, TypeOK, Await
<1>4. RequestShape'
  BY <1>1 DEF TypeInv, TypeOK, RequestShape, Await, Request
<1> QED
  BY <1>3, <1>4

(* storage.remove keeps the types of the storage. *)
LEMMA RemoveTyped ==
    ASSUME TypeInv, NEW S, NEW why \in Reasons, Remove(S, why)
    PROVE  /\ store' \in [Selectors -> Records \cup {None}]
           /\ gone' \in [Selectors -> Reasons]
BY DEF TypeInv, TypeOK, Remove

(* What rotateToken does, with the selector it draws picked. *)
LEMMA RotateTyped ==
    ASSUME TypeInv, NEW r \in Requests, NEW user \in Clients,
           NEW result \in Results \ {"TokenNotFound"}, Rotate(r, user, result)
    PROVE  /\ store' \in [Selectors -> Records \cup {None}]
           /\ gone' \in [Selectors -> Reasons]
           /\ timers' \subseteq TimerSet
           /\ req' \in [Requests -> Request]
           /\ RequestShape'
           /\ issued' \subseteq Selectors
           /\ usedAt' \in [Selectors -> Nat \cup {None}]
<1>. DEFINE old == DecodedSelectors(req[r])
<1>1. PICK s \in FreshSelectors :
         /\ issued' = issued \cup {s}
         /\ req' = [req EXCEPT ![r] =
                    [req[r] EXCEPT !.pc = "store", !.fresh = s, !.found = None,
                       !.data = NewRecord(user),
                       !.setSess = SessionExpiry, !.result = result]]
         /\ usedAt' = [x \in Selectors |->
                       IF x \in old /\ usedAt[x] = None THEN now ELSE usedAt[x]]
         /\ IF ImmediateSchedule
            THEN Remove(old, "timer") /\ UNCHANGED timers
            ELSE /\ timers' = timers \cup ScheduledRemovals(old)
                 /\ UNCHANGED <<store, gone>>
  BY DEF Rotate
<1>2. old \subseteq Selectors
  BY DEF TypeInv, TypeOK, RequestShape, Request, DecodedSelectors
<1>3. /\ NewRecord(user) \in Records
      /\ SessionExpiry \in Nat
      /\ RemovalTime \in Nat
  BY ConfigAssumption
  DEF TypeInv, TypeOK, Records, NewRecord, SessionExpiry, RemovalTime
<1>4. req[r] \in Request
  BY DEF TypeInv, TypeOK
<1>5. s \in Selectors /\ s # None
  BY NoneAssumption DEF FreshSelectors
<1>6. [req[r] EXCEPT !.pc = "store", !.fresh = s, !.found = None,
          !.data = NewRecord(user),
          !.setSess = SessionExpiry, !.result = result] \in Request
  BY <1>3, <1>4, <1>5, RotatedTyped
<1>7. req' \in [Requests -> Request]
  BY <1>1, <1>6 DEF TypeInv, TypeOK
<1>8. RequestShape'
  BY <1>1, <1>3, <1>4, <1>5, NoneAssumption
  DEF TypeInv, TypeOK, RequestShape, Request
<1>9. /\ store' \in [Selectors -> Records \cup {None}]
      /\ gone' \in [Selectors -> Reasons]
      /\ timers' \subseteq TimerSet
  <2>1. CASE ImmediateSchedule
    BY <2>1, <1>1, RemoveTyped DEF TypeInv, TypeOK, Reasons
  <2>2. CASE ~ImmediateSchedule
    BY <2>2, <1>1, <1>2, <1>3 DEF TypeInv, TypeOK, TimerSet, ScheduledRemovals
  <2> QED
    BY <2>1, <2>2
<1>10. issued' \subseteq Selectors /\ usedAt' \in [Selectors -> Nat \cup {None}]
  BY <1>1, <1>5 DEF TypeInv, TypeOK
<1> QED
  BY <1>7, <1>8, <1>9, <1>10

LEMMA TypeInit == Init => TypeInv
<1>. SUFFICES ASSUME Init
              PROVE  TypeInv
  OBVIOUS
<1>1. req \in [Requests -> Request]
  BY IdleTyped DEF Init
<1>2. RequestShape
  BY DEF Init, RequestShape, Idle
<1> QED
  BY <1>1, <1>2 DEF Init, TypeInv, TypeOK, Reasons

LEMMA TypeStep == TypeInv /\ [Next]_vars => TypeInv'
<1>. SUFFICES ASSUME TypeInv, [Next]_vars
              PROVE  TypeInv'
  OBVIOUS
<1>. USE DEF history, trouble
<1>1. ASSUME NEW c \in Clients, NEW i \in Slots, Send(c, i)
      PROVE  TypeInv'
  <2>1. PICK kind \in Kinds, form \in ArrivingForms(c), ok \in {TRUE, faults = MaxFaults} :
          /\ req' = [req EXCEPT ![<<c, i>>] =
                        [Idle EXCEPT !.pc = "begin", !.kind = kind,
                           !.sess = jar[c].sess, !.sessOk = ok,
                           !.form = form,
                           !.sel = IF form \in {"genuine", "wrongToken"}
                                   THEN jar[c].refresh ELSE None]]
          /\ IF form \in {"absent", "genuine"} /\ ok
             THEN UNCHANGED <<faults, lossy>>
             ELSE faults' = faults + 1 /\ lossy' = lossy \cup {c}
    BY <1>1 DEF Send
  <2>. DEFINE sel == IF form \in {"genuine", "wrongToken"}
                     THEN jar[c].refresh ELSE None
  <2>2. form \in Forms /\ ok \in BOOLEAN
    BY DEF ArrivingForms, Forms
  <2>3. jar[c].sess \in Nat \cup {None} /\ sel \in Selectors \cup {None}
    BY DEF TypeInv, TypeOK
  <2>4. sel # None <=> form \in {"genuine", "wrongToken"}
    BY DEF ArrivingForms
  <2>5. [Idle EXCEPT !.pc = "begin", !.kind = kind, !.sess = jar[c].sess,
           !.sessOk = ok, !.form = form, !.sel = sel] \in Request
    BY <2>2, <2>3, SentTyped
  <2>6. <<c, i>> \in Requests
    BY DEF Requests
  <2>7. req' \in [Requests -> Request]
    BY <2>1, <2>5, <2>6 DEF TypeInv, TypeOK
  <2>8. RequestShape'
    BY <2>1, <2>4, <2>6 DEF TypeInv, TypeOK, RequestShape, Idle
  <2>9. lossy' \subseteq Clients /\ overlapped' \subseteq Clients /\ faults' \in Nat
    BY <1>1, <2>1 DEF TypeInv, TypeOK, Send
  <2> QED
    BY <1>1, <2>7, <2>8, <2>9 DEF Send, TypeInv, TypeOK
<1>2. ASSUME NEW c \in Clients, NEW i \in Slots, Receive(c, i)
      PROVE  TypeInv'
  <2>1. <<c, i>> \in Requests /\ req[<<c, i>>] \in Request
    BY DEF Requests, TypeInv, TypeOK
  <2>2. jar' \in [Clients -> [sess : Nat \cup {None},
                              refresh : Selectors \cup {None}]]
    BY <1>2, <2>1 DEF Receive, CookiesAfter, TypeInv, TypeOK, Request
  <2>3. req' \in [Requests -> Request] /\ RequestShape'
    BY <1>2, <2>1, IdleTyped
    DEF Receive, TypeInv, TypeOK, RequestShape, Idle
  <2> QED
    BY <1>2, <2>2, <2>3 DEF Receive, TypeInv, TypeOK
<1>3. ASSUME NEW c \in Clients, NEW i \in Slots, LoseReply(c, i)
      PROVE  TypeInv'
  <2>1. req' \in [Requests -> Request] /\ RequestShape'
    BY <1>3, IdleTyped
    DEF LoseReply, TypeInv, TypeOK, RequestShape, Idle, Requests
  <2> QED
    BY <1>3, <2>1 DEF LoseReply, TypeInv, TypeOK
<1>4. ASSUME NEW r \in Requests, Login(r)
      PROVE  TypeInv'
  <2>1. r[1] \in Clients
    BY DEF Requests
  <2> QED
    BY <1>4, <2>1, RotateTyped DEF Login, TypeInv, TypeOK, Results
<1>5. ASSUME NEW r \in Requests, Logout(r)
      PROVE  TypeInv'
  <2>1. req[r].sel # None \/ DecodedSelectors(req[r]) = {}
    BY DEF DecodedSelectors, TypeInv, RequestShape
  <2>2. req' \in [Requests -> Request] /\ RequestShape'
    <3>1. CASE DecodedSelectors(req[r]) = {}
      BY <1>5, <3>1, ReplyTyped DEF Logout, Results
    <3>2. CASE DecodedSelectors(req[r]) # {}
      BY <1>5, <2>1, <3>2, AwaitingTyped DEF Logout, Results
    <3> QED
      BY <3>1, <3>2
  <2> QED
    BY <1>5, <2>2 DEF Logout, TypeInv, TypeOK
<1>6. ASSUME NEW r \in Requests, ReadSession(r)
      PROVE  TypeInv'
  <2>1. req' \in [Requests -> Request] /\ RequestShape'
    <3>1. PICK outcome \in DecodeOutcomes(req[r]) :
          CASE outcome \in {"Decoded", "Corrupt"} ->
                 Reply(r, outcome,
                       IF outcome = "Decoded" /\ req[r].kind = "touch"
                       THEN SessionExpiry ELSE None)
            [] outcome \in {"NoSession", "Expired"} ->
                 CASE req[r].form = "absent" -> Reply(r, "NoSession", None)
                   [] req[r].form = "undecodable" -> Reply(r, "Corrupt", None)
                   [] OTHER -> Await(r, "lookup", "none")
      BY <1>6 DEF ReadSession
    <3>2. outcome \in {"Decoded", "Corrupt", "NoSession", "Expired"}
      BY DEF DecodeOutcomes, TypeInv, TypeOK, Request
    <3>3. SessionExpiry \in Nat
      BY ConfigAssumption DEF TypeInv, TypeOK, SessionExpiry
    <3>4. req[r].pc = "begin"
      BY <1>6 DEF ReadSession
    <3>5. CASE outcome \in {"Decoded", "Corrupt"}
      BY <3>1, <3>3, <3>4, <3>5, ReplyTyped DEF Results
    <3>6. CASE outcome \in {"NoSession", "Expired"}
      <4>1. CASE req[r].form = "absent"
        BY <3>1, <3>4, <3>6, <4>1, ReplyTyped DEF Results
      <4>2. CASE req[r].form = "undecodable"
        BY <3>1, <3>4, <3>6, <4>2, ReplyTyped DEF Results
      <4>3. CASE req[r].form \notin {"absent", "undecodable"}
        <5>1. req[r].sel # None
          BY <4>3 DEF TypeInv, TypeOK, RequestShape, Request, Forms
        <5> QED
          BY <3>1, <3>4, <3>6, <4>3, <5>1, AwaitingTyped DEF Results
      <4> QED
        BY <4>1, <4>2, <4>3
    <3> QED
      BY <3>2, <3>5, <3>6
  <2> QED
    BY <1>6, <2>1 DEF ReadSession, TypeInv, TypeOK
<1>7. ASSUME NEW r \in Requests, Lookup(r)
      PROVE  TypeInv'
  <2>1. req[r] \in Request /\ req[r].sel \in Selectors
    BY <1>7 DEF Lookup, TypeInv, TypeOK, RequestShape, Request
  <2>2. store[req[r].sel] \in Records \cup {None}
    BY <2>1 DEF TypeInv, TypeOK
  <2>3. [req[r] EXCEPT !.pc = "check", !.found = store[req[r].sel]] \in Request
    BY <2>1, <2>2, LookedUpTyped
  <2>4. req' \in [Requests -> Request] /\ RequestShape'
    BY <1>7, <2>1, <2>3 DEF Lookup, TypeInv, TypeOK, RequestShape, Request
  <2> QED
    BY <1>7, <2>4 DEF Lookup, TypeInv, TypeOK
<1>8. ASSUME NEW r \in Requests, Check(r)
      PROVE  TypeInv'
  <2>1. /\ req[r] \in Request
        /\ req[r].pc = "check"
        /\ req[r].sel # None
    BY <1>8 DEF Check, TypeInv, TypeOK, RequestShape
  <2>2. CASE Reply(r, "TokenNotFound", None) /\ UNCHANGED <<store, timers, history>>
    <3>1. req' \in [Requests -> Request] /\ RequestShape'
      BY <2>1, <2>2, ReplyTyped DEF Results
    <3> QED
      BY <1>8, <2>2, <3>1 DEF Check, TypeInv, TypeOK
  <2>3. ASSUME NEW result \in {"Expired", "Corrupt"}, Await(r, "remove", result),
               UNCHANGED <<store, timers, history>>
        PROVE  TypeInv'
    <3>1. req' \in [Requests -> Request] /\ RequestShape'
      BY <2>1, <2>3, AwaitingTyped DEF Results
    <3> QED
      BY <1>8, <2>3, <3>1 DEF Check, TypeInv, TypeOK
  <2>4. CASE /\ req[r].found # None
             /\ Rotate(r, req[r].found.session, "CreatedFromToken")
    <3>1. req[r].found.session \in Clients
      BY <2>1, <2>4 DEF Request, Records
    <3> QED
      BY <1>8, <2>4, <3>1, RotateTyped DEF Check, TypeInv, TypeOK, Results
  <2> QED
    BY <1>8, <2>2, <2>3, <2>4 DEF Check
<1>9. ASSUME NEW r \in Requests, RemoveDone(r)
      PROVE  TypeInv'
  <2>1. req[r].result \in Results /\ req[r].pc = "remove"
    BY <1>9 DEF RemoveDone, TypeInv, TypeOK, Request
  <2>2. req' \in [Requests -> Request] /\ RequestShape'
    BY <1>9, <2>1, ReplyTyped DEF RemoveDone, TypeInv, RequestShape
  <2>3. ReasonOf(req[r].result) \in Reasons
    BY DEF ReasonOf, Reasons
  <2> QED
    BY <1>9, <2>2, <2>3, RemoveTyped DEF RemoveDone, TypeInv, TypeOK
<1>10. ASSUME NEW r \in Requests, StoreDone(r)
       PROVE  TypeInv'
  <2>1. /\ req[r] \in Request
        /\ req[r].fresh \in Selectors
        /\ req[r].data \in Records
    BY <1>10 DEF StoreDone, TypeInv, TypeOK, RequestShape, Request
  <2>2. [req[r] EXCEPT !.pc = "reply", !.data = None] \in Request
    BY <2>1, StoredTyped
  <2>3. req' \in [Requests -> Request] /\ RequestShape'
    BY <1>10, <2>1, <2>2 DEF StoreDone, TypeInv, TypeOK, RequestShape, Request
  <2>4. store' \in [Selectors -> Records \cup {None}]
    BY <1>10, <2>1 DEF StoreDone, TypeInv, TypeOK
  <2> QED
    BY <1>10, <2>3, <2>4 DEF StoreDone, TypeInv, TypeOK
<1>11. ASSUME NEW r \in Requests, StorageFails(r)
       PROVE  TypeInv'
  <2>1. req' \in [Requests -> Request] /\ RequestShape'
    BY <1>11, IdleTyped
    DEF StorageFails, TypeInv, TypeOK, RequestShape, Idle
  <2>2. r[1] \in Clients
    BY DEF Requests
  <2>3. ReasonOf(req[r].result) \in Reasons
    BY DEF ReasonOf, Reasons
  <2>4. req[r] \in Request
    BY DEF TypeInv, TypeOK
  <2>5. /\ store' \in [Selectors -> Records \cup {None}]
        /\ gone' \in [Selectors -> Reasons]
    <3>1. CASE UNCHANGED <<store, gone>>
      BY <3>1 DEF TypeInv, TypeOK
    <3>2. CASE Remove({req[r].sel}, ReasonOf(req[r].result))
      BY <2>3, <3>2, RemoveTyped
    <3>3. CASE /\ req[r].pc = "store"
               /\ store' = [store EXCEPT ![req[r].fresh] = req[r].data]
               /\ UNCHANGED gone
      BY <2>4, <3>3 DEF TypeInv, TypeOK, RequestShape, Request
    <3> QED
      BY <1>11, <3>1, <3>2, <3>3 DEF StorageFails
  <2> QED
    BY <1>11, <2>1, <2>2, <2>5 DEF StorageFails, TypeInv, TypeOK
<1>12. ASSUME NEW t \in timers, RunScheduled(t)
       PROVE  TypeInv'
  <2>1. t.sel \in Selectors /\ "timer" \in Reasons
    BY DEF TypeInv, TypeOK, TimerSet, Reasons
  <2>2. /\ store' \in [Selectors -> Records \cup {None}]
        /\ gone' \in [Selectors -> Reasons]
    <3>1. CASE Remove({t.sel}, "timer")
      BY <2>1, <3>1, RemoveTyped
    <3>2. CASE UNCHANGED <<store, gone>>
      BY <3>2 DEF TypeInv, TypeOK
    <3> QED
      BY <1>12, <3>1, <3>2 DEF RunScheduled
  <2>3. faults' \in Nat /\ lost' \subseteq Selectors /\ lossy' = lossy
    BY <1>12, <2>1 DEF RunScheduled, trouble, TypeInv, TypeOK
  <2> QED
    BY <1>12, <2>2, <2>3 DEF RunScheduled, TypeInv, TypeOK, RequestShape
<1>13. CASE Restart
  <2>1. req' \in [Requests -> Request] /\ RequestShape'
    BY <1>13, IdleTyped DEF Restart, RequestShape, Idle
  <2>2. lost' \subseteq Selectors
    BY <1>13 DEF Restart, TypeInv, TypeOK, TimerSet
  <2> QED
    BY <1>13, <2>1, <2>2 DEF Restart, TypeInv, TypeOK
<1>14. CASE Tick
  BY <1>14 DEF Tick, TypeInv, TypeOK, RequestShape
<1>15. CASE UNCHANGED vars
  BY <1>15 DEF vars, TypeInv, TypeOK, RequestShape
<1> QED
  BY <1>1, <1>2, <1>3, <1>4, <1>5, <1>6, <1>7, <1>8, <1>9, <1>10, <1>11,
     <1>12, <1>13, <1>14, <1>15 DEF Next, ServerStep

LEMMA TypeInvariant == Spec => []TypeInv
BY TypeInit, TypeStep, PTL DEF Spec

\* Every variable keeps its type: the cookies, requests, records and timers of
\* the session directives and the refresh token manager.
THEOREM TypeCorrect == Spec => []TypeOK
<1>1. TypeInv => TypeOK
  BY DEF TypeInv
<1> QED
  BY <1>1, TypeInvariant, PTL

(***************************************************************************)
(* Who knows a selector.  A selector becomes known to the client side, or  *)
(* gets a record, a removal or a timer, only when it is known already or   *)
(* when the request that drew it stores its record.                        *)
(***************************************************************************)

\* The request that drew s leaves the stage in which it stores the record.
Settled(s) ==
    \E r \in Requests :
       req[r].pc = "store" /\ req[r].fresh = s /\ req'[r].pc # "store"

\* A step in which the request x keeps, drops or draws its new selector.
FreshStep(x) ==
    \/ req'[x].fresh = None
    \/ req'[x].fresh = req[x].fresh /\ (req'[x].pc = "store" => req[x].pc = "store")
    \/ /\ req'[x].fresh \in issued' \ issued
       /\ \A y \in Requests \ {x} : req'[y] = req[y]

NamesStep ==
    /\ issued \subseteq issued'
    /\ \A s \in Selectors :
          /\ Exposed(s)' => Exposed(s) \/ Settled(s)
          /\ Touched(s)' => Touched(s) \/ Exposed(s) \/ Settled(s)
    /\ \A x \in Requests : FreshStep(x)

LEMMA NamesPreserved ==
    ASSUME TypeInv, TypeInv', OnlyIssuedKnown, PendingIsPrivate, NamesStep
    PROVE  OnlyIssuedKnown' /\ PendingIsPrivate'
<1>1. \A x \in Requests : req[x].fresh \in issued \cup {None}
  BY DEF TypeInv, TypeOK, Request, OnlyIssuedKnown
<1>2. ASSUME NEW s \in Selectors \ issued'
      PROVE  ~Exposed(s)' /\ ~Touched(s)' /\ \A x \in Requests : req'[x].fresh # s
  <2>1. s \notin issued /\ ~Exposed(s) /\ ~Touched(s)
    BY DEF NamesStep, OnlyIssuedKnown
  <2>2. ~Settled(s)
    BY <2>1, <1>1, NoneAssumption DEF Settled
  <2>3. \A x \in Requests : req'[x].fresh # s
    BY <1>1, <2>1, NoneAssumption DEF NamesStep, FreshStep
  <2> QED
    BY <2>1, <2>2, <2>3 DEF NamesStep
<1>3. ASSUME NEW r \in Requests, req'[r].pc = "store",
             NEW f \in Selectors, f = req'[r].fresh
      PROVE  /\ ~Exposed(f)'
             /\ ~Touched(f)'
             /\ \A x \in Requests \ {r} : req'[x].fresh # f
  <2>1. f # None
    BY NoneAssumption
  <2>2. CASE req[r].pc = "store" /\ f = req[r].fresh
    <3>1. /\ ~Exposed(f) /\ ~Touched(f)
          /\ \A x \in Requests \ {r} : req[x].fresh # f
      BY <2>2 DEF PendingIsPrivate
    <3>2. ~Settled(f)
      BY <1>3, <3>1 DEF Settled
    <3>3. f \in issued
      BY <2>1, <2>2, <1>1
    <3>4. \A x \in Requests \ {r} : req'[x].fresh # f
      BY <2>1, <3>1, <3>3 DEF NamesStep, FreshStep
    <3> QED
      BY <3>1, <3>2, <3>4 DEF NamesStep
  <2>3. CASE f \in issued' \ issued /\ \A y \in Requests \ {r} : req'[y] = req[y]
    <3>1. ~Exposed(f) /\ ~Touched(f) /\ \A x \in Requests : req[x].fresh # f
      BY <2>3 DEF OnlyIssuedKnown
    <3>2. ~Settled(f)
      BY <3>1 DEF Settled
    <3> QED
      BY <2>3, <3>1, <3>2 DEF NamesStep
  <2> QED
    BY <1>3, <2>1, <2>2, <2>3 DEF NamesStep, FreshStep
<1>4. \A r \in Requests : req'[r].pc = "store" => req'[r].fresh \in Selectors
  BY DEF TypeInv, TypeOK, RequestShape, Request
<1>5. OnlyIssuedKnown'
  BY <1>2 DEF OnlyIssuedKnown
<1>6. PendingIsPrivate'
  BY <1>3, <1>4 DEF PendingIsPrivate
<1> QED
  BY <1>5, <1>6

(***************************************************************************)
(* The records.                                                            *)
(***************************************************************************)

\* A record is written only by the request that drew its selector, removals
\* are remembered, and a token that is used has its removal scheduled until the
\* token is removed or the removal is lost.
StoreStep ==
    /\ lost \subseteq lost'
    /\ \A s \in Selectors :
          /\ store'[s] # None => store[s] # None \/ Settled(s)
          /\ gone[s] # "none" => gone'[s] # "none"
          /\ gone'[s] # "none" => gone[s] # "none" \/ store'[s] = None
          /\ store[s] # None => store'[s] # None \/ gone'[s] # "none"
          /\ Exposed(s)' => Exposed(s) \/ store'[s] # None
          /\ usedAt'[s] # None => usedAt[s] # None \/ Exposed(s)
          /\ usedAt'[s] # None =>
                \/ usedAt[s] # None
                \/ store'[s] = None
                \/ \E t \in timers' : t.sel = s
          /\ (\E t \in timers : t.sel = s) =>
                \/ s \in lost'
                \/ store'[s] = None
                \/ \E t \in timers' : t.sel = s

LEMMA StorePreserved ==
    ASSUME TypeInv, PendingIsPrivate, ExposedIsStored, RemovedStaysRemoved,
           UsedTokenIsScheduled, StoreStep
    PROVE  ExposedIsStored' /\ RemovedStaysRemoved' /\ UsedTokenIsScheduled'
<1>1. ASSUME NEW s \in Selectors, Settled(s)
      PROVE  gone[s] = "none" /\ usedAt[s] = None /\ ~Exposed(s)
  BY <1>1 DEF Settled, PendingIsPrivate, Touched
<1>2. ExposedIsStored'
  BY DEF ExposedIsStored, StoreStep
<1>3. RemovedStaysRemoved'
  BY <1>1 DEF RemovedStaysRemoved, StoreStep
<1>4. UsedTokenIsScheduled'
  BY <1>1 DEF UsedTokenIsScheduled, StoreStep
<1> QED
  BY <1>2, <1>3, <1>4

(***************************************************************************)
(* The grace period.                                                       *)
(***************************************************************************)

\* A lookup that finds nothing, and the answer it leads to.
NotFound(x) ==
    \/ req[x].pc = "check" /\ req[x].found = None
    \/ req[x].result = "TokenNotFound"

\* The request x finds nothing only under a selector that has no record.
LookupStep(x) ==
    NotFound(x)' =>
       /\ req'[x].sel = req[x].sel
       /\ NotFound(x) \/ (req[x].sel # None /\ store[req[x].sel] = None)

\* What the history says of a selector stays.
HistoryStep ==
    \A s \in Selectors :
       /\ gone[s] # "none" => gone'[s] = gone[s]
       /\ usedAt[s] # None => usedAt'[s] = usedAt[s]
       /\ usedAt'[s] \in {usedAt[s], now}

\* A scheduled removal is of a used token and later than its use by the grace
\* period, and it runs when it is due.
TimersStep ==
    /\ \A t \in timers' :
          \/ t \in timers
          \/ usedAt'[t.sel] # None /\ t.at >= usedAt'[t.sel] + RemoveAfter
    /\ \A s \in Selectors :
          gone'[s] = "timer" =>
             \/ gone[s] = "timer"
             \/ \E t \in timers : t.sel = s /\ t.at <= now

GraceStep ==
    /\ now' >= now
    /\ \A x \in Requests : LookupStep(x)
    /\ HistoryStep
    /\ ImmediateSchedule \/ TimersStep

LEMMA GracePreserved ==
    ASSUME TypeInv, TypeInv', ExposedIsStored, NotFoundIsGone, UsedInPast,
           TimersKeepGrace, GraceStep
    PROVE  NotFoundIsGone' /\ UsedInPast' /\ TimersKeepGrace'
<1>1. ASSUME NEW x \in Requests, NotFound(x)'
      PROVE  gone'[req'[x].sel] # "none"
  <2>0. /\ req'[x].sel = req[x].sel
        /\ NotFound(x) \/ (req[x].sel # None /\ store[req[x].sel] = None)
    BY <1>1 DEF GraceStep, LookupStep
  <2>1. req[x].sel \in Selectors
    BY <2>0 DEF NotFound, TypeInv, TypeOK, RequestShape, Request
  <2>2. CASE NotFound(x)
    BY <2>0, <2>1, <2>2 DEF NotFound, NotFoundIsGone, GraceStep, HistoryStep
  <2>3. CASE store[req[x].sel] = None
    <3>1. Exposed(req[x].sel)
      BY DEF Exposed
    <3> QED
      BY <2>0, <2>1, <2>3, <3>1 DEF ExposedIsStored, GraceStep, HistoryStep
  <2> QED
    BY <2>0, <2>2, <2>3
<1>2. NotFoundIsGone'
  BY <1>1 DEF NotFound, NotFoundIsGone
<1>3. TimersKeepGrace'
  <2>. SUFFICES ASSUME ~ImmediateSchedule
                PROVE  /\ \A t \in timers' :
                             /\ usedAt'[t.sel] # None
                             /\ t.at >= usedAt'[t.sel] + RemoveAfter
                       /\ \A s \in Selectors :
                             gone'[s] = "timer" =>
                                /\ usedAt'[s] # None
                                /\ now' >= usedAt'[s] + RemoveAfter
    BY DEF TimersKeepGrace
  <2>1. ASSUME NEW t \in timers'
        PROVE  usedAt'[t.sel] # None /\ t.at >= usedAt'[t.sel] + RemoveAfter
    BY <2>1
    DEF GraceStep, HistoryStep, TimersStep, TimersKeepGrace, TypeInv, TypeOK, TimerSet
  <2>2. ASSUME NEW s \in Selectors, gone'[s] = "timer"
        PROVE  usedAt'[s] # None /\ now' >= usedAt'[s] + RemoveAfter
    <3>0. /\ now \in Nat /\ now' \in Nat /\ now' >= now
          /\ usedAt[s] # None => usedAt[s] \in Nat /\ usedAt'[s] = usedAt[s]
      BY DEF GraceStep, HistoryStep, TypeInv, TypeOK
    <3>1. CASE gone[s] = "timer"
      <4>1. usedAt[s] # None /\ now >= usedAt[s] + RemoveAfter
        BY <3>1 DEF TimersKeepGrace
      <4> QED
        BY <3>0, <4>1, ConfigAssumption
    <3>2. ASSUME NEW t \in timers, t.sel = s, t.at <= now
          PROVE  usedAt'[s] # None /\ now' >= usedAt'[s] + RemoveAfter
      <4>1. usedAt[s] # None /\ t.at >= usedAt[s] + RemoveAfter /\ t.at \in Nat
        BY <3>2 DEF TimersKeepGrace, TypeInv, TypeOK, TimerSet
      <4> QED
        BY <3>0, <3>2, <4>1, ConfigAssumption
    <3> QED
      BY <2>2, <3>1, <3>2 DEF GraceStep, TimersStep
  <2> QED
    BY <2>1, <2>2
<1>4. UsedInPast'
  BY NoneAssumption DEF GraceStep, HistoryStep, UsedInPast, TypeInv, TypeOK
<1> QED
  BY <1>2, <1>3, <1>4

(***************************************************************************)
(* What every step does, and that it is enough.                            *)
(***************************************************************************)

Effect == NamesStep /\ StoreStep /\ GraceStep

LEMMA EffectPreserves ==
    ASSUME IInv, TypeInv', Effect
    PROVE  IInv'
BY NamesPreserved, StorePreserved, GracePreserved DEF Effect, IInv, TypeInv

\* No request draws a selector, and the clients learn of none.
NothingLearned ==
    /\ \A s \in Selectors : Exposed(s)' => Exposed(s)
    /\ \A x \in Requests : FreshStep(x) /\ LookupStep(x)

\* Steps that leave the storage, its timers and the history alone.
LEMMA QuietEffect ==
    ASSUME TypeInv, UNCHANGED <<store, timers, history>>,
           now' \in Nat, now' >= now, lost \subseteq lost',
           NothingLearned
    PROVE  Effect
<1>. USE DEF history
<1>1. NamesStep
  BY DEF NothingLearned, NamesStep, Touched
<1>2. StoreStep
  BY DEF NothingLearned, StoreStep
<1>3. GraceStep
  BY DEF NothingLearned, GraceStep, HistoryStep, TimersStep
<1> QED
  BY <1>1, <1>2, <1>3 DEF Effect

(* A request is answered or waits: its cookies stay as they were. *)
LEMMA ReplyQuiet ==
    ASSUME TypeInv, NEW r \in Requests, NEW e \in Nat \cup {None},
           NEW result \in Results, Reply(r, result, e), UNCHANGED jar,
           req[r].pc \in {"begin", "check", "remove"},
           result = "TokenNotFound" => NotFound(r)
    PROVE  NothingLearned
<1>1. /\ req[r] \in Request /\ req[r].fresh = None
      /\ \A x \in Requests \ {r} : req'[x] = req[x]
      /\ req'[r].pc = "reply" /\ req'[r].sel = req[r].sel
      /\ req'[r].fresh = None /\ req'[r].result = result
  BY DEF Reply, TypeInv, TypeOK, RequestShape, Request
<1>2. \A s \in Selectors : Exposed(s)' => Exposed(s)
  BY <1>1, NoneAssumption DEF Exposed
<1>3. \A x \in Requests : FreshStep(x)
  BY <1>1 DEF FreshStep
<1>4. \A x \in Requests : LookupStep(x)
  BY <1>1 DEF LookupStep, NotFound
<1> QED
  BY <1>2, <1>3, <1>4 DEF NothingLearned

LEMMA AwaitQuiet ==
    ASSUME TypeInv, NEW r \in Requests, NEW pc \in {"lookup", "remove"},
           NEW result \in Results \ {"TokenNotFound"}, Await(r, pc, result),
           UNCHANGED jar, req[r].pc \in {"begin", "check"}
    PROVE  NothingLearned
<1>1. /\ req[r] \in Request /\ req[r].fresh = None
      /\ \A x \in Requests \ {r} : req'[x] = req[x]
      /\ req'[r].pc = pc /\ req'[r].sel = req[r].sel
      /\ req'[r].fresh = None /\ req'[r].result = result
  BY DEF Await, TypeInv, TypeOK, RequestShape, Request
<1>2. \A s \in Selectors : Exposed(s)' => Exposed(s)
  BY <1>1, NoneAssumption DEF Exposed
<1>3. \A x \in Requests : FreshStep(x)
  BY <1>1 DEF FreshStep
<1>4. \A x \in Requests : LookupStep(x)
  BY <1>1 DEF LookupStep, NotFound
<1> QED
  BY <1>2, <1>3, <1>4 DEF NothingLearned

(* A request ends: what it carried is forgotten. *)
LEMMA IdleQuiet ==
    ASSUME TypeInv, NEW R \in SUBSET Requests, UNCHANGED jar,
           req' = [x \in Requests |-> IF x \in R THEN Idle ELSE req[x]]
    PROVE  NothingLearned
<1>1. \A x \in R : /\ req'[x].pc = "idle" /\ req'[x].sel = None
                   /\ req'[x].fresh = None /\ req'[x].result = "none"
  BY DEF Idle
<1>2. \A x \in Requests \ R : req'[x] = req[x]
  OBVIOUS
<1>3. ASSUME NEW s \in Selectors, Exposed(s)'
      PROVE  Exposed(s)
  <2>1. s # None
    BY NoneAssumption
  <2>2. CASE \E c \in Clients : jar'[c].refresh = s
    BY <2>2 DEF Exposed
  <2>3. ASSUME NEW x \in Requests, req'[x].sel = s
        PROVE  Exposed(s)
    BY <1>1, <1>2, <2>1, <2>3 DEF Exposed
  <2>4. ASSUME NEW x \in Requests, req'[x].pc = "reply", req'[x].fresh = s
        PROVE  Exposed(s)
    BY <1>1, <1>2, <2>1, <2>4 DEF Exposed
  <2> QED
    BY <1>3, <2>2, <2>3, <2>4 DEF Exposed
<1>4. \A x \in Requests : FreshStep(x)
  BY <1>1, <1>2 DEF FreshStep
<1>5. \A x \in Requests : LookupStep(x)
  BY <1>1, <1>2 DEF LookupStep, NotFound
<1> QED
  BY <1>3, <1>4, <1>5 DEF NothingLearned

\* storage.remove of the selectors S, which somebody knows.
RemovalStep(S, why) ==
    /\ Remove(S, why)
    /\ UNCHANGED <<issued, usedAt, now>>
    /\ lost \subseteq lost'
    /\ timers' \subseteq timers
    /\ \A t \in timers \ timers' : t.sel \in S
    /\ \A s \in S : Exposed(s) \/ Touched(s)
    /\ why = "timer" => \A s \in S : \E t \in timers : t.sel = s /\ t.at <= now

LEMMA RemoveEffect ==
    ASSUME TypeInv, NEW S \in SUBSET Selectors, NEW why \in Reasons \ {"none"},
           RemovalStep(S, why),
           NothingLearned
    PROVE  Effect
<1>1. \A s \in Selectors :
         /\ s \in S => store'[s] = None /\ gone'[s] # "none"
         /\ s \notin S => store'[s] = store[s] /\ gone'[s] = gone[s]
         /\ gone[s] # "none" => gone'[s] = gone[s]
         /\ gone'[s] \in {gone[s], why}
  BY DEF RemovalStep, Remove
<1>2. NamesStep
  <2>1. ASSUME NEW s \in Selectors, Touched(s)'
        PROVE  Touched(s) \/ Exposed(s)
    BY <1>1, <2>1 DEF Touched, RemovalStep
  <2>2. issued \subseteq issued'
    BY DEF RemovalStep
  <2> QED
    BY <2>1, <2>2 DEF NamesStep, NothingLearned
<1>3. StoreStep
  <2>1. ASSUME NEW s \in Selectors
        PROVE  /\ store'[s] # None => store[s] # None
               /\ gone[s] # "none" => gone'[s] # "none"
               /\ gone'[s] # "none" => gone[s] # "none" \/ store'[s] = None
               /\ store[s] # None => store'[s] # None \/ gone'[s] # "none"
               /\ usedAt'[s] = usedAt[s]
    BY <1>1 DEF RemovalStep
  <2>2. ASSUME NEW s \in Selectors, NEW t \in timers, t.sel = s
        PROVE  store'[s] = None \/ \E u \in timers' : u.sel = s
    BY <1>1, <2>2 DEF RemovalStep
  <2> QED
    BY <2>1, <2>2 DEF StoreStep, RemovalStep, NothingLearned
<1>4. TimersStep
  <2>1. ASSUME NEW s \in Selectors, gone'[s] = "timer", gone[s] # "timer"
        PROVE  \E t \in timers : t.sel = s /\ t.at <= now
    BY <1>1, <2>1 DEF RemovalStep
  <2>2. \A t \in timers' : t \in timers
    BY DEF RemovalStep
  <2> QED
    BY <2>1, <2>2 DEF TimersStep
<1>5. HistoryStep
  BY <1>1 DEF HistoryStep, RemovalStep
<1>6. now' >= now
  BY DEF RemovalStep, TypeInv, TypeOK
<1>7. GraceStep
  BY <1>4, <1>5, <1>6 DEF GraceStep, NothingLearned
<1> QED
  BY <1>2, <1>3, <1>7 DEF Effect

(* rotateToken: the token the request came with is used from now on, and   *)
(* the new selector is known to this request only.                         *)
LEMMA RotateEffect ==
    ASSUME IInv, NEW r \in Requests, NEW user \in Clients,
           NEW result \in Results \ {"TokenNotFound"}, Rotate(r, user, result),
           req[r].pc \in {"begin", "check"},
           UNCHANGED <<now, jar, lost>>
    PROVE  Effect
<1>. DEFINE old == DecodedSelectors(req[r])
<1>1. PICK s \in FreshSelectors :
         /\ issued' = issued \cup {s}
         /\ req' = [req EXCEPT ![r] =
                    [req[r] EXCEPT !.pc = "store", !.fresh = s, !.found = None,
                       !.data = NewRecord(user),
                       !.setSess = SessionExpiry, !.result = result]]
         /\ usedAt' = [x \in Selectors |->
                       IF x \in old /\ usedAt[x] = None THEN now ELSE usedAt[x]]
         /\ IF ImmediateSchedule
            THEN Remove(old, "timer") /\ UNCHANGED timers
            ELSE /\ timers' = timers \cup ScheduledRemovals(old)
                 /\ UNCHANGED <<store, gone>>
  BY DEF Rotate
<1>2. /\ req[r] \in Request /\ req[r].fresh = None
      /\ \A x \in Requests \ {r} : req'[x] = req[x]
      /\ req'[r].pc = "store" /\ req'[r].sel = req[r].sel
      /\ req'[r].fresh = s /\ req'[r].result = result
  BY <1>1 DEF IInv, TypeOK, RequestShape, Request
<1>3. old \subseteq Selectors /\ \A x \in old : Exposed(x)
  BY <1>2 DEF DecodedSelectors, Exposed, IInv, RequestShape, Request
<1>4. now \in Nat /\ now # None /\ RemovalTime = now + RemoveAfter
  BY NoneAssumption DEF IInv, TypeOK, RemovalTime
<1>5. ASSUME NEW x \in Selectors, Exposed(x)'
      PROVE  Exposed(x)
  <2>1. CASE \E c \in Clients : jar'[c].refresh = x
    BY <2>1 DEF Exposed
  <2>2. ASSUME NEW y \in Requests, req'[y].sel = x
        PROVE  Exposed(x)
    BY <1>2, <2>2 DEF Exposed
  <2>3. ASSUME NEW y \in Requests, req'[y].pc = "reply", req'[y].fresh = x
        PROVE  Exposed(x)
    BY <1>2, <2>3 DEF Exposed
  <2> QED
    BY <1>5, <2>1, <2>2, <2>3 DEF Exposed
<1>6. \A x \in Selectors :
         /\ x \notin old => usedAt'[x] = usedAt[x]
         /\ usedAt[x] # None => usedAt'[x] = usedAt[x]
         /\ x \in old => usedAt'[x] # None
         /\ x \in old /\ usedAt[x] = None => usedAt'[x] = now
  BY <1>1, <1>4
<1>7. /\ \A x \in Selectors :
            /\ gone[x] # "none" => gone'[x] = gone[x]
            /\ x \notin old => gone'[x] = gone[x] /\ store'[x] = store[x]
            /\ store'[x] = store[x] \/ (store'[x] = None /\ gone'[x] # "none")
            /\ gone'[x] # "none" => gone[x] # "none" \/ store'[x] = None
      /\ timers \subseteq timers'
      /\ \A t \in timers' : t \in timers \/ t.sel \in old
      /\ \A x \in old : store'[x] = None \/ \E t \in timers' : t.sel = x
  <2>1. CASE ImmediateSchedule
    BY <1>1, <1>3, <2>1 DEF Remove
  <2>2. CASE ~ImmediateSchedule
    <3>1. /\ UNCHANGED <<store, gone>>
          /\ timers' = timers \cup ScheduledRemovals(old)
      BY <1>1, <2>2
    <3>2. ASSUME NEW x \in old
          PROVE  \E t \in timers' : t.sel = x
      <4>1. [sel |-> x, at |-> RemovalTime] \in timers'
        BY <3>1 DEF ScheduledRemovals
      <4> QED
        BY <4>1
    <3>3. \A t \in timers' : t \in timers \/ t.sel \in old
      BY <3>1 DEF ScheduledRemovals
    <3>4. timers \subseteq timers'
      BY <3>1
    <3> QED
      BY <3>1, <3>2, <3>3, <3>4
  <2> QED
    BY <2>1, <2>2
<1>8. NamesStep
  <2>1. ASSUME NEW x \in Selectors, Touched(x)'
        PROVE  Touched(x) \/ Exposed(x)
    BY <1>3, <1>6, <1>7, <2>1 DEF Touched
  <2>2. \A x \in Requests : FreshStep(x)
    BY <1>1, <1>2 DEF FreshStep, FreshSelectors
  <2>3. issued \subseteq issued'
    BY <1>1
  <2> QED
    BY <1>5, <2>1, <2>2, <2>3 DEF NamesStep
<1>9. StoreStep
  <2>1. ASSUME NEW x \in Selectors
        PROVE  /\ store'[x] # None => store[x] # None
               /\ gone[x] # "none" => gone'[x] # "none"
               /\ gone'[x] # "none" => gone[x] # "none" \/ store'[x] = None
               /\ store[x] # None => store'[x] # None \/ gone'[x] # "none"
    BY <1>7
  <2>2. ASSUME NEW x \in Selectors, usedAt'[x] # None, usedAt[x] = None
        PROVE  /\ Exposed(x)
               /\ store'[x] = None \/ \E t \in timers' : t.sel = x
    BY <1>3, <1>6, <1>7, <2>2
  <2>3. ASSUME NEW x \in Selectors, NEW t \in timers, t.sel = x
        PROVE  \E u \in timers' : u.sel = x
    BY <1>7, <2>3
  <2>4. lost \subseteq lost'
    OBVIOUS
  <2> QED
    BY <1>5, <2>1, <2>2, <2>3, <2>4 DEF StoreStep
<1>10. ImmediateSchedule \/ TimersStep
  <2>1. SUFFICES ASSUME ~ImmediateSchedule
                 PROVE  TimersStep
    OBVIOUS
  <2>2. /\ UNCHANGED <<store, gone>>
        /\ timers' = timers \cup ScheduledRemovals(old)
    BY <1>1, <2>1
  <2>3. ASSUME NEW t \in timers', t \notin timers
        PROVE  usedAt'[t.sel] # None /\ t.at >= usedAt'[t.sel] + RemoveAfter
    <3>1. PICK x \in old : t = [sel |-> x, at |-> RemovalTime]
      BY <2>2, <2>3 DEF ScheduledRemovals
    <3>2. x \in Selectors /\ t.sel = x /\ t.at = now + RemoveAfter
      BY <1>3, <1>4, <3>1
    <3>3. usedAt'[x] = now \/ (usedAt[x] # None /\ usedAt'[x] = usedAt[x])
      BY <1>6, <3>1, <3>2
    <3>4. usedAt[x] # None => usedAt[x] \in Nat /\ usedAt[x] <= now
      BY <3>2 DEF IInv, TypeOK, UsedInPast
    <3> QED
      BY <1>4, <3>2, <3>3, <3>4, ConfigAssumption
  <2> QED
    BY <2>2, <2>3 DEF TimersStep
<1>11. GraceStep
  <2>1. \A x \in Requests : LookupStep(x)
    BY <1>2 DEF LookupStep, NotFound
  <2>2. HistoryStep
    BY <1>1, <1>6, <1>7 DEF HistoryStep
  <2>3. now' >= now
    BY <1>4
  <2> QED
    BY <1>10, <2>1, <2>2, <2>3 DEF GraceStep
<1> QED
  BY <1>8, <1>9, <1>11 DEF Effect

(* storage.store: the record becomes known under its private selector. *)
LEMMA StoreEffect ==
    ASSUME IInv, NEW r \in Requests, req[r].pc = "store",
           store' = [store EXCEPT ![req[r].fresh] = req[r].data],
           UNCHANGED <<now, timers, jar, history>>, lost \subseteq lost',
           \A x \in Requests \ {r} : req'[x] = req[x],
           \/ /\ req'[r].pc = "idle" /\ req'[r].fresh = None
              /\ req'[r].sel = None /\ req'[r].result = "none"
           \/ /\ req'[r].pc = "reply" /\ req'[r].fresh = req[r].fresh
              /\ req'[r].sel = req[r].sel /\ req'[r].result = req[r].result
    PROVE  Effect
<1>. DEFINE f == req[r].fresh
<1>. USE DEF history
<1>1. /\ f \in Selectors /\ f # None
      /\ req[r].data # None /\ req[r].sel \in Selectors \cup {None}
      /\ req[r].result = "TokenNotFound" => req[r].sel # None
  BY DEF IInv, TypeOK, RequestShape, Request
<1>2. /\ ~Exposed(f) /\ ~Touched(f)
      /\ req'[r].pc # "store"
  BY DEF IInv, PendingIsPrivate
<1>3. Settled(f)
  BY <1>2 DEF Settled
<1>4. \A s \in Selectors : /\ s # f => store'[s] = store[s]
                          /\ s = f => store'[s] # None
  BY <1>1 DEF IInv, TypeOK
<1>5. ASSUME NEW s \in Selectors, Exposed(s)'
      PROVE  Exposed(s) \/ s = f
  <2>1. CASE \E c \in Clients : jar'[c].refresh = s
    BY <2>1 DEF Exposed
  <2>2. ASSUME NEW y \in Requests, req'[y].sel = s
        PROVE  Exposed(s)
    BY <1>1, <2>2, NoneAssumption DEF Exposed
  <2>3. ASSUME NEW y \in Requests, req'[y].pc = "reply", req'[y].fresh = s
        PROVE  Exposed(s) \/ s = f
    BY <2>3, NoneAssumption DEF Exposed
  <2> QED
    BY <1>5, <2>1, <2>2, <2>3 DEF Exposed
<1>6. NamesStep
  <2>1. ASSUME NEW s \in Selectors, Touched(s)'
        PROVE  Touched(s) \/ s = f
    BY <1>4, <2>1 DEF Touched
  <2>2. \A x \in Requests : FreshStep(x)
    BY <1>2 DEF FreshStep
  <2>3. issued \subseteq issued'
    OBVIOUS
  <2> QED
    BY <1>3, <1>5, <2>1, <2>2, <2>3 DEF NamesStep
<1>7. StoreStep
  <2>1. ASSUME NEW s \in Selectors
        PROVE  /\ store'[s] # None => store[s] # None \/ s = f
               /\ gone'[s] = gone[s]
               /\ store[s] # None => store'[s] # None
               /\ s = f => store'[s] # None
               /\ usedAt'[s] = usedAt[s]
    BY <1>4
  <2>2. \A s \in Selectors : gone'[s] # "none" => gone[s] # "none"
    BY <2>1
  <2> QED
    BY <1>3, <1>5, <2>1, <2>2 DEF StoreStep
<1>8. GraceStep
  <2>1. \A x \in Requests : LookupStep(x)
    BY DEF LookupStep, NotFound
  <2>2. HistoryStep
    BY DEF HistoryStep
  <2>3. TimersStep
    BY DEF TimersStep
  <2>4. now' >= now
    BY DEF IInv, TypeOK
  <2> QED
    BY <2>1, <2>2, <2>3, <2>4 DEF GraceStep
<1> QED
  BY <1>6, <1>7, <1>8 DEF Effect

LEMMA StepEffect ==
    ASSUME IInv, TypeInv', Next
    PROVE  Effect
<1>. USE DEF history, trouble
<1>0. TypeInv
  BY DEF IInv, TypeInv
<1>1. ASSUME NEW c \in Clients, NEW i \in Slots, Send(c, i)
      PROVE  Effect
  <2>. DEFINE r == <<c, i>>
  <2>1. /\ r \in Requests
        /\ \A x \in Requests \ {r} : req'[x] = req[x]
        /\ req'[r].pc = "begin" /\ req'[r].sel \in {None, jar[c].refresh}
        /\ req'[r].fresh = None /\ req'[r].result = "none"
    BY <1>1 DEF Send, IInv, TypeOK, Idle, Requests
  <2>2. UNCHANGED <<jar, store, timers, history, now, lost>>
    BY <1>1 DEF Send
  <2>3. ASSUME NEW s \in Selectors, Exposed(s)'
        PROVE  Exposed(s)
    <3>1. CASE \E d \in Clients : jar'[d].refresh = s
      BY <2>2, <3>1 DEF Exposed
    <3>2. ASSUME NEW y \in Requests, req'[y].sel = s
          PROVE  Exposed(s)
      BY <2>1, <3>2, NoneAssumption DEF Exposed
    <3>3. ASSUME NEW y \in Requests, req'[y].pc = "reply", req'[y].fresh = s
          PROVE  Exposed(s)
      BY <2>1, <3>3, NoneAssumption DEF Exposed
    <3> QED
      BY <2>3, <3>1, <3>2, <3>3 DEF Exposed
  <2>4. \A x \in Requests : FreshStep(x)
    BY <2>1 DEF FreshStep
  <2>5. \A x \in Requests : LookupStep(x)
    BY <2>1 DEF LookupStep, NotFound
  <2>6. NothingLearned
    BY <2>3, <2>4, <2>5 DEF NothingLearned
  <2>7. now' \in Nat /\ now' >= now
    BY <2>2 DEF IInv, TypeOK
  <2> QED
    BY <1>0, <2>2, <2>6, <2>7, QuietEffect
<1>2. ASSUME NEW c \in Clients, NEW i \in Slots, Receive(c, i)
      PROVE  Effect
  <2>. DEFINE r == <<c, i>>
  <2>1. /\ r \in Requests /\ req[r].pc = "reply"
        /\ \A x \in Requests \ {r} : req'[x] = req[x]
        /\ req'[r].pc = "idle" /\ req'[r].sel = None
        /\ req'[r].fresh = None /\ req'[r].result = "none"
    BY <1>2 DEF Receive, IInv, TypeOK, Idle, Requests
  <2>2. UNCHANGED <<store, timers, history, now, lost>>
    BY <1>2 DEF Receive
  <2>3. \A d \in Clients :
           jar'[d].refresh \in {None, jar[d].refresh, req[r].fresh}
    BY <1>2 DEF Receive, CookiesAfter, IInv, TypeOK
  <2>4. ASSUME NEW s \in Selectors, Exposed(s)'
        PROVE  Exposed(s)
    <3>1. CASE \E d \in Clients : jar'[d].refresh = s
      BY <2>1, <2>3, <3>1, NoneAssumption DEF Exposed
    <3>2. ASSUME NEW y \in Requests, req'[y].sel = s
          PROVE  Exposed(s)
      BY <2>1, <3>2, NoneAssumption DEF Exposed
    <3>3. ASSUME NEW y \in Requests, req'[y].pc = "reply", req'[y].fresh = s
          PROVE  Exposed(s)
      BY <2>1, <3>3, NoneAssumption DEF Exposed
    <3> QED
      BY <2>4, <3>1, <3>2, <3>3 DEF Exposed
  <2>5. \A x \in Requests : FreshStep(x)
    BY <2>1 DEF FreshStep
  <2>6. \A x \in Requests : LookupStep(x)
    BY <2>1 DEF LookupStep, NotFound
  <2>7. NothingLearned
    BY <2>4, <2>5, <2>6 DEF NothingLearned
  <2>8. now' \in Nat /\ now' >= now
    BY <2>2 DEF IInv, TypeOK
  <2> QED
    BY <1>0, <2>2, <2>7, <2>8, QuietEffect
<1>3. ASSUME NEW R \in SUBSET Requests, UNCHANGED <<store, timers, history, now, jar>>,
             req' = [x \in Requests |-> IF x \in R THEN Idle ELSE req[x]],
             lost \subseteq lost'
      PROVE  Effect
  <2>1. now' \in Nat /\ now' >= now
    BY <1>3 DEF IInv, TypeOK
  <2> QED
    BY <1>0, <1>3, <2>1, IdleQuiet, QuietEffect
<1>4. ASSUME NEW r \in Requests, req' = [req EXCEPT ![r] = Idle]
      PROVE  req' = [x \in Requests |-> IF x \in {r} THEN Idle ELSE req[x]]
  BY <1>4 DEF IInv, TypeOK
<1>5. ASSUME NEW c \in Clients, NEW i \in Slots, LoseReply(c, i)
      PROVE  Effect
  <2>1. <<c, i>> \in Requests
    BY DEF Requests
  <2>2. req' = [x \in Requests |-> IF x \in {<<c, i>>} THEN Idle ELSE req[x]]
    BY <1>4, <1>5, <2>1 DEF LoseReply
  <2> QED
    BY <1>3, <1>5, <2>1, <2>2 DEF LoseReply
<1>6. ASSUME NEW r \in Requests, Login(r)
      PROVE  Effect
  <2>1. r[1] \in Clients
    BY DEF Requests
  <2> QED
    BY <1>6, <2>1, RotateEffect DEF Login, Results
<1>7. ASSUME NEW r \in Requests, NothingLearned,
             UNCHANGED <<store, timers, history, now, lost>>
      PROVE  Effect
  <2>1. now' \in Nat /\ now' >= now
    BY <1>7 DEF IInv, TypeOK
  <2> QED
    BY <1>0, <1>7, <2>1, QuietEffect
<1>8. ASSUME NEW r \in Requests, Logout(r)
      PROVE  Effect
  <2>1. NothingLearned
    <3>1. CASE Reply(r, "LoggedOut", None)
      BY <1>0, <1>8, <3>1, ReplyQuiet DEF Logout, Results
    <3>2. CASE Await(r, "remove", "LoggedOut")
      BY <1>0, <1>8, <3>2, AwaitQuiet DEF Logout, Results
    <3> QED
      BY <1>8, <3>1, <3>2 DEF Logout
  <2> QED
    BY <1>7, <1>8, <2>1 DEF Logout
<1>9. ASSUME NEW r \in Requests, ReadSession(r)
      PROVE  Effect
  <2>1. \/ \E result \in {"Decoded", "Corrupt", "NoSession"},
              e \in {SessionExpiry, None} : Reply(r, result, e)
        \/ Await(r, "lookup", "none")
    BY <1>9 DEF ReadSession, DecodeOutcomes
  <2>2. SessionExpiry \in Nat
    BY ConfigAssumption DEF IInv, TypeOK, SessionExpiry
  <2>3. req[r].pc = "begin" /\ UNCHANGED jar
    BY <1>9 DEF ReadSession
  <2>4. NothingLearned
    <3>1. ASSUME NEW result \in {"Decoded", "Corrupt", "NoSession"},
                 NEW e \in {SessionExpiry, None}, Reply(r, result, e)
          PROVE  NothingLearned
      BY <1>0, <2>2, <2>3, <3>1, ReplyQuiet DEF Results
    <3>2. CASE Await(r, "lookup", "none")
      BY <1>0, <2>3, <3>2, AwaitQuiet DEF Results
    <3> QED
      BY <2>1, <3>1, <3>2
  <2> QED
    BY <1>7, <1>9, <2>4 DEF ReadSession
<1>10. ASSUME NEW r \in Requests, Lookup(r)
       PROVE  Effect
  <2>1. /\ req[r] \in Request /\ req[r].pc = "lookup" /\ req[r].sel # None
        /\ req[r].fresh = None
        /\ \A x \in Requests \ {r} : req'[x] = req[x]
        /\ req'[r].pc = "check" /\ req'[r].sel = req[r].sel
        /\ req'[r].fresh = None /\ req'[r].result = req[r].result
        /\ req'[r].found = store[req[r].sel]
    BY <1>10 DEF Lookup, IInv, TypeOK, RequestShape, Request
  <2>2. UNCHANGED <<store, timers, history, now, lost, jar>>
    BY <1>10 DEF Lookup
  <2>3. ASSUME NEW s \in Selectors, Exposed(s)'
        PROVE  Exposed(s)
    <3>1. CASE \E d \in Clients : jar'[d].refresh = s
      BY <2>2, <3>1 DEF Exposed
    <3>2. ASSUME NEW y \in Requests, req'[y].sel = s
          PROVE  Exposed(s)
      BY <2>1, <3>2 DEF Exposed
    <3>3. ASSUME NEW y \in Requests, req'[y].pc = "reply", req'[y].fresh = s
          PROVE  Exposed(s)
      BY <2>1, <3>3 DEF Exposed
    <3> QED
      BY <2>3, <3>1, <3>2, <3>3 DEF Exposed
  <2>4. \A x \in Requests : FreshStep(x)
    BY <2>1 DEF FreshStep
  <2>5. \A x \in Requests : LookupStep(x)
    BY <2>1 DEF LookupStep, NotFound
  <2>6. NothingLearned
    BY <2>3, <2>4, <2>5 DEF NothingLearned
  <2> QED
    BY <1>7, <2>2, <2>6
<1>11. ASSUME NEW r \in Requests, Check(r)
       PROVE  Effect
  <2>1. /\ req[r] \in Request
        /\ req[r].pc = "check"
        /\ UNCHANGED <<now, jar, lost>>
    BY <1>11 DEF Check, IInv, TypeOK
  <2>2. CASE /\ req[r].found = None
             /\ Reply(r, "TokenNotFound", None)
             /\ UNCHANGED <<store, timers, history>>
    <3>1. NotFound(r)
      BY <2>1, <2>2 DEF NotFound
    <3>2. NothingLearned
      BY <1>0, <2>1, <2>2, <3>1, ReplyQuiet DEF Results
    <3> QED
      BY <1>7, <2>1, <2>2, <3>2
  <2>3. ASSUME NEW result \in {"Expired", "Corrupt"}, Await(r, "remove", result),
               UNCHANGED <<store, timers, history>>
        PROVE  Effect
    <3>1. NothingLearned
      BY <1>0, <2>1, <2>3, AwaitQuiet DEF Results
    <3> QED
      BY <1>7, <2>1, <2>3, <3>1
  <2>4. CASE /\ req[r].found # None
             /\ Rotate(r, req[r].found.session, "CreatedFromToken")
    <3>1. req[r].found.session \in Clients
      BY <2>1, <2>4 DEF Request, Records
    <3> QED
      BY <2>1, <2>4, <3>1, RotateEffect DEF Results
  <2> QED
    BY <1>11, <2>2, <2>3, <2>4 DEF Check
<1>12. ASSUME NEW r \in Requests, req[r].pc = "remove",
              Remove({req[r].sel}, ReasonOf(req[r].result)), NothingLearned,
              UNCHANGED <<issued, usedAt, now, timers, lost>>
       PROVE  Effect
  <2>1. req[r].sel \in Selectors /\ Exposed(req[r].sel)
    BY <1>12 DEF Exposed, IInv, TypeOK, RequestShape, Request
  <2>2. ReasonOf(req[r].result) \in Reasons \ {"none", "timer"}
    BY DEF ReasonOf, Reasons
  <2>3. RemovalStep({req[r].sel}, ReasonOf(req[r].result))
    BY <1>12, <2>1, <2>2 DEF RemovalStep
  <2> QED
    BY <1>0, <1>12, <2>1, <2>2, <2>3, RemoveEffect
<1>13. ASSUME NEW r \in Requests, RemoveDone(r)
       PROVE  Effect
  <2>1. req[r].result \in Results /\ req[r].pc = "remove"
    BY <1>13 DEF RemoveDone, IInv, TypeOK, Request
  <2>2. NothingLearned
    BY <1>0, <1>13, <2>1, ReplyQuiet DEF RemoveDone, NotFound
  <2> QED
    BY <1>12, <1>13, <2>1, <2>2 DEF RemoveDone
<1>14. ASSUME NEW r \in Requests, StoreDone(r)
       PROVE  Effect
  <2>1. /\ \A x \in Requests \ {r} : req'[x] = req[x]
        /\ req'[r].pc = "reply" /\ req'[r].fresh = req[r].fresh
        /\ req'[r].sel = req[r].sel /\ req'[r].result = req[r].result
    BY <1>14 DEF StoreDone, IInv, TypeOK, Request
  <2> QED
    BY <1>14, <2>1, StoreEffect DEF StoreDone
<1>15. ASSUME NEW r \in Requests, StorageFails(r)
       PROVE  Effect
  <2>1. req' = [x \in Requests |-> IF x \in {r} THEN Idle ELSE req[x]]
    BY <1>4, <1>15 DEF StorageFails
  <2>2. UNCHANGED <<now, timers, jar, issued, usedAt, lost>>
    BY <1>15 DEF StorageFails
  <2>3. CASE UNCHANGED <<store, gone>>
    BY <1>3, <2>1, <2>2, <2>3
  <2>4. CASE req[r].pc = "remove" /\ Remove({req[r].sel}, ReasonOf(req[r].result))
    <3>1. NothingLearned
      BY <1>0, <2>1, <2>2, IdleQuiet
    <3> QED
      BY <1>12, <2>2, <2>4, <3>1
  <2>5. CASE /\ req[r].pc = "store"
             /\ store' = [store EXCEPT ![req[r].fresh] = req[r].data]
             /\ UNCHANGED gone
    <3>1. /\ \A x \in Requests \ {r} : req'[x] = req[x]
          /\ req'[r].pc = "idle" /\ req'[r].fresh = None
          /\ req'[r].sel = None /\ req'[r].result = "none"
      BY <2>1 DEF Idle
    <3> QED
      BY <2>2, <2>5, <3>1, StoreEffect
  <2> QED
    BY <1>15, <2>3, <2>4, <2>5 DEF StorageFails
<1>16. ASSUME NothingLearned, UNCHANGED <<store, history, now>>, timers' \subseteq timers,
              \A t \in timers \ timers' : t.sel \in lost', lost \subseteq lost'
       PROVE  Effect
  <2>1. NamesStep
    BY <1>16 DEF NothingLearned, NamesStep, Touched
  <2>2. \A s \in Selectors :
           (\E t \in timers : t.sel = s) => s \in lost' \/ \E t \in timers' : t.sel = s
    BY <1>16
  <2>3. StoreStep
    BY <1>16, <2>2 DEF NothingLearned, StoreStep
  <2>4. HistoryStep /\ TimersStep
    BY <1>16 DEF HistoryStep, TimersStep
  <2>5. now' >= now
    BY <1>16 DEF IInv, TypeOK
  <2>6. GraceStep
    BY <1>16, <2>4, <2>5 DEF NothingLearned, GraceStep
  <2> QED
    BY <2>1, <2>3, <2>6 DEF Effect
<1>17. ASSUME NEW t \in timers, RunScheduled(t)
       PROVE  Effect
  <2>1. /\ t.sel \in Selectors /\ Touched(t.sel)
        /\ "timer" \in Reasons \ {"none"}
    BY DEF IInv, TypeOK, TimerSet, Touched, Reasons
  <2>2. UNCHANGED <<jar, req>>
    BY <1>17 DEF RunScheduled
  <2>3. NothingLearned
    BY <2>2 DEF NothingLearned, Exposed, FreshStep, LookupStep, NotFound
  <2>4. CASE Remove({t.sel}, "timer") /\ UNCHANGED trouble
    <3>1. RemovalStep({t.sel}, "timer")
      BY <1>17, <2>1, <2>4 DEF RunScheduled, RemovalStep, trouble
    <3> QED
      BY <1>0, <2>1, <2>3, <3>1, RemoveEffect
  <2>5. CASE UNCHANGED <<store, gone>> /\ lost' = lost \cup {t.sel}
    <3>1. UNCHANGED <<store, history, now>> /\ timers' = timers \ {t}
      BY <1>17, <2>5 DEF RunScheduled, history
    <3> QED
      BY <2>3, <2>5, <3>1, <1>16
  <2> QED
    BY <1>17, <2>4, <2>5 DEF RunScheduled
<1>18. CASE Restart
  <2>1. req' = [x \in Requests |-> IF x \in Requests THEN Idle ELSE req[x]]
    BY <1>18 DEF Restart
  <2>2. /\ UNCHANGED <<store, history, now, jar>> /\ timers' = {}
        /\ lost' = lost \cup {t.sel : t \in timers}
    BY <1>18 DEF Restart
  <2>3. NothingLearned
    BY <1>0, <2>1, <2>2, IdleQuiet
  <2> QED
    BY <2>2, <2>3, <1>16
<1>19. CASE Tick
  <2>1. UNCHANGED <<jar, req, store, timers, history, lost>>
    BY <1>19 DEF Tick
  <2>2. NothingLearned
    BY <2>1 DEF NothingLearned, Exposed, FreshStep, LookupStep, NotFound
  <2>3. now' \in Nat /\ now' >= now
    BY <1>19 DEF Tick, IInv, TypeOK
  <2> QED
    BY <1>0, <2>1, <2>2, <2>3, QuietEffect
<1> QED
  BY <1>1, <1>2, <1>5, <1>6, <1>8, <1>9, <1>10, <1>11, <1>13, <1>14, <1>15,
     <1>17, <1>18, <1>19 DEF Next, ServerStep

(***************************************************************************)
(* The theorems.                                                           *)
(***************************************************************************)

LEMMA InductiveInit == Init => IInv
<1>. SUFFICES ASSUME Init
              PROVE  IInv
  OBVIOUS
<1>1. TypeOK /\ RequestShape
  BY TypeInit DEF TypeInv
<1>2. /\ \A r \in Requests : /\ req[r].pc = "idle" /\ req[r].sel = None
                             /\ req[r].fresh = None /\ req[r].result = "none"
      /\ \A c \in Clients : jar[c].refresh = None
  BY DEF Init, Idle
<1>3. \A s \in Selectors : ~Exposed(s)
  BY <1>2, NoneAssumption DEF Exposed
<1>4. \A s \in Selectors : ~Touched(s)
  BY DEF Init, Touched
<1>5. OnlyIssuedKnown
  BY <1>2, <1>3, <1>4, NoneAssumption DEF OnlyIssuedKnown
<1>6. PendingIsPrivate /\ NotFoundIsGone
  BY <1>2 DEF PendingIsPrivate, NotFoundIsGone
<1>7. ExposedIsStored
  BY <1>3 DEF ExposedIsStored
<1>8. UsedInPast /\ TimersKeepGrace /\ RemovedStaysRemoved /\ UsedTokenIsScheduled
  BY DEF Init, UsedInPast, TimersKeepGrace, RemovedStaysRemoved,
         UsedTokenIsScheduled
<1> QED
  BY <1>1, <1>5, <1>6, <1>7, <1>8 DEF IInv

LEMMA InductiveStep == IInv /\ [Next]_vars => IInv'
<1>. SUFFICES ASSUME IInv, [Next]_vars
              PROVE  IInv'
  OBVIOUS
<1>1. TypeInv'
  BY TypeStep DEF IInv, TypeInv
<1>2. CASE Next
  BY <1>1, <1>2, StepEffect, EffectPreserves
<1>3. CASE UNCHANGED vars
  BY <1>3
  DEF vars, IInv, TypeOK, RequestShape, OnlyIssuedKnown, PendingIsPrivate,
      ExposedIsStored, NotFoundIsGone, UsedInPast, TimersKeepGrace,
      RemovedStaysRemoved, UsedTokenIsScheduled, Exposed, Touched
<1> QED
  BY <1>2, <1>3

LEMMA Inductive == Spec => []IInv
BY InductiveInit, InductiveStep, PTL DEF Spec

\* A selector that storage.remove was called on never has a record again:
\* no store, rotation or scheduled removal that was under way brings a logged
\* out or used up refresh token back.
THEOREM RemovedForGood == Spec => []RemovedStaysRemoved
<1>1. IInv => RemovedStaysRemoved
  BY DEF IInv
<1> QED
  BY <1>1, Inductive, PTL

\* A used token that is still stored has its removal scheduled, unless a removal
\* of this token failed in the storage or a restart lost it.
THEOREM UsedIsScheduled == Spec => []UsedTokenIsScheduled
<1>1. IInv => UsedTokenIsScheduled
  BY DEF IInv
<1> QED
  BY <1>1, Inductive, PTL

\* With a storage whose schedule waits as it is asked to, requests that carry
\* a used token are served for config.removeUsedRefreshTokenAfter.
THEOREM UsedIsServedInGrace ==
    ASSUME ~ImmediateSchedule
    PROVE  Spec => []UsedTokenServedInGrace
<1>1. IInv => UsedTokenServedInGrace
  <2>. SUFFICES ASSUME IInv, NEW r \in Requests,
                       req[r].result = "TokenNotFound"
                PROVE  LET s == req[r].sel IN
                       \/ gone[s] \in {"logout", "expired", "corrupt"}
                       \/ usedAt[s] # None /\ now >= usedAt[s] + RemoveAfter
    BY DEF UsedTokenServedInGrace
  <2>1. req[r].sel \in Selectors /\ gone[req[r].sel] # "none"
    BY DEF IInv, NotFoundIsGone, TypeOK, RequestShape, Request
  <2>2. gone[req[r].sel] \in {"timer", "logout", "expired", "corrupt"}
    BY <2>1 DEF IInv, TypeOK, Reasons
  <2> QED
    BY <2>1, <2>2 DEF IInv, TimersKeepGrace
<1> QED
  BY <1>1, Inductive, PTL


(***************************************************************************)
(* Whose the tokens are: a second invariant, on top of IInv, from which    *)
(* IdleClientHoldsLiveToken and NoAbandonedToken follow.                   *)
(***************************************************************************)

\* The client has s in its jar, sent it in a request, or is about to get it.
Knows(c, s) ==
    \/ jar[c].refresh = s
    \/ \E r \in Requests : r[1] = c /\ (req[r].sel = s \/ req[r].fresh = s)

\* What a request has come to, and what it did to the token it carries.
Course(r) ==
    LET q == req[r] IN
    /\ q.pc = "idle" => q = Idle
    /\ q.form \in {"wrongToken", "undecodable"} => r[1] \in lossy
    /\ q.pc = "remove" => \/ q.result \in {"LoggedOut", "Expired"}
                          \/ q.result = "Corrupt" /\ q.form = "wrongToken"
    /\ q.pc = "reply" /\ q.result = "LoggedOut" /\ q.sel # None => gone[q.sel] # "none"
    /\ q.fresh # None => /\ q.result \in {"LoggedIn", "CreatedFromToken"}
                         /\ q.sel # None => usedAt[q.sel] # None
    /\ q.found # None => q.found.session = r[1]
    /\ q.data # None => q.data.session = r[1]

\* No two clients know a token, and its record names the one that does.
OwnTokens ==
    \A c \in Clients, s \in Selectors : Knows(c, s) =>
       /\ \A d \in Clients : Knows(d, s) => c = d
       /\ store[s] # None => store[s].session = c

\* Nobody has seen or touched a token before the reply that brings it.
FreshUnseen ==
    \A r \in Requests :
       LET s == req[r].fresh IN
       s # None =>
          /\ \A c \in Clients : jar[c].refresh # s
          /\ \A x \in Requests : req[x].sel # s /\ (req[x].fresh = s => x = r)
          /\ usedAt[s] = None /\ gone[s] = "none" /\ \A t \in timers : t.sel # s

\* The timer is for used tokens.
TimersAreForUsed ==
    /\ \A t \in timers : usedAt[t.sel] # None
    /\ \A s \in Selectors : gone[s] = "timer" => usedAt[s] # None

\* The token in a jar was used or logged out only by a request on its way.
JarTokenLive ==
    \A c \in Clients \ lossy :
       LET s == jar[c].refresh IN
       s # None =>
          /\ usedAt[s] # None =>
                \E r \in Requests : r[1] = c /\ req[r].sel = s /\ req[r].fresh # None
          /\ gone[s] = "logout" =>
                \E r \in Requests : /\ r[1] = c /\ req[r].sel = s /\ req[r].pc = "reply"
                                    /\ req[r].result = "LoggedOut"
          /\ gone[s] # "corrupt"

\* The only request of a client carries what its jar holds.
CarriesJar ==
    \A r \in Requests :
       LET c == r[1] IN
       req[r].pc # "idle" /\ c \notin overlapped =>
          /\ \A x \in Requests : x[1] = c /\ req[x].pc # "idle" => x = r
          /\ req[r].sel # None => req[r].sel = jar[c].refresh
          /\ req[r].form = "absent" => jar[c].refresh = None

LInv ==
    /\ \A r \in Requests : Course(r)
    /\ OwnTokens /\ FreshUnseen /\ TimersAreForUsed /\ JarTokenLive /\ CarriesJar
    /\ NoAbandonedToken

\* What the types say of a request and a jar.
LEMMA RequestFacts ==
    ASSUME TypeInv, NEW r \in Requests
    PROVE  /\ r[1] \in Clients
           /\ req[r].sel \in Selectors \cup {None} /\ req[r].fresh \in Selectors \cup {None}
           /\ req[r].form \in Forms
           /\ req[r].sel # None <=> req[r].form \in {"genuine", "wrongToken"}
           /\ req[r].pc \in {"lookup", "check", "remove"} => req[r].sel # None
           /\ req[r].pc \notin {"store", "reply"} => req[r].fresh = None
           /\ req[r].pc = "store" => req[r].fresh # None /\ req[r].data # None
<1>1. r[1] \in Clients
  BY DEF Requests
<1>2. req[r] \in Request
  BY DEF TypeInv, TypeOK
<1> QED
  BY <1>1, <1>2 DEF Request, TypeInv, RequestShape

LEMMA JarFacts ==
    ASSUME TypeInv, NEW c \in Clients
    PROVE  jar[c].refresh \in Selectors \cup {None}
BY DEF TypeInv, TypeOK

\* A step in which no selector is drawn: clients and their requests pass on
\* what they know, and what a jar takes from a reply is gone from the reply.
NoneDrawn ==
    /\ \A x \in Requests :
          /\ req'[x].sel \in {None, req[x].sel, jar[x[1]].refresh}
          /\ req'[x].fresh \in {None, req[x].fresh}
    /\ \A c \in Clients :
          \/ jar'[c].refresh \in {None, jar[c].refresh}
          \/ \E x \in Requests : /\ x[1] = c /\ jar'[c].refresh = req[x].fresh
                                 /\ req'[x].fresh = None

LEMMA KnownBefore ==
    ASSUME NoneDrawn, NEW c \in Clients, NEW s \in Selectors, Knows(c, s)'
    PROVE  Knows(c, s)
<1>1. s # None
  BY NoneAssumption
<1>2. CASE jar'[c].refresh = s
  BY <1>1, <1>2 DEF NoneDrawn, Knows
<1>3. ASSUME NEW r \in Requests, r[1] = c, req'[r].sel = s \/ req'[r].fresh = s
      PROVE  Knows(c, s)
  BY <1>1, <1>3 DEF NoneDrawn, Knows
<1> QED
  BY <1>2, <1>3 DEF Knows

\* Records stay, go, or are made by a client that knows the selector.
LEMMA OwnTokensKept ==
    ASSUME OwnTokens, NoneDrawn,
           \A s \in Selectors :
              \/ store'[s] \in {None, store[s]}
              \/ \E c \in Clients : Knows(c, s) /\ store'[s].session = c
    PROVE  OwnTokens'
<1>. SUFFICES ASSUME NEW c \in Clients, NEW s \in Selectors, Knows(c, s)'
              PROVE  /\ \A d \in Clients : Knows(d, s)' => c = d
                     /\ store'[s] # None => store'[s].session = c
  BY DEF OwnTokens
<1>1. Knows(c, s) /\ \A d \in Clients : Knows(d, s)' => Knows(d, s)
  BY KnownBefore
<1>2. /\ \A d \in Clients : Knows(d, s) => c = d
      /\ store[s] # None => store[s].session = c
  BY <1>1 DEF OwnTokens
<1> QED
  BY <1>1, <1>2

\* Only tokens that a request carries or a timer waits for are removed.
LEMMA FreshUnseenKept ==
    ASSUME TypeInv, TypeInv', FreshUnseen, NoneDrawn, UNCHANGED usedAt, timers' \subseteq timers,
           \A s \in Selectors : \/ gone'[s] = gone[s]
                                \/ \E x \in Requests : req[x].sel = s
                                \/ \E t \in timers : t.sel = s
    PROVE  FreshUnseen'
<1>. SUFFICES ASSUME NEW r \in Requests, NEW s, s = req'[r].fresh, s # None
              PROVE  /\ \A c \in Clients : jar'[c].refresh # s
                     /\ \A x \in Requests : req'[x].sel # s /\ (req'[x].fresh = s => x = r)
                     /\ usedAt'[s] = None /\ gone'[s] = "none" /\ \A t \in timers' : t.sel # s
  BY DEF FreshUnseen
<1>1. s = req[r].fresh /\ s \in Selectors
  BY RequestFacts DEF NoneDrawn
<1>2. /\ \A c \in Clients : jar[c].refresh # s
      /\ \A x \in Requests : req[x].sel # s /\ (req[x].fresh = s => x = r)
      /\ usedAt[s] = None /\ gone[s] = "none" /\ \A t \in timers : t.sel # s
  BY <1>1 DEF FreshUnseen
<1>3. ASSUME NEW x \in Requests PROVE req'[x].sel # s /\ (req'[x].fresh = s => x = r)
  <2>1. jar[x[1]].refresh # s
    BY <1>2, RequestFacts
  <2> QED
    BY <1>2, <2>1 DEF NoneDrawn
<1>4. ASSUME NEW c \in Clients PROVE jar'[c].refresh # s
  <2>1. ASSUME NEW x \in Requests, jar'[c].refresh = req[x].fresh, req'[x].fresh = None
        PROVE  jar'[c].refresh # s
    BY <1>2, <2>1
  <2> QED
    BY <1>2, <2>1 DEF NoneDrawn
<1>5. usedAt'[s] = None /\ gone'[s] = "none" /\ \A t \in timers' : t.sel # s
  BY <1>1, <1>2
<1> QED
  BY <1>3, <1>4, <1>5

\* What a request carries is known to its client.
LEMMA CarriedKnown ==
    ASSUME OwnTokens, NEW r \in Requests, NEW c \in Clients, NEW s \in Selectors,
           r[1] \in Clients, req[r].sel = s \/ req[r].fresh = s, Knows(c, s)
    PROVE  r[1] = c
<1>1. Knows(r[1], s)
  BY DEF Knows
<1> QED
  BY <1>1 DEF OwnTokens

\* The steps of a request between its cookies and its reply that touch no token.
LEMMA ProgressKeeps ==
    ASSUME IInv, TypeInv', LInv, NEW r \in Requests,
           req[r].pc \in {"begin", "lookup", "check"}, Course(r)',
           \A x \in Requests \ {r} : req'[x] = req[x],
           req'[r].pc # "idle", req'[r].sel = req[r].sel, req'[r].form = req[r].form,
           req'[r].fresh = None,
           UNCHANGED <<store, timers, jar, history, lost, lossy, overlapped>>
    PROVE  LInv'
<1>. USE DEF history
<1>0. TypeInv /\ req[r].fresh = None
  BY RequestFacts DEF IInv, TypeInv
<1>1. NoneDrawn
  BY <1>0 DEF NoneDrawn
<1>2. OwnTokens'
  BY <1>1, OwnTokensKept DEF LInv
<1>3. FreshUnseen'
  BY <1>0, <1>1, FreshUnseenKept DEF LInv
<1>4. \A x \in Requests : Course(x)'
  BY DEF LInv, Course
<1>5. TimersAreForUsed'
  BY DEF LInv, TimersAreForUsed
<1>6. JarTokenLive'
  <2>. SUFFICES ASSUME NEW c \in Clients \ lossy, NEW s, s = jar[c].refresh, s # None
                PROVE  /\ usedAt[s] # None =>
                             \E x \in Requests : x[1] = c /\ req'[x].sel = s /\ req'[x].fresh # None
                       /\ gone[s] = "logout" =>
                             \E x \in Requests : /\ x[1] = c /\ req'[x].sel = s /\ req'[x].pc = "reply"
                                                 /\ req'[x].result = "LoggedOut"
                       /\ gone[s] # "corrupt"
    BY DEF JarTokenLive
  <2>1. /\ usedAt[s] # None =>
              \E x \in Requests : x[1] = c /\ req[x].sel = s /\ req[x].fresh # None
        /\ gone[s] = "logout" =>
              \E x \in Requests : /\ x[1] = c /\ req[x].sel = s /\ req[x].pc = "reply"
                                  /\ req[x].result = "LoggedOut"
        /\ gone[s] # "corrupt"
    BY DEF LInv, JarTokenLive
  <2>2. \A x \in Requests : req[x].fresh # None \/ req[x].pc = "reply" => req'[x] = req[x]
    BY <1>0
  <2> QED
    BY <2>1, <2>2
<1>7. CarriesJar'
  BY DEF LInv, CarriesJar
<1>8. NoAbandonedToken'
  BY <1>0 DEF LInv, NoAbandonedToken
<1> QED
  BY <1>2, <1>3, <1>4, <1>5, <1>6, <1>7, <1>8 DEF LInv

\* What storage.remove does to each selector.
LEMMA RemovedIs ==
    ASSUME NEW x, NEW why \in Reasons \ {"none"}, Remove({x}, why), NEW s \in Selectors
    PROVE  /\ s = x => store'[s] = None /\ gone'[s] # "none"
           /\ s = x /\ gone[s] = "none" => gone'[s] = why
           /\ s # x => store'[s] = store[s] /\ gone'[s] = gone[s]
           /\ gone[s] # "none" => gone'[s] = gone[s]
BY DEF Remove

\* A logout is completed, or a token removed that has expired or is mistrusted.
LEMMA RemoveDoneKeeps ==
    ASSUME IInv, TypeInv', LInv, NEW r \in Requests, RemoveDone(r)
    PROVE  LInv'
<1>. DEFINE f == req[r].sel
            why == ReasonOf(req[r].result)
<1>. USE DEF trouble
<1>0. TypeInv /\ req[r].pc = "remove" /\ r[1] \in Clients
  BY RequestFacts DEF RemoveDone, IInv, TypeInv
<1>1. f \in Selectors /\ f # None /\ req[r].fresh = None
  BY <1>0, RequestFacts
<1>2. /\ \A x \in Requests \ {r} : req'[x] = req[x]
      /\ req'[r].pc = "reply" /\ req'[r].sel = f /\ req'[r].form = req[r].form
      /\ req'[r].fresh = None /\ req'[r].result = req[r].result
      /\ req'[r].found = None /\ req'[r].data = req[r].data
      /\ UNCHANGED <<timers, jar, usedAt, lossy, lost, overlapped>>
  BY <1>1 DEF RemoveDone, Reply, TypeInv, TypeOK, Request, IInv
<1>3. why \in {"logout", "expired", "corrupt"} /\ why \in Reasons \ {"none"}
  BY DEF ReasonOf, Reasons
<1>4. \A s \in Selectors :
         /\ s = f => store'[s] = None /\ gone'[s] # "none"
         /\ s = f /\ gone[s] = "none" => gone'[s] = why
         /\ s # f => store'[s] = store[s] /\ gone'[s] = gone[s]
         /\ gone[s] # "none" => gone'[s] = gone[s]
  <2>1. Remove({f}, why)
    BY DEF RemoveDone
  <2>. HIDE DEF f, why
  <2> QED
    BY <2>1, <1>3, RemovedIs
<1>. HIDE DEF why
<1>5. NoneDrawn
  BY <1>1, <1>2 DEF NoneDrawn
<1>6. OwnTokens'
  BY <1>4, <1>5, OwnTokensKept DEF LInv
<1>7. FreshUnseen'
  BY <1>0, <1>2, <1>4, <1>5, FreshUnseenKept DEF LInv
<1>8. ASSUME NEW x \in Requests PROVE Course(x)'
  <2>1. Course(x) /\ req[x].sel \in Selectors \cup {None}
    BY <1>0, RequestFacts DEF LInv
  <2>2. CASE x = r
    BY <2>1, <2>2, <1>1, <1>2, <1>4 DEF Course
  <2>3. CASE x # r
    BY <2>1, <2>3, <1>2, <1>4 DEF Course
  <2> QED
    BY <2>2, <2>3
<1>9. TimersAreForUsed'
  BY <1>2, <1>3, <1>4 DEF LInv, TimersAreForUsed
<1>10. JarTokenLive'
  <2>. SUFFICES ASSUME NEW c \in Clients \ lossy, NEW s, s = jar[c].refresh, s # None
                PROVE  /\ usedAt[s] # None =>
                             \E x \in Requests : x[1] = c /\ req'[x].sel = s /\ req'[x].fresh # None
                       /\ gone'[s] = "logout" =>
                             \E x \in Requests : /\ x[1] = c /\ req'[x].sel = s /\ req'[x].pc = "reply"
                                                 /\ req'[x].result = "LoggedOut"
                       /\ gone'[s] # "corrupt"
    BY <1>2 DEF JarTokenLive
  <2>1. /\ usedAt[s] # None =>
              \E x \in Requests : x[1] = c /\ req[x].sel = s /\ req[x].fresh # None
        /\ gone[s] = "logout" =>
              \E x \in Requests : /\ x[1] = c /\ req[x].sel = s /\ req[x].pc = "reply"
                                  /\ req[x].result = "LoggedOut"
        /\ gone[s] # "corrupt"
    BY DEF LInv, JarTokenLive
  <2>2. \A x \in Requests : req[x].fresh # None \/ req[x].pc = "reply" => req'[x] = req[x]
    BY <1>0, <1>1, <1>2
  <2>3. s \in Selectors
    BY <1>0, JarFacts
  <2>4. CASE gone'[s] = gone[s]
    BY <2>1, <2>2, <2>4
  <2>5. CASE gone'[s] # gone[s]
    <3>1. s = f /\ gone'[s] = why
      BY <1>4, <2>3, <2>5
    <3>2. r[1] = c
      <4>1. Knows(c, s)
        BY DEF Knows
      <4> QED
        BY <1>0, <2>3, <3>1, <4>1, CarriedKnown DEF LInv
    <3>3. req[r].form # "wrongToken"
      BY <3>2 DEF LInv, Course
    <3>4. req[r].result \in {"LoggedOut", "Expired"}
      BY <1>0, <3>3 DEF LInv, Course
    <3>5. why = "logout" <=> req[r].result = "LoggedOut"
      BY <3>4 DEF why, ReasonOf
    <3>6. why # "corrupt"
      BY <3>4 DEF why, ReasonOf
    <3> QED
      BY <2>1, <2>2, <3>1, <3>2, <3>5, <3>6, <1>2
  <2> QED
    BY <2>4, <2>5
<1>11. CarriesJar'
  BY <1>0, <1>2 DEF LInv, CarriesJar
<1>12. NoAbandonedToken'
  <2>. SUFFICES ASSUME NEW s \in Selectors, store'[s] # None,
                       store'[s].session \notin lossy \cup overlapped
                PROVE  \/ jar[store'[s].session].refresh = s
                       \/ \E x \in Requests : req'[x].pc = "reply" /\ req'[x].fresh = s
                       \/ \E t \in timers : t.sel = s
                       \/ s \in lost
    BY <1>2 DEF NoAbandonedToken
  <2>1. store'[s] = store[s]
    BY <1>4
  <2>2. \/ jar[store[s].session].refresh = s
        \/ \E x \in Requests : req[x].pc = "reply" /\ req[x].fresh = s
        \/ \E t \in timers : t.sel = s
        \/ s \in lost
    BY <2>1 DEF LInv, NoAbandonedToken
  <2>3. \A x \in Requests : req[x].pc = "reply" => req'[x] = req[x]
    BY <1>0, <1>2
  <2> QED
    BY <2>1, <2>2, <2>3
<1> QED
  BY <1>6, <1>7, <1>8, <1>9, <1>10, <1>11, <1>12 DEF LInv

\* The timer removes a token that is used.
LEMMA TimerKeeps ==
    ASSUME IInv, TypeInv', LInv, NEW t \in timers, RunScheduled(t),
           Remove({t.sel}, "timer") /\ UNCHANGED trouble
    PROVE  LInv'
<1>. USE DEF trouble
<1>0. /\ TypeInv /\ t.sel \in Selectors /\ timers' = timers \ {t}
      /\ UNCHANGED <<jar, req, usedAt, lossy, lost, overlapped>>
  BY DEF RunScheduled, IInv, TypeInv, TypeOK, TimerSet
<1>1. \A s \in Selectors :
         /\ s = t.sel => store'[s] = None /\ gone'[s] # "none"
         /\ s = t.sel /\ gone[s] = "none" => gone'[s] = "timer"
         /\ s # t.sel => store'[s] = store[s] /\ gone'[s] = gone[s]
         /\ gone[s] # "none" => gone'[s] = gone[s]
  <2>1. "timer" \in Reasons \ {"none"}
    BY DEF Reasons
  <2> QED
    BY <2>1, RemovedIs
<1>2. NoneDrawn
  BY <1>0 DEF NoneDrawn
<1>3. OwnTokens'
  BY <1>1, <1>2, OwnTokensKept DEF LInv
<1>4. FreshUnseen'
  BY <1>0, <1>1, <1>2, FreshUnseenKept DEF LInv
<1>5. ASSUME NEW x \in Requests PROVE Course(x)'
  <2>1. Course(x) /\ req[x].sel \in Selectors \cup {None}
    BY <1>0, RequestFacts DEF LInv
  <2> QED
    BY <2>1, <1>0, <1>1 DEF Course
<1>6. TimersAreForUsed'
  BY <1>0, <1>1 DEF LInv, TimersAreForUsed
<1>7. JarTokenLive'
  <2>1. \A c \in Clients : jar[c].refresh \in Selectors \cup {None}
    BY <1>0, JarFacts
  <2>2. \A s \in Selectors : gone'[s] \in {"logout", "corrupt"} => gone'[s] = gone[s]
    BY <1>1
  <2> QED
    BY <1>0, <2>1, <2>2 DEF LInv, JarTokenLive
<1>8. CarriesJar'
  BY <1>0 DEF LInv, CarriesJar
<1>9. NoAbandonedToken'
  BY <1>0, <1>1 DEF LInv, NoAbandonedToken
<1> QED
  BY <1>3, <1>4, <1>5, <1>6, <1>7, <1>8, <1>9 DEF LInv

\* The record of a new token is stored and its reply sent.
LEMMA StoreDoneKeeps ==
    ASSUME IInv, TypeInv', LInv, NEW r \in Requests, StoreDone(r)
    PROVE  LInv'
<1>. DEFINE f == req[r].fresh
<1>. USE DEF trouble, history
<1>0. TypeInv /\ req[r].pc = "store" /\ r[1] \in Clients
  BY RequestFacts DEF StoreDone, IInv, TypeInv
<1>1. f \in Selectors /\ f # None /\ req[r].data # None
  BY <1>0, RequestFacts
<1>2. /\ \A x \in Requests \ {r} : req'[x] = req[x]
      /\ req'[r].pc = "reply" /\ req'[r].sel = req[r].sel /\ req'[r].form = req[r].form
      /\ req'[r].fresh = f /\ req'[r].result = req[r].result
      /\ req'[r].found = req[r].found /\ req'[r].data = None
      /\ UNCHANGED <<timers, jar, usedAt, gone, lossy, lost, overlapped>>
  BY DEF StoreDone, TypeOK, Request, IInv
<1>3. \A s \in Selectors : store'[s] = IF s = f THEN req[r].data ELSE store[s]
  BY DEF StoreDone, TypeOK, IInv
<1>4. NoneDrawn
  BY <1>2 DEF NoneDrawn
<1>5. req[r].data.session = r[1] /\ Knows(r[1], f)
  BY <1>1 DEF LInv, Course, Knows
<1>. HIDE DEF f
<1>6. OwnTokens'
  <2>1. ASSUME NEW s \in Selectors
        PROVE  \/ store'[s] \in {None, store[s]}
               \/ \E c \in Clients : Knows(c, s) /\ store'[s].session = c
    BY <1>0, <1>3, <1>5
  <2> QED
    BY <2>1, <1>4, OwnTokensKept DEF LInv
<1>7. FreshUnseen'
  BY <1>0, <1>2, <1>4, FreshUnseenKept DEF LInv
<1>8. ASSUME NEW x \in Requests PROVE Course(x)'
  <2>1. Course(x)
    BY DEF LInv
  <2>2. CASE x = r
    BY <2>1, <2>2, <1>0, <1>1, <1>2 DEF Course, f
  <2>3. CASE x # r
    BY <2>1, <2>3, <1>2 DEF Course
  <2> QED
    BY <2>2, <2>3
<1>9. TimersAreForUsed'
  BY <1>2 DEF LInv, TimersAreForUsed
<1>10. JarTokenLive'
  <2>1. \A x \in Requests : /\ req'[x].sel = req[x].sel /\ req'[x].fresh = req[x].fresh
                            /\ req[x].pc = "reply" => req'[x].pc = "reply"
                            /\ req'[x].result = req[x].result
    BY <1>2 DEF f
  <2> QED
    BY <1>2, <2>1 DEF LInv, JarTokenLive
<1>11. CarriesJar'
  BY <1>0, <1>2 DEF LInv, CarriesJar
<1>12. NoAbandonedToken'
  <2>. SUFFICES ASSUME NEW s \in Selectors, store'[s] # None,
                       store'[s].session \notin lossy \cup overlapped
                PROVE  \/ jar[store'[s].session].refresh = s
                       \/ \E x \in Requests : req'[x].pc = "reply" /\ req'[x].fresh = s
                       \/ \E t \in timers : t.sel = s
                       \/ s \in lost
    BY <1>2 DEF NoAbandonedToken
  <2>1. CASE s = f
    BY <2>1, <1>2
  <2>2. CASE s # f
    <3>1. store'[s] = store[s]
      BY <2>2, <1>3
    <3>2. \/ jar[store[s].session].refresh = s
          \/ \E x \in Requests : req[x].pc = "reply" /\ req[x].fresh = s
          \/ \E t \in timers : t.sel = s
          \/ s \in lost
      BY <3>1 DEF LInv, NoAbandonedToken
    <3>3. \A x \in Requests : req[x].pc = "reply" => req'[x] = req[x]
      BY <1>0, <1>2
    <3> QED
      BY <3>1, <3>2, <3>3
  <2> QED
    BY <2>1, <2>2
<1> QED
  BY <1>6, <1>7, <1>8, <1>9, <1>10, <1>11, <1>12 DEF LInv

\* rotateToken: the client gets a token nobody knows, and the old one is used.
LEMMA RotateKeeps ==
    ASSUME IInv, TypeInv', LInv, NEW r \in Requests, req[r].pc \in {"begin", "check"},
           NEW result \in {"LoggedIn", "CreatedFromToken"}, Rotate(r, r[1], result),
           UNCHANGED <<now, jar, lost, lossy, overlapped>>
    PROVE  LInv'
<1>. DEFINE old == DecodedSelectors(req[r])
<1>0. TypeInv /\ r[1] \in Clients /\ req[r].fresh = None /\ req[r] \in Request
  BY RequestFacts DEF IInv, TypeInv, TypeOK
<1>1. PICK f \in FreshSelectors :
         /\ req' = [req EXCEPT ![r] =
                    [req[r] EXCEPT !.pc = "store", !.fresh = f, !.found = None,
                       !.data = NewRecord(r[1]),
                       !.setSess = SessionExpiry, !.result = result]]
         /\ usedAt' = [x \in Selectors |->
                       IF x \in old /\ usedAt[x] = None THEN now ELSE usedAt[x]]
         /\ IF ImmediateSchedule
            THEN Remove(old, "timer") /\ UNCHANGED timers
            ELSE /\ timers' = timers \cup ScheduledRemovals(old)
                 /\ UNCHANGED <<store, gone>>
  BY DEF Rotate
<1>2. /\ \A x \in Requests \ {r} : req'[x] = req[x]
      /\ req'[r].pc = "store" /\ req'[r].sel = req[r].sel /\ req'[r].form = req[r].form
      /\ req'[r].fresh = f /\ req'[r].result = result
      /\ req'[r].found = None /\ req'[r].data = NewRecord(r[1])
  BY <1>0, <1>1 DEF TypeInv, TypeOK, Request
<1>3. old = IF req[r].sel = None THEN {} ELSE {req[r].sel}
  <2>1. req[r].sel # None <=> req[r].form \in {"genuine", "wrongToken"}
    BY <1>0, RequestFacts
  <2> QED
    BY <2>1 DEF DecodedSelectors
<1>4. now # None
  BY NoneAssumption DEF IInv, TypeOK
<1>5. \A s \in Selectors :
         /\ s \notin old => usedAt'[s] = usedAt[s] /\ gone'[s] = gone[s]
         /\ s \in old => usedAt'[s] # None
         /\ usedAt[s] # None => usedAt'[s] # None
         /\ gone'[s] = gone[s] \/ (gone'[s] = "timer" /\ s \in old)
         /\ gone[s] # "none" => gone'[s] # "none"
         /\ store'[s] \in {None, store[s]}
  BY <1>1, <1>4 DEF Remove
<1>6. timers \subseteq timers' /\ \A t \in timers' : t \in timers \/ t.sel \in old
  BY <1>1 DEF ScheduledRemovals
<1>7. /\ f \in Selectors /\ f # None /\ f \notin old
      /\ \A c \in Clients : jar[c].refresh # f
      /\ \A x \in Requests : req[x].sel # f /\ req[x].fresh # f
      /\ store[f] = None /\ gone[f] = "none" /\ usedAt[f] = None /\ \A t \in timers : t.sel # f
  <2>1. f \in Selectors \ issued /\ f # None
    BY NoneAssumption DEF FreshSelectors
  <2>2. ~Exposed(f) /\ ~Touched(f) /\ \A x \in Requests : req[x].fresh # f
    BY <2>1 DEF IInv, OnlyIssuedKnown
  <2> QED
    BY <2>1, <2>2, <1>3 DEF Exposed, Touched
<1>. HIDE DEF old
<1>8. \A x \in Requests : /\ req'[x].sel = req[x].sel
                          /\ req'[x].fresh = IF x = r THEN f ELSE req[x].fresh
  BY <1>2
<1>9. OwnTokens'
  <2>. SUFFICES ASSUME NEW c \in Clients, NEW s \in Selectors, Knows(c, s)'
                PROVE  /\ \A d \in Clients : Knows(d, s)' => c = d
                       /\ store'[s] # None => store'[s].session = c
    BY DEF OwnTokens
  <2>1. CASE s = f
    <3>1. \A d \in Clients : Knows(d, f)' => d = r[1]
      BY <1>7, <1>8 DEF Knows
    <3> QED
      BY <2>1, <3>1, <1>5, <1>7
  <2>2. CASE s # f
    <3>1. \A d \in Clients : Knows(d, s)' => Knows(d, s)
      BY <2>2, <1>8 DEF Knows
    <3> QED
      BY <3>1, <1>5 DEF LInv, OwnTokens
  <2> QED
    BY <2>1, <2>2
<1>10. FreshUnseen'
  <2>. SUFFICES ASSUME NEW x \in Requests, NEW s, s = req'[x].fresh, s # None
                PROVE  /\ \A c \in Clients : jar'[c].refresh # s
                       /\ \A y \in Requests : req'[y].sel # s /\ (req'[y].fresh = s => y = x)
                       /\ usedAt'[s] = None /\ gone'[s] = "none" /\ \A t \in timers' : t.sel # s
    BY DEF FreshUnseen
  <2>1. CASE x = r
    BY <2>1, <1>5, <1>6, <1>7, <1>8
  <2>2. CASE x # r
    <3>1. s = req[x].fresh /\ s \in Selectors
      BY <2>2, <1>0, <1>8, RequestFacts
    <3>2. /\ \A c \in Clients : jar[c].refresh # s
          /\ \A y \in Requests : req[y].sel # s /\ (req[y].fresh = s => y = x)
          /\ usedAt[s] = None /\ gone[s] = "none" /\ \A t \in timers : t.sel # s
      BY <3>1 DEF LInv, FreshUnseen
    <3>3. s \notin old
      BY <3>2, <1>3
    <3> QED
      BY <3>1, <3>2, <3>3, <1>5, <1>6, <1>7, <1>8
  <2> QED
    BY <2>1, <2>2
<1>11. ASSUME NEW x \in Requests PROVE Course(x)'
  <2>1. Course(x) /\ req[x].sel \in Selectors \cup {None}
    BY <1>0, RequestFacts DEF LInv
  <2>2. CASE x = r
    <3>1. NewRecord(r[1]).session = r[1]
      BY DEF NewRecord
    <3>2. req[r].sel # None => usedAt'[req[r].sel] # None
      BY <2>1, <2>2, <1>3, <1>5
    <3> QED
      BY <2>1, <2>2, <3>1, <3>2, <1>2 DEF Course
  <2>3. CASE x # r
    BY <2>1, <2>3, <1>2, <1>5 DEF Course
  <2> QED
    BY <2>2, <2>3
<1>12. TimersAreForUsed'
  <2>1. ASSUME NEW t \in timers' PROVE usedAt'[t.sel] # None
    <3>1. t.sel \in Selectors
      BY DEF TypeInv, TypeOK, TimerSet
    <3>2. t.sel \in old \/ usedAt[t.sel] # None
      BY <1>6 DEF LInv, TimersAreForUsed
    <3> QED
      BY <3>1, <3>2, <1>5
  <2>2. ASSUME NEW s \in Selectors, gone'[s] = "timer" PROVE usedAt'[s] # None
    BY <2>2, <1>5 DEF LInv, TimersAreForUsed
  <2> QED
    BY <2>1, <2>2 DEF TimersAreForUsed
<1>13. JarTokenLive'
  <2>. SUFFICES ASSUME NEW c \in Clients \ lossy, NEW s, s = jar[c].refresh, s # None
                PROVE  /\ usedAt'[s] # None =>
                             \E x \in Requests : x[1] = c /\ req'[x].sel = s /\ req'[x].fresh # None
                       /\ gone'[s] = "logout" =>
                             \E x \in Requests : /\ x[1] = c /\ req'[x].sel = s /\ req'[x].pc = "reply"
                                                 /\ req'[x].result = "LoggedOut"
                       /\ gone'[s] # "corrupt"
    BY DEF JarTokenLive
  <2>1. /\ usedAt[s] # None =>
              \E x \in Requests : x[1] = c /\ req[x].sel = s /\ req[x].fresh # None
        /\ gone[s] = "logout" =>
              \E x \in Requests : /\ x[1] = c /\ req[x].sel = s /\ req[x].pc = "reply"
                                  /\ req[x].result = "LoggedOut"
        /\ gone[s] # "corrupt"
    BY DEF LInv, JarTokenLive
  <2>2. \A x \in Requests : req[x].fresh # None \/ req[x].pc = "reply" => req'[x] = req[x]
    BY <1>0, <1>2
  <2>3. s \in Selectors
    BY <1>0, JarFacts
  <2>4. gone'[s] # "corrupt" /\ (gone'[s] = "logout" => gone[s] = "logout")
    BY <2>1, <2>3, <1>5
  <2>5. CASE s \notin old
    BY <2>1, <2>2, <2>3, <2>4, <2>5, <1>5
  <2>6. CASE s \in old
    <3>1. req[r].sel = s
      BY <2>6, <1>3
    <3>2. Knows(c, s)
      BY DEF Knows
    <3>3. r[1] = c
      BY <2>3, <3>1, <3>2, <1>0, CarriedKnown DEF LInv
    <3> QED
      BY <2>1, <2>2, <2>4, <3>1, <3>3, <1>7, <1>8
  <2> QED
    BY <2>5, <2>6
<1>14. CarriesJar'
  BY <1>2 DEF LInv, CarriesJar
<1>15. NoAbandonedToken'
  <2>. SUFFICES ASSUME NEW s \in Selectors, store'[s] # None,
                       store'[s].session \notin lossy \cup overlapped
                PROVE  \/ jar[store'[s].session].refresh = s
                       \/ \E x \in Requests : req'[x].pc = "reply" /\ req'[x].fresh = s
                       \/ \E t \in timers' : t.sel = s
                       \/ s \in lost
    BY DEF NoAbandonedToken
  <2>1. store'[s] = store[s]
    BY <1>5
  <2>2. \/ jar[store[s].session].refresh = s
        \/ \E x \in Requests : req[x].pc = "reply" /\ req[x].fresh = s
        \/ \E t \in timers : t.sel = s
        \/ s \in lost
    BY <2>1 DEF LInv, NoAbandonedToken
  <2>3. \A x \in Requests : req[x].pc = "reply" => req'[x] = req[x]
    BY <1>2
  <2> QED
    BY <2>1, <2>2, <2>3, <1>6
<1> QED
  BY <1>9, <1>10, <1>11, <1>12, <1>13, <1>14, <1>15 DEF LInv

\* A client sends what its jar holds.
LEMMA SendKeeps ==
    ASSUME IInv, TypeInv', LInv, NEW c \in Clients, NEW i \in Slots, Send(c, i)
    PROVE  LInv'
<1>. DEFINE r == <<c, i>>
<1>. USE DEF history
<1>0. TypeInv /\ r \in Requests /\ r[1] = c /\ req[r].pc = "idle"
  BY DEF Send, IInv, TypeInv, Requests
<1>1. /\ \A x \in Requests \ {r} : req'[x] = req[x]
      /\ req'[r].pc = "begin" /\ req'[r].found = None /\ req'[r].data = None
      /\ req'[r].fresh = None /\ req'[r].result = "none"
      /\ req'[r].sel \in {None, jar[c].refresh}
      /\ req'[r].form = "absent" => jar[c].refresh = None
      /\ req'[r].form \in {"wrongToken", "undecodable"} => c \in lossy'
      /\ lossy \subseteq lossy'
      /\ UNCHANGED <<now, store, timers, jar, history, lost>>
  <2>1. PICK kind \in Kinds, form \in ArrivingForms(c), ok \in {TRUE, faults = MaxFaults} :
          /\ req' = [req EXCEPT ![r] =
                        [Idle EXCEPT !.pc = "begin", !.kind = kind,
                           !.sess = jar[c].sess, !.sessOk = ok,
                           !.form = form,
                           !.sel = IF form \in {"genuine", "wrongToken"}
                                   THEN jar[c].refresh ELSE None]]
          /\ IF form \in {"absent", "genuine"} /\ ok
             THEN UNCHANGED <<faults, lossy>>
             ELSE faults' = faults + 1 /\ lossy' = lossy \cup {c}
    BY DEF Send
  <2>2. form = "absent" => jar[c].refresh = None
    BY DEF ArrivingForms
  <2>. DEFINE q == [Idle EXCEPT !.pc = "begin", !.kind = kind,
                           !.sess = jar[c].sess, !.sessOk = ok,
                           !.form = form,
                           !.sel = IF form \in {"genuine", "wrongToken"}
                                   THEN jar[c].refresh ELSE None]
  <2>3. /\ q.pc = "begin" /\ q.found = None /\ q.data = None
        /\ q.fresh = None /\ q.result = "none" /\ q.form = form
        /\ q.sel \in {None, jar[c].refresh}
    BY DEF Idle
  <2>4. req' = [req EXCEPT ![r] = q]
    BY <2>1
  <2>. HIDE DEF q
  <2>5. req'[r] = q /\ \A x \in Requests \ {r} : req'[x] = req[x]
    BY <2>4, <1>0 DEF TypeInv, TypeOK
  <2>6. lossy \subseteq lossy' /\ (form \in {"wrongToken", "undecodable"} => c \in lossy')
    BY <2>1
  <2> QED
    BY <2>2, <2>3, <2>5, <2>6 DEF Send
<1>2. req[r].fresh = None
  BY <1>0, RequestFacts
<1>3. overlapped' = IF InFlight(c) = {} THEN overlapped ELSE overlapped \cup {c}
  BY DEF Send
<1>4. \A x \in Requests : x[1] = c /\ req[x].pc # "idle" => c \in overlapped'
  <2>. SUFFICES ASSUME NEW x \in Requests, x[1] = c, req[x].pc # "idle" PROVE c \in overlapped'
    OBVIOUS
  <2>1. x[2] \in Slots /\ x = <<c, x[2]>>
    BY DEF Requests
  <2>2. x[2] \in InFlight(c)
    BY <2>1 DEF InFlight
  <2> QED
    BY <2>2, <1>3
<1>. HIDE DEF r
<1>5. NoneDrawn
  BY <1>0, <1>1 DEF NoneDrawn
<1>6. OwnTokens'
  BY <1>1, <1>5, OwnTokensKept DEF LInv
<1>7. FreshUnseen'
  BY <1>0, <1>1, <1>5, FreshUnseenKept DEF LInv
<1>8. ASSUME NEW x \in Requests PROVE Course(x)'
  <2>1. CASE x = r
    BY <2>1, <1>0, <1>1 DEF Course
  <2>2. CASE x # r
    BY <2>2, <1>1 DEF LInv, Course
  <2> QED
    BY <2>1, <2>2
<1>9. TimersAreForUsed'
  BY <1>1 DEF LInv, TimersAreForUsed
<1>10. JarTokenLive'
  <2>1. \A x \in Requests : req[x].fresh # None \/ req[x].pc = "reply" => req'[x] = req[x]
    BY <1>0, <1>1, <1>2
  <2> QED
    BY <1>1, <2>1 DEF LInv, JarTokenLive
<1>11. CarriesJar'
  <2>. SUFFICES ASSUME NEW x \in Requests, req'[x].pc # "idle", x[1] \notin overlapped'
                PROVE  /\ \A y \in Requests : y[1] = x[1] /\ req'[y].pc # "idle" => y = x
                       /\ req'[x].sel # None => req'[x].sel = jar[x[1]].refresh
                       /\ req'[x].form = "absent" => jar[x[1]].refresh = None
    BY <1>1 DEF CarriesJar
  <2>1. CASE x = r
    BY <2>1, <1>0, <1>1, <1>4
  <2>2. CASE x # r
    <3>1. req'[x] = req[x] /\ x[1] # c /\ x[1] \notin overlapped
      BY <2>2, <1>1, <1>3, <1>4
    <3> QED
      BY <2>2, <3>1, <1>0, <1>1 DEF LInv, CarriesJar
  <2> QED
    BY <2>1, <2>2
<1>12. NoAbandonedToken'
  <2>1. \A x \in Requests : req[x].pc = "reply" => req'[x] = req[x]
    BY <1>0, <1>1
  <2>2. overlapped \subseteq overlapped'
    BY <1>3
  <2> QED
    BY <1>1, <2>1, <2>2 DEF LInv, NoAbandonedToken
<1> QED
  BY <1>6, <1>7, <1>8, <1>9, <1>10, <1>11, <1>12 DEF LInv

\* A reply brings its cookies.
LEMMA ReceiveKeeps ==
    ASSUME IInv, TypeInv', LInv, NEW c \in Clients, NEW i \in Slots, Receive(c, i)
    PROVE  LInv'
<1>. DEFINE r == <<c, i>>
            s0 == req[r].fresh
<1>. USE DEF history, trouble
<1>0. /\ TypeInv /\ r \in Requests /\ r[1] = c /\ req[r].pc = "reply" /\ Course(r)
      /\ UNCHANGED <<now, store, timers, usedAt, gone, lost, lossy, overlapped>>
  BY DEF Receive, IInv, TypeInv, Requests, LInv
<1>1. /\ \A x \in Requests \ {r} : req'[x] = req[x]
      /\ req'[r].pc = "idle" /\ req'[r].found = None /\ req'[r].data = None
      /\ req'[r].fresh = None /\ req'[r].result = "none" /\ req'[r].sel = None
      /\ req'[r].form = "absent" /\ req'[r] = Idle
  BY <1>0 DEF Receive, TypeInv, TypeOK, Idle
<1>2. \A d \in Clients \ {c} : jar'[d] = jar[d]
  BY DEF Receive, IInv, TypeOK
<1>3. jar'[c].refresh = IF req[r].result = "LoggedOut"
                        THEN IF req[r].form = "absent" THEN jar[c].refresh ELSE None
                        ELSE IF s0 = None THEN jar[c].refresh ELSE s0
  BY DEF Receive, CookiesAfter, IInv, TypeOK
<1>4. s0 # None => req[r].result # "LoggedOut"
  BY <1>0 DEF Course
<1>5. req[r].sel # None <=> req[r].form \in {"genuine", "wrongToken"}
  BY <1>0, RequestFacts
<1>. HIDE DEF r
<1>6. NoneDrawn
  <2>1. ASSUME NEW x \in Requests
        PROVE  /\ req'[x].sel \in {None, req[x].sel, jar[x[1]].refresh}
               /\ req'[x].fresh \in {None, req[x].fresh}
    BY <1>1
  <2>2. ASSUME NEW d \in Clients
        PROVE  \/ jar'[d].refresh \in {None, jar[d].refresh}
               \/ \E x \in Requests : /\ x[1] = d /\ jar'[d].refresh = req[x].fresh
                                      /\ req'[x].fresh = None
    BY <1>0, <1>1, <1>2, <1>3
  <2> QED
    BY <2>1, <2>2 DEF NoneDrawn
<1>7. OwnTokens'
  BY <1>0, <1>6, OwnTokensKept DEF LInv
<1>8. FreshUnseen'
  BY <1>0, <1>6, FreshUnseenKept DEF LInv
<1>9. ASSUME NEW x \in Requests PROVE Course(x)'
  <2>1. CASE x = r
    BY <2>1, <1>1 DEF Course
  <2>2. CASE x # r
    BY <2>2, <1>0, <1>1 DEF LInv, Course
  <2> QED
    BY <2>1, <2>2
<1>10. TimersAreForUsed'
  BY <1>0 DEF LInv, TimersAreForUsed
<1>11. JarTokenLive'
  <2>. SUFFICES ASSUME NEW d \in Clients \ lossy, NEW s, s = jar'[d].refresh, s # None
                PROVE  /\ usedAt[s] # None =>
                             \E x \in Requests : x[1] = d /\ req'[x].sel = s /\ req'[x].fresh # None
                       /\ gone[s] = "logout" =>
                             \E x \in Requests : /\ x[1] = d /\ req'[x].sel = s /\ req'[x].pc = "reply"
                                                 /\ req'[x].result = "LoggedOut"
                       /\ gone[s] # "corrupt"
    BY <1>0 DEF JarTokenLive
  <2>1. CASE d = c /\ s = s0
    BY <2>1, <1>0 DEF LInv, FreshUnseen
  <2>2. CASE s = jar[d].refresh /\ ~(d = c /\ s = s0)
    <3>1. /\ usedAt[s] # None =>
                \E x \in Requests : x[1] = d /\ req[x].sel = s /\ req[x].fresh # None
          /\ gone[s] = "logout" =>
                \E x \in Requests : /\ x[1] = d /\ req[x].sel = s /\ req[x].pc = "reply"
                                    /\ req[x].result = "LoggedOut"
          /\ gone[s] # "corrupt"
      BY <2>2 DEF LInv, JarTokenLive
    <3>2. CASE d # c
      <4>1. \A x \in Requests : x[1] = d => req'[x] = req[x]
        BY <3>2, <1>0, <1>1
      <4> QED
        BY <3>1, <4>1
    <3>3. CASE d = c
      <4>1. s0 = None /\ ~(req[r].result = "LoggedOut" /\ req[r].form # "absent")
        BY <2>2, <3>3, <1>3, <1>4
      <4>2. ~(req[r].result = "LoggedOut" /\ req[r].sel = s)
        BY <4>1, <1>5
      <4>3. \A x \in Requests : req[x].fresh # None => req'[x] = req[x]
        BY <4>1, <1>1
      <4>4. \A x \in Requests : req[x].sel = s /\ req[x].result = "LoggedOut" => req'[x] = req[x]
        BY <4>2, <1>1
      <4> QED
        BY <3>1, <4>3, <4>4
    <3> QED
      BY <3>2, <3>3
  <2> QED
    BY <2>1, <2>2, <1>2, <1>3
<1>12. CarriesJar'
  <2>. SUFFICES ASSUME NEW x \in Requests, req'[x].pc # "idle", x[1] \notin overlapped
                PROVE  /\ \A y \in Requests : y[1] = x[1] /\ req'[y].pc # "idle" => y = x
                       /\ req'[x].sel # None => req'[x].sel = jar'[x[1]].refresh
                       /\ req'[x].form = "absent" => jar'[x[1]].refresh = None
    BY <1>0 DEF CarriesJar
  <2>1. x # r /\ req'[x] = req[x] /\ x[1] \in Clients
    BY <1>0, <1>1, RequestFacts
  <2>2. /\ \A y \in Requests : y[1] = x[1] /\ req[y].pc # "idle" => y = x
        /\ req[x].sel # None => req[x].sel = jar[x[1]].refresh
        /\ req[x].form = "absent" => jar[x[1]].refresh = None
    BY <2>1 DEF LInv, CarriesJar
  <2>3. x[1] # c
    BY <2>1, <2>2, <1>0
  <2> QED
    BY <2>1, <2>2, <2>3, <1>1, <1>2
<1>13. NoAbandonedToken'
  <2>. SUFFICES ASSUME NEW s \in Selectors, store[s] # None, NEW d \in Clients,
                       d = store[s].session, d \notin lossy \cup overlapped
                PROVE  \/ jar'[d].refresh = s
                       \/ \E x \in Requests : req'[x].pc = "reply" /\ req'[x].fresh = s
                       \/ \E t \in timers : t.sel = s
                       \/ s \in lost
    <3>1. \A s \in Selectors : store[s] # None => store[s].session \in Clients
      BY <1>0 DEF TypeInv, TypeOK, Records
    <3> QED
      BY <3>1, <1>0 DEF NoAbandonedToken
  <2>1. s # None
    BY NoneAssumption
  <2>2. \/ jar[d].refresh = s
        \/ \E x \in Requests : req[x].pc = "reply" /\ req[x].fresh = s
        \/ \E t \in timers : t.sel = s
        \/ s \in lost
    BY DEF LInv, NoAbandonedToken
  <2>3. CASE \E x \in Requests : req[x].pc = "reply" /\ req[x].fresh = s
    <3>1. CASE s0 = s
      <4>1. Knows(c, s)
        BY <3>1, <1>0 DEF Knows
      <4>2. c = d
        BY <4>1 DEF LInv, OwnTokens
      <4> QED
        BY <4>2, <3>1, <2>1, <1>3, <1>4
    <3>2. CASE s0 # s
      BY <2>3, <3>2, <1>1
    <3> QED
      BY <3>1, <3>2
  <2>4. CASE jar[d].refresh = s
    <3>1. CASE d # c
      BY <2>4, <3>1, <1>2
    <3>2. CASE d = c
      <4>1. /\ req[r].sel # None => req[r].sel = s
            /\ req[r].form # "absent"
        BY <2>1, <2>4, <3>2, <1>0 DEF LInv, CarriesJar
      <4>2. req[r].form \notin {"wrongToken", "undecodable"}
        BY <3>2, <1>0 DEF Course
      <4>3. req[r].form \in Forms
        BY <1>0, RequestFacts
      <4>4. req[r].sel = s
        BY <4>1, <4>2, <4>3, <1>5 DEF Forms
      <4>5. req[r].result # "LoggedOut"
        <5>1. gone[s] = "none"
          BY DEF IInv, RemovedStaysRemoved
        <5> QED
          BY <5>1, <4>4, <2>1, <1>0 DEF Course
      <4>6. CASE s0 = None
        BY <4>5, <4>6, <2>4, <3>2, <1>3
      <4>7. CASE s0 # None
        <5>1. usedAt[s] # None
          BY <4>4, <4>7, <2>1, <1>0 DEF Course
        <5> QED
          BY <5>1 DEF IInv, UsedTokenIsScheduled
      <4> QED
        BY <4>6, <4>7
    <3> QED
      BY <3>1, <3>2
  <2> QED
    BY <2>2, <2>3, <2>4
<1> QED
  BY <1>7, <1>8, <1>9, <1>10, <1>11, <1>12, <1>13 DEF LInv

\* What a request that fails may have done to the tokens it knows.
FailedStep(r, s) ==
    \/ /\ req[r].sel = s /\ store'[s] = None /\ gone'[s] # "none"
       /\ gone'[s] \in {gone[s], "logout", "expired", "corrupt"}
    \/ req[r].pc = "store" /\ req[r].fresh = s /\ store'[s] = req[r].data /\ gone'[s] = gone[s]

\* Requests end without a reply, which their clients have lost, and scheduled
\* removals are lost.
LEMMA DropKeeps ==
    ASSUME IInv, TypeInv', LInv,
           \A x \in Requests : req'[x] = req[x] \/ (req'[x] = Idle /\ x[1] \in lossy'),
           \A s \in Selectors : \/ store'[s] = store[s] /\ gone'[s] = gone[s]
                                \/ \E r \in Requests : r[1] \in lossy' /\ FailedStep(r, s),
           timers' \subseteq timers,
           \A t \in timers \ timers' : t.sel \in lost',
           lossy \subseteq lossy', lost \subseteq lost',
           UNCHANGED <<jar, usedAt, overlapped>>
    PROVE  LInv'
<1>0. /\ TypeInv
      /\ Idle.pc = "idle" /\ Idle.found = None /\ Idle.data = None /\ Idle.fresh = None
      /\ Idle.result = "none" /\ Idle.sel = None /\ Idle.form = "absent"
  BY DEF Idle, IInv, TypeInv
<1>1. \A r \in Requests : r[1] \in Clients /\ (req[r].pc = "store" => req[r].data.session = r[1])
  BY <1>0, RequestFacts DEF LInv, Course
<1>2. NoneDrawn
  BY <1>0 DEF NoneDrawn
<1>3. OwnTokens'
  <2>1. ASSUME NEW s \in Selectors
        PROVE  \/ store'[s] \in {None, store[s]}
               \/ \E c \in Clients : Knows(c, s) /\ store'[s].session = c
    <3>1. ASSUME NEW r \in Requests, req[r].pc = "store", req[r].fresh = s,
                 store'[s] = req[r].data
          PROVE  \E c \in Clients : Knows(c, s) /\ store'[s].session = c
      <4>1. Knows(r[1], s)
        BY <3>1 DEF Knows
      <4> QED
        BY <3>1, <4>1, <1>1
    <3> QED
      BY <3>1 DEF FailedStep
  <2> QED
    BY <2>1, <1>2, OwnTokensKept DEF LInv
<1>4. FreshUnseen'
  <2>1. \A s \in Selectors : gone'[s] = gone[s] \/ \E x \in Requests : req[x].sel = s
    BY DEF FailedStep
  <2>2. timers' \subseteq timers
    OBVIOUS
  <2> QED
    BY <2>1, <2>2, <1>0, <1>2, FreshUnseenKept DEF LInv
<1>5. ASSUME NEW x \in Requests PROVE Course(x)'
  <2>1. CASE req'[x] = Idle
    BY <2>1, <1>0 DEF Course
  <2>2. CASE req'[x] = req[x]
    <3>1. Course(x) /\ req[x].sel \in Selectors \cup {None}
      BY <1>0, RequestFacts DEF LInv
    <3>2. \A s \in Selectors : gone[s] # "none" => gone'[s] # "none"
      BY DEF FailedStep
    <3> QED
      BY <2>2, <3>1, <3>2 DEF Course
  <2> QED
    BY <2>1, <2>2
<1>6. TimersAreForUsed'
  <2>1. \A s \in Selectors : gone'[s] = "timer" => gone[s] = "timer"
    BY DEF FailedStep
  <2> QED
    BY <2>1 DEF LInv, TimersAreForUsed
<1>7. CarriesJar'
  BY <1>0 DEF LInv, CarriesJar
<1>8. JarTokenLive'
  <2>. SUFFICES ASSUME NEW c \in Clients \ lossy', NEW s, s = jar[c].refresh, s # None
                PROVE  /\ usedAt[s] # None =>
                             \E x \in Requests : x[1] = c /\ req'[x].sel = s /\ req'[x].fresh # None
                       /\ gone'[s] = "logout" =>
                             \E x \in Requests : /\ x[1] = c /\ req'[x].sel = s /\ req'[x].pc = "reply"
                                                 /\ req'[x].result = "LoggedOut"
                       /\ gone'[s] # "corrupt"
    BY DEF JarTokenLive
  <2>1. /\ usedAt[s] # None =>
              \E x \in Requests : x[1] = c /\ req[x].sel = s /\ req[x].fresh # None
        /\ gone[s] = "logout" =>
              \E x \in Requests : /\ x[1] = c /\ req[x].sel = s /\ req[x].pc = "reply"
                                  /\ req[x].result = "LoggedOut"
        /\ gone[s] # "corrupt"
    BY DEF LInv, JarTokenLive
  <2>2. \A x \in Requests : x[1] = c => req'[x] = req[x]
    OBVIOUS
  <2>3. s \in Selectors /\ Knows(c, s)
    BY <1>0, JarFacts DEF Knows
  <2>4. gone'[s] = gone[s]
    <3>1. ASSUME NEW r \in Requests, req[r].sel = s PROVE r[1] = c
      BY <3>1, <2>3, <1>1, CarriedKnown DEF LInv
    <3> QED
      BY <3>1, <2>3 DEF FailedStep
  <2> QED
    BY <2>1, <2>2, <2>4
<1>9. NoAbandonedToken'
  <2>. SUFFICES ASSUME NEW s \in Selectors, store'[s] # None,
                       NEW d \in Clients, d = store'[s].session, d \notin lossy' \cup overlapped
                PROVE  \/ jar[d].refresh = s
                       \/ \E x \in Requests : req'[x].pc = "reply" /\ req'[x].fresh = s
                       \/ \E t \in timers : t.sel = s
                       \/ s \in lost'
    <3>1. \A s \in Selectors : store'[s] # None => store'[s].session \in Clients
      BY DEF TypeInv, TypeOK, Records
    <3> QED
      BY <3>1 DEF NoAbandonedToken
  <2>1. store'[s] = store[s]
    BY <1>1 DEF FailedStep
  <2>2. \/ jar[d].refresh = s
        \/ \E x \in Requests : req[x].pc = "reply" /\ req[x].fresh = s
        \/ \E t \in timers : t.sel = s
        \/ s \in lost
    BY <2>1 DEF LInv, NoAbandonedToken
  <2>3. ASSUME NEW x \in Requests, req[x].pc = "reply", req[x].fresh = s
        PROVE  req'[x] = req[x]
    <3>1. x[1] \in Clients /\ Knows(x[1], s)
      BY <2>3, <1>0, RequestFacts DEF Knows
    <3>2. x[1] = d
      BY <2>1, <3>1 DEF LInv, OwnTokens
    <3> QED
      BY <3>2
  <2> QED
    BY <2>2, <2>3
<1> QED
  BY <1>3, <1>4, <1>5, <1>6, <1>7, <1>8, <1>9 DEF LInv

\* Before its reply a request is answered with, or waits for, something that
\* leaves its cookies as they came.
LEMMA AnswerKeeps ==
    ASSUME IInv, TypeInv', LInv, NEW r \in Requests, req[r].pc \in {"begin", "check"},
           NEW pc \in {"lookup", "remove", "reply"}, NEW result,
           \/ pc = "reply" /\ \E e : Reply(r, result, e)
           \/ pc # "reply" /\ Await(r, pc, result),
           result = "LoggedOut" /\ pc = "reply" => req[r].sel = None,
           pc = "remove" => \/ result \in {"LoggedOut", "Expired"}
                            \/ result = "Corrupt" /\ req[r].form = "wrongToken",
           UNCHANGED <<store, timers, jar, history, lost, lossy, overlapped>>
    PROVE  LInv'
<1>1. TypeInv /\ req[r] \in Request /\ req[r].fresh = None
  BY RequestFacts DEF IInv, TypeInv, TypeOK
<1>2. /\ \A x \in Requests \ {r} : req'[x] = req[x]
      /\ req'[r].pc = pc /\ req'[r].result = result /\ req'[r].found = None
      /\ req'[r].sel = req[r].sel /\ req'[r].form = req[r].form /\ req'[r].fresh = None
      /\ req'[r].data = req[r].data
  <2>1. CASE pc = "reply"
    <3>1. PICK e : req' = [req EXCEPT ![r] = [req[r] EXCEPT !.pc = "reply", !.found = None,
                                                !.setSess = e, !.result = result]]
      BY <2>1 DEF Reply
    <3> QED
      BY <2>1, <3>1, <1>1 DEF Request, TypeInv, TypeOK
  <2>2. CASE pc # "reply"
    <3>1. req' = [req EXCEPT ![r] = [req[r] EXCEPT !.pc = pc, !.found = None,
                                       !.result = result]]
      BY <2>2 DEF Await
    <3> QED
      BY <3>1, <1>1 DEF Request, TypeInv, TypeOK
  <2> QED
    BY <2>1, <2>2
<1>3. Course(r)'
  <2>1. Course(r)
    BY DEF LInv
  <2> QED
    BY <2>1, <1>2 DEF Course
<1> QED
  BY <1>2, <1>3, ProgressKeeps

LEMMA LookupKeeps ==
    ASSUME IInv, TypeInv', LInv, NEW r \in Requests, Lookup(r)
    PROVE  LInv'
<1>. USE DEF trouble
<1>1. /\ TypeInv /\ req[r] \in Request /\ req[r].pc = "lookup" /\ req[r].fresh = None
      /\ req[r].sel \in Selectors /\ r[1] \in Clients /\ Course(r)
      /\ UNCHANGED <<store, timers, jar, history, lost, lossy, overlapped>>
  BY RequestFacts DEF Lookup, IInv, TypeInv, TypeOK, LInv
<1>2. /\ \A x \in Requests \ {r} : req'[x] = req[x]
      /\ req'[r].pc = "check" /\ req'[r].found = store[req[r].sel]
      /\ req'[r].sel = req[r].sel /\ req'[r].form = req[r].form /\ req'[r].fresh = None
      /\ req'[r].data = req[r].data
  BY <1>1 DEF Lookup, Request, TypeInv, TypeOK
<1>3. store[req[r].sel] # None => store[req[r].sel].session = r[1]
  <2>1. Knows(r[1], req[r].sel)
    BY DEF Knows
  <2> QED
    BY <2>1, <1>1 DEF LInv, OwnTokens
<1>4. Course(r)'
  BY <1>1, <1>2, <1>3 DEF Course, history
<1> QED
  BY <1>1, <1>2, <1>4, ProgressKeeps

LEMMA ServerKeeps ==
    ASSUME IInv, TypeInv', LInv, NEW r \in Requests, ServerStep(r)
    PROVE  LInv'
<1>. USE DEF trouble, history
<1>0. TypeInv
  BY DEF IInv, TypeInv
<1>1. CASE Login(r)
  BY <1>1, RotateKeeps DEF Login
<1>2. CASE Logout(r)
  <2>1. DecodedSelectors(req[r]) = {} => req[r].sel = None
    BY <1>0, RequestFacts DEF DecodedSelectors
  <2>2. \/ Reply(r, "LoggedOut", None) /\ req[r].sel = None
        \/ Await(r, "remove", "LoggedOut")
    BY <1>2, <2>1 DEF Logout
  <2> QED
    BY <1>2, <2>2, AnswerKeeps DEF Logout
<1>3. CASE ReadSession(r)
  <2>1. \/ \E result \in {"Decoded", "Corrupt", "NoSession"} : \E e : Reply(r, result, e)
        \/ Await(r, "lookup", "none")
    BY <1>3 DEF ReadSession, DecodeOutcomes
  <2>2. /\ req[r].pc = "begin"
        /\ UNCHANGED <<now, store, timers, jar, history, trouble, overlapped>>
    BY <1>3 DEF ReadSession
  <2>3. ASSUME NEW result \in {"Decoded", "Corrupt", "NoSession"}, NEW e, Reply(r, result, e)
        PROVE  LInv'
    BY <2>2, <2>3, AnswerKeeps
  <2>4. CASE Await(r, "lookup", "none")
    BY <2>2, <2>4, AnswerKeeps
  <2> QED
    BY <2>1, <2>3, <2>4
<1>4. CASE Check(r)
  <2>1. req[r].pc = "check" /\ UNCHANGED <<now, jar, trouble, overlapped>>
    BY <1>4 DEF Check
  <2>2. CASE Reply(r, "TokenNotFound", None) /\ UNCHANGED <<store, timers, history>>
    BY <2>1, <2>2, AnswerKeeps
  <2>3. CASE Await(r, "remove", "Expired") /\ UNCHANGED <<store, timers, history>>
    BY <2>1, <2>3, AnswerKeeps
  <2>4. CASE /\ req[r].form = "wrongToken" /\ Await(r, "remove", "Corrupt")
             /\ UNCHANGED <<store, timers, history>>
    BY <2>1, <2>4, AnswerKeeps
  <2>5. CASE req[r].found # None /\ Rotate(r, req[r].found.session, "CreatedFromToken")
    <3>1. req[r].found.session = r[1]
      BY <2>5 DEF LInv, Course
    <3> QED
      BY <2>1, <2>5, <3>1, RotateKeeps
  <2> QED
    BY <1>4, <2>2, <2>3, <2>4, <2>5 DEF Check
<1> QED
  BY <1>1, <1>2, <1>3, <1>4, LookupKeeps, RemoveDoneKeeps, StoreDoneKeeps DEF ServerStep

LEMMA FaultKeeps ==
    ASSUME IInv, TypeInv', LInv,
           \/ \E c \in Clients, i \in Slots : LoseReply(c, i)
           \/ \E r \in Requests : StorageFails(r)
           \/ \E t \in timers : RunScheduled(t) /\ ~ (Remove({t.sel}, "timer") /\ UNCHANGED trouble)
           \/ Restart
    PROVE  LInv'
<1>. USE DEF history, trouble
<1>0. TypeInv
  BY DEF IInv, TypeInv
<1>1. ASSUME NEW c \in Clients, NEW i \in Slots, LoseReply(c, i) PROVE LInv'
  <2>1. /\ req' = [req EXCEPT ![<<c, i>>] = Idle] /\ <<c, i>>[1] = c /\ c \in lossy'
        /\ lossy \subseteq lossy'
        /\ UNCHANGED <<now, store, timers, jar, history, lost, overlapped>>
    BY <1>1 DEF LoseReply
  <2>2. \A x \in Requests : req'[x] = req[x] \/ (req'[x] = Idle /\ x[1] \in lossy')
    BY <2>1 DEF IInv, TypeOK
  <2> QED
    BY <2>1, <2>2, DropKeeps
<1>2. ASSUME NEW r \in Requests, StorageFails(r) PROVE LInv'
  <2>1. /\ req' = [req EXCEPT ![r] = Idle] /\ r[1] \in lossy'
        /\ lossy \subseteq lossy'
        /\ UNCHANGED <<now, timers, jar, usedAt, lost, overlapped>>
    BY <1>2 DEF StorageFails
  <2>2. \A x \in Requests : req'[x] = req[x] \/ (req'[x] = Idle /\ x[1] \in lossy')
    BY <2>1 DEF IInv, TypeOK
  <2>3. ASSUME NEW s \in Selectors
        PROVE  \/ store'[s] = store[s] /\ gone'[s] = gone[s]
               \/ FailedStep(r, s)
    <3>1. CASE UNCHANGED <<store, gone>>
      BY <3>1
    <3>2. CASE Remove({req[r].sel}, ReasonOf(req[r].result))
      <4>1. PICK why \in {"logout", "expired", "corrupt"} : why = ReasonOf(req[r].result)
        BY DEF ReasonOf
      <4>2. PICK x : x = req[r].sel
        OBVIOUS
      <4>3. Remove({x}, why) /\ why \in Reasons \ {"none"}
        BY <3>2, <4>1, <4>2 DEF Reasons
      <4>4. /\ s = x => store'[s] = None /\ gone'[s] # "none"
            /\ s = x /\ gone[s] = "none" => gone'[s] = why
            /\ s # x => store'[s] = store[s] /\ gone'[s] = gone[s]
            /\ gone[s] # "none" => gone'[s] = gone[s]
        BY <4>3, RemovedIs
      <4> QED
        BY <4>1, <4>2, <4>4 DEF FailedStep
    <3>3. CASE /\ req[r].pc = "store"
               /\ store' = [store EXCEPT ![req[r].fresh] = req[r].data]
               /\ UNCHANGED gone
      BY <3>3 DEF FailedStep, IInv, TypeOK
    <3> QED
      BY <1>2, <3>1, <3>2, <3>3 DEF StorageFails
  <2> QED
    BY <2>1, <2>2, <2>3, DropKeeps
<1>3. CASE Restart
  <2>1. /\ req' = [x \in Requests |-> Idle] /\ timers' = {}
        /\ lost' = lost \cup {t.sel : t \in timers}
        /\ lossy' = lossy \cup {c \in Clients : InFlight(c) # {}}
        /\ UNCHANGED <<now, store, jar, history, overlapped>>
    BY <1>3 DEF Restart
  <2>2. ASSUME NEW x \in Requests
        PROVE  req'[x] = req[x] \/ (req'[x] = Idle /\ x[1] \in lossy')
    <3>1. CASE req[x].pc = "idle"
      BY <2>1, <3>1 DEF LInv, Course
    <3>2. CASE req[x].pc # "idle"
      <4>1. x[1] \in Clients /\ x[2] \in Slots /\ x = <<x[1], x[2]>>
        BY DEF Requests
      <4>2. x[2] \in InFlight(x[1])
        BY <3>2, <4>1 DEF InFlight
      <4> QED
        BY <2>1, <4>1, <4>2
    <3> QED
      BY <3>1, <3>2
  <2> QED
    BY <2>1, <2>2, DropKeeps
<1>4. ASSUME NEW t \in timers, RunScheduled(t),
             ~ (Remove({t.sel}, "timer") /\ UNCHANGED trouble)
      PROVE  LInv'
  <2>1. /\ UNCHANGED <<store, gone, req, jar, usedAt, lossy, overlapped>>
        /\ timers' = timers \ {t} /\ lost' = lost \cup {t.sel}
    BY <1>4 DEF RunScheduled
  <2> QED
    BY <2>1, DropKeeps
<1> QED
  BY <1>1, <1>2, <1>3, <1>4

LEMMA OwnershipInit == Init => LInv
<1>. SUFFICES ASSUME Init PROVE LInv
  OBVIOUS
<1>1. /\ \A r \in Requests : req[r] = Idle
      /\ Idle.pc = "idle" /\ Idle.found = None /\ Idle.data = None /\ Idle.fresh = None
      /\ Idle.result = "none" /\ Idle.sel = None /\ Idle.form = "absent"
      /\ \A c \in Clients : jar[c].refresh = None
  BY DEF Init, Idle
<1>2. \A r \in Requests : Course(r)
  BY <1>1 DEF Course
<1>3. OwnTokens
  BY <1>1, NoneAssumption DEF OwnTokens, Knows
<1>4. FreshUnseen /\ JarTokenLive /\ CarriesJar
  BY <1>1 DEF FreshUnseen, JarTokenLive, CarriesJar
<1>5. TimersAreForUsed /\ NoAbandonedToken
  BY DEF Init, TimersAreForUsed, NoAbandonedToken
<1> QED
  BY <1>2, <1>3, <1>4, <1>5 DEF LInv

LEMMA OwnershipStep == IInv /\ LInv /\ [Next]_vars => LInv'
<1>. SUFFICES ASSUME IInv, LInv, [Next]_vars PROVE LInv'
  OBVIOUS
<1>1. TypeInv'
  BY TypeStep DEF IInv, TypeInv
<1>2. ASSUME UNCHANGED <<store, timers, jar, req, history, trouble, overlapped>> PROVE LInv'
  <2>. USE <1>2 DEF history, trouble
  <2>1. (\A r \in Requests : Course(r)')
    BY DEF LInv, Course
  <2>2. OwnTokens'
    BY DEF LInv, OwnTokens, Knows
  <2>3. FreshUnseen' /\ TimersAreForUsed'
    BY DEF LInv, FreshUnseen, TimersAreForUsed
  <2>4. JarTokenLive' /\ CarriesJar'
    BY DEF LInv, JarTokenLive, CarriesJar
  <2>5. NoAbandonedToken'
    BY DEF LInv, NoAbandonedToken
  <2> QED
    BY <2>1, <2>2, <2>3, <2>4, <2>5 DEF LInv
<1>3. CASE Tick \/ UNCHANGED vars
  BY <1>2, <1>3 DEF Tick, vars, history, trouble
<1>4. CASE Next
  BY <1>1, <1>3, <1>4, SendKeeps, ReceiveKeeps, ServerKeeps, FaultKeeps, TimerKeeps DEF Next
<1> QED
  BY <1>3, <1>4

LEMMA Ownership == Spec => [](IInv /\ LInv)
BY InductiveInit, InductiveStep, OwnershipInit, OwnershipStep, PTL DEF Spec

\* A client none of whose replies was lost, and who waits for none, has a live
\* token: no race of its requests, of their replies and of a logout locks it out.
THEOREM NobodyIsLockedOut == Spec => []IdleClientHoldsLiveToken
<1>1. IInv /\ LInv => IdleClientHoldsLiveToken
  <2>. SUFFICES ASSUME IInv, LInv, NEW c \in Clients \ lossy, InFlight(c) = {},
                       NEW s, s = jar[c].refresh, s # None, gone[s] # "expired"
                PROVE  store[s] # None /\ usedAt[s] = None
    BY DEF IdleClientHoldsLiveToken
  <2>1. s \in Selectors
    BY JarFacts DEF IInv, TypeInv
  <2>2. ASSUME NEW r \in Requests, r[1] = c PROVE req[r].pc = "idle"
    <3>1. r[2] \in Slots /\ r = <<c, r[2]>>
      BY <2>2 DEF Requests
    <3> QED
      BY <3>1 DEF InFlight
  <2>3. \A r \in Requests : req[r].pc = "idle" => req[r].fresh = None
    BY RequestFacts DEF IInv, TypeInv
  <2>4. usedAt[s] = None /\ gone[s] \notin {"logout", "corrupt"}
    BY <2>2, <2>3 DEF LInv, JarTokenLive
  <2>5. gone[s] # "timer"
    BY <2>1, <2>4 DEF LInv, TimersAreForUsed
  <2>6. gone[s] = "none"
    BY <2>1, <2>4, <2>5 DEF IInv, TypeOK, Reasons
  <2>7. Exposed(s)
    BY DEF Exposed
  <2> QED
    BY <2>1, <2>4, <2>6, <2>7 DEF IInv, ExposedIsStored
<1> QED
  BY <1>1, Ownership, PTL

\* Every stored token of a client that sends one request at a time and loses no
\* reply is in its jar, in a reply on its way, or scheduled for removal, unless
\* that removal failed or was lost.
THEOREM NothingIsAbandoned == Spec => []NoAbandonedToken
<1>1. LInv => NoAbandonedToken
  BY DEF LInv
<1> QED
  BY <1>1, Ownership, PTL

==============================================================================
