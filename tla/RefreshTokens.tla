---------------------------- MODULE RefreshTokens ----------------------------
(***************************************************************************)
(* Refreshable sessions of hs-akka-http-session: the server side of        *)
(* setSession, session, touchSession and invalidateSession with            *)
(* SessionOptions.refreshable, the RefreshTokenManager they call, the      *)
(* storage it talks to through futures, and the cookie jars of the clients *)
(* whose requests carry the cookies.                                       *)
(*                                                                         *)
(* Every continuation of a future is an action of its own, so requests of  *)
(* one client interleave between a lookup and the use of its result,       *)
(* between the call of storage.store and its completion, and between a     *)
(* response and its arrival.  Selectors and tokens are random strings; the *)
(* model takes each new one to be fresh.                                   *)
(***************************************************************************)
EXTENDS Integers, FiniteSets

CONSTANTS
    Clients,            \* cookie jars, each the session of one user
    Slots,              \* how many requests a client may have in flight
    Selectors,          \* selectors createSelector may draw
    None,               \* no cookie, no record, no time
    SessionMaxAge,      \* config.sessionMaxAgeSeconds
    RefreshMaxAge,      \* config.refreshTokenMaxAgeSeconds
    RemoveAfter,        \* config.removeUsedRefreshTokenAfter
    ImmediateSchedule,  \* storage.schedule runs its operation at once
    MaxFaults,          \* bound: damaged cookies, lost replies, failed
                        \* futures and restarts
    MaxTime             \* bound: the clock

Requests == Clients \X Slots
Records == [session : Clients, expires : Nat]

ASSUME NoneAssumption ==
    /\ None \notin Selectors
    /\ None \notin Nat
    /\ None \notin Records
ASSUME ConfigAssumption ==
    /\ SessionMaxAge \in Nat
    /\ RefreshMaxAge \in Nat
    /\ RemoveAfter \in Nat
    /\ ImmediateSchedule \in BOOLEAN
ASSUME BoundAssumption == MaxFaults \in Nat /\ MaxTime \in Nat

VARIABLES
    now,        \* nowMillis
    store,      \* the storage: a record for each selector, or None
    timers,     \* removals handed to storage.schedule and not yet run
    jar,        \* the cookies each client holds
    req,        \* the requests in flight
    issued,     \* history: selectors drawn so far
    usedAt,     \* history: when a selector was first rotated away
    gone,       \* history: why storage.remove was first called on a selector
    faults,     \* bound: how many faults have happened
    lost,       \* history: selectors with a scheduled removal that failed or
                \* that a restart lost
    lossy,      \* history: clients that lost a reply or sent damaged cookies
    overlapped  \* history: clients that had two requests in flight at once

vars == <<now, store, timers, jar, req, issued, usedAt, gone,
          faults, lost, lossy, overlapped>>
history == <<issued, usedAt, gone>>
trouble == <<faults, lost, lossy>>

Kinds == {"access", "touch", "login", "logout"}
Forms == {"absent", "genuine", "wrongToken", "undecodable"}
Results == {"none", "Decoded", "CreatedFromToken", "NoSession", "TokenNotFound",
            "Expired", "Corrupt", "LoggedIn", "LoggedOut"}
Reasons == {"none", "timer", "logout", "expired", "corrupt"}

\* A request: its cookies as sent (sess, sessOk, form, sel), what lookup found,
\* the token rotateToken drew (fresh, data), the session cookie of the reply.
Request ==
    [pc : {"idle", "begin", "lookup", "check", "remove", "store", "reply"},
     kind : Kinds,
     sess : Nat \cup {None}, sessOk : BOOLEAN,
     form : Forms, sel : Selectors \cup {None},
     found : Records \cup {None},
     fresh : Selectors \cup {None}, data : Records \cup {None},
     setSess : Nat \cup {None},
     result : Results]

Idle ==
    [pc |-> "idle", kind |-> "access", sess |-> None, sessOk |-> TRUE,
     form |-> "absent", sel |-> None, found |-> None, fresh |-> None,
     data |-> None, setSess |-> None, result |-> "none"]

Init ==
    /\ now = 0
    /\ store = [s \in Selectors |-> None]
    /\ timers = {}
    /\ jar = [c \in Clients |-> [sess |-> None, refresh |-> None]]
    /\ req = [r \in Requests |-> Idle]
    /\ issued = {}
    /\ usedAt = [s \in Selectors |-> None]
    /\ gone = [s \in Selectors |-> "none"]
    /\ faults = 0
    /\ lost = {}
    /\ lossy = {}
    /\ overlapped = {}

------------------------------------------------------------------------------
(* The client.                                                             *)

InFlight(c) == {i \in Slots : req[<<c, i>>].pc # "idle"}

\* The forms in which a client's refresh cookie can reach the server.
ArrivingForms(c) ==
    IF jar[c].refresh = None THEN {"absent"}
    ELSE {"genuine"} \cup (IF faults < MaxFaults THEN {"wrongToken", "undecodable"} ELSE {})

\* A client sends a request with the cookies its jar holds at this moment.
Send(c, i) ==
    /\ req[<<c, i>>].pc = "idle"
    /\ \E kind \in Kinds, form \in ArrivingForms(c), ok \in {TRUE, faults = MaxFaults} :
          /\ req' = [req EXCEPT ![<<c, i>>] =
                        [Idle EXCEPT !.pc = "begin", !.kind = kind,
                           !.sess = jar[c].sess, !.sessOk = ok,
                           !.form = form,
                           !.sel = IF form \in {"genuine", "wrongToken"}
                                   THEN jar[c].refresh ELSE None]]
          /\ IF form \in {"absent", "genuine"} /\ ok
             THEN UNCHANGED <<faults, lossy>>
             ELSE faults' = faults + 1 /\ lossy' = lossy \cup {c}
    /\ overlapped' = IF InFlight(c) = {} THEN overlapped ELSE overlapped \cup {c}
    /\ UNCHANGED <<now, store, timers, jar, history, lost>>

\* Mutant: a refreshed session sets its session cookie only.
SessionCookieOnly(q, j) ==
    IF q.result = "LoggedOut"
    THEN [sess |-> IF q.sess = None THEN j.sess ELSE None,
          refresh |-> IF q.form = "absent" THEN j.refresh ELSE None]
    ELSE [sess |-> IF q.setSess = None THEN j.sess ELSE q.setSess,
          refresh |-> IF q.result = "LoggedIn" THEN q.fresh ELSE j.refresh]

\* The cookies after a reply: invalidateSession deletes those the request
\* came with, other replies set the ones the directives made.
CookiesAfter(q, j) ==
    IF q.result = "LoggedOut"
    THEN [sess |-> IF q.sess = None THEN j.sess ELSE None,
          refresh |-> IF q.form = "absent" THEN j.refresh ELSE None]
    ELSE [sess |-> IF q.setSess = None THEN j.sess ELSE q.setSess,
          refresh |-> IF q.fresh = None THEN j.refresh ELSE q.fresh]

\* The reply reaches the client, which sets or deletes the cookies it names.
Receive(c, i) ==
    LET q == req[<<c, i>>] IN
    /\ q.pc = "reply"
    /\ jar' = [jar EXCEPT ![c] = CookiesAfter(q, @)]
    /\ req' = [req EXCEPT ![<<c, i>>] = Idle]
    /\ UNCHANGED <<now, store, timers, history, trouble, overlapped>>

\* The reply is lost, or the inner route rejects or fails so that the
\* response the client gets carries none of the cookies the directives set.
LoseReply(c, i) ==
    /\ req[<<c, i>>].pc = "reply"
    /\ faults < MaxFaults
    /\ faults' = faults + 1
    /\ lossy' = lossy \cup {c}
    /\ req' = [req EXCEPT ![<<c, i>>] = Idle]
    /\ UNCHANGED <<now, store, timers, jar, history, lost, overlapped>>

------------------------------------------------------------------------------
(* Operations of the storage and the session codec.                        *)

\* storage.remove for every selector of S; the first reason is remembered.
Remove(S, why) ==
    /\ store' = [s \in Selectors |-> IF s \in S THEN None ELSE store[s]]
    /\ gone' = [s \in Selectors |->
                  IF s \in S /\ gone[s] = "none" THEN why ELSE gone[s]]

\* ClientSessionManager.decode of the session cookie.  A damaged cookie fails
\* its signature or its parsing, unless the damage leaves an expiry in the past.
DecodeOutcomes(q) ==
    CASE q.sess = None -> {"NoSession"}
      [] q.sess # None /\ ~q.sessOk -> {"Corrupt", "Expired"}
      [] q.sess # None /\ q.sessOk ->
            IF now > q.sess THEN {"Expired"} ELSE {"Decoded"}

\* decodeSelectorAndToken of the refresh cookie, the selector only.
DecodedSelectors(q) ==
    IF q.form \in {"genuine", "wrongToken"} THEN {q.sel} ELSE {}

\* A new session cookie is good until then.
SessionExpiry == now + SessionMaxAge

\* The record rotateToken hands to storage.store.
NewRecord(user) == [session |-> user, expires |-> now + RefreshMaxAge]

\* Mutant: a selector is free again when it has no record.
UnstoredSelectors == {s \in Selectors : store[s] = None}

\* Random selectors do not repeat.
FreshSelectors == Selectors \ issued

\* Mutant: the delay is not passed on.
NoDelay == now

\* When storage.schedule is to run a removal asked for now.
RemovalTime == now + RemoveAfter

\* Mutant: rotation leaves the old token where it is.
NothingScheduled(old) == {}

\* The removals rotateToken schedules.
ScheduledRemovals(old) == {[sel |-> x, at |-> RemovalTime] : x \in old}

\* setRefreshableSession up to the call of storage.store: the session cookie
\* is made, rotateToken draws a selector, calls store and, without waiting
\* for it, schedules the removal of the token the request came with.
Rotate(r, user, result) ==
    LET q == req[r]
        old == DecodedSelectors(q) IN
    \E s \in FreshSelectors :
       /\ issued' = issued \cup {s}
       /\ req' = [req EXCEPT ![r] =
                    [q EXCEPT !.pc = "store", !.fresh = s, !.found = None,
                       !.data = NewRecord(user),
                       !.setSess = SessionExpiry, !.result = result]]
       /\ usedAt' = [x \in Selectors |->
                       IF x \in old /\ usedAt[x] = None THEN now ELSE usedAt[x]]
       /\ IF ImmediateSchedule
          THEN Remove(old, "timer") /\ UNCHANGED timers
          ELSE /\ timers' = timers \cup ScheduledRemovals(old)
               /\ UNCHANGED <<store, gone>>

------------------------------------------------------------------------------
(* The server.                                                             *)

Reply(r, result, setSess) ==
    req' = [req EXCEPT ![r] = [@ EXCEPT !.pc = "reply", !.found = None,
                                 !.setSess = setSess, !.result = result]]

Await(r, pc, result) ==
    req' = [req EXCEPT ![r] = [@ EXCEPT !.pc = pc, !.found = None,
                                 !.result = result]]

\* setSession after the application has checked the user's credentials.
Login(r) ==
    /\ req[r].pc = "begin" /\ req[r].kind = "login"
    /\ Rotate(r, r[1], "LoggedIn")
    /\ UNCHANGED <<now, jar, trouble, overlapped>>

\* Mutant: only the cookies are deleted.
LogoutOnClient(r) ==
    /\ req[r].pc = "begin" /\ req[r].kind = "logout"
    /\ Reply(r, "LoggedOut", None)
    /\ UNCHANGED <<now, store, timers, jar, history, trouble, overlapped>>

\* invalidateSession: the reply deletes the cookies the request came with,
\* after removeToken when it came with a refresh token that can be decoded.
Logout(r) ==
    /\ req[r].pc = "begin" /\ req[r].kind = "logout"
    /\ IF DecodedSelectors(req[r]) = {}
       THEN Reply(r, "LoggedOut", None)
       ELSE Await(r, "remove", "LoggedOut")
    /\ UNCHANGED <<now, store, timers, jar, history, trouble, overlapped>>

\* session, with touchSession after it: only without a live session cookie is
\* the refresh token looked at.
ReadSession(r) ==
    /\ req[r].pc = "begin" /\ req[r].kind \in {"access", "touch"}
    /\ \E outcome \in DecodeOutcomes(req[r]) :
          CASE outcome \in {"Decoded", "Corrupt"} ->
                 Reply(r, outcome,
                       IF outcome = "Decoded" /\ req[r].kind = "touch"
                       THEN SessionExpiry ELSE None)
            [] outcome \in {"NoSession", "Expired"} ->
                 CASE req[r].form = "absent" -> Reply(r, "NoSession", None)
                   [] req[r].form = "undecodable" -> Reply(r, "Corrupt", None)
                   [] OTHER -> Await(r, "lookup", "none")
    /\ UNCHANGED <<now, store, timers, jar, history, trouble, overlapped>>

\* storage.lookup reads the record.
Lookup(r) ==
    /\ req[r].pc = "lookup"
    /\ req' = [req EXCEPT ![r] = [@ EXCEPT !.pc = "check",
                                    !.found = store[req[r].sel]]]
    /\ UNCHANGED <<now, store, timers, jar, history, trouble, overlapped>>

\* sessionFromValue: the continuation of the lookup.
Check(r) ==
    LET q == req[r] IN
    /\ q.pc = "check"
    /\ \/ /\ q.found = None
          /\ Reply(r, "TokenNotFound", None)
          /\ UNCHANGED <<store, timers, history>>
       \/ /\ q.found # None
          /\ q.found.expires < now
          /\ Await(r, "remove", "Expired")
          /\ UNCHANGED <<store, timers, history>>
       \/ /\ q.found # None
          /\ q.found.expires >= now
          /\ q.form = "wrongToken"
          /\ Await(r, "remove", "Corrupt")
          /\ UNCHANGED <<store, timers, history>>
       \/ /\ q.found # None
          /\ q.found.expires >= now
          /\ q.form = "genuine"
          /\ Rotate(r, q.found.session, "CreatedFromToken")
    /\ UNCHANGED <<now, jar, trouble, overlapped>>

ReasonOf(result) ==
    CASE result = "LoggedOut" -> "logout"
      [] result = "Expired" -> "expired"
      [] OTHER -> "corrupt"

\* Mutant: the future of a removal completes only if there was a record.
RemoveDoneIfStored(r) ==
    LET q == req[r] IN
    /\ q.pc = "remove" /\ store[q.sel] # None
    /\ Remove({q.sel}, ReasonOf(q.result))
    /\ Reply(r, q.result, None)
    /\ UNCHANGED <<now, timers, jar, issued, usedAt, trouble, overlapped>>

\* storage.remove takes effect and its future completes.
RemoveDone(r) ==
    LET q == req[r] IN
    /\ q.pc = "remove"
    /\ Remove({q.sel}, ReasonOf(q.result))
    /\ Reply(r, q.result, None)
    /\ UNCHANGED <<now, timers, jar, issued, usedAt, trouble, overlapped>>

\* storage.store takes effect and its future completes.
StoreDone(r) ==
    LET q == req[r] IN
    /\ q.pc = "store"
    /\ store' = [store EXCEPT ![q.fresh] = q.data]
    /\ req' = [req EXCEPT ![r] = [@ EXCEPT !.pc = "reply", !.data = None]]
    /\ UNCHANGED <<now, timers, jar, history, trouble, overlapped>>

\* A future of the storage fails, with or without the operation having taken
\* effect: onSuccess fails the request, and the response carries no cookies.
StorageFails(r) ==
    LET q == req[r] IN
    /\ q.pc \in {"lookup", "remove", "store"}
    /\ faults < MaxFaults
    /\ faults' = faults + 1
    /\ lossy' = lossy \cup {r[1]}
    /\ req' = [req EXCEPT ![r] = Idle]
    /\ \/ UNCHANGED <<store, gone>>
       \/ q.pc = "remove" /\ Remove({q.sel}, ReasonOf(q.result))
       \/ /\ q.pc = "store"
          /\ store' = [store EXCEPT ![q.fresh] = q.data]
          /\ UNCHANGED gone
    /\ UNCHANGED <<now, timers, jar, issued, usedAt, lost, overlapped>>

\* Mutant: a scheduled removal spares records that have expired.
RunScheduledUnexpired(t) ==
    /\ t.at <= now
    /\ timers' = timers \ {t}
    /\ Remove({s \in {t.sel} : store[s] # None /\ store[s].expires >= now}, "timer")
    /\ UNCHANGED <<now, jar, req, issued, usedAt, trouble, overlapped>>

\* The storage runs a scheduled removal, at its time or later.  Nobody waits for
\* the future of storage.remove or tries again: if it fails, the record may stay.
RunScheduled(t) ==
    /\ t.at <= now
    /\ timers' = timers \ {t}
    /\ \/ Remove({t.sel}, "timer") /\ UNCHANGED trouble
       \/ /\ faults < MaxFaults
          /\ faults' = faults + 1
          /\ lost' = lost \cup {t.sel}
          /\ UNCHANGED <<store, gone, lossy>>
    /\ UNCHANGED <<now, jar, req, issued, usedAt, overlapped>>

\* The server stops and starts again: the storage keeps its records, the
\* removals scheduled in the process and the requests in flight are lost.
Restart ==
    /\ faults < MaxFaults
    /\ faults' = faults + 1
    /\ lost' = lost \cup {t.sel : t \in timers}
    /\ lossy' = lossy \cup {c \in Clients : InFlight(c) # {}}
    /\ timers' = {}
    /\ req' = [r \in Requests |-> Idle]
    /\ UNCHANGED <<now, store, jar, history, overlapped>>

Tick ==
    /\ now < MaxTime
    /\ now' = now + 1
    /\ UNCHANGED <<store, timers, jar, req, history, trouble, overlapped>>

ServerStep(r) ==
    \/ Login(r) \/ Logout(r) \/ ReadSession(r) \/ Lookup(r) \/ Check(r)
    \/ RemoveDone(r) \/ StoreDone(r)

Next ==
    \/ \E c \in Clients, i \in Slots :
          Send(c, i) \/ Receive(c, i) \/ LoseReply(c, i)
    \/ \E r \in Requests : ServerStep(r) \/ StorageFails(r)
    \/ \E t \in timers : RunScheduled(t)
    \/ Restart
    \/ Tick

Spec == Init /\ [][Next]_vars

\* The execution context runs every continuation that is ready, the storage
\* answers, replies that are not lost arrive, the scheduler fires what is due,
\* and time passes.  Nobody has to send a request and nothing has to fail.
Fairness ==
    /\ WF_vars(Tick)
    /\ \A r \in Requests : WF_vars(ServerStep(r))
    /\ \A c \in Clients, i \in Slots : WF_vars(Receive(c, i))
    /\ \A s \in Selectors :
          WF_vars(\E t \in timers : t.sel = s /\ RunScheduled(t))

FairSpec == Spec /\ Fairness

------------------------------------------------------------------------------
(* Properties.                                                             *)

TimerSet == [sel : Selectors, at : Nat]

\* Every variable holds values of its kind.
TypeOK ==
    /\ now \in Nat
    /\ store \in [Selectors -> Records \cup {None}]
    /\ timers \subseteq TimerSet
    /\ jar \in [Clients -> [sess : Nat \cup {None},
                            refresh : Selectors \cup {None}]]
    /\ req \in [Requests -> Request]
    /\ issued \subseteq Selectors
    /\ usedAt \in [Selectors -> Nat \cup {None}]
    /\ gone \in [Selectors -> Reasons]
    /\ faults \in Nat
    /\ lost \subseteq Selectors
    /\ lossy \subseteq Clients
    /\ overlapped \subseteq Clients

\* Once storage.remove has run on a selector no record is ever stored under it
\* again, whatever store, lookup and scheduled removals are still under way: a
\* logged out, used up, expired or mistrusted token does not come back to life.
RemovedStaysRemoved ==
    \A s \in Selectors : gone[s] # "none" => store[s] = None

\* Requests that still carry a token after its first use are served until
\* config.removeUsedRefreshTokenAfter has passed: the answer TokenNotFound
\* is given only for a token that was logged out, expired or presented with a
\* wrong secret, or whose time after the first use is over.
UsedTokenServedInGrace ==
    \A r \in Requests :
       LET s == req[r].sel IN
       req[r].result = "TokenNotFound" =>
          \/ gone[s] \in {"logout", "expired", "corrupt"}
          \/ usedAt[s] # None /\ now >= usedAt[s] + RemoveAfter

\* A token that has been rotated away and is still in the storage has a
\* removal scheduled, unless a removal of this very token failed in the storage
\* or was lost in a restart: neither is tried again.
UsedTokenIsScheduled ==
    \A s \in Selectors :
       usedAt[s] # None /\ store[s] # None =>
          s \in lost \/ \E t \in timers : t.sel = s

\* A client none of whose replies was lost, and who waits for none, is never
\* locked out: its refresh cookie names a stored token that nobody has used,
\* or one that expired.  Replies arriving out of order, logouts overtaking
\* refreshes and refreshes of the same token do not break this.
IdleClientHoldsLiveToken ==
    \A c \in Clients \ lossy :
       LET s == jar[c].refresh IN
       InFlight(c) = {} /\ s # None =>
          \/ gone[s] = "expired"
          \/ store[s] # None /\ usedAt[s] = None

\* As long as a client sends one request at a time and loses no reply, the
\* storage keeps no token for it that nobody will present or remove: each is
\* in its cookie, in a reply on its way, or scheduled for removal, unless that
\* removal failed or a restart lost it.  After a logout nothing but such tokens
\* and tokens in their grace period is left.
NoAbandonedToken ==
    \A s \in Selectors :
       store[s] # None /\ store[s].session \notin lossy \cup overlapped =>
          \/ jar[store[s].session].refresh = s
          \/ \E r \in Requests : req[r].pc = "reply" /\ req[r].fresh = s
          \/ \E t \in timers : t.sel = s
          \/ s \in lost

\* A token, once used, leaves the storage unless a removal of this very token
\* fails or is lost in a restart.
UsedTokenEventuallyRemoved ==
    \A s \in Selectors :
       usedAt[s] # None /\ usedAt[s] + RemoveAfter <= MaxTime
          ~> store[s] = None \/ s \in lost

\* Every request is answered, whatever the storage is asked meanwhile.
EveryRequestAnswered ==
    \A r \in Requests :
       req[r].pc # "idle" ~> req[r].pc = "idle" \/ FreshSelectors = {}

------------------------------------------------------------------------------
(* The inductive invariant behind RemovedStaysRemoved,                     *)
(* UsedTokenServedInGrace and UsedTokenIsScheduled.                        *)

\* What a request carries at each stage.
RequestShape ==
    \A r \in Requests :
       LET q == req[r] IN
       /\ q.sel # None <=> q.form \in {"genuine", "wrongToken"}
       /\ q.pc \in {"lookup", "check", "remove"} => q.sel # None
       /\ q.pc \notin {"store", "reply"} => q.fresh = None
       /\ q.pc = "store" => q.fresh # None /\ q.data # None
       /\ q.result = "TokenNotFound" => q.sel # None

\* The client side has seen the selector s.
Exposed(s) ==
    \/ \E c \in Clients : jar[c].refresh = s
    \/ \E r \in Requests : req[r].sel = s
    \/ \E r \in Requests : req[r].pc = "reply" /\ req[r].fresh = s

\* The server has stored or removed something under s, or will remove it.
Touched(s) ==
    \/ store[s] # None
    \/ gone[s] # "none"
    \/ usedAt[s] # None
    \/ \E t \in timers : t.sel = s

\* Nothing refers to a selector that was never drawn.
OnlyIssuedKnown ==
    \A s \in Selectors \ issued :
       /\ ~Exposed(s)
       /\ ~Touched(s)
       /\ \A r \in Requests : req[r].fresh # s

\* While a token is on its way to the storage nobody else knows of it.
PendingIsPrivate ==
    \A r \in Requests :
       req[r].pc = "store" =>
          /\ ~Exposed(req[r].fresh)
          /\ ~Touched(req[r].fresh)
          /\ \A x \in Requests \ {r} : req[x].fresh # req[r].fresh

\* A token the client side has seen is stored until it is removed.
ExposedIsStored ==
    \A s \in Selectors : Exposed(s) => store[s] # None \/ gone[s] # "none"

\* A lookup fails only for what was removed.
NotFoundIsGone ==
    \A r \in Requests :
       \/ req[r].pc = "check" /\ req[r].found = None
       \/ req[r].result = "TokenNotFound"
       => gone[req[r].sel] # "none"

\* The clock does not run backwards.
UsedInPast ==
    \A s \in Selectors : usedAt[s] # None => usedAt[s] <= now

\* Removals of used tokens come no earlier than the configuration says.
TimersKeepGrace ==
    ImmediateSchedule \/
    /\ \A t \in timers :
          usedAt[t.sel] # None /\ t.at >= usedAt[t.sel] + RemoveAfter
    /\ \A s \in Selectors :
          gone[s] = "timer" =>
             usedAt[s] # None /\ now >= usedAt[s] + RemoveAfter

IInv ==
    /\ TypeOK
    /\ RequestShape
    /\ OnlyIssuedKnown
    /\ PendingIsPrivate
    /\ ExposedIsStored
    /\ NotFoundIsGone
    /\ UsedInPast
    /\ TimersKeepGrace
    /\ RemovedStaysRemoved
    /\ UsedTokenIsScheduled

==============================================================================
