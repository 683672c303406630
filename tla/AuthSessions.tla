---------------------------- MODULE AuthSessions ----------------------------
(***************************************************************************)
(* Signing in: the sessions the API keeps, the refresh token that is       *)
(* rotated on every use, and the tabs of one browser, which share the      *)
(* cookie and hold an access token each.                                   *)
(*                                                                         *)
(* A login or a refresh issues a pair of tokens under one number.  The     *)
(* access token of a pair is good until it is stale, whatever becomes of   *)
(* its session; the refresh token of a pair is good while the row of its   *)
(* session holds its hash, which is modelled by the number.                *)
(***************************************************************************)
EXTENDS Naturals, Sequences, FiniteSets

CONSTANTS
    Tabs,           \* tabs of the browser
    Calls,          \* calls a page may have in flight at once
    Users,          \* people, by their e-mail address
    Registered,     \* those with an account at first
    Budgets         \* bounds: records of what users, time and network may do

ASSUME AuthAssumption ==
    /\ Registered \subseteq Users
    /\ Budgets \subseteq [acts : Nat, calls : Nat, expiries : Nat, faults : Nat]
    /\ "nobody" \notin Users /\ "gone" \notin Tabs
    /\ \A c \in Calls : c \notin {"bootstrap", "form", "menu"}

VARIABLES
    accounts,   \* users table
    sessions,   \* sessions table: user, hash of the refresh token, revoked, expired
    issued,     \* the session of every pair of tokens
    stale,      \* access tokens past their expiry
    cookie,     \* the refresh token cookie of the browser
    tabs,       \* the auth slice, the held token and the calls of every tab
    requests,   \* requests in flight, and their answers
    crossed,    \* history: refreshes overlapped, or an answer to one was lost
    left        \* what is left of the budget

vars == <<accounts, sessions, issued, stale, cookie, tabs, requests, crossed, left>>
database == <<accounts, sessions, issued>>

NoToken == 0
Nobody == "nobody"
NoTab == "gone"

\* apiFetch: a call is sent, waits for the shared refresh, or is sent again.
CallStates == {"idle", "sent", "waiting", "retried"}

NewTab == [status |-> "idle", user |-> Nobody, token |-> NoToken,
           calls |-> [c \in Calls |-> "idle"], refreshing |-> FALSE]

\* `by` is what the answer goes to: a call, or the thunk of that name.
Request(t, by, kind, token, user) ==
    [tab |-> t, by |-> by, kind |-> kind, token |-> token, user |-> user,
     row |-> <<>>, at |-> "sent"]

Of(t) == {r \in requests : r.tab = t}

Refreshes == {r \in requests : r.kind = "refresh"}

Spend(what) == left[what] > 0 /\ left' = [left EXCEPT ![what] = @ - 1]

Ended(sid) == sessions[sid].revoked \/ sessions[sid].expired

\* The user of an access token; /me looks the account up.
UserOf(token) == sessions[issued[token]].user

-----------------------------------------------------------------------------
(* A browser without a session, or with one of an earlier visit.            *)

Init ==
    /\ accounts = Registered
    /\ \/ sessions = <<>> /\ issued = <<>> /\ cookie = NoToken
       \/ \E u \in Registered :
             /\ sessions = <<[user |-> u, hash |-> 1, revoked |-> FALSE, expired |-> FALSE]>>
             /\ issued = <<1>>
             /\ cookie = 1
    /\ stale = {}
    /\ tabs = [t \in Tabs |-> NewTab]
    /\ requests = {}
    /\ crossed = FALSE
    /\ left \in Budgets

-----------------------------------------------------------------------------
(* The tabs: the auth slice and apiFetch.                                   *)

\* The cookie goes with a refresh, the held token with everything else.
Send(t, by, kind, user) ==
    /\ requests' = requests \cup
          {Request(t, by, kind, IF kind = "refresh" THEN cookie ELSE tabs[t].token, user)}
    /\ crossed' = (crossed \/ (kind \in {"refresh", "login"}
                                 /\ \E r \in requests : r.kind \in {"refresh", "login"}))

\* bootstrapThunk.pending, once per load of the app.
Bootstrap(t) ==
    /\ tabs[t].status = "idle"
    /\ tabs' = [tabs EXCEPT ![t].status = "loading"]
    /\ Send(t, "bootstrap", "refresh", Nobody)
    /\ UNCHANGED <<database, stale, cookie, left>>

\* AuthGuard shows a page, which calls the API, only to who is signed in.
Call(t, c) ==
    /\ Spend("calls")
    /\ tabs[t].status = "authenticated" /\ tabs[t].calls[c] = "idle"
    /\ tabs' = [tabs EXCEPT ![t].calls[c] = "sent"]
    /\ Send(t, c, "call", Nobody)
    /\ UNCHANGED <<database, stale, cookie>>

\* GuestGuard shows the forms only to who is not; a form is disabled while its
\* request is in flight.
Submit(t, kind, u) ==
    /\ Spend("acts")
    /\ tabs[t].status = "anonymous"
    /\ \A r \in Of(t) : r.by # "form"
    /\ Send(t, "form", kind, u)
    /\ UNCHANGED <<database, stale, cookie, tabs>>

\* The avatar menu, which a logout in flight does not disable (of two sent one
\* behind the other and alike, the second changes nothing); the client offers no
\* logout-all, other devices do.
Logout(t, kind) ==
    /\ Spend("acts")
    /\ tabs[t].status = "authenticated"
    /\ Send(t, "menu", kind, Nobody)
    /\ UNCHANGED <<database, stale, cookie, tabs>>

\* A reload (or a closed tab opened again) forgets the token and the answers
\* on their way; the requests themselves may still be served.
Reload(t) ==
    /\ Spend("acts")
    /\ tabs[t].status # "idle"
    /\ tabs' = [tabs EXCEPT ![t] = NewTab]
    /\ requests' = {r \in requests : r.tab # t}
                   \cup {[r EXCEPT !.tab = NoTab] : r \in Of(t)}
    /\ crossed' = (crossed \/ \E r \in Of(t) : r.kind \in {"refresh", "login"})
    /\ UNCHANGED <<database, stale, cookie>>

-----------------------------------------------------------------------------
(* The API.                                                                 *)

Reply(r, at) == requests' = (requests \ {r}) \cup {[r EXCEPT !.at = at]}

\* A new pair of tokens, of session sid.
Issue(r, sid) ==
    /\ issued' = Append(issued, sid)
    /\ requests' = (requests \ {r}) \cup
                   {[r EXCEPT !.at = "ok", !.token = Len(issued) + 1]}

Authentic(token) == token # NoToken /\ token \notin stale

\* authenticate looks at the token only; logout and logoutAll revoke.
Revoked(r) ==
    [s \in DOMAIN sessions |->
       IF \/ r.kind = "logout" /\ s = issued[r.token]
          \/ r.kind = "logoutAll" /\ sessions[s].user = UserOf(r.token)
       THEN [sessions[s] EXCEPT !.revoked = TRUE] ELSE sessions[s]]

ServeCall(r) ==
    /\ r.at = "sent" /\ r.kind \in {"call", "me", "logout", "logoutAll"}
    /\ IF Authentic(r.token)
       THEN sessions' = Revoked(r) /\ Reply(r, "ok")
       ELSE Reply(r, "refused") /\ UNCHANGED sessions
    /\ UNCHANGED <<accounts, issued, stale, cookie, tabs, crossed, left>>

\* register and login look the account up; refresh reads the session.
Read(r) ==
    /\ r.at = "sent" /\ r.kind \in {"register", "login", "refresh"}
    /\ IF r.kind = "refresh"
       THEN IF r.token = NoToken THEN Reply(r, "refused")
            ELSE requests' = (requests \ {r}) \cup
                             {[r EXCEPT !.at = "read", !.row = sessions[issued[r.token]]]}
       ELSE Reply(r, IF (r.user \in accounts) = (r.kind = "login") THEN "read" ELSE "refused")
    /\ UNCHANGED <<database, stale, cookie, tabs, crossed, left>>

\* createUser, after the password is hashed: e-mail addresses are unique.
CreateUser(r) ==
    /\ r.at = "read" /\ r.kind = "register"
    /\ accounts' = accounts \cup {r.user}
    /\ Reply(r, IF r.user \in accounts THEN "refused" ELSE "ok")
    /\ UNCHANGED <<sessions, issued, stale, cookie, tabs, crossed, left>>

\* createSession comes first: the tokens name the session.
CreateSession(r) ==
    /\ r.at = "read" /\ r.kind = "login"
    /\ sessions' = Append(sessions, [user |-> r.user, hash |-> NoToken,
                                     revoked |-> FALSE, expired |-> FALSE])
    /\ requests' = (requests \ {r}) \cup
                   {[r EXCEPT !.at = "created", !.row = [sid |-> Len(sessions) + 1]]}
    /\ UNCHANGED <<accounts, issued, stale, cookie, tabs, crossed, left>>

StoreHash(r) ==
    /\ r.at = "created"
    /\ sessions' = [sessions EXCEPT ![r.row.sid].hash = Len(issued) + 1]
    /\ Issue(r, r.row.sid)
    /\ UNCHANGED <<accounts, stale, cookie, tabs, crossed, left>>

\* The checks of refresh look at the row that was read.
Valid(r) == ~r.row.revoked /\ ~r.row.expired /\ r.row.hash = r.token

\* Mutant: the row that was read is written back.
RotateRow(r) ==
    /\ r.at = "read" /\ r.kind = "refresh"
    /\ IF Valid(r)
       THEN LET sid == issued[r.token]
            IN  /\ sessions' = [sessions EXCEPT ![sid] = [r.row EXCEPT !.hash = Len(issued) + 1]]
                /\ Issue(r, sid)
       ELSE Reply(r, "refused") /\ UNCHANGED <<sessions, issued>>
    /\ UNCHANGED <<accounts, stale, cookie, tabs, crossed, left>>

\* Mutant: the hash of the new token is not stored.
RotateNothing(r) ==
    /\ r.at = "read" /\ r.kind = "refresh"
    /\ IF Valid(r) THEN Issue(r, issued[r.token]) ELSE Reply(r, "refused") /\ UNCHANGED issued
    /\ UNCHANGED <<accounts, sessions, stale, cookie, tabs, crossed, left>>

\* The new hash is stored, whatever the row holds by now; revoked_at is left.
Rotate(r) ==
    /\ r.at = "read" /\ r.kind = "refresh"
    /\ IF Valid(r)
       THEN LET sid == issued[r.token]
            IN  /\ sessions' = [sessions EXCEPT ![sid].hash = Len(issued) + 1]
                /\ Issue(r, sid)
       ELSE Reply(r, "refused") /\ UNCHANGED <<sessions, issued>>
    /\ UNCHANGED <<accounts, stale, cookie, tabs, crossed, left>>

-----------------------------------------------------------------------------
(* Answers.                                                                 *)

Answered(r) == r.at \in {"ok", "refused", "lost"}

\* Set-Cookie, which the browser obeys even if the tab does not care any more.
CookieAfter(r) ==
    CASE r.at = "ok" /\ r.kind \in {"login", "refresh"}     -> r.token
      [] r.at = "ok" /\ r.kind \in {"logout", "logoutAll"}  -> NoToken
      [] OTHER -> cookie

SignedOut(tab) == [tab EXCEPT !.status = "anonymous", !.user = Nobody]

Signed(tab, user) == [tab EXCEPT !.status = "authenticated", !.user = user]

\* apiFetch, of the answer to a refresh it asked for: the waiting calls are
\* sent again with the new token, or fail and the user is signed out.
Refreshed(tab, r) ==
    LET waiting(state) == [c \in Calls |-> IF tab.calls[c] = "waiting" THEN state ELSE tab.calls[c]]
    IN  IF r.at = "ok"
        THEN [tab EXCEPT !.token = r.token, !.calls = waiting("retried"), !.refreshing = FALSE]
        ELSE SignedOut([tab EXCEPT !.token = NoToken, !.calls = waiting("idle"),
                                   !.refreshing = FALSE])

Retries(t, r) ==
    {Request(t, c, "call", r.token, Nobody) : c \in {d \in Calls : tabs[t].calls[d] = "waiting"}}

\* Mutant: every call that is refused asks for a refresh of its own.
CallAnsweredAlone(r) ==
    LET t == r.tab
        again == r.at = "refused" /\ tabs[t].calls[r.by] = "sent"
    IN  /\ tabs' = [tabs EXCEPT ![t].calls[r.by] = IF again THEN "waiting" ELSE "idle",
                                ![t].refreshing = @ \/ again]
        /\ requests' = (requests \ {r}) \cup
              (IF again THEN {Request(t, r.by, "refresh", cookie, Nobody)} ELSE {})
        /\ UNCHANGED crossed

\* apiFetch, of the answer to a call: refused, it joins the refresh under way
\* or starts one; refused again, it fails.
CallAnswered(r) ==
    LET t == r.tab
        again == r.at = "refused" /\ tabs[t].calls[r.by] = "sent"
        starts == again /\ ~tabs[t].refreshing
    IN  /\ tabs' = [tabs EXCEPT ![t].calls[r.by] = IF again THEN "waiting" ELSE "idle",
                                ![t].refreshing = @ \/ again]
        /\ requests' = (requests \ {r}) \cup
              (IF starts THEN {Request(t, r.by, "refresh", cookie, Nobody)} ELSE {})
        /\ crossed' = (crossed \/ (starts /\ Refreshes # {}))

RefreshAnswered(r) ==
    /\ tabs' = [tabs EXCEPT ![r.tab] = Refreshed(@, r)]
    /\ requests' = (requests \ {r}) \cup (IF r.at = "ok" THEN Retries(r.tab, r) ELSE {})
    /\ UNCHANGED crossed

\* Mutant: the rejection of the thunk is not handled.
BootstrapForgets(r) ==
    LET t == r.tab
        me == r.kind = "refresh" /\ r.at = "ok"
    IN  /\ tabs' = [tabs EXCEPT ![t] =
              IF me THEN [@ EXCEPT !.token = r.token]
              ELSE IF r.at = "ok" THEN Signed(@, UserOf(r.token))
              ELSE IF r.kind = "me" THEN SignedOut(@) ELSE @]
        /\ requests' = (requests \ {r}) \cup
              (IF me THEN {Request(t, "bootstrap", "me", r.token, Nobody)} ELSE {})
        /\ UNCHANGED crossed

\* bootstrapThunk: refresh, then /me; if either is rejected, nobody is signed in.
BootstrapAnswered(r) ==
    LET t == r.tab
        me == r.kind = "refresh" /\ r.at = "ok"
    IN  /\ tabs' = [tabs EXCEPT ![t] =
              IF me THEN [@ EXCEPT !.token = r.token]
              ELSE IF r.at = "ok" THEN Signed(@, UserOf(r.token)) ELSE SignedOut(@)]
        /\ requests' = (requests \ {r}) \cup
              (IF me THEN {Request(t, "bootstrap", "me", r.token, Nobody)} ELSE {})
        /\ UNCHANGED crossed

\* loginThunk and the logout thunks.  A rejected logout changes nothing;
\* registering signs nobody in.
ThunkAnswered(r) ==
    /\ tabs' = [tabs EXCEPT ![r.tab] =
          IF r.at # "ok" \/ r.kind = "register" THEN @
          ELSE IF r.kind = "login" THEN Signed([@ EXCEPT !.token = r.token], r.user)
          ELSE SignedOut([@ EXCEPT !.token = NoToken])]
    /\ requests' = requests \ {r}
    /\ UNCHANGED crossed

Deliver(r) ==
    /\ Answered(r)
    /\ cookie' = CookieAfter(r)
    /\ IF r.tab = NoTab THEN requests' = requests \ {r} /\ UNCHANGED <<tabs, crossed>>
       ELSE \/ r.by = "bootstrap" /\ BootstrapAnswered(r)
            \/ r.by \in {"form", "menu"} /\ ThunkAnswered(r)
            \/ r.by \in Calls /\ r.kind = "refresh" /\ RefreshAnswered(r)
            \/ r.by \in Calls /\ r.kind = "call" /\ CallAnswered(r)
    /\ UNCHANGED <<database, stale, left>>

\* The connection fails before the request is served, or after.
Lose(r) ==
    /\ Spend("faults")
    /\ r.at \in {"sent", "ok"}
    /\ Reply(r, "lost")
    /\ crossed' = (crossed \/ r.kind \in {"refresh", "login"})
    /\ UNCHANGED <<database, stale, cookie, tabs>>

\* The answer to a page that is gone is not read, and its cookie not set.
Drop(r) ==
    /\ Answered(r) /\ r.tab = NoTab
    /\ requests' = requests \ {r}
    /\ UNCHANGED <<database, stale, cookie, tabs, crossed, left>>

-----------------------------------------------------------------------------
(* Time: fifteen minutes for an access token, thirty days for a session,
   whose expiry no refresh defers.                                          *)

TokenExpires ==
    \E n \in DOMAIN issued \ stale :
        /\ Spend("expiries")
        /\ stale' = stale \cup {n}
        /\ UNCHANGED <<database, cookie, tabs, requests, crossed>>

SessionExpires ==
    \E sid \in DOMAIN sessions :
        /\ Spend("expiries")
        /\ ~sessions[sid].expired
        /\ sessions' = [sessions EXCEPT ![sid].expired = TRUE]
        /\ UNCHANGED <<accounts, issued, stale, cookie, tabs, requests, crossed>>

-----------------------------------------------------------------------------
Serve(r) ==
    ServeCall(r) \/ Read(r) \/ CreateUser(r) \/ CreateSession(r) \/ StoreHash(r) \/ Rotate(r)

Next ==
    \/ \E t \in Tabs :
          \/ Bootstrap(t) \/ Reload(t)
          \/ \E c \in Calls : Call(t, c)
          \/ \E u \in Users : Submit(t, "login", u) \/ Submit(t, "register", u)
          \/ Logout(t, "logout") \/ Logout(t, "logoutAll")
    \/ \E r \in requests : Serve(r) \/ Deliver(r) \/ Lose(r) \/ Drop(r)
    \/ TokenExpires \/ SessionExpires

Spec == Init /\ [][Next]_vars

\* The app is bootstrapped, requests are served and their answers handled; the
\* user, the clock and the network owe nothing.
Fairness ==
    /\ \A t \in Tabs : WF_vars(Bootstrap(t))
    /\ WF_vars(\E r \in requests : Serve(r))
    /\ WF_vars(\E r \in requests : Deliver(r))

FairSpec == Spec /\ Fairness

-----------------------------------------------------------------------------
TypeOK ==
    /\ accounts \subseteq Users
    /\ sessions \in Seq([user : Users, hash : 0 .. Len(issued), revoked : BOOLEAN,
                         expired : BOOLEAN])
    /\ issued \in Seq(DOMAIN sessions)
    /\ stale \subseteq DOMAIN issued
    /\ cookie \in 0 .. Len(issued)
    /\ tabs \in [Tabs -> [status : {"idle", "loading", "authenticated", "anonymous"},
                          user : Users \cup {Nobody}, token : 0 .. Len(issued),
                          calls : [Calls -> CallStates], refreshing : BOOLEAN]]

\* The calls of a tab that meet a stale token share one refresh, and none is sent
\* while the tab is bootstrapped: "the rotating refresh cookie is only consumed
\* once" by a tab.
OneRefreshPerTab ==
    \A t \in Tabs :
        /\ Cardinality({r \in Of(t) : r.kind = "refresh"}) <= 1
        /\ tabs[t].refreshing <=> \E c \in Calls : tabs[t].calls[c] = "waiting"

\* Rotation locks nobody out: a refresh is refused only to who has no cookie or
\* whose session was revoked or has expired, however calls, logins, logouts and
\* expiries interleave, unless two refreshes overlapped or an answer was lost.
RefusedForCause ==
    \A r \in Refreshes :
        r.at = "refused" => crossed \/ r.token = NoToken \/ Ended(issued[r.token])

\* A session that was revoked stays so, though a refresh that read it before
\* writes it after.
RevokedForGood ==
    [][\A s \in DOMAIN sessions : sessions[s].revoked => sessions'[s].revoked]_vars

\* The guards show a page in the end: every tab learns whether it is signed in,
\* whichever of the two requests of its bootstrap is refused or lost.
GuardsResolve ==
    \A t \in Tabs :
        tabs[t].status \in {"idle", "loading"}
            ~> tabs[t].status \in {"authenticated", "anonymous"}

-----------------------------------------------------------------------------
(* What comments of the code say, and the code does not do (README).        *)

\* "a previously issued (reused) token is rejected" (AuthService.refresh): no
\* refresh token is accepted twice.
TokenAcceptedOnce ==
    \A p, r \in {q \in Refreshes : q.at = "read" /\ Valid(q)} : p.token = r.token => p = r

\* "Revokes the current session and clears the local token" (logoutThunk): who
\* asked to be signed out is, once the answer is there.
LogoutSignsOut ==
    [][\A r \in requests :
        r.by = "menu" /\ r.tab # NoTab /\ Answered(r) /\ r \notin requests'
            => tabs'[r.tab].status # "authenticated"]_vars

=============================================================================
