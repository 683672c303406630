------------------------- MODULE AuthSessionsProofs -------------------------
(***************************************************************************)
(* Proofs about signing in, for any tabs, calls, users and budgets: the    *)
(* type invariant, that a revoked session stays so, that a tab consumes    *)
(* its rotating cookie once, and that rotation locks nobody out.           *)
(***************************************************************************)
EXTENDS AuthSessions, FiniteSetTheorems, TLAPS

-----------------------------------------------------------------------------
(* The invariants of requests, tabs, logins and refreshes.                  *)

\* A row of the sessions table, its hash being the number of a token.
SessionRow == [user : Users, hash : Nat, revoked : BOOLEAN, expired : BOOLEAN]

\* A request in flight.
Requested ==
    [tab : Tabs \cup {NoTab}, by : Calls \cup {"bootstrap", "form", "menu"},
     kind : {"refresh", "login", "register", "logout", "logoutAll", "call", "me"},
     token : Nat, user : Users \cup {Nobody}, row : {<<>>} \cup SessionRow \cup [sid : Nat],
     at : {"sent", "read", "created", "ok", "refused", "lost"}]

\* A request is of a kind its sender sends, and holds what its next step needs.
RequestOK(r) ==
    /\ r \in Requested /\ r.token <= Len(issued)
    /\ r.by = "bootstrap" => r.kind \in {"refresh", "me"}
    /\ r.by = "form" => r.kind \in {"login", "register"} /\ r.user \in Users
    /\ r.by = "menu" => r.kind \in {"logout", "logoutAll"}
    /\ r.by \in Calls => r.kind \in {"call", "refresh"}
    /\ r.at = "read" /\ r.kind = "refresh" => r.token # NoToken /\ r.row \in SessionRow
    /\ r.at = "created" =>
          r.kind = "login" /\ r.row \in [sid : Nat] /\ r.row.sid \in DOMAIN sessions
    /\ r.at = "ok" /\ r.kind # "register" => r.token # NoToken

\* The type invariant, with what a request in flight carries.
Typed == TypeOK /\ \A r \in requests : RequestOK(r)

\* The calls of a tab wait only for a refresh, and a tab that is being
\* bootstrapped has none; every sender has one request in flight.
SameSender(q, r) ==
    \/ q.by = "bootstrap" /\ r.by = "bootstrap"
    \/ q.kind = "refresh" /\ r.kind = "refresh"
    \/ q.kind = "call" /\ r.kind = "call" /\ q.by = r.by

TabInv(t) ==
    /\ tabs[t].refreshing <=> \E c \in Calls : tabs[t].calls[c] = "waiting"
    /\ tabs[t].status \in {"idle", "loading"} =>
          /\ \A c \in Calls : tabs[t].calls[c] = "idle"
          /\ \A r \in Of(t) : r.by = "bootstrap"
    /\ \A r \in Of(t) :
          /\ r.by = "bootstrap" => tabs[t].status = "loading"
          /\ r.kind = "call" => tabs[t].calls[r.by] \in {"sent", "retried"}
          /\ r.kind = "refresh" /\ r.by \in Calls => tabs[t].refreshing
    /\ \A q, r \in Of(t) : SameSender(q, r) => q = r

\* A session that is being created has no tokens yet, and the tokens of a login
\* that was not answered yet are in nobody's hands.
Undelivered(r) == r.kind = "login" /\ r.at = "ok"

LoginInv(r) ==
    /\ r.at = "created" =>
          /\ \A n \in DOMAIN issued : issued[n] # r.row.sid
          /\ \A q \in requests : q.at = "created" /\ q.row.sid = r.row.sid => q = r
    /\ Undelivered(r) =>
          /\ \A n \in DOMAIN issued : issued[n] = issued[r.token] => n = r.token
          /\ cookie # r.token
          /\ \A q \in requests :
                (q.kind = "refresh" \/ Undelivered(q)) /\ q.token = r.token => q = r

\* A refresh with this token is refused for a cause; it is not, or for a cause.
Spent(token) == token = NoToken \/ Ended(issued[token])
Live(token) == Spent(token) \/ sessions[issued[token]].hash = token

\* One refresh at a time: its token is live when it is served, and so is the one
\* it returns; the cookie is live but for a refresh whose answer is on its way.
RefreshInv ==
    /\ \A q, r \in Refreshes : q = r
    /\ \A r \in Refreshes :
          /\ r.tab # NoTab
          /\ r.at = "sent" => Live(r.token)
          /\ r.at = "read" => Spent(r.token) \/ (Valid(r) /\ Live(r.token))
          /\ r.at = "ok" => Live(r.token)
          /\ r.at = "refused" => Spent(r.token)
    /\ \A r \in requests : Undelivered(r) => Live(r.token)
    /\ Live(cookie) \/ \E r \in Refreshes : r.at = "ok"

-----------------------------------------------------------------------------
(* Types.                                                                   *)

\* What no step of the database takes back: sessions and tokens are added, a
\* session keeps its user, and ends for good.
Grows ==
    /\ Len(issued) <= Len(issued')
    /\ \A n \in DOMAIN issued : n \in DOMAIN issued' /\ issued'[n] = issued[n]
    /\ \A s \in DOMAIN sessions :
          /\ s \in DOMAIN sessions'
          /\ sessions'[s].user = sessions[s].user
          /\ sessions[s].revoked => sessions'[s].revoked
          /\ sessions[s].expired => sessions'[s].expired

\* The tables, their hashes bounded by the tokens that have been issued.
DatabaseOK ==
    /\ accounts \subseteq Users
    /\ sessions \in Seq([user : Users, hash : 0 .. Len(issued), revoked : BOOLEAN,
                         expired : BOOLEAN])
    /\ issued \in Seq(DOMAIN sessions)

\* A longer table of tokens widens the type of the hashes.
LEMMA WiderRows ==
    ASSUME NEW k \in Nat, NEW m \in Nat, k <= m,
           NEW q \in Seq([user : Users, hash : 0 .. k, revoked : BOOLEAN, expired : BOOLEAN])
    PROVE  q \in Seq([user : Users, hash : 0 .. m, revoked : BOOLEAN, expired : BOOLEAN])
  <1> DEFINE Narrow == [user : Users, hash : 0 .. k, revoked : BOOLEAN, expired : BOOLEAN]
             Wide == [user : Users, hash : 0 .. m, revoked : BOOLEAN, expired : BOOLEAN]
  <1>1. Narrow \subseteq Wide
    OBVIOUS
  <1> HIDE DEF Narrow, Wide
  <1>2. q \in Seq(Narrow) => q \in Seq(Wide)
    BY <1>1
  <1> QED BY <1>2 DEF Narrow, Wide

\* Replacing a row of a table by another one of its type.
LEMMA ReplacedRow ==
    ASSUME NEW S, NEW q \in Seq(S), NEW i \in DOMAIN q, NEW x \in S
    PROVE  [q EXCEPT ![i] = x] \in Seq(S)
  OBVIOUS

\* A step that leaves the database alone.
LEMMA DatabaseIdle ==
    ASSUME DatabaseOK, UNCHANGED database
    PROVE  DatabaseOK' /\ Grows
  BY DEF DatabaseOK, Grows, database

\* The two ways a token is issued: the hash of its session becomes its number.
LEMMA HashStored ==
    ASSUME DatabaseOK, NEW sid \in DOMAIN sessions,
           accounts' = accounts,
           sessions' = [sessions EXCEPT ![sid].hash = Len(issued) + 1],
           issued' = Append(issued, sid)
    PROVE  /\ DatabaseOK' /\ Grows
           /\ Len(issued') = Len(issued) + 1
           /\ issued'[Len(issued) + 1] = sid
           /\ DOMAIN sessions' = DOMAIN sessions
           /\ sessions'[sid].hash = Len(issued) + 1
           /\ \A s \in DOMAIN sessions : s # sid => sessions'[s] = sessions[s]
  <1> DEFINE Rows == [user : Users, hash : 0 .. Len(issued) + 1, revoked : BOOLEAN,
                      expired : BOOLEAN]
  <1>0. Len(issued) \in Nat
    <2>1. issued \in Seq(DOMAIN sessions)
      BY DEF DatabaseOK
    <2> QED BY <2>1
  <1>1. Len(issued) \in Nat /\ sessions \in Seq(Rows)
    <2>1. Len(issued) + 1 \in Nat /\ Len(issued) <= Len(issued) + 1
      BY <1>0
    <2> QED BY <1>0, <2>1, WiderRows DEF DatabaseOK
  <1>2. sessions[sid] \in Rows
    <2> HIDE DEF Rows
    <2> QED BY <1>1
  <1>3. [sessions[sid] EXCEPT !.hash = Len(issued) + 1] \in Rows
    <2>1. Len(issued) + 1 \in 0 .. Len(issued) + 1
      BY <1>0
    <2> QED BY <1>2, <2>1
  <1>4. /\ sessions' = [sessions EXCEPT ![sid] = [sessions[sid] EXCEPT !.hash = Len(issued) + 1]]
        /\ [sessions[sid] EXCEPT !.hash = Len(issued) + 1].hash = Len(issued) + 1
        /\ [sessions[sid] EXCEPT !.hash = Len(issued) + 1].user = sessions[sid].user
        /\ [sessions[sid] EXCEPT !.hash = Len(issued) + 1].revoked = sessions[sid].revoked
        /\ [sessions[sid] EXCEPT !.hash = Len(issued) + 1].expired = sessions[sid].expired
    BY <1>2
  <1> DEFINE new == [sessions[sid] EXCEPT !.hash = Len(issued) + 1]
  <1> HIDE DEF Rows, new
  <1>5. /\ sessions' \in Seq(Rows) /\ DOMAIN sessions' = DOMAIN sessions
        /\ sessions'[sid] = new
        /\ \A s \in DOMAIN sessions : s # sid => sessions'[s] = sessions[s]
    BY <1>1, <1>3, <1>4 DEF new
  <1>6. issued \in Seq(DOMAIN sessions)
    BY DEF DatabaseOK
  <1>7. /\ issued' \in Seq(DOMAIN sessions) /\ Len(issued') = Len(issued) + 1
        /\ issued'[Len(issued) + 1] = sid
        /\ \A n \in DOMAIN issued : n \in DOMAIN issued' /\ issued'[n] = issued[n]
    BY <1>6
  <1>8. DatabaseOK'
    BY <1>5, <1>7 DEF DatabaseOK, Rows
  <1>9. Grows
    BY <1>1, <1>4, <1>5, <1>7 DEF Grows, new
  <1> QED BY <1>4, <1>5, <1>7, <1>8, <1>9 DEF new

\* A logout marks sessions and changes nothing else in them.
LEMMA RevokedRows ==
    ASSUME DatabaseOK, NEW r, accounts' = accounts, issued' = issued,
           sessions' = Revoked(r)
    PROVE  /\ DatabaseOK' /\ Grows
           /\ DOMAIN sessions' = DOMAIN sessions
           /\ \A s \in DOMAIN sessions : sessions'[s].hash = sessions[s].hash
  <1> DEFINE Rows == [user : Users, hash : 0 .. Len(issued), revoked : BOOLEAN,
                      expired : BOOLEAN]
  <1>1. sessions \in Seq(Rows)
    BY DEF DatabaseOK
  <1>2. \A x \in Rows : /\ [x EXCEPT !.revoked = TRUE] \in Rows
                        /\ [x EXCEPT !.revoked = TRUE].user = x.user
                        /\ [x EXCEPT !.revoked = TRUE].hash = x.hash
                        /\ [x EXCEPT !.revoked = TRUE].revoked
                        /\ [x EXCEPT !.revoked = TRUE].expired = x.expired
    OBVIOUS
  <1> HIDE DEF Rows
  <1>3. \A s \in DOMAIN sessions : sessions[s] \in Rows
    BY <1>1
  <1>4. /\ DOMAIN sessions' = DOMAIN sessions
        /\ \A s \in DOMAIN sessions :
              sessions'[s] = sessions[s] \/ sessions'[s] = [sessions[s] EXCEPT !.revoked = TRUE]
    BY DEF Revoked
  <1>5. \A s \in DOMAIN sessions :
           /\ sessions'[s] \in Rows
           /\ sessions'[s].user = sessions[s].user
           /\ sessions'[s].hash = sessions[s].hash
           /\ sessions[s].revoked => sessions'[s].revoked
           /\ sessions'[s].expired = sessions[s].expired
    BY <1>2, <1>3, <1>4, ZenonT(30)
  <1>6. Len(sessions) \in Nat /\ DOMAIN sessions = 1 .. Len(sessions)
    BY <1>1
  <1>7. sessions' = [s \in 1 .. Len(sessions) |-> sessions'[s]]
    BY <1>6 DEF Revoked
  <1>8. sessions' \in Seq(Rows)
    BY <1>4, <1>5, <1>6, <1>7
  <1> QED BY <1>4, <1>5, <1>8 DEF DatabaseOK, Grows, Rows

\* A session expires.
LEMMA ExpiredRow ==
    ASSUME DatabaseOK, NEW sid \in DOMAIN sessions, accounts' = accounts, issued' = issued,
           sessions' = [sessions EXCEPT ![sid].expired = TRUE]
    PROVE  /\ DatabaseOK' /\ Grows
           /\ DOMAIN sessions' = DOMAIN sessions
           /\ \A s \in DOMAIN sessions : sessions'[s].hash = sessions[s].hash
  <1> DEFINE Rows == [user : Users, hash : 0 .. Len(issued), revoked : BOOLEAN,
                      expired : BOOLEAN]
             new == [sessions[sid] EXCEPT !.expired = TRUE]
  <1>1. sessions \in Seq(Rows)
    BY DEF DatabaseOK
  <1>2. sessions[sid] \in Rows
    <2> HIDE DEF Rows
    <2> QED BY <1>1
  <1>3. /\ new \in Rows /\ new.user = sessions[sid].user /\ new.hash = sessions[sid].hash
        /\ new.revoked = sessions[sid].revoked /\ new.expired
    BY <1>2
  <1>4. sessions' = [sessions EXCEPT ![sid] = new]
    OBVIOUS
  <1> HIDE DEF Rows, new
  <1>5. /\ DOMAIN sessions' = DOMAIN sessions
        /\ sessions'[sid] = new
        /\ \A s \in DOMAIN sessions : s # sid => sessions'[s] = sessions[s]
    BY <1>1, <1>4
  <1>6. sessions' \in Seq(Rows)
    <2>1. \A x \in Rows : [sessions EXCEPT ![sid] = x] \in Seq(Rows)
      BY <1>1, ReplacedRow
    <2>2. new \in Rows
      BY <1>3
    <2>3. [sessions EXCEPT ![sid] = new] \in Seq(Rows)
      BY <2>1, <2>2
    <2> QED BY <1>4, <2>3
  <1> QED BY <1>3, <1>5, <1>6 DEF DatabaseOK, Grows, Rows

\* A login adds a session, of which there are no tokens yet.
LEMMA AddedRow ==
    ASSUME DatabaseOK, NEW u \in Users, accounts' = accounts, issued' = issued,
           sessions' = Append(sessions, [user |-> u, hash |-> NoToken, revoked |-> FALSE,
                                         expired |-> FALSE])
    PROVE  /\ DatabaseOK' /\ Grows
           /\ Len(sessions) + 1 \in Nat
           /\ Len(sessions) + 1 \in DOMAIN sessions' /\ Len(sessions) + 1 \notin DOMAIN sessions
           /\ \A s \in DOMAIN sessions : sessions'[s] = sessions[s]
  <1> DEFINE Rows == [user : Users, hash : 0 .. Len(issued), revoked : BOOLEAN,
                      expired : BOOLEAN]
             new == [user |-> u, hash |-> NoToken, revoked |-> FALSE, expired |-> FALSE]
  <1>0. issued \in Seq(DOMAIN sessions) /\ sessions \in Seq(Rows)
    BY DEF DatabaseOK
  <1>1. 0 \in 0 .. Len(issued)
    <2> HIDE DEF Rows
    <2> QED BY <1>0
  <1>2. new \in Rows
    BY <1>1 DEF NoToken
  <1>3. sessions' = Append(sessions, new)
    OBVIOUS
  <1> HIDE DEF Rows, new
  <1>4. /\ sessions' \in Seq(Rows)
        /\ Len(sessions) + 1 \in Nat
        /\ Len(sessions) + 1 \in DOMAIN sessions' /\ Len(sessions) + 1 \notin DOMAIN sessions
        /\ \A s \in DOMAIN sessions : s \in DOMAIN sessions' /\ sessions'[s] = sessions[s]
    BY <1>0, <1>2, <1>3
  <1>5. issued \in Seq(DOMAIN sessions')
    BY <1>0, <1>4
  <1> QED BY <1>4, <1>5 DEF DatabaseOK, Grows, Rows

\* Every step keeps the database's types and takes nothing back.
LEMMA DatabaseStep ==
    ASSUME AuthAssumption, Typed, [Next]_vars
    PROVE  DatabaseOK' /\ Grows
  <1>1. DatabaseOK
    BY DEF Typed, TypeOK, DatabaseOK
  <1>2. CASE UNCHANGED database
    BY <1>1, <1>2, DatabaseIdle
  <1>3. ASSUME NEW r \in requests, Serve(r)
        PROVE  DatabaseOK' /\ Grows
    <2>0. RequestOK(r)
      BY DEF Typed
    <2>1. CASE ServeCall(r)
      <3>1. CASE UNCHANGED sessions
        BY <1>1, <2>1, <3>1, DatabaseIdle DEF ServeCall, database
      <3>2. CASE sessions' = Revoked(r)
        BY <1>1, <2>1, <3>2, RevokedRows DEF ServeCall
      <3> QED BY <2>1, <3>1, <3>2 DEF ServeCall
    <2>2. CASE Read(r)
      BY <1>1, <2>2, DatabaseIdle DEF Read, database
    <2>3. CASE CreateUser(r)
      <3>1. r.user \in Users
        <4>1. r.by = "form"
          BY <2>0, <2>3 DEF CreateUser, RequestOK, Requested
        <4> QED BY <2>0, <4>1 DEF RequestOK
      <3>2. accounts' \subseteq Users /\ UNCHANGED <<sessions, issued>>
        BY <1>1, <2>3, <3>1 DEF CreateUser, DatabaseOK
      <3> QED BY <1>1, <3>2 DEF DatabaseOK, Grows
    <2>4. CASE CreateSession(r)
      <3>1. r.user \in Users
        <4>1. r.by = "form"
          BY <2>0, <2>4 DEF CreateSession, RequestOK, Requested
        <4> QED BY <2>0, <4>1 DEF RequestOK
      <3> QED BY <1>1, <2>4, <3>1, AddedRow DEF CreateSession
    <2>5. CASE StoreHash(r)
      BY <1>1, <2>0, <2>5, HashStored DEF StoreHash, Issue, RequestOK
    <2>6. CASE Rotate(r)
      <3>1. CASE ~Valid(r)
        BY <1>1, <2>6, <3>1, DatabaseIdle DEF Rotate, database
      <3>2. CASE Valid(r)
        <4>1. issued[r.token] \in DOMAIN sessions
          BY <1>1, <2>0, <2>6 DEF Rotate, RequestOK, Requested, NoToken, DatabaseOK
        <4> QED BY <1>1, <2>6, <3>2, <4>1, HashStored DEF Rotate, Issue
      <3> QED BY <3>1, <3>2
    <2> QED BY <1>3, <2>1, <2>2, <2>3, <2>4, <2>5, <2>6 DEF Serve
  <1>4. CASE SessionExpires
    BY <1>1, <1>4, ExpiredRow DEF SessionExpires
  <1>5. \/ UNCHANGED database
        \/ \E r \in requests : Serve(r)
        \/ SessionExpires
    BY DEF Next, Bootstrap, Reload, Call, Submit, Logout, Deliver, Lose, Drop, TokenExpires,
           vars, database
  <1> QED BY <1>2, <1>3, <1>4, <1>5

\* A request stays well formed as the database grows.
LEMMA RequestStays ==
    ASSUME Grows, Len(issued) \in Nat, Len(issued') \in Nat, NEW r, RequestOK(r)
    PROVE  RequestOK(r)'
  <1>1. r.token \in Nat
    BY DEF RequestOK, Requested
  <1>2. r.token <= Len(issued')
    BY <1>1 DEF Grows, RequestOK
  <1>3. r.at = "created" => r.row.sid \in DOMAIN sessions'
    BY DEF RequestOK, Grows
  <1> QED BY <1>2, <1>3 DEF RequestOK

\* Who sends what.
Sends(by, kind, user) ==
    \/ by = "bootstrap" /\ kind \in {"refresh", "me"} /\ user = Nobody
    \/ by = "form" /\ kind \in {"login", "register"} /\ user \in Users
    \/ by = "menu" /\ kind \in {"logout", "logoutAll"} /\ user = Nobody
    \/ by \in Calls /\ kind \in {"call", "refresh"} /\ user = Nobody

\* What a page or an interceptor sends is a request.
LEMMA RequestSent ==
    ASSUME AuthAssumption, NEW t \in Tabs, NEW by, NEW kind, NEW token \in Nat, NEW user,
           token <= Len(issued'), Sends(by, kind, user)
    PROVE  RequestOK(Request(t, by, kind, token, user))'
  <1> DEFINE q == Request(t, by, kind, token, user)
  <1>1. /\ q.tab = t /\ q.by = by /\ q.kind = kind /\ q.token = token /\ q.user = user
        /\ q.row = <<>> /\ q.at = "sent"
    BY DEF Request
  <1>2. /\ by \in Calls \cup {"bootstrap", "form", "menu"} /\ user \in Users \cup {Nobody}
        /\ kind \in {"refresh", "login", "register", "logout", "logoutAll", "call", "me"}
    BY DEF Sends
  <1>3. q \in Requested
    BY <1>2 DEF Request, Requested
  <1> HIDE DEF q
  <1>4. /\ q.by = "bootstrap" => q.kind \in {"refresh", "me"}
        /\ q.by = "form" => q.kind \in {"login", "register"} /\ q.user \in Users
        /\ q.by = "menu" => q.kind \in {"logout", "logoutAll"}
        /\ q.by \in Calls => q.kind \in {"call", "refresh"}
    BY <1>1 DEF Sends, AuthAssumption
  <1>5. RequestOK(q)'
    BY <1>1, <1>3, <1>4 DEF RequestOK
  <1> QED BY <1>5 DEF q

\* A tab whose token is one of the first k.
TabRecord(k) ==
    [status : {"idle", "loading", "authenticated", "anonymous"}, user : Users \cup {Nobody},
     token : 0 .. k, calls : [Calls -> CallStates], refreshing : BOOLEAN]

\* The parts of the type invariant.
LEMMA TypedParts ==
    Typed <=> /\ DatabaseOK
              /\ stale \subseteq DOMAIN issued /\ cookie \in 0 .. Len(issued)
              /\ tabs \in [Tabs -> TabRecord(Len(issued))]
              /\ \A r \in requests : RequestOK(r)
  BY DEF Typed, TypeOK, DatabaseOK, TabRecord

\* A tab that is loaded anew.
LEMMA NewTabOK ==
    ASSUME NEW k \in Nat
    PROVE  NewTab \in TabRecord(k)
  BY DEF NewTab, TabRecord, NoToken, CallStates

\* More tokens widen the type of a tab.
LEMMA WiderTabs ==
    ASSUME NEW k \in Nat, NEW m \in Nat, k <= m, NEW q \in TabRecord(k)
    PROVE  q \in TabRecord(m)
  BY DEF TabRecord

\* A tab sends a request: the request is well formed, the tab stays typed.
LEMMA SendTyped ==
    ASSUME AuthAssumption, Typed, NEW t \in Tabs, NEW by, NEW kind, NEW user,
           Sends(by, kind, user), Send(t, by, kind, user), UNCHANGED database
    PROVE  \A q \in requests' : RequestOK(q)'
  <1>1. /\ cookie \in 0 .. Len(issued) /\ tabs \in [Tabs -> TabRecord(Len(issued))]
        /\ \A r \in requests : RequestOK(r)
        /\ issued \in Seq(DOMAIN sessions)
    BY TypedParts DEF DatabaseOK
  <1>2. Len(issued) \in Nat
    BY <1>1
  <1>3. tabs[t].token \in 0 .. Len(issued)
    <2>1. tabs[t] \in TabRecord(Len(issued))
      BY <1>1
    <2> QED BY <2>1 DEF TabRecord
  <1>4. PICK k \in 0 .. Len(issued) : requests' = requests \cup {Request(t, by, kind, k, user)}
    BY <1>1, <1>3 DEF Send
  <1>5. issued' = issued /\ sessions' = sessions
    BY DEF database
  <1>6. k \in Nat /\ k <= Len(issued')
    BY <1>2, <1>5
  <1>7. RequestOK(Request(t, by, kind, k, user))'
    BY <1>6, RequestSent
  <1>8. \A q \in requests : RequestOK(q)'
    BY <1>1, <1>5 DEF RequestOK
  <1> QED BY <1>4, <1>7, <1>8

\* A request is answered, or taken a step further, with no tokens issued.
LEMMA ReplyTyped ==
    ASSUME NEW r, RequestOK(r), NEW at \in {"sent", "read", "created", "ok", "refused", "lost"},
           Grows, Len(issued) \in Nat, Len(issued') \in Nat,
           at # "created", at = "read" => r.kind # "refresh",
           at = "ok" /\ r.kind # "register" => r.token # NoToken
    PROVE  RequestOK([r EXCEPT !.at = at])'
  <1> DEFINE q == [r EXCEPT !.at = at]
  <1>1. r \in Requested /\ RequestOK(r)'
    BY RequestStays DEF RequestOK
  <1>2. /\ q \in Requested /\ q.at = at
        /\ q.tab = r.tab /\ q.by = r.by /\ q.kind = r.kind /\ q.token = r.token
        /\ q.user = r.user /\ q.row = r.row
    BY <1>1 DEF Requested
  <1> HIDE DEF q
  <1>3. RequestOK(q)'
    BY <1>1, <1>2 DEF RequestOK
  <1> QED BY <1>3 DEF q

\* What the answers make of a tab.
LEMMA SignedOutTab ==
    ASSUME NEW k \in Nat, NEW tab \in TabRecord(k)
    PROVE  /\ SignedOut(tab) \in TabRecord(k) /\ SignedOut(tab).calls = tab.calls
           /\ SignedOut(tab).refreshing = tab.refreshing
           /\ SignedOut(tab).status = "anonymous"
  BY DEF SignedOut, TabRecord

\* Signing a tab in changes its status and user.
LEMMA SignedTab ==
    ASSUME NEW k \in Nat, NEW tab \in TabRecord(k), NEW u \in Users
    PROVE  /\ Signed(tab, u) \in TabRecord(k) /\ Signed(tab, u).calls = tab.calls
           /\ Signed(tab, u).refreshing = tab.refreshing
           /\ Signed(tab, u).status = "authenticated"
  BY DEF Signed, TabRecord

\* A new access token changes nothing else of a tab.
LEMMA TokenTab ==
    ASSUME NEW k \in Nat, NEW tab \in TabRecord(k), NEW token \in 0 .. k
    PROVE  /\ [tab EXCEPT !.token = token] \in TabRecord(k)
           /\ [tab EXCEPT !.token = token].calls = tab.calls
           /\ [tab EXCEPT !.token = token].refreshing = tab.refreshing
           /\ [tab EXCEPT !.token = token].status = tab.status
  BY DEF TabRecord

\* What becomes of a call when the refresh is answered.
Woken(state, at) ==
    IF state = "waiting" THEN IF at = "ok" THEN "retried" ELSE "idle" ELSE state

\* The answer to a shared refresh ends the waiting of every call of the tab.
LEMMA RefreshedTab ==
    ASSUME NEW k \in Nat, NEW tab \in TabRecord(k), NEW r, r.token \in 0 .. k
    PROVE  /\ Refreshed(tab, r) \in TabRecord(k)
           /\ Refreshed(tab, r).refreshing = FALSE
           /\ Refreshed(tab, r).status \in {tab.status, "anonymous"}
           /\ \A c \in Calls : Refreshed(tab, r).calls[c] = Woken(tab.calls[c], r.at)
  <1> DEFINE woken(state) == [c \in Calls |-> IF tab.calls[c] = "waiting" THEN state
                                              ELSE tab.calls[c]]
             ok == [tab EXCEPT !.token = r.token, !.calls = woken("retried"),
                               !.refreshing = FALSE]
             failed == [tab EXCEPT !.token = NoToken, !.calls = woken("idle"),
                                   !.refreshing = FALSE]
  <1>1. tab.calls \in [Calls -> CallStates]
    BY DEF TabRecord
  <1>2. woken("retried") \in [Calls -> CallStates] /\ woken("idle") \in [Calls -> CallStates]
    BY <1>1 DEF CallStates
  <1>3. Refreshed(tab, r) = IF r.at = "ok" THEN ok ELSE SignedOut(failed)
    BY DEF Refreshed
  <1>4. /\ \A c \in Calls : woken("retried")[c] = IF tab.calls[c] = "waiting" THEN "retried"
                                                  ELSE tab.calls[c]
        /\ \A c \in Calls : woken("idle")[c] = IF tab.calls[c] = "waiting" THEN "idle"
                                               ELSE tab.calls[c]
    OBVIOUS
  <1> DEFINE wr == woken("retried")
             wi == woken("idle")
  <1>5. /\ wr \in [Calls -> CallStates] /\ wi \in [Calls -> CallStates]
        /\ ok = [tab EXCEPT !.token = r.token, !.calls = wr, !.refreshing = FALSE]
        /\ failed = [tab EXCEPT !.token = NoToken, !.calls = wi, !.refreshing = FALSE]
    BY <1>2
  <1> HIDE DEF wr, wi, ok, failed
  <1>6. /\ ok \in TabRecord(k) /\ ok.refreshing = FALSE /\ ok.status = tab.status
        /\ ok.calls = wr
    BY <1>5 DEF TabRecord
  <1>7. /\ failed \in TabRecord(k) /\ failed.refreshing = FALSE /\ failed.calls = wi
    <2>1. NoToken \in 0 .. k
      BY DEF NoToken
    <2> QED BY <1>5, <2>1 DEF TabRecord
  <1>8. /\ SignedOut(failed) \in TabRecord(k) /\ SignedOut(failed).calls = failed.calls
        /\ SignedOut(failed).refreshing = failed.refreshing
        /\ SignedOut(failed).status = "anonymous"
    BY <1>7 DEF SignedOut, TabRecord
  <1>9. CASE r.at = "ok"
    BY <1>3, <1>4, <1>6, <1>9 DEF wr, Woken
  <1>10. CASE r.at # "ok"
    BY <1>3, <1>4, <1>7, <1>8, <1>10 DEF wi, Woken
  <1> QED BY <1>9, <1>10

\* A call is refused and waits, or it has ended.
CallTab(tab, c, again) ==
    [tab EXCEPT !.calls[c] = IF again THEN "waiting" ELSE "idle", !.refreshing = @ \/ again]

\* An API call of a tab changes that call, and begins a refresh when it is
\* refused.
LEMMA CallTabs ==
    ASSUME NEW k \in Nat, NEW tab \in TabRecord(k), NEW c \in Calls, NEW again \in BOOLEAN
    PROVE  /\ CallTab(tab, c, again) \in TabRecord(k)
           /\ CallTab(tab, c, again).refreshing = (tab.refreshing \/ again)
           /\ CallTab(tab, c, again).status = tab.status
           /\ CallTab(tab, c, again).calls[c] = IF again THEN "waiting" ELSE "idle"
           /\ \A d \in Calls : d # c => CallTab(tab, c, again).calls[d] = tab.calls[d]
  <1>1. tab.calls \in [Calls -> CallStates]
    BY DEF TabRecord
  <1> DEFINE calls == [tab.calls EXCEPT ![c] = IF again THEN "waiting" ELSE "idle"]
  <1>2. /\ calls \in [Calls -> CallStates]
        /\ calls[c] = IF again THEN "waiting" ELSE "idle"
        /\ \A d \in Calls : d # c => calls[d] = tab.calls[d]
    BY <1>1 DEF CallStates
  <1>3. CallTab(tab, c, again) = [tab EXCEPT !.calls = calls, !.refreshing = @ \/ again]
    BY DEF CallTab
  <1> HIDE DEF calls
  <1>4. (tab.refreshing \/ again) \in BOOLEAN
    BY DEF TabRecord
  <1>5. [tab EXCEPT !.calls = calls, !.refreshing = tab.refreshing \/ again] \in TabRecord(k)
    BY <1>2, <1>4 DEF TabRecord
  <1> QED BY <1>2, <1>3, <1>5 DEF TabRecord

-----------------------------------------------------------------------------
(* What each answer does.                                                   *)

\* An answer r is handled: its tab becomes `new`, and the requests of X follow.
Becomes(r, new, X) ==
    /\ new \in TabRecord(Len(issued))
    /\ tabs' = [tabs EXCEPT ![r.tab] = new]
    /\ requests' = (requests \ {r}) \cup X
    /\ \A q \in X : RequestOK(q)'

\* A tab whose calls and whose refresh are where they were.
SameCalls(r, new) ==
    new.calls = tabs[r.tab].calls /\ new.refreshing = tabs[r.tab].refreshing

\* A token of an answer, of a session of a user.
LEMMA TokenOfAnswer ==
    ASSUME Typed, NEW r \in requests, r.at = "ok", r.kind # "register"
    PROVE  /\ r.token \in DOMAIN issued /\ r.token \in 0 .. Len(issued)
           /\ UserOf(r.token) \in Users
  <1>1. /\ r \in Requested /\ r.token <= Len(issued) /\ r.token # NoToken
        /\ issued \in Seq(DOMAIN sessions) /\ DatabaseOK
    BY TypedParts DEF RequestOK, DatabaseOK
  <1>2. r.token \in Nat
    BY <1>1 DEF Requested
  <1>3. r.token \in DOMAIN issued /\ r.token \in 0 .. Len(issued)
    BY <1>1, <1>2 DEF NoToken
  <1>4. issued[r.token] \in DOMAIN sessions
    BY <1>1, <1>3
  <1>5. UserOf(r.token) \in Users
    <2> DEFINE Rows == [user : Users, hash : 0 .. Len(issued), revoked : BOOLEAN,
                        expired : BOOLEAN]
    <2>1. sessions \in Seq(Rows)
      BY <1>1 DEF DatabaseOK
    <2>2. \A x \in Rows : x.user \in Users
      OBVIOUS
    <2> HIDE DEF Rows
    <2>3. sessions[issued[r.token]] \in Rows
      BY <1>4, <2>1
    <2> QED BY <2>2, <2>3 DEF UserOf
  <1> QED BY <1>3, <1>5

\* The answers to a bootstrap: it goes on, or the tab knows whether it is
\* signed in.
BootstrapGoesOn(r, new, X) ==
    /\ r.by = "bootstrap" /\ SameCalls(r, new)
    /\ \/ X = {} /\ new.status \in {"authenticated", "anonymous"}
       \/ /\ X = {Request(r.tab, "bootstrap", "me", r.token, Nobody)}
          /\ new.status = tabs[r.tab].status

\* The answers of a bootstrap: the tab is signed in, or goes on with the next
\* request of it.
LEMMA BootstrapStep ==
    ASSUME AuthAssumption, Typed, NEW r \in requests, r.tab \in Tabs, r.by = "bootstrap",
           BootstrapAnswered(r), UNCHANGED database
    PROVE  \E new, X : Becomes(r, new, X) /\ BootstrapGoesOn(r, new, X)
  <1> DEFINE t == r.tab
             tab == tabs[t]
             k == Len(issued)
  <1>1. /\ RequestOK(r) /\ tab \in TabRecord(k) /\ issued \in Seq(DOMAIN sessions)
        /\ issued' = issued
    BY TypedParts DEF DatabaseOK, database
  <1>2. k \in Nat /\ r.kind \in {"refresh", "me"}
    BY <1>1 DEF RequestOK
  <1> HIDE DEF k, tab
  <1>3. CASE r.kind = "refresh" /\ r.at = "ok"
    <2>1. r.token \in 0 .. k
      BY <1>3, TokenOfAnswer DEF k
    <2> DEFINE new == [tab EXCEPT !.token = r.token]
               X == {Request(t, "bootstrap", "me", r.token, Nobody)}
    <2>2. tabs' = [tabs EXCEPT ![t] = new] /\ requests' = (requests \ {r}) \cup X
      BY <1>3 DEF BootstrapAnswered, tab
    <2>3. /\ new \in TabRecord(k) /\ new.calls = tab.calls /\ new.status = tab.status
          /\ new.refreshing = tab.refreshing
      BY <1>1, <1>2, <2>1, TokenTab
    <2>4. RequestOK(Request(t, "bootstrap", "me", r.token, Nobody))'
      <3>1. r.token \in Nat /\ r.token <= Len(issued')
        BY <1>1, <1>2, <2>1 DEF k
      <3>2. Sends("bootstrap", "me", Nobody)
        BY DEF Sends
      <3> QED BY <3>1, <3>2, RequestSent
    <2> HIDE DEF new
    <2>5. Becomes(r, new, X) /\ BootstrapGoesOn(r, new, X)
      BY <2>2, <2>3, <2>4 DEF Becomes, BootstrapGoesOn, SameCalls, k, tab
    <2> QED BY <2>5
  <1>4. CASE r.kind # "refresh" /\ r.at = "ok"
    <2> DEFINE u == UserOf(r.token)
               new == Signed(tab, u)
    <2>1. u \in Users
      BY <1>2, <1>4, TokenOfAnswer
    <2>2. tabs' = [tabs EXCEPT ![t] = new] /\ requests' = (requests \ {r}) \cup {}
      BY <1>4 DEF BootstrapAnswered, tab
    <2> HIDE DEF u
    <2>3. /\ new \in TabRecord(k) /\ new.calls = tab.calls /\ new.status = "authenticated"
          /\ new.refreshing = tab.refreshing
      BY <1>1, <1>2, <2>1, SignedTab
    <2> HIDE DEF new
    <2>4. Becomes(r, new, {}) /\ BootstrapGoesOn(r, new, {})
      BY <2>2, <2>3 DEF Becomes, BootstrapGoesOn, SameCalls, k, tab
    <2> QED BY <2>4
  <1>5. CASE r.at # "ok"
    <2> DEFINE new == SignedOut(tab)
    <2>2. tabs' = [tabs EXCEPT ![t] = new] /\ requests' = (requests \ {r}) \cup {}
      BY <1>5 DEF BootstrapAnswered, tab
    <2>3. /\ new \in TabRecord(k) /\ new.calls = tab.calls /\ new.status = "anonymous"
          /\ new.refreshing = tab.refreshing
      BY <1>1, <1>2, SignedOutTab
    <2> HIDE DEF new
    <2>4. Becomes(r, new, {}) /\ BootstrapGoesOn(r, new, {})
      BY <2>2, <2>3 DEF Becomes, BootstrapGoesOn, SameCalls, k, tab
    <2> QED BY <2>4
  <1> QED BY <1>3, <1>4, <1>5

\* The answers to a form or to the menu: nothing follows them.
LEMMA ThunkStep ==
    ASSUME AuthAssumption, Typed, NEW r \in requests, r.tab \in Tabs,
           r.by \in {"form", "menu"}, ThunkAnswered(r), UNCHANGED database
    PROVE  \E new : /\ Becomes(r, new, {}) /\ SameCalls(r, new)
                    /\ new.status \in {tabs[r.tab].status, "authenticated", "anonymous"}
  <1> DEFINE t == r.tab
             tab == tabs[t]
             k == Len(issued)
  <1>1. /\ RequestOK(r) /\ tab \in TabRecord(k) /\ issued \in Seq(DOMAIN sessions)
        /\ issued' = issued
    BY TypedParts DEF DatabaseOK, database
  <1>2. k \in Nat
    BY <1>1
  <1> HIDE DEF k, tab
  <1>3. CASE r.at # "ok" \/ r.kind = "register"
    <2>1. tabs' = [tabs EXCEPT ![t] = tab] /\ requests' = (requests \ {r}) \cup {}
      BY <1>3 DEF ThunkAnswered, tab
    <2>2. Becomes(r, tab, {}) /\ SameCalls(r, tab)
      BY <1>1, <2>1 DEF Becomes, SameCalls, k, tab
    <2> QED BY <2>2 DEF tab
  <1>4. CASE r.at = "ok" /\ r.kind = "login"
    <2>1. r.token \in 0 .. k
      BY <1>4, TokenOfAnswer DEF k
    <2>2. r.user \in Users
      <3>1. r.by = "form"
        BY <1>1, <1>4 DEF RequestOK
      <3> QED BY <1>1, <3>1 DEF RequestOK
    <2> DEFINE held == [tab EXCEPT !.token = r.token]
               new == Signed(held, r.user)
    <2>3. tabs' = [tabs EXCEPT ![t] = new] /\ requests' = (requests \ {r}) \cup {}
      BY <1>4 DEF ThunkAnswered, tab
    <2>4. /\ held \in TabRecord(k) /\ held.calls = tab.calls
          /\ held.refreshing = tab.refreshing
      BY <1>1, <1>2, <2>1, TokenTab
    <2> HIDE DEF held
    <2>5. /\ new \in TabRecord(k) /\ new.calls = tab.calls /\ new.status = "authenticated"
          /\ new.refreshing = tab.refreshing
      BY <1>2, <2>2, <2>4, SignedTab
    <2> HIDE DEF new
    <2>6. Becomes(r, new, {}) /\ SameCalls(r, new)
      BY <2>3, <2>5 DEF Becomes, SameCalls, k, tab
    <2> QED BY <2>5, <2>6
  <1>5. CASE r.at = "ok" /\ r.kind \notin {"login", "register"}
    <2> DEFINE held == [tab EXCEPT !.token = NoToken]
               new == SignedOut(held)
    <2>1. tabs' = [tabs EXCEPT ![t] = new] /\ requests' = (requests \ {r}) \cup {}
      BY <1>5 DEF ThunkAnswered, tab
    <2>2. NoToken \in 0 .. k
      BY <1>2 DEF NoToken
    <2>3. /\ held \in TabRecord(k) /\ held.calls = tab.calls
          /\ held.refreshing = tab.refreshing
      BY <1>1, <1>2, <2>2, TokenTab
    <2> HIDE DEF held
    <2>4. /\ new \in TabRecord(k) /\ new.calls = tab.calls /\ new.status = "anonymous"
          /\ new.refreshing = tab.refreshing
      BY <1>2, <2>3, SignedOutTab
    <2> HIDE DEF new
    <2>5. Becomes(r, new, {}) /\ SameCalls(r, new)
      BY <2>1, <2>4 DEF Becomes, SameCalls, k, tab
    <2> QED BY <2>4, <2>5
  <1> QED BY <1>3, <1>4, <1>5

\* The answer to a shared refresh: the calls that waited for it go on.
RefreshGoesOn(r, new, X) ==
    /\ r.by \in Calls /\ r.kind = "refresh"
    /\ new = Refreshed(tabs[r.tab], r)
    /\ X = IF r.at = "ok" THEN Retries(r.tab, r) ELSE {}

\* The answer of a refresh: every waiting call is repeated, or the tab is
\* signed out.
LEMMA RefreshStep ==
    ASSUME AuthAssumption, Typed, NEW r \in requests, r.tab \in Tabs,
           r.by \in Calls, r.kind = "refresh", RefreshAnswered(r), UNCHANGED database
    PROVE  \E new, X : Becomes(r, new, X) /\ RefreshGoesOn(r, new, X)
  <1> DEFINE t == r.tab
             k == Len(issued)
             new == Refreshed(tabs[t], r)
             X == IF r.at = "ok" THEN Retries(t, r) ELSE {}
  <1>1. /\ RequestOK(r) /\ tabs[t] \in TabRecord(k) /\ issued \in Seq(DOMAIN sessions)
        /\ issued' = issued
    BY TypedParts DEF DatabaseOK, database
  <1>2. k \in Nat
    BY <1>1
  <1>3. r.token \in Nat /\ r.token <= k /\ r.token \in 0 .. k
    BY <1>1, <1>2 DEF RequestOK, Requested
  <1> HIDE DEF k
  <1>4. new \in TabRecord(k)
    BY <1>1, <1>2, <1>3, RefreshedTab
  <1>5. tabs' = [tabs EXCEPT ![t] = new] /\ requests' = (requests \ {r}) \cup X
    BY DEF RefreshAnswered
  <1>6. \A q \in X : RequestOK(q)'
    <2> SUFFICES ASSUME r.at = "ok", NEW c \in Calls
                 PROVE  RequestOK(Request(t, c, "call", r.token, Nobody))'
      BY DEF Retries
    <2>1. Sends(c, "call", Nobody)
      BY DEF Sends
    <2>2. r.token <= Len(issued')
      BY <1>1, <1>3 DEF k
    <2> QED BY <1>3, <2>1, <2>2, RequestSent
  <1>7. Becomes(r, new, X) /\ RefreshGoesOn(r, new, X)
    BY <1>4, <1>5, <1>6 DEF Becomes, RefreshGoesOn, k
  <1> QED BY <1>7

\* The answer to a call: it ends, or waits, and the first one to wait asks for
\* the refresh.
CallGoesOn(r, new, X) ==
    LET again == r.at = "refused" /\ tabs[r.tab].calls[r.by] = "sent"
    IN  /\ r.by \in Calls /\ r.kind = "call"
        /\ new = CallTab(tabs[r.tab], r.by, again)
        /\ X = IF again /\ ~tabs[r.tab].refreshing
               THEN {Request(r.tab, r.by, "refresh", cookie, Nobody)} ELSE {}
        /\ X # {} => crossed' = (crossed \/ Refreshes # {})

\* The answer of an API call: it is over, or it waits for a refresh, which the
\* first one sends.
LEMMA CallStep ==
    ASSUME AuthAssumption, Typed, NEW r \in requests, r.tab \in Tabs,
           r.by \in Calls, r.kind = "call", CallAnswered(r), UNCHANGED database
    PROVE  \E new, X : Becomes(r, new, X) /\ CallGoesOn(r, new, X)
  <1> DEFINE t == r.tab
             k == Len(issued)
             again == r.at = "refused" /\ tabs[t].calls[r.by] = "sent"
             new == CallTab(tabs[t], r.by, again)
             starts == again /\ ~tabs[t].refreshing
             X == IF starts THEN {Request(t, r.by, "refresh", cookie, Nobody)} ELSE {}
  <1>1. /\ RequestOK(r) /\ tabs[t] \in TabRecord(k) /\ issued \in Seq(DOMAIN sessions)
        /\ issued' = issued /\ cookie \in 0 .. k
    BY TypedParts DEF DatabaseOK, database
  <1>2. k \in Nat
    BY <1>1
  <1>3. again \in BOOLEAN
    OBVIOUS
  <1> HIDE DEF k
  <1>4. new \in TabRecord(k)
    <2> HIDE DEF again
    <2> QED BY <1>1, <1>2, <1>3, CallTabs
  <1>5. tabs' = [tabs EXCEPT ![t] = new]
    BY DEF CallAnswered, CallTab
  <1>6. requests' = (requests \ {r}) \cup X /\ (X # {} => crossed' = (crossed \/ Refreshes # {}))
    BY DEF CallAnswered
  <1>7. \A j \in 0 .. k : RequestOK(Request(t, r.by, "refresh", j, Nobody))'
    <2> SUFFICES ASSUME NEW j \in 0 .. k
                 PROVE  RequestOK(Request(t, r.by, "refresh", j, Nobody))'
      OBVIOUS
    <2>1. Sends(r.by, "refresh", Nobody)
      BY DEF Sends
    <2>2. j \in Nat /\ j <= Len(issued')
      BY <1>1, <1>2 DEF k
    <2> QED BY <2>1, <2>2, RequestSent
  <1>8. \A q \in X : RequestOK(q)'
    BY <1>1, <1>7
  <1>9. Becomes(r, new, X) /\ CallGoesOn(r, new, X)
    BY <1>4, <1>5, <1>6, <1>8 DEF Becomes, CallGoesOn, k
  <1> QED BY <1>9

\* An answer is handled by whoever asked; one to a page that is gone by nobody.
LEMMA DeliverStep ==
    ASSUME AuthAssumption, Typed, NEW r \in requests, Deliver(r)
    PROVE  \/ r.tab = NoTab /\ requests' = requests \ {r} /\ tabs' = tabs
           \/ /\ r.tab \in Tabs
              /\ \E new, X : /\ Becomes(r, new, X)
                             /\ \/ BootstrapGoesOn(r, new, X)
                                \/ /\ X = {} /\ SameCalls(r, new) /\ r.by \in {"form", "menu"}
                                   /\ new.status \in {tabs[r.tab].status, "authenticated",
                                                      "anonymous"}
                                \/ RefreshGoesOn(r, new, X)
                                \/ CallGoesOn(r, new, X)
  <1>1. CASE r.tab = NoTab
    BY <1>1 DEF Deliver
  <1>2. CASE r.tab # NoTab
    <2>1. r.tab \in Tabs /\ UNCHANGED database
      BY <1>2 DEF Typed, RequestOK, Requested, Deliver
    <2>2. CASE r.by = "bootstrap" /\ BootstrapAnswered(r)
      BY <2>1, <2>2, BootstrapStep
    <2>3. CASE r.by \in {"form", "menu"} /\ ThunkAnswered(r)
      BY <2>1, <2>3, ThunkStep
    <2>4. CASE r.by \in Calls /\ r.kind = "refresh" /\ RefreshAnswered(r)
      BY <2>1, <2>4, RefreshStep
    <2>5. CASE r.by \in Calls /\ r.kind = "call" /\ CallAnswered(r)
      BY <2>1, <2>5, CallStep
    <2> QED BY <1>2, <2>2, <2>3, <2>4, <2>5 DEF Deliver
  <1> QED BY <1>1, <1>2

-----------------------------------------------------------------------------
(* What the other steps do to the requests.                                 *)

\* The answer to a request comes a step nearer, and its tab sees none of it.
Exchanges(r, q) ==
    /\ r \in requests
    /\ requests' = (requests \ {r}) \cup {q}
    /\ q.tab = r.tab /\ q.by = r.by /\ q.kind = r.kind
    /\ tabs' = tabs /\ cookie' = cookie
    /\ RequestOK(q)'

\* A request that gets the tokens it asked for.
LEMMA GetsTokens ==
    ASSUME NEW r, RequestOK(r), Grows, Len(issued) \in Nat, NEW k \in Nat,
           Len(issued') = k, k = Len(issued) + 1
    PROVE  LET q == [r EXCEPT !.at = "ok", !.token = k]
           IN  /\ RequestOK(q)' /\ q.at = "ok" /\ q.token = k
               /\ q.tab = r.tab /\ q.by = r.by /\ q.kind = r.kind
  <1> DEFINE q == [r EXCEPT !.at = "ok", !.token = k]
  <1>1. r \in Requested /\ RequestOK(r)'
    BY RequestStays DEF RequestOK
  <1>2. /\ q \in Requested /\ q.at = "ok" /\ q.token = k
        /\ q.tab = r.tab /\ q.by = r.by /\ q.kind = r.kind
        /\ q.user = r.user
    BY <1>1 DEF Requested
  <1>3. k # NoToken /\ k <= Len(issued')
    BY DEF NoToken
  <1> HIDE DEF q
  <1>4. RequestOK(q)'
    BY <1>1, <1>2, <1>3 DEF RequestOK
  <1> QED BY <1>2, <1>4 DEF q

\* A call, a registration, or the first half of a logout: no hash changes.
Plain(r, q) ==
    /\ r.kind \notin {"refresh", "login"} /\ q.at \in {"ok", "refused"}
    /\ issued' = issued /\ DOMAIN sessions' = DOMAIN sessions
    /\ \A s \in DOMAIN sessions : sessions'[s].hash = sessions[s].hash

\* A login, a registration or a refresh looks up what it needs.
Looks(r, q) ==
    /\ r.at = "sent" /\ q.at \in {"read", "refused"} /\ q.token = r.token
    /\ UNCHANGED database
    /\ r.kind = "refresh" =>
          \/ q.at = "refused" /\ r.token = NoToken
          \/ q.at = "read" /\ r.token # NoToken /\ q.row = sessions[issued[r.token]]

\* A login gets a session of its own.
Opens(r, q) ==
    /\ r.at = "read" /\ r.kind = "login" /\ q.at = "created"
    /\ issued' = issued
    /\ q.row.sid \notin DOMAIN sessions
    /\ \A s \in DOMAIN sessions : sessions'[s] = sessions[s]

\* A login or a refresh gets tokens for session sid, whose hash they become.
Stores(r, q, sid) ==
    /\ sid \in DOMAIN sessions
    /\ \/ r.at = "created" /\ r.kind = "login" /\ sid = r.row.sid
       \/ /\ r.at = "read" /\ r.kind = "refresh" /\ Valid(r) /\ sid = issued[r.token]
    /\ q.at = "ok" /\ q.token = Len(issued')
    /\ Len(issued') = Len(issued) + 1 /\ issued'[Len(issued')] = sid
    /\ DOMAIN sessions' = DOMAIN sessions
    /\ sessions'[sid].hash = Len(issued')
    /\ \A s \in DOMAIN sessions : s # sid => sessions'[s] = sessions[s]

\* A refresh is refused.
Refuses(r, q) ==
    /\ r.at = "read" /\ r.kind = "refresh" /\ ~Valid(r)
    /\ q.at = "refused" /\ q.token = r.token
    /\ UNCHANGED database

\* A step of the server moves one request on, and changes at most one session
\* for it.
LEMMA ServeStep ==
    ASSUME AuthAssumption, Typed, NEW r \in requests, Serve(r), Grows, DatabaseOK'
    PROVE  /\ crossed' = crossed
           /\ \E q : /\ Exchanges(r, q)
                     /\ \/ Plain(r, q) \/ Looks(r, q) \/ Opens(r, q) \/ Refuses(r, q)
                        \/ \E sid : Stores(r, q, sid)
  <1>1. /\ RequestOK(r) /\ DatabaseOK /\ issued \in Seq(DOMAIN sessions)
        /\ issued' \in Seq(DOMAIN sessions')
    BY TypedParts DEF DatabaseOK
  <1>2. Len(issued) \in Nat /\ Len(issued') \in Nat
    BY <1>1
  <1>3. /\ r.token \in Nat /\ r.token <= Len(issued)
        /\ \A at : /\ [r EXCEPT !.at = at].tab = r.tab /\ [r EXCEPT !.at = at].by = r.by
                   /\ [r EXCEPT !.at = at].kind = r.kind /\ [r EXCEPT !.at = at].at = at
                   /\ [r EXCEPT !.at = at].token = r.token
    BY <1>1 DEF RequestOK, Requested
  <1>4. ASSUME NEW at \in {"ok", "refused"}, Reply(r, at), tabs' = tabs, cookie' = cookie,
               at = "ok" /\ r.kind # "register" => r.token # NoToken
        PROVE  Exchanges(r, [r EXCEPT !.at = at])
    <2>1. RequestOK([r EXCEPT !.at = at])'
      BY <1>1, <1>2, <1>4, ReplyTyped
    <2> QED BY <1>3, <1>4, <2>1 DEF Exchanges, Reply
  <1>5. CASE ServeCall(r)
    <2>1. PICK at \in {"ok", "refused"} : Reply(r, at) /\ (at = "ok" => r.token # NoToken)
      BY <1>5 DEF ServeCall, Authentic
    <2>2. tabs' = tabs /\ cookie' = cookie /\ crossed' = crossed
      BY <1>5 DEF ServeCall
    <2>3. Exchanges(r, [r EXCEPT !.at = at])
      BY <1>4, <2>1, <2>2
    <2>4. /\ accounts' = accounts /\ issued' = issued
          /\ sessions' = sessions \/ sessions' = Revoked(r)
      BY <1>5 DEF ServeCall
    <2>5. /\ DOMAIN sessions' = DOMAIN sessions
          /\ \A s \in DOMAIN sessions : sessions'[s].hash = sessions[s].hash
      BY <1>1, <2>4, RevokedRows
    <2>6. Plain(r, [r EXCEPT !.at = at])
      BY <1>3, <1>5, <2>4, <2>5 DEF Plain, ServeCall
    <2> QED BY <2>2, <2>3, <2>6
  <1>6. CASE CreateUser(r)
    <2>1. PICK at \in {"ok", "refused"} : Reply(r, at)
      BY <1>6 DEF CreateUser
    <2>2. /\ tabs' = tabs /\ cookie' = cookie /\ crossed' = crossed
          /\ issued' = issued /\ sessions' = sessions /\ r.kind = "register"
      BY <1>6 DEF CreateUser
    <2>3. Exchanges(r, [r EXCEPT !.at = at])
      BY <1>4, <2>1, <2>2
    <2>4. Plain(r, [r EXCEPT !.at = at])
      BY <1>3, <2>2 DEF Plain
    <2> QED BY <2>2, <2>3, <2>4
  <1>7. CASE Read(r)
    <2>0. tabs' = tabs /\ cookie' = cookie /\ crossed' = crossed /\ UNCHANGED database
      BY <1>7 DEF Read
    <2>1. CASE r.kind = "refresh" /\ r.token # NoToken
      <3> DEFINE row == sessions[issued[r.token]]
      <3>1. row \in SessionRow
        <4>1. issued[r.token] \in DOMAIN sessions
          BY <1>1, <1>3, <2>1 DEF NoToken
        <4>2. sessions \in Seq(SessionRow)
          <5> DEFINE Rows == [user : Users, hash : 0 .. Len(issued), revoked : BOOLEAN,
                              expired : BOOLEAN]
          <5>1. Rows \subseteq SessionRow /\ sessions \in Seq(Rows)
            BY <1>1, <1>2 DEF SessionRow, DatabaseOK
          <5> HIDE DEF Rows
          <5> QED BY <5>1
        <4> QED BY <4>1, <4>2
      <3>2. requests' = (requests \ {r}) \cup {[r EXCEPT !.at = "read", !.row = row]}
        BY <1>7, <2>1 DEF Read
      <3>3. PICK w : w = row
        OBVIOUS
      <3>q. PICK q : q = [r EXCEPT !.at = "read", !.row = w]
        OBVIOUS
      <3>4. /\ RequestOK(q)' /\ q.at = "read" /\ q.row = w
            /\ q.tab = r.tab /\ q.by = r.by /\ q.kind = r.kind /\ q.token = r.token
        <4>1. r \in Requested /\ RequestOK(r)'
          BY <1>1, <1>2, RequestStays DEF RequestOK
        <4>2. /\ q \in Requested /\ q.at = "read" /\ q.row = w
             /\ q.tab = r.tab /\ q.by = r.by /\ q.kind = r.kind /\ q.token = r.token
             /\ q.user = r.user
          BY <4>1, <3>1, <3>3, <3>q DEF Requested
        <4>3. RequestOK(q)'
          BY <4>1, <4>2, <3>1, <3>3, <3>q, <2>1 DEF RequestOK
        <4> QED BY <4>2, <4>3
      <3>5. requests' = (requests \ {r}) \cup {q}
        BY <3>2, <3>3, <3>q
      <3>6. Exchanges(r, q) /\ Looks(r, q)
        BY <1>7, <2>0, <2>1, <3>3, <3>4, <3>5 DEF Exchanges, Looks, Read
      <3> QED BY <2>0, <3>6
    <2>2. CASE r.kind # "refresh" \/ r.token = NoToken
      <3>1. PICK at \in {"read", "refused"} :
               Reply(r, at) /\ (r.kind = "refresh" => at = "refused")
        BY <1>7, <2>2 DEF Read
      <3>2. RequestOK([r EXCEPT !.at = at])'
        BY <1>1, <1>2, <3>1, ReplyTyped
      <3>3. Exchanges(r, [r EXCEPT !.at = at])
        BY <1>3, <2>0, <3>1, <3>2 DEF Exchanges, Reply
      <3>4. Looks(r, [r EXCEPT !.at = at])
        BY <1>3, <1>7, <2>0, <2>2, <3>1 DEF Looks, Read
      <3> QED BY <2>0, <3>3, <3>4
    <2> QED BY <2>1, <2>2
  <1>8. CASE CreateSession(r)
    <2>0. /\ tabs' = tabs /\ cookie' = cookie /\ crossed' = crossed /\ accounts' = accounts
          /\ issued' = issued /\ r.at = "read" /\ r.kind = "login"
      BY <1>8 DEF CreateSession
    <2>1. r.user \in Users
      <3>1. r.by = "form"
        BY <1>1, <2>0 DEF RequestOK, Requested
      <3> QED BY <1>1, <3>1 DEF RequestOK
    <2>2. /\ Len(sessions) + 1 \in Nat
          /\ Len(sessions) + 1 \in DOMAIN sessions' /\ Len(sessions) + 1 \notin DOMAIN sessions
          /\ \A s \in DOMAIN sessions : sessions'[s] = sessions[s]
      BY <1>1, <1>8, <2>0, <2>1, AddedRow DEF CreateSession
    <2>3. PICK sid : sid = Len(sessions) + 1
      OBVIOUS
    <2> DEFINE w == [sid |-> sid]
    <2>q. PICK q : q = [r EXCEPT !.at = "created", !.row = w]
      OBVIOUS
    <2>4. w \in [sid : Nat] /\ w.sid = sid
      BY <2>2, <2>3
    <2>5. requests' = (requests \ {r}) \cup {q}
      BY <1>8, <2>3, <2>q DEF CreateSession
    <2> HIDE DEF w
    <2>6. /\ RequestOK(q)' /\ q.at = "created" /\ q.row = w
          /\ q.tab = r.tab /\ q.by = r.by /\ q.kind = r.kind /\ q.token = r.token
      <3>1. r \in Requested /\ RequestOK(r)'
        BY <1>1, <1>2, RequestStays DEF RequestOK
      <3>2. /\ q \in Requested /\ q.at = "created" /\ q.row = w
           /\ q.tab = r.tab /\ q.by = r.by /\ q.kind = r.kind /\ q.token = r.token
           /\ q.user = r.user
        BY <3>1, <2>4, <2>q DEF Requested
      <3>3. RequestOK(q)'
        BY <3>1, <3>2, <2>4, <2>q, <2>0, <2>2, <2>3 DEF RequestOK
      <3> QED BY <3>2, <3>3
    <2>7. Exchanges(r, q) /\ Opens(r, q)
      BY <2>0, <2>2, <2>3, <2>4, <2>5, <2>6 DEF Exchanges, Opens
    <2> QED BY <2>0, <2>7
  <1>9. ASSUME NEW sid \in DOMAIN sessions,
               \/ r.at = "created" /\ r.kind = "login" /\ sid = r.row.sid
               \/ /\ r.at = "read" /\ r.kind = "refresh" /\ Valid(r) /\ sid = issued[r.token],
               sessions' = [sessions EXCEPT ![sid].hash = Len(issued) + 1],
               Issue(r, sid), UNCHANGED <<accounts, tabs, cookie>>
        PROVE  \E q : Exchanges(r, q) /\ Stores(r, q, sid)
    <2>1. /\ Len(issued') = Len(issued) + 1
          /\ issued'[Len(issued) + 1] = sid
          /\ DOMAIN sessions' = DOMAIN sessions
          /\ sessions'[sid].hash = Len(issued) + 1
          /\ \A s \in DOMAIN sessions : s # sid => sessions'[s] = sessions[s]
      BY <1>1, <1>9, HashStored DEF Issue
    <2>2. PICK k \in Nat : k = Len(issued) + 1
      BY <1>2
    <2> DEFINE q == [r EXCEPT !.at = "ok", !.token = k]
    <2>3. /\ RequestOK(q)' /\ q.at = "ok" /\ q.token = k
          /\ q.tab = r.tab /\ q.by = r.by /\ q.kind = r.kind
      BY <1>1, <1>2, <2>1, <2>2, GetsTokens
    <2>4. requests' = (requests \ {r}) \cup {q}
      BY <1>9, <2>2 DEF Issue
    <2> HIDE DEF q
    <2>5. Exchanges(r, q)
      BY <1>9, <2>3, <2>4 DEF Exchanges
    <2>6. Stores(r, q, sid)
      BY <1>9, <2>1, <2>2, <2>3 DEF Stores
    <2> QED BY <2>5, <2>6
  <1>10. CASE StoreHash(r)
    <2>1. r.row.sid \in DOMAIN sessions /\ r.kind = "login"
      BY <1>1, <1>10 DEF StoreHash, RequestOK
    <2>2. /\ sessions' = [sessions EXCEPT ![r.row.sid].hash = Len(issued) + 1]
          /\ Issue(r, r.row.sid) /\ UNCHANGED <<accounts, tabs, cookie>>
          /\ crossed' = crossed /\ r.at = "created"
      BY <1>10 DEF StoreHash
    <2> QED BY <1>9, <2>1, <2>2
  <1>11. CASE Rotate(r) /\ Valid(r)
    <2>1. issued[r.token] \in DOMAIN sessions
      BY <1>1, <1>3, <1>11 DEF Rotate, RequestOK, NoToken
    <2>2. /\ sessions' = [sessions EXCEPT ![issued[r.token]].hash = Len(issued) + 1]
          /\ Issue(r, issued[r.token]) /\ UNCHANGED <<accounts, tabs, cookie>>
          /\ crossed' = crossed /\ r.at = "read" /\ r.kind = "refresh"
      BY <1>11 DEF Rotate
    <2> QED BY <1>9, <1>11, <2>1, <2>2
  <1>12. CASE Rotate(r) /\ ~Valid(r)
    <2>1. /\ Reply(r, "refused") /\ UNCHANGED database
          /\ tabs' = tabs /\ cookie' = cookie /\ crossed' = crossed
          /\ r.at = "read" /\ r.kind = "refresh"
      BY <1>12 DEF Rotate, database
    <2>2. Exchanges(r, [r EXCEPT !.at = "refused"])
      BY <1>4, <2>1
    <2>3. Refuses(r, [r EXCEPT !.at = "refused"])
      BY <1>3, <1>12, <2>1 DEF Refuses
    <2> QED BY <2>1, <2>2, <2>3
  <1> QED BY <1>5, <1>6, <1>7, <1>8, <1>10, <1>11, <1>12 DEF Serve

\* The connection fails: the request ends as one that nobody will serve.
LEMMA LoseStep ==
    ASSUME Typed, NEW r \in requests, Lose(r)
    PROVE  /\ UNCHANGED database
           /\ crossed' = (crossed \/ r.kind \in {"refresh", "login"})
           /\ \E q : Exchanges(r, q) /\ q.at = "lost" /\ q.token = r.token
  <1>1. RequestOK(r) /\ DatabaseOK /\ issued \in Seq(DOMAIN sessions)
    BY TypedParts DEF DatabaseOK
  <1>2. UNCHANGED database /\ issued' = issued /\ tabs' = tabs /\ cookie' = cookie
    BY DEF Lose, database
  <1>3. Grows /\ Len(issued) \in Nat /\ Len(issued') \in Nat
    BY <1>1, <1>2, DatabaseIdle
  <1>4. RequestOK([r EXCEPT !.at = "lost"])'
    BY <1>1, <1>3, ReplyTyped
  <1>5. /\ [r EXCEPT !.at = "lost"].tab = r.tab /\ [r EXCEPT !.at = "lost"].by = r.by
        /\ [r EXCEPT !.at = "lost"].kind = r.kind /\ [r EXCEPT !.at = "lost"].at = "lost"
        /\ [r EXCEPT !.at = "lost"].token = r.token
    BY <1>1 DEF RequestOK, Requested
  <1>6. Exchanges(r, [r EXCEPT !.at = "lost"])
    BY <1>2, <1>4, <1>5 DEF Exchanges, Lose, Reply
  <1> QED BY <1>2, <1>5, <1>6 DEF Lose

\* The steps by which a tab sends one request: of which kind, by whom.
SendsOne(t, by, kind, user) ==
    /\ Send(t, by, kind, user) /\ Sends(by, kind, user)
    /\ UNCHANGED database /\ cookie' = cookie
    /\ \/ /\ by = "bootstrap" /\ kind = "refresh" /\ tabs[t].status = "idle"
          /\ tabs' = [tabs EXCEPT ![t].status = "loading"]
       \/ /\ by \in Calls /\ kind = "call" /\ tabs[t].calls[by] = "idle"
          /\ tabs[t].status = "authenticated"
          /\ tabs' = [tabs EXCEPT ![t].calls[by] = "sent"]
       \/ /\ by \in {"form", "menu"} /\ kind \notin {"call", "refresh"}
          /\ tabs[t].status \in {"authenticated", "anonymous"}
          /\ tabs' = tabs

\* Every page action sends one request.
LEMMA SendingSteps ==
    ASSUME NEW t \in Tabs,
           \/ Bootstrap(t)
           \/ \E c \in Calls : Call(t, c)
           \/ \E u \in Users : Submit(t, "login", u) \/ Submit(t, "register", u)
           \/ Logout(t, "logout") \/ Logout(t, "logoutAll")
    PROVE  \E by, kind, user : SendsOne(t, by, kind, user)
  <1>1. CASE Bootstrap(t)
    <2>1. SendsOne(t, "bootstrap", "refresh", Nobody)
      BY <1>1 DEF Bootstrap, SendsOne, Sends, database
    <2> QED BY <2>1
  <1>2. CASE \E c \in Calls : Call(t, c)
    <2>1. PICK c \in Calls : Call(t, c)
      BY <1>2
    <2>2. SendsOne(t, c, "call", Nobody)
      BY <2>1 DEF Call, SendsOne, Sends, database
    <2> QED BY <2>2
  <1>3. ASSUME NEW u \in Users, NEW kind \in {"login", "register"}, Submit(t, kind, u)
        PROVE  SendsOne(t, "form", kind, u)
    BY <1>3 DEF Submit, SendsOne, Sends, database
  <1>4. ASSUME NEW kind \in {"logout", "logoutAll"}, Logout(t, kind)
        PROVE  SendsOne(t, "menu", kind, Nobody)
    BY <1>4 DEF Logout, SendsOne, Sends, database
  <1> QED BY <1>1, <1>2, <1>3, <1>4

\* The ways a step can go.
LEMMA StepCases ==
    ASSUME [Next]_vars
    PROVE  \/ UNCHANGED vars
           \/ \E t \in Tabs : \/ \E by, kind, user : SendsOne(t, by, kind, user)
                              \/ Reload(t)
           \/ \E r \in requests : Serve(r) \/ Deliver(r) \/ Lose(r) \/ Drop(r)
           \/ TokenExpires \/ SessionExpires
  BY SendingSteps DEF Next

\* What a sending or a reload makes of the tab.
LEMMA SendingTab ==
    ASSUME Typed, NEW t \in Tabs, NEW by, NEW kind, NEW user, SendsOne(t, by, kind, user)
    PROVE  \E new \in TabRecord(Len(issued)) :
              /\ tabs' = [tabs EXCEPT ![t] = new]
              /\ new.refreshing = tabs[t].refreshing
              /\ \/ /\ by = "bootstrap" /\ kind = "refresh" /\ tabs[t].status = "idle"
                    /\ new.status = "loading" /\ new.calls = tabs[t].calls
                 \/ /\ by \in Calls /\ kind = "call" /\ tabs[t].calls[by] = "idle"
                    /\ tabs[t].status = "authenticated" /\ new.status = "authenticated"
                    /\ new.calls[by] = "sent"
                    /\ \A c \in Calls : c # by => new.calls[c] = tabs[t].calls[c]
                 \/ /\ by \in {"form", "menu"} /\ kind \notin {"call", "refresh"}
                    /\ new = tabs[t]
  <1> DEFINE k == Len(issued)
             tab == tabs[t]
  <1>1. tab \in TabRecord(k) /\ tabs \in [Tabs -> TabRecord(k)]
    BY TypedParts
  <1> HIDE DEF k
  <1>2. CASE by = "bootstrap" /\ kind = "refresh" /\ tabs[t].status = "idle"
               /\ tabs' = [tabs EXCEPT ![t].status = "loading"]
    <2> DEFINE new == [tab EXCEPT !.status = "loading"]
    <2>1. /\ new \in TabRecord(k) /\ new.status = "loading" /\ new.calls = tab.calls
          /\ new.refreshing = tab.refreshing
      BY <1>1 DEF TabRecord
    <2>2. tabs' = [tabs EXCEPT ![t] = new]
      BY <1>2
    <2> HIDE DEF new
    <2> QED BY <1>2, <2>1, <2>2 DEF k
  <1>3. CASE by \in Calls /\ kind = "call" /\ tabs[t].calls[by] = "idle"
               /\ tabs[t].status = "authenticated"
               /\ tabs' = [tabs EXCEPT ![t].calls[by] = "sent"]
    <2> DEFINE calls == [tab.calls EXCEPT ![by] = "sent"]
               new == [tab EXCEPT !.calls = calls]
    <2>1. tab.calls \in [Calls -> CallStates]
      BY <1>1 DEF TabRecord
    <2>2. /\ calls \in [Calls -> CallStates] /\ calls[by] = "sent"
          /\ \A c \in Calls : c # by => calls[c] = tab.calls[c]
      BY <1>3, <2>1 DEF CallStates
    <2>3. tabs' = [tabs EXCEPT ![t] = new]
      BY <1>3
    <2> HIDE DEF calls
    <2>4. /\ new \in TabRecord(k) /\ new.status = tab.status /\ new.calls = calls
          /\ new.refreshing = tab.refreshing
      BY <1>1, <2>2 DEF TabRecord
    <2> HIDE DEF new
    <2> QED BY <1>3, <2>2, <2>3, <2>4 DEF k
  <1>4. CASE by \in {"form", "menu"} /\ kind \notin {"call", "refresh"} /\ tabs' = tabs
    <2>1. tabs' = [tabs EXCEPT ![t] = tab]
      BY <1>1, <1>4
    <2> QED BY <1>1, <1>4, <2>1 DEF k
  <1> QED BY <1>2, <1>3, <1>4 DEF SendsOne

-----------------------------------------------------------------------------
(* Types and revocation.                                                    *)

\* Every step keeps the types.
LEMMA TypedKept ==
    ASSUME AuthAssumption, Typed, [Next]_vars
    PROVE  Typed'
  <1> DEFINE k == Len(issued)
             TabsOK == tabs' \in [Tabs -> TabRecord(Len(issued'))]
             RequestsOK == \A q \in requests' : RequestOK(q)'
  <1>1. /\ DatabaseOK /\ issued \in Seq(DOMAIN sessions)
        /\ stale \subseteq DOMAIN issued /\ cookie \in 0 .. k
        /\ tabs \in [Tabs -> TabRecord(k)]
        /\ \A r \in requests : RequestOK(r)
    BY TypedParts DEF DatabaseOK
  <1>2. DatabaseOK' /\ Grows /\ issued' \in Seq(DOMAIN sessions')
    BY DatabaseStep DEF DatabaseOK
  <1>3. /\ k \in Nat /\ Len(issued') \in Nat /\ k <= Len(issued')
        /\ DOMAIN issued \subseteq DOMAIN issued'
    BY <1>1, <1>2 DEF Grows
  <1>4. \A r \in requests : RequestOK(r)'
    BY <1>1, <1>2, <1>3, RequestStays
  <1>5. cookie' \in 0 .. Len(issued')
    <2>1. CASE cookie' = cookie
      BY <1>1, <1>3, <2>1
    <2>2. ASSUME NEW r \in requests, Deliver(r)
          PROVE  cookie' \in 0 .. Len(issued')
      <3>1. r.token \in 0 .. Len(issued')
        BY <1>1, <1>3 DEF RequestOK, Requested, Grows
      <3>2. cookie' \in {r.token, NoToken, cookie}
        BY <2>2 DEF Deliver, CookieAfter
      <3>3. NoToken \in 0 .. Len(issued')
        BY <1>3 DEF NoToken
      <3> QED BY <1>1, <1>3, <3>1, <3>2, <3>3
    <2>3. cookie' = cookie \/ \E r \in requests : Deliver(r)
      BY StepCases DEF vars, SendsOne, Reload, Serve, ServeCall, Read, CreateUser,
                       CreateSession, StoreHash, Rotate, Lose, Drop, TokenExpires,
                       SessionExpires
    <2> QED BY <2>1, <2>2, <2>3
  <1>6. stale' \subseteq DOMAIN issued'
    <2>1. stale' = stale \/ TokenExpires
      BY DEF Next, vars, Bootstrap, Call, Submit, Logout, Reload, Serve, ServeCall, Read,
             CreateUser, CreateSession, StoreHash, Rotate, Deliver, Lose, Drop, SessionExpires
    <2> QED BY <1>1, <1>3, <2>1 DEF TokenExpires
  <1>7. ASSUME NEW t, NEW new \in TabRecord(k), tabs' = [tabs EXCEPT ![t] = new]
        PROVE  TabsOK
    <2>1. tabs' \in [Tabs -> TabRecord(k)]
      BY <1>1, <1>7
    <2>2. TabRecord(k) \subseteq TabRecord(Len(issued'))
      BY <1>3, WiderTabs
    <2> QED BY <2>1, <2>2
  <1>8. ASSUME tabs' = tabs
        PROVE  TabsOK
    <2>1. TabRecord(k) \subseteq TabRecord(Len(issued'))
      BY <1>3, WiderTabs
    <2> QED BY <1>1, <1>8, <2>1
  <1>9. TabsOK /\ RequestsOK
    <2>1. CASE UNCHANGED vars
      BY <1>4, <1>8, <2>1 DEF vars
    <2>2. ASSUME NEW t \in Tabs, NEW by, NEW kind, NEW user, SendsOne(t, by, kind, user)
          PROVE  TabsOK /\ RequestsOK
      <3>1. \E new \in TabRecord(k) : tabs' = [tabs EXCEPT ![t] = new]
        BY <2>2, SendingTab
      <3>2. RequestsOK
        BY <2>2, SendTyped DEF SendsOne
      <3> QED BY <1>7, <3>1, <3>2
    <2>3. ASSUME NEW t \in Tabs, Reload(t)
          PROVE  TabsOK /\ RequestsOK
      <3>1. NewTab \in TabRecord(k)
        BY <1>3, NewTabOK
      <3>2. TabsOK
        BY <1>7, <2>3, <3>1 DEF Reload
      <3>3. ASSUME NEW r \in requests
            PROVE  RequestOK([r EXCEPT !.tab = NoTab])'
        <4>1. r \in Requested /\ RequestOK(r)'
          BY <1>1, <1>4 DEF RequestOK
        <4>2. PICK q : q = [r EXCEPT !.tab = NoTab]
          OBVIOUS
        <4>3. /\ q \in Requested /\ q.at = r.at /\ q.by = r.by /\ q.kind = r.kind
              /\ q.token = r.token /\ q.user = r.user /\ q.row = r.row
          BY <4>1, <4>2 DEF Requested
        <4>4. RequestOK(q)'
          BY <4>1, <4>3 DEF RequestOK
        <4> QED BY <4>2, <4>4
      <3>4. RequestsOK
        BY <1>4, <2>3, <3>3 DEF Reload, Of
      <3> QED BY <3>2, <3>4
    <2>4. ASSUME NEW r \in requests, NEW q, Exchanges(r, q)
          PROVE  TabsOK /\ RequestsOK
      BY <1>4, <1>8, <2>4 DEF Exchanges
    <2>5. ASSUME NEW r \in requests, Deliver(r)
          PROVE  TabsOK /\ RequestsOK
      <3>1. CASE requests' = requests \ {r} /\ tabs' = tabs
        BY <1>4, <1>8, <3>1
      <3>2. ASSUME NEW new, NEW X, Becomes(r, new, X)
            PROVE  TabsOK /\ RequestsOK
        BY <1>4, <1>7, <3>2 DEF Becomes
      <3> QED BY <2>5, <3>1, <3>2, DeliverStep
    <2>6. ASSUME NEW r \in requests, Drop(r)
          PROVE  TabsOK /\ RequestsOK
      BY <1>4, <1>8, <2>6 DEF Drop
    <2>7. CASE TokenExpires \/ SessionExpires
      BY <1>4, <1>8, <2>7 DEF TokenExpires, SessionExpires
    <2>8. ASSUME NEW r \in requests, Serve(r)
          PROVE  TabsOK /\ RequestsOK
      BY <1>2, <2>4, <2>8, ServeStep
    <2>9. ASSUME NEW r \in requests, Lose(r)
          PROVE  TabsOK /\ RequestsOK
      BY <2>4, <2>9, LoseStep
    <2> HIDE DEF TabsOK, RequestsOK
    <2> QED BY <2>1, <2>2, <2>3, <2>5, <2>6, <2>7, <2>8, <2>9, StepCases
  <1> QED BY <1>2, <1>5, <1>6, <1>9 DEF Typed, TypeOK, DatabaseOK, TabRecord

\* Nothing is in flight at first, and the tables are empty.
LEMMA TypedFirst ==
    ASSUME AuthAssumption, Init
    PROVE  Typed
  <1>1. CASE sessions = <<>> /\ issued = <<>> /\ cookie = NoToken
    <2>1. Len(issued) = 0 /\ 0 \in Nat
      BY <1>1
    <2>2. DatabaseOK
      BY <1>1 DEF Init, AuthAssumption, DatabaseOK
    <2>3. tabs \in [Tabs -> TabRecord(Len(issued))]
      BY <2>1, NewTabOK DEF Init
    <2> QED BY <1>1, <2>1, <2>2, <2>3, TypedParts DEF Init, NoToken
  <1>2. ASSUME NEW u \in Registered,
               sessions = <<[user |-> u, hash |-> 1, revoked |-> FALSE, expired |-> FALSE]>>,
               issued = << 1 >>, cookie = 1
        PROVE  Typed
    <2>1. Len(issued) = 1 /\ DOMAIN issued = {1} /\ issued[1] = 1 /\ DOMAIN sessions = {1}
      BY <1>2
    <2> DEFINE Rows == [user : Users, hash : 0 .. 1, revoked : BOOLEAN, expired : BOOLEAN]
               row == [user |-> u, hash |-> 1, revoked |-> FALSE, expired |-> FALSE]
    <2>2. row \in Rows
      BY DEF AuthAssumption
    <2>3. sessions \in Seq(Rows)
      <3> HIDE DEF Rows, row
      <3>1. sessions = <<row>>
        BY <1>2 DEF row
      <3> QED BY <2>2, <3>1
    <2>4. issued \in Seq({1})
      BY <1>2
    <2>5. DatabaseOK
      BY <2>1, <2>3, <2>4 DEF Init, AuthAssumption, DatabaseOK
    <2>6. tabs \in [Tabs -> TabRecord(Len(issued))]
      BY <2>1, NewTabOK DEF Init
    <2> QED BY <1>2, <2>1, <2>5, <2>6, TypedParts DEF Init
  <1> QED BY <1>1, <1>2 DEF Init

\* The tables, the cookie, the tabs and the requests keep their types: in
\* particular every token names a session of the table and every session a user.
THEOREM AuthTypes == Spec => []TypeOK
  <1>1. Init => Typed
    BY TypedFirst, AuthAssumption
  <1>2. Typed /\ [Next]_vars => Typed'
    BY TypedKept, AuthAssumption
  <1> QED BY <1>1, <1>2, PTL DEF Spec, Typed

\* A session that was revoked stays so: the rotation of a refresh that had read
\* the session before writes its hash and nothing else.
THEOREM RevocationIsForGood == Spec => RevokedForGood
  <1>1. Init => Typed
    BY TypedFirst, AuthAssumption
  <1>2. Typed /\ [Next]_vars => Typed'
    BY TypedKept, AuthAssumption
  <1>3. Typed /\ [Next]_vars =>
           [\A s \in DOMAIN sessions : sessions[s].revoked => sessions'[s].revoked]_vars
    BY DatabaseStep, AuthAssumption DEF Grows
  <1> QED BY <1>1, <1>2, <1>3, PTL DEF Spec, RevokedForGood

-----------------------------------------------------------------------------
(* One refresh per tab.                                                     *)

\* A step that touches neither a tab nor its requests.
LEMMA OtherTab ==
    ASSUME NEW t \in Tabs, TabInv(t), tabs'[t] = tabs[t], Of(t)' = Of(t)
    PROVE  TabInv(t)'
  BY DEF TabInv

\* A request of the tab comes nearer to its answer.
LEMMA ExchangeKeepsTab ==
    ASSUME NEW t \in Tabs, TabInv(t), NEW r, NEW q, Exchanges(r, q)
    PROVE  TabInv(t)'
  <1>1. /\ tabs' = tabs /\ r \in requests
        /\ q.tab = r.tab /\ q.by = r.by /\ q.kind = r.kind
    BY DEF Exchanges
  <1>2. \A p : p \in Of(t)' <=> \/ p \in Of(t) /\ p # r
                                \/ p = q /\ r \in Of(t)
    BY <1>1 DEF Exchanges, Of
  <1>3. \A p \in Of(t)' : \/ p \in Of(t) /\ p # r
                          \/ p = q /\ r \in Of(t)
    BY <1>2
  <1>4. ASSUME NEW p \in Of(t)'
        PROVE  /\ p.by = "bootstrap" => tabs[t].status = "loading"
               /\ p.kind = "call" => tabs[t].calls[p.by] \in {"sent", "retried"}
               /\ p.kind = "refresh" /\ p.by \in Calls => tabs[t].refreshing
               /\ tabs[t].status \in {"idle", "loading"} => p.by = "bootstrap"
    BY <1>1, <1>3 DEF TabInv
  <1>5. \A p \in Of(t), o \in Of(t) : SameSender(p, o) => p = o
    BY DEF TabInv
  <1>6. \A p : SameSender(q, p) <=> SameSender(r, p)
    BY <1>1 DEF SameSender
  <1>7. \A p : SameSender(p, q) <=> SameSender(p, r)
    BY <1>1 DEF SameSender
  <1>8. ASSUME NEW p \in Of(t)', NEW o \in Of(t)', SameSender(p, o)
        PROVE  p = o
    BY <1>3, <1>5, <1>6, <1>7, <1>8
  <1> QED BY <1>1, <1>4, <1>8 DEF TabInv, SameSender

\* A tab sends a request: no other one of its sender is in flight.
LEMMA SendingKeepsTab ==
    ASSUME Typed, NEW t \in Tabs, TabInv(t), NEW by, NEW kind, NEW user,
           SendsOne(t, by, kind, user)
    PROVE  TabInv(t)'
  <1>1. PICK new \in TabRecord(Len(issued)) :
              /\ tabs' = [tabs EXCEPT ![t] = new]
              /\ new.refreshing = tabs[t].refreshing
              /\ \/ /\ by = "bootstrap" /\ kind = "refresh" /\ tabs[t].status = "idle"
                    /\ new.status = "loading" /\ new.calls = tabs[t].calls
                 \/ /\ by \in Calls /\ kind = "call" /\ tabs[t].calls[by] = "idle"
                    /\ tabs[t].status = "authenticated" /\ new.status = "authenticated"
                    /\ new.calls[by] = "sent"
                    /\ \A c \in Calls : c # by => new.calls[c] = tabs[t].calls[c]
                 \/ /\ by \in {"form", "menu"} /\ kind \notin {"call", "refresh"}
                    /\ new = tabs[t]
    BY SendingTab
  <1>2. tabs \in [Tabs -> TabRecord(Len(issued))] /\ tabs'[t] = new
    BY <1>1, TypedParts
  <1>3. PICK n : /\ n.tab = t /\ n.by = by /\ n.kind = kind
                 /\ requests' = requests \cup {n}
    <2>1. PICK k : requests' = requests \cup {Request(t, by, kind, k, user)}
      BY DEF SendsOne, Send
    <2>2. PICK n : n = Request(t, by, kind, k, user)
      OBVIOUS
    <2>3. n.tab = t /\ n.by = by /\ n.kind = kind
      BY <2>2 DEF Request
    <2> QED BY <2>1, <2>2, <2>3
  <1>4. \A p : p \in Of(t)' <=> p \in Of(t) \/ p = n
    BY <1>3 DEF Of
  <1>5. \A p \in Of(t) : RequestOK(p) /\ p.by \in Calls \cup {"bootstrap", "form", "menu"}
    BY DEF Typed, RequestOK, Requested, Of
  <1>6. \A p, o \in Of(t) : SameSender(p, o) => p = o
    BY DEF TabInv
  <1>7. CASE by = "bootstrap" /\ kind = "refresh" /\ tabs[t].status = "idle"
               /\ new.status = "loading" /\ new.calls = tabs[t].calls
    <2>1. Of(t) = {}
      BY <1>7 DEF TabInv
    <2>2. \A p : p \in Of(t)' <=> p = n
      BY <1>4, <2>1
    <2>3. /\ new.refreshing <=> \E c \in Calls : new.calls[c] = "waiting"
          /\ \A c \in Calls : new.calls[c] = "idle"
      BY <1>1, <1>7 DEF TabInv
    <2>4. "bootstrap" \notin Calls
      BY AuthAssumption DEF AuthAssumption
    <2> QED BY <1>2, <1>3, <1>7, <2>2, <2>3, <2>4 DEF TabInv
  <1>8. CASE by \in Calls /\ kind = "call" /\ tabs[t].calls[by] = "idle"
               /\ tabs[t].status = "authenticated" /\ new.status = "authenticated"
               /\ new.calls[by] = "sent"
               /\ \A c \in Calls : c # by => new.calls[c] = tabs[t].calls[c]
    <2>1. by # "bootstrap"
      BY <1>8, AuthAssumption DEF AuthAssumption
    <2>2. \A p \in Of(t) : p.by # "bootstrap" /\ ~(p.kind = "call" /\ p.by = by)
      BY <1>8 DEF TabInv
    <2>3. \A p \in Of(t) : ~SameSender(n, p) /\ ~SameSender(p, n)
      BY <1>3, <1>8, <2>2 DEF SameSender
    <2>4. \A p, o \in Of(t)' : SameSender(p, o) => p = o
      BY <1>4, <1>6, <2>3
    <2>5. new.refreshing <=> \E c \in Calls : new.calls[c] = "waiting"
      BY <1>1, <1>8 DEF TabInv
    <2>6. ASSUME NEW p \in Of(t)'
          PROVE  /\ p.by = "bootstrap" => new.status = "loading"
                 /\ p.kind = "call" => new.calls[p.by] \in {"sent", "retried"}
                 /\ p.kind = "refresh" /\ p.by \in Calls => new.refreshing
      <3>1. CASE p = n
        BY <1>3, <1>8, <2>1, <3>1
      <3>2. CASE p \in Of(t)
        <4>1. p.kind = "call" => p.by \in Calls
          BY <1>5, <3>2 DEF RequestOK
        <4> QED BY <1>1, <1>8, <2>2, <3>2, <4>1 DEF TabInv
      <3> QED BY <1>4, <3>1, <3>2
    <2> QED BY <1>2, <1>8, <2>4, <2>5, <2>6 DEF TabInv, SameSender
  <1>9. CASE by \in {"form", "menu"} /\ kind \notin {"call", "refresh"} /\ new = tabs[t]
    <2>1. tabs[t].status \notin {"idle", "loading"}
      BY <1>9 DEF SendsOne
    <2>2. \A p \in Of(t) : ~SameSender(n, p) /\ ~SameSender(p, n)
      BY <1>3, <1>9 DEF SameSender
    <2>3. \A p, o \in Of(t)' : SameSender(p, o) => p = o
      BY <1>4, <1>6, <2>2
    <2>4. ASSUME NEW p \in Of(t)'
          PROVE  /\ p.by = "bootstrap" => new.status = "loading"
                 /\ p.kind = "call" => new.calls[p.by] \in {"sent", "retried"}
                 /\ p.kind = "refresh" /\ p.by \in Calls => new.refreshing
      BY <1>3, <1>4, <1>9 DEF TabInv
    <2>5. new.refreshing <=> \E c \in Calls : new.calls[c] = "waiting"
      BY <1>9 DEF TabInv
    <2> QED BY <1>2, <1>9, <2>1, <2>3, <2>4, <2>5 DEF TabInv, SameSender
  <1> QED BY <1>1, <1>7, <1>8, <1>9

\* The answer to a bootstrap, a form or the menu is handled.
LEMMA ThunksKeepTab ==
    ASSUME Typed, NEW t \in Tabs, TabInv(t), NEW r \in requests, r.tab = t,
           NEW new, NEW X, Becomes(r, new, X),
           \/ BootstrapGoesOn(r, new, X)
           \/ /\ X = {} /\ SameCalls(r, new) /\ r.by \in {"form", "menu"}
              /\ new.status \in {tabs[r.tab].status, "authenticated", "anonymous"}
    PROVE  TabInv(t)'
  <1>1. tabs'[t] = new /\ r \in Of(t) /\ new.calls = tabs[t].calls
        /\ new.refreshing = tabs[t].refreshing
    BY TypedParts DEF Becomes, Of, BootstrapGoesOn, SameCalls
  <1>2. \A p, o \in Of(t) : SameSender(p, o) => p = o
    BY DEF TabInv
  <1>3. \A p \in Of(t) : RequestOK(p)
    BY DEF Typed, Of
  <1>4. /\ \A p \in Of(t) : p.kind = "call" => tabs[t].calls[p.by] \in {"sent", "retried"}
        /\ \A p \in Of(t) : p.kind = "refresh" /\ p.by \in Calls => tabs[t].refreshing
        /\ \A p \in Of(t) : p.by = "bootstrap" => tabs[t].status = "loading"
        /\ tabs[t].refreshing <=> \E c \in Calls : tabs[t].calls[c] = "waiting"
    BY DEF TabInv
  <1>5. CASE /\ r.by = "bootstrap"
             /\ \/ X = {} /\ new.status \in {"authenticated", "anonymous"}
                \/ /\ X = {Request(r.tab, "bootstrap", "me", r.token, Nobody)}
                   /\ new.status = tabs[r.tab].status
    <2>1. \A p \in Of(t) : p.by = "bootstrap" => p = r
      BY <1>1, <1>2, <1>5 DEF SameSender
    <2>2. Of(t) = {r} /\ \A c \in Calls : tabs[t].calls[c] = "idle"
      BY <1>1, <1>5, <2>1 DEF TabInv
    <2>3. CASE X = {} /\ new.status \in {"authenticated", "anonymous"}
      <3>1. Of(t)' = {}
        BY <2>2, <2>3 DEF Becomes, Of
      <3> QED BY <1>1, <1>4, <2>3, <3>1 DEF TabInv
    <2>4. CASE X = {Request(r.tab, "bootstrap", "me", r.token, Nobody)}
               /\ new.status = tabs[r.tab].status
      <3>1. PICK n : n = Request(r.tab, "bootstrap", "me", r.token, Nobody)
        OBVIOUS
      <3>2. n.tab = t /\ n.by = "bootstrap" /\ n.kind = "me"
        BY <3>1 DEF Request
      <3>3. \A p \in Of(t)' : p = n
        BY <2>2, <2>4, <3>1 DEF Becomes, Of
      <3>4. new.status = "loading"
        BY <1>1, <1>4, <1>5, <2>4
      <3> QED BY <1>1, <1>4, <2>2, <3>2, <3>3, <3>4 DEF TabInv
    <2> QED BY <1>5, <2>3, <2>4
  <1>6. CASE /\ X = {} /\ r.by \in {"form", "menu"}
             /\ new.status \in {tabs[r.tab].status, "authenticated", "anonymous"}
    <2>1. Of(t)' = Of(t) \ {r}
      BY <1>6 DEF Becomes, Of
    <2>2. tabs[t].status \notin {"idle", "loading"}
      BY <1>1, <1>6 DEF TabInv
    <2>3. new.status \notin {"idle", "loading"}
      BY <1>6, <2>2
    <2>4. \A p \in Of(t)' : p.by # "bootstrap"
      BY <1>4, <2>1, <2>2
    <2> QED BY <1>1, <1>2, <1>4, <2>1, <2>3, <2>4 DEF TabInv
  <1> QED BY <1>5, <1>6 DEF BootstrapGoesOn

\* The answer to the shared refresh is handled: no call waits any more.
LEMMA RefreshKeepsTab ==
    ASSUME AuthAssumption, Typed, NEW t \in Tabs, TabInv(t), NEW r \in requests, r.tab = t,
           NEW new, NEW X, Becomes(r, new, X), RefreshGoesOn(r, new, X)
    PROVE  TabInv(t)'
  <1>1. tabs'[t] = new /\ r \in Of(t) /\ r.by \in Calls /\ r.kind = "refresh"
    BY TypedParts DEF Becomes, Of, RefreshGoesOn
  <1>2. r.token \in 0 .. Len(issued) /\ Len(issued) \in Nat
    <2>1. RequestOK(r) /\ issued \in Seq(DOMAIN sessions)
      BY DEF Typed, TypeOK
    <2>2. Len(issued) \in Nat
      BY <2>1
    <2> QED BY <2>1, <2>2 DEF RequestOK, Requested
  <1>3. /\ new.refreshing = FALSE /\ new.status \in {tabs[t].status, "anonymous"}
        /\ \A c \in Calls : new.calls[c] = Woken(tabs[t].calls[c], r.at)
    <2> DEFINE k == Len(issued)
               tab == tabs[t]
    <2>1. tab \in TabRecord(k) /\ new = Refreshed(tab, r) /\ k \in Nat /\ r.token \in 0 .. k
      BY <1>2, TypedParts DEF RefreshGoesOn
    <2> HIDE DEF k, tab
    <2>2. /\ Refreshed(tab, r).refreshing = FALSE
          /\ Refreshed(tab, r).status \in {tab.status, "anonymous"}
      BY <2>1, RefreshedTab
    <2>3. \A c \in Calls : Refreshed(tab, r).calls[c] = Woken(tab.calls[c], r.at)
      BY <2>1, RefreshedTab
    <2> QED BY <2>1, <2>2, <2>3 DEF tab
  <1>4. \A p, o \in Of(t) : SameSender(p, o) => p = o
    BY DEF TabInv
  <1>5. /\ \A p \in Of(t) : p.kind = "call" => tabs[t].calls[p.by] \in {"sent", "retried"}
        /\ \A p \in Of(t) : p.by = "bootstrap" => tabs[t].status = "loading"
        /\ tabs[t].status \in {"idle", "loading"} => \A p \in Of(t) : p.by = "bootstrap"
    BY DEF TabInv
  <1>6. r.by # "bootstrap"
    BY <1>1 DEF AuthAssumption
  <1>7. new.status \notin {"idle", "loading"} /\ \A p \in Of(t) : p.by # "bootstrap"
    BY <1>1, <1>3, <1>5, <1>6
  <1>8. \A p \in X : /\ p.tab = t /\ p.kind = "call" /\ p.by \in Calls
                     /\ tabs[t].calls[p.by] = "waiting" /\ r.at = "ok"
                     /\ p = Request(t, p.by, "call", r.token, Nobody)
    BY DEF RefreshGoesOn, Retries, Request
  <1>9. \A p : p \in Of(t)' <=> (p \in Of(t) /\ p # r) \/ p \in X
    BY <1>8 DEF Becomes, Of
  <1>10. \A p \in Of(t) : p.kind = "refresh" => p = r
    BY <1>1, <1>4 DEF SameSender
  <1>11. ASSUME NEW p \in Of(t)'
         PROVE  /\ p.by # "bootstrap" /\ p.kind # "refresh"
                /\ p.kind = "call" => new.calls[p.by] \in {"sent", "retried"}
    <2>1. CASE p \in Of(t) /\ p # r
      <3>1. p.kind = "call" => p.by \in Calls
        BY <2>1 DEF Typed, RequestOK, Requested, Of, AuthAssumption
      <3> QED BY <1>3, <1>5, <1>7, <1>10, <2>1, <3>1 DEF Woken
    <2>2. CASE p \in X
      BY <1>3, <1>8, <2>2 DEF AuthAssumption, Woken
    <2> QED BY <1>9, <2>1, <2>2
  <1>12. ASSUME NEW p \in Of(t)', NEW o \in Of(t)', SameSender(p, o)
         PROVE  p = o
    <2>0. p.kind = "call" /\ o.kind = "call" /\ p.by = o.by
      BY <1>11, <1>12 DEF SameSender
    <2>1. CASE p \in X /\ o \in X
      BY <1>8, <2>0, <2>1
    <2>2. CASE p \notin X /\ o \notin X
      BY <1>4, <1>9, <1>12, <2>2
    <2>3. (p \in X /\ o \notin X) \/ (p \notin X /\ o \in X) => FALSE
      BY <1>5, <1>8, <1>9, <2>0
    <2> QED BY <2>1, <2>2, <2>3
  <1>13. \A c \in Calls : new.calls[c] # "waiting"
    BY <1>3 DEF Woken
  <1> QED BY <1>1, <1>3, <1>7, <1>11, <1>12, <1>13 DEF TabInv

\* The answer to a call is handled: the call ends, or waits for the refresh.
LEMMA CallKeepsTab ==
    ASSUME AuthAssumption, Typed, NEW t \in Tabs, TabInv(t), NEW r \in requests, r.tab = t,
           NEW new, NEW X, Becomes(r, new, X), CallGoesOn(r, new, X)
    PROVE  TabInv(t)'
  <1> DEFINE again == r.at = "refused" /\ tabs[t].calls[r.by] = "sent"
  <1>1. tabs'[t] = new /\ r \in Of(t) /\ r.by \in Calls /\ r.kind = "call"
    BY TypedParts DEF Becomes, Of, CallGoesOn
  <1>2. /\ new.refreshing = (tabs[t].refreshing \/ again) /\ new.status = tabs[t].status
        /\ new.calls[r.by] = IF again THEN "waiting" ELSE "idle"
        /\ \A c \in Calls : c # r.by => new.calls[c] = tabs[t].calls[c]
    <2>1. tabs[t] \in TabRecord(Len(issued)) /\ again \in BOOLEAN
      BY TypedParts
    <2>2. Len(issued) \in Nat
      <3>1. issued \in Seq(DOMAIN sessions)
        BY DEF Typed, TypeOK
      <3> QED BY <3>1
    <2>3. new = CallTab(tabs[t], r.by, again)
      BY DEF CallGoesOn
    <2> DEFINE k == Len(issued)
               tab == tabs[t]
    <2> HIDE DEF k, tab, again
    <2>4. /\ CallTab(tab, r.by, again).refreshing = (tab.refreshing \/ again)
          /\ CallTab(tab, r.by, again).status = tab.status
          /\ CallTab(tab, r.by, again).calls[r.by] = IF again THEN "waiting" ELSE "idle"
          /\ \A d \in Calls : d # r.by => CallTab(tab, r.by, again).calls[d] = tab.calls[d]
      BY <1>1, <2>1, <2>2, CallTabs DEF k, tab
    <2> QED BY <2>3, <2>4 DEF tab
  <1>3. \A p, o \in Of(t) : SameSender(p, o) => p = o
    BY DEF TabInv
  <1>4. /\ \A p \in Of(t) : p.kind = "call" => tabs[t].calls[p.by] \in {"sent", "retried"}
        /\ \A p \in Of(t) : p.by = "bootstrap" => tabs[t].status = "loading"
        /\ \A p \in Of(t) : p.kind = "refresh" /\ p.by \in Calls => tabs[t].refreshing
        /\ tabs[t].status \in {"idle", "loading"} => \A p \in Of(t) : p.by = "bootstrap"
        /\ tabs[t].refreshing <=> \E c \in Calls : tabs[t].calls[c] = "waiting"
    BY DEF TabInv
  <1>5. tabs[t].status \notin {"idle", "loading"} /\ \A p \in Of(t) : p.by # "bootstrap"
    <2>1. r.by # "bootstrap"
      BY <1>1 DEF AuthAssumption
    <2> QED BY <1>1, <1>4, <2>1
  <1>6. \A p \in Of(t) : p.kind = "call" /\ p.by = r.by => p = r
    BY <1>1, <1>3 DEF SameSender
  <1>7. \A p \in Of(t) : /\ p.kind = "call" => p.by \in Calls
                         /\ p.kind = "refresh" => p.by \in Calls
    <2>1. \A p \in Of(t) : RequestOK(p)
      BY DEF Typed, Of
    <2>2. \A p \in Of(t) : p.by \in Calls \cup {"bootstrap", "form", "menu"}
      BY <2>1 DEF RequestOK, Requested
    <2> QED BY <1>5, <2>1, <2>2 DEF RequestOK
  <1>8. \A p \in X : /\ p.tab = t /\ p.kind = "refresh" /\ p.by = r.by
                     /\ again /\ ~tabs[t].refreshing
    BY DEF CallGoesOn, Request
  <1>9. \A p, o \in X : p = o
    BY DEF CallGoesOn
  <1>10. \A p : p \in Of(t)' <=> (p \in Of(t) /\ p # r) \/ p \in X
    BY <1>8 DEF Becomes, Of
  <1>11. ASSUME NEW p \in Of(t)'
         PROVE  /\ p.by # "bootstrap"
                /\ p.kind = "call" => new.calls[p.by] \in {"sent", "retried"}
                /\ p.kind = "refresh" /\ p.by \in Calls => new.refreshing
    <2>1. CASE p \in Of(t) /\ p # r
      BY <1>2, <1>4, <1>5, <1>6, <1>7, <2>1
    <2>2. CASE p \in X
      BY <1>1, <1>2, <1>8, <2>2 DEF AuthAssumption
    <2> QED BY <1>10, <2>1, <2>2
  <1>12. ASSUME NEW p \in Of(t)', NEW o \in Of(t)', SameSender(p, o)
         PROVE  p = o
    <2>1. CASE p \in X /\ o \in X
      BY <1>9, <2>1
    <2>2. CASE p \notin X /\ o \notin X
      BY <1>3, <1>10, <1>12, <2>2
    <2>3. \A a \in X : \A b \in Of(t) : ~SameSender(a, b) /\ ~SameSender(b, a)
      <3>1. \A a \in X : \A b \in Of(t) : a.kind = "refresh" /\ b.kind # "refresh"
        BY <1>4, <1>7, <1>8
      <3>2. \A a \in X : a.by # "bootstrap"
        BY <1>1, <1>8 DEF AuthAssumption
      <3> QED BY <3>1, <3>2 DEF SameSender
    <2> QED BY <1>10, <1>12, <2>1, <2>2, <2>3
  <1>13. new.refreshing <=> \E c \in Calls : new.calls[c] = "waiting"
    <2>1. CASE again
      BY <1>1, <1>2, <2>1
    <2>2. CASE ~again
      <3>1. tabs[t].calls[r.by] # "waiting" /\ new.calls[r.by] # "waiting"
        BY <1>1, <1>2, <1>4, <2>2
      <3> QED BY <1>2, <1>4, <2>2, <3>1
    <2> QED BY <2>1, <2>2
  <1> QED BY <1>1, <1>2, <1>5, <1>11, <1>12, <1>13 DEF TabInv

\* The parts of the invariant, for all tabs and for all logins.
TabsInv == \A t \in Tabs : TabInv(t)

\* The requests of a tab are its own business.
LEMMA TabsInvKept ==
    ASSUME AuthAssumption, Typed, TabsInv, [Next]_vars
    PROVE  TabsInv'
  <1> SUFFICES ASSUME NEW t \in Tabs PROVE TabInv(t)'
    BY DEF TabsInv
  <1>0. TabInv(t) /\ tabs \in [Tabs -> TabRecord(Len(issued))] /\ NoTab # t
    BY TypedParts DEF TabsInv, AuthAssumption, NoTab
  <1>1. CASE UNCHANGED <<tabs, requests>>
    BY <1>0, <1>1, OtherTab DEF Of
  <1>2. ASSUME NEW u \in Tabs, NEW by, NEW kind, NEW user, SendsOne(u, by, kind, user)
        PROVE  TabInv(t)'
    <2>1. CASE u = t
      BY <1>0, <1>2, <2>1, SendingKeepsTab
    <2>2. CASE u # t
      <3>1. tabs'[t] = tabs[t]
        BY <1>0, <1>2, <2>2, SendingTab
      <3>2. Of(t)' = Of(t)
        BY <1>2, <2>2 DEF SendsOne, Send, Request, Of
      <3> QED BY <1>0, <3>1, <3>2, OtherTab
    <2> QED BY <2>1, <2>2
  <1>3. ASSUME NEW u \in Tabs, Reload(u)
        PROVE  TabInv(t)'
    <2>0. \A r \in requests : r \in Requested
      BY DEF Typed, RequestOK
    <2>1. \A r \in requests : [r EXCEPT !.tab = NoTab].tab = NoTab
      BY <2>0 DEF Requested
    <2>2. Of(t)' = IF u = t THEN {} ELSE Of(t)
      BY <1>0, <1>3, <2>1 DEF Reload, Of
    <2>3. CASE u = t
      <3>1. tabs'[t] = NewTab
        BY <1>0, <1>3, <2>3 DEF Reload
      <3> QED BY <2>2, <2>3, <3>1 DEF TabInv, NewTab
    <2>4. CASE u # t
      <3>1. tabs'[t] = tabs[t]
        BY <1>0, <1>3, <2>4 DEF Reload
      <3> QED BY <1>0, <2>2, <2>4, <3>1, OtherTab
    <2> QED BY <2>3, <2>4
  <1>4. ASSUME NEW r \in requests, Serve(r)
        PROVE  TabInv(t)'
    BY <1>0, <1>4, ServeStep, DatabaseStep, ExchangeKeepsTab
  <1>5. ASSUME NEW r \in requests, Lose(r)
        PROVE  TabInv(t)'
    BY <1>0, <1>5, LoseStep, ExchangeKeepsTab
  <1>6. ASSUME NEW r \in requests, Drop(r)
        PROVE  TabInv(t)'
    <2>1. tabs' = tabs /\ Of(t)' = Of(t)
      BY <1>0, <1>6 DEF Drop, Of
    <2> QED BY <1>0, <2>1, OtherTab
  <1>7. ASSUME NEW r \in requests, Deliver(r)
        PROVE  TabInv(t)'
    <2>1. CASE r.tab = NoTab /\ requests' = requests \ {r} /\ tabs' = tabs
      <3>1. Of(t)' = Of(t)
        BY <1>0, <2>1 DEF Of
      <3> QED BY <1>0, <2>1, <3>1, OtherTab
    <2>2. ASSUME r.tab \in Tabs, NEW new, NEW X, Becomes(r, new, X),
                 \/ BootstrapGoesOn(r, new, X)
                 \/ /\ X = {} /\ SameCalls(r, new) /\ r.by \in {"form", "menu"}
                    /\ new.status \in {tabs[r.tab].status, "authenticated", "anonymous"}
                 \/ RefreshGoesOn(r, new, X)
                 \/ CallGoesOn(r, new, X)
          PROVE  TabInv(t)'
      <3>1. CASE r.tab = t
        BY <1>0, <2>2, <3>1, ThunksKeepTab, RefreshKeepsTab, CallKeepsTab
      <3>2. CASE r.tab # t
        <4>1. tabs'[t] = tabs[t]
          BY <1>0, <2>2, <3>2 DEF Becomes
        <4>2. \A p \in X : p.tab = r.tab
          BY <2>2 DEF BootstrapGoesOn, RefreshGoesOn, CallGoesOn, Retries, Request
        <4>3. Of(t)' = Of(t)
          BY <2>2, <3>2, <4>2 DEF Becomes, Of
        <4> QED BY <1>0, <4>1, <4>3, OtherTab
      <3> QED BY <3>1, <3>2
    <2> QED BY <1>7, <2>1, <2>2, DeliverStep
  <1> QED BY <1>1, <1>2, <1>3, <1>4, <1>5, <1>6, <1>7, StepCases
          DEF vars, TokenExpires, SessionExpires

\* A set whose members are all the same has one member at most.
LEMMA AtMostOne ==
    ASSUME NEW S, \A x, y \in S : x = y
    PROVE  Cardinality(S) <= 1
  <1>1. CASE S = {}
    BY <1>1, FS_EmptySet
  <1>2. ASSUME NEW x \in S
        PROVE  Cardinality(S) <= 1
    <2>1. S = {x}
      BY <1>2
    <2> QED BY <2>1, FS_Singleton
  <1> QED BY <1>1, <1>2

\* The calls of a tab share one refresh, and none is sent while the tab is being
\* bootstrapped: a tab never consumes the rotating cookie twice over.
THEOREM OneRefreshPerTabAlways == Spec => []OneRefreshPerTab
  <1>1. Init => Typed /\ TabsInv
    <2>1. ASSUME Init PROVE TabsInv
      BY <2>1 DEF Init, TabsInv, TabInv, NewTab, Of
    <2> QED BY <2>1, TypedFirst, AuthAssumption
  <1>2. Typed /\ TabsInv /\ [Next]_vars => (Typed /\ TabsInv)'
    BY TypedKept, TabsInvKept, AuthAssumption
  <1>3. Typed /\ TabsInv => OneRefreshPerTab
    <2> SUFFICES ASSUME Typed, TabsInv, NEW t \in Tabs
                 PROVE  /\ Cardinality({r \in Of(t) : r.kind = "refresh"}) <= 1
                        /\ tabs[t].refreshing <=> \E c \in Calls : tabs[t].calls[c] = "waiting"
      BY DEF OneRefreshPerTab
    <2>1. TabInv(t)
      BY DEF TabsInv
    <2>2. \A p, o \in {r \in Of(t) : r.kind = "refresh"} : p = o
      BY <2>1 DEF TabInv, SameSender
    <2> QED BY <2>1, <2>2, AtMostOne DEF TabInv
  <1> QED BY <1>1, <1>2, <1>3, PTL DEF Spec

-----------------------------------------------------------------------------
(* The sessions and the tokens of the logins that are under way.            *)

LoginsInv == \A r \in requests : LoginInv(r)

\* What the invariant of the logins asks of a request.
Refreshing(r) == r.kind = "refresh"
\* A login that has its session and no tokens yet.
Creating(r) == r.at = "created"

\* The invariant of logins, part by part.
LEMMA LoginsParts ==
    LoginsInv <=>
      /\ \A r \in requests : Creating(r) => \A n \in DOMAIN issued : issued[n] # r.row.sid
      /\ \A p, r \in requests : Creating(p) /\ Creating(r) /\ p.row.sid = r.row.sid => p = r
      /\ \A r \in requests : Undelivered(r) =>
            /\ \A n \in DOMAIN issued : issued[n] = issued[r.token] => n = r.token
            /\ cookie # r.token
      /\ \A p, r \in requests :
            Undelivered(r) /\ (Refreshing(p) \/ Undelivered(p)) /\ p.token = r.token => p = r
  BY DEF LoginsInv, LoginInv, Refreshing, Creating

\* The facts about a request that its type gives.
LEMMA RequestFacts ==
    ASSUME Typed, NEW r \in requests
    PROVE  /\ r.token \in 0 .. Len(issued) /\ Len(issued) \in Nat
           /\ Creating(r) => r.kind = "login" /\ r.row.sid \in DOMAIN sessions
           /\ Undelivered(r) => r.token \in DOMAIN issued /\ ~Refreshing(r) /\ ~Creating(r)
           /\ DOMAIN issued = 1 .. Len(issued)
           /\ \A n \in DOMAIN issued : issued[n] \in DOMAIN sessions
  <1>1. RequestOK(r) /\ issued \in Seq(DOMAIN sessions)
    BY DEF Typed, TypeOK
  <1>2. Len(issued) \in Nat /\ DOMAIN issued = 1 .. Len(issued)
         /\ \A n \in DOMAIN issued : issued[n] \in DOMAIN sessions
    BY <1>1
  <1>3. r.token \in Nat /\ r.token <= Len(issued)
    BY <1>1 DEF RequestOK, Requested
  <1>4. Undelivered(r) => r.token # 0
    BY <1>1 DEF RequestOK, Undelivered, NoToken
  <1>5. r.token \in 0 .. Len(issued) /\ (Undelivered(r) => r.token \in DOMAIN issued)
    BY <1>2, <1>3, <1>4
  <1> QED BY <1>1, <1>2, <1>5 DEF RequestOK, Creating, Undelivered, Refreshing

\* No new logins, no new tokens: what refreshes and answers there are held their
\* tokens before.
LEMMA LoginsStay ==
    ASSUME LoginsInv, issued' = issued,
           \A p \in requests' : Creating(p) \/ Undelivered(p) => p \in requests,
           \A p \in requests' : Refreshing(p) =>
              \/ p.token = cookie
              \/ \E o \in requests : Refreshing(o) /\ o.token = p.token,
           \/ cookie' = cookie \/ cookie' = NoToken
           \/ \E o \in requests \ requests' : /\ Refreshing(o) \/ Undelivered(o)
                                              /\ cookie' = o.token,
           \A r \in requests : Undelivered(r) => r.token # NoToken /\ ~Refreshing(r)
    PROVE  LoginsInv'
  <1>1. \A r \in requests : Creating(r) => \A n \in DOMAIN issued : issued[n] # r.row.sid
    BY LoginsParts
  <1>2. \A p, r \in requests : Creating(p) /\ Creating(r) /\ p.row.sid = r.row.sid => p = r
    BY LoginsParts
  <1>3. \A r \in requests : Undelivered(r) =>
            /\ \A n \in DOMAIN issued : issued[n] = issued[r.token] => n = r.token
            /\ cookie # r.token
    BY LoginsParts
  <1>4. \A p, r \in requests :
            Undelivered(r) /\ (Refreshing(p) \/ Undelivered(p)) /\ p.token = r.token => p = r
    BY LoginsParts
  <1>5. ASSUME NEW r \in requests', Undelivered(r)
        PROVE  /\ r \in requests /\ cookie' # r.token
               /\ \A p \in requests' :
                    (Refreshing(p) \/ Undelivered(p)) /\ p.token = r.token => p = r
    <2>1. r \in requests /\ r.token # NoToken /\ ~Refreshing(r) /\ cookie # r.token
      BY <1>3, <1>5
    <2>2. \A o \in requests : (Refreshing(o) \/ Undelivered(o)) /\ o.token = r.token => o = r
      BY <1>4, <1>5, <2>1
    <2>3. cookie' # r.token
      BY <1>5, <2>1, <2>2
    <2>4. ASSUME NEW p \in requests', Refreshing(p) \/ Undelivered(p), p.token = r.token
          PROVE  p = r
      <3>1. CASE Undelivered(p)
        BY <2>2, <2>4, <3>1
      <3>2. CASE Refreshing(p)
        BY <2>1, <2>2, <2>4, <3>2
      <3> QED BY <2>4, <3>1, <3>2
    <2> QED BY <2>1, <2>3, <2>4
  <1>6. /\ \A r \in requests' : Creating(r) => \A n \in DOMAIN issued' : issued'[n] # r.row.sid
        /\ \A p, r \in requests' : Creating(p) /\ Creating(r) /\ p.row.sid = r.row.sid => p = r
    BY <1>1, <1>2
  <1>7. \A r \in requests' : Undelivered(r) =>
            /\ \A n \in DOMAIN issued' : issued'[n] = issued'[r.token] => n = r.token
            /\ cookie' # r.token
    BY <1>3, <1>5
  <1>8. \A p, r \in requests' :
            Undelivered(r) /\ (Refreshing(p) \/ Undelivered(p)) /\ p.token = r.token => p = r
    BY <1>5
  <1> QED BY <1>6, <1>7, <1>8 DEF LoginsInv, LoginInv, Refreshing, Creating

\* A session is created for a login.
LEMMA OpensKeepsLogins ==
    ASSUME Typed, LoginsInv, NEW r, NEW q, Exchanges(r, q), Opens(r, q)
    PROVE  LoginsInv'
  <1>1. /\ requests' = (requests \ {r}) \cup {q} /\ cookie' = cookie /\ issued' = issued
        /\ q.row.sid \notin DOMAIN sessions /\ q.at = "created" /\ q.kind = "login"
    BY DEF Exchanges, Opens
  <1>2. Creating(q) /\ ~Undelivered(q) /\ ~Refreshing(q)
    BY <1>1 DEF Creating, Undelivered, Refreshing
  <1>3. /\ \A p \in requests : Creating(p) => p.row.sid # q.row.sid
        /\ \A n \in DOMAIN issued : issued[n] # q.row.sid
    <2>1. \A n \in DOMAIN issued : issued[n] \in DOMAIN sessions
      BY DEF Typed, TypeOK
    <2> QED BY <1>1, <2>1, RequestFacts
  <1>4. \A p : p \in requests' <=> (p \in requests /\ p # r) \/ p = q
    BY <1>1
  <1>5. /\ \A p \in requests' : Creating(p) => \A n \in DOMAIN issued' : issued'[n] # p.row.sid
        /\ \A p, o \in requests' : Creating(p) /\ Creating(o) /\ p.row.sid = o.row.sid => p = o
    BY <1>1, <1>3, <1>4, LoginsParts
  <1>6. \A p \in requests' : Undelivered(p) =>
            /\ \A n \in DOMAIN issued' : issued'[n] = issued'[p.token] => n = p.token
            /\ cookie' # p.token
    BY <1>1, <1>2, <1>4, LoginsParts
  <1>7. \A p, o \in requests' :
            Undelivered(o) /\ (Refreshing(p) \/ Undelivered(p)) /\ p.token = o.token => p = o
    BY <1>2, <1>4, LoginsParts
  <1> QED BY <1>5, <1>6, <1>7 DEF LoginsInv, LoginInv, Refreshing, Creating

\* Tokens are issued to a login, for its own session, or to a refresh, for the
\* session of its token.
LEMMA StoresKeepsLogins ==
    ASSUME Typed, Typed', LoginsInv, Grows, NEW r, NEW q, NEW sid,
           Exchanges(r, q), Stores(r, q, sid)
    PROVE  LoginsInv'
  <1> DEFINE k == Len(issued')
             Old == DOMAIN issued
  <1>1. /\ requests' = (requests \ {r}) \cup {q} /\ cookie' = cookie /\ r \in requests
        /\ q.at = "ok" /\ q.kind = r.kind /\ q.token = k
    BY DEF Exchanges, Stores
  <1>2. /\ k \notin Old /\ cookie # k /\ DOMAIN issued' = Old \cup {k} /\ issued'[k] = sid
        /\ \A n \in Old : issued'[n] = issued[n]
    <2>1. issued \in Seq(DOMAIN sessions) /\ cookie \in 0 .. Len(issued)
      BY DEF Typed, TypeOK
    <2>2. Len(issued) \in Nat /\ DOMAIN issued = 1 .. Len(issued)
      BY <2>1
    <2>3. k = Len(issued) + 1 /\ issued'[k] = sid
      BY DEF Stores
    <2>4. DOMAIN issued' = 1 .. k
      <3>1. issued' \in Seq(DOMAIN sessions')
        BY DEF Typed, TypeOK
      <3> QED BY <3>1
    <2>5. \A n \in DOMAIN issued : issued'[n] = issued[n]
      BY DEF Grows
    <2> QED BY <2>1, <2>2, <2>3, <2>4, <2>5
  <1>3. /\ \A p \in requests : p.token # k
        /\ \A p \in requests : Undelivered(p) => p.token \in Old
    <2>1. \A p \in requests : p.token \in 0 .. Len(issued) /\ Len(issued) \in Nat
      BY RequestFacts
    <2>2. k = Len(issued) + 1
      BY DEF Stores
    <2>3. \A p \in requests : p.token # k
      BY <2>1, <2>2
    <2> QED BY <2>3, RequestFacts
  <1>4. \/ Creating(r) /\ sid = r.row.sid /\ r.kind = "login"
        \/ Refreshing(r) /\ r.token \in Old /\ sid = issued[r.token]
    <2>1. CASE r.at = "read" /\ r.kind = "refresh" /\ sid = issued[r.token]
      <3>1. r.token # NoToken
        BY <1>1, <2>1 DEF Typed, RequestOK
      <3>2. r.token \in 1 .. Len(issued)
        BY <1>1, <3>1, RequestFacts DEF NoToken
      <3> QED BY <1>1, <2>1, <3>2, RequestFacts DEF Refreshing
    <2> QED BY <2>1 DEF Stores, Creating
  <1> HIDE DEF k, Old
  <1>5. /\ \A p \in requests : Creating(p) => \A n \in Old : issued[n] # p.row.sid
        /\ \A p, o \in requests : Creating(p) /\ Creating(o) /\ p.row.sid = o.row.sid => p = o
        /\ \A p \in requests : Undelivered(p) =>
              /\ \A n \in Old : issued[n] = issued[p.token] => n = p.token
              /\ cookie # p.token
        /\ \A p, o \in requests :
              Undelivered(o) /\ (Refreshing(p) \/ Undelivered(p)) /\ p.token = o.token => p = o
    BY LoginsParts DEF Old
  <1>6. \A p : p \in requests' <=> (p \in requests /\ p # r) \/ p = q
    BY <1>1
  <1>7. ~Creating(q) /\ (Undelivered(q) => Creating(r) /\ sid = r.row.sid)
    BY <1>1, <1>4 DEF Creating, Undelivered, Refreshing
  <1>8. ASSUME NEW p \in requests, p # r, Creating(p)
        PROVE  sid # p.row.sid
    BY <1>1, <1>4, <1>5, <1>8
  <1>9. ASSUME NEW p \in requests, p # r, Undelivered(p)
        PROVE  sid # issued[p.token]
    BY <1>1, <1>3, <1>4, <1>5, <1>9
  <1>10. \A p \in requests' : Creating(p) => \A n \in DOMAIN issued' : issued'[n] # p.row.sid
    BY <1>2, <1>5, <1>6, <1>7, <1>8
  <1>11. \A p, o \in requests' : Creating(p) /\ Creating(o) /\ p.row.sid = o.row.sid => p = o
    BY <1>5, <1>6, <1>7
  <1>12. ASSUME NEW p \in requests', Undelivered(p)
         PROVE  /\ \A n \in DOMAIN issued' : issued'[n] = issued'[p.token] => n = p.token
                /\ cookie' # p.token
    <2>1. CASE p = q
      <3>1. \A n \in Old : issued[n] # sid
        BY <1>1, <1>4, <1>5, <1>7, <1>12, <2>1
      <3> QED BY <1>1, <1>2, <2>1, <3>1
    <2>2. CASE p \in requests /\ p # r
      <3>1. p.token \in Old /\ sid # issued[p.token]
        BY <1>3, <1>9, <1>12, <2>2
      <3> QED BY <1>1, <1>2, <1>5, <1>12, <2>2, <3>1
    <2> QED BY <1>6, <2>1, <2>2
  <1>13. ASSUME NEW p \in requests', NEW o \in requests', Undelivered(o),
                Refreshing(p) \/ Undelivered(p), p.token = o.token
         PROVE  p = o
    BY <1>1, <1>3, <1>5, <1>6, <1>13
  <1> QED BY <1>10, <1>11, <1>12, <1>13 DEF LoginsInv, LoginInv, Refreshing, Creating

\* Every step keeps the sessions and the tokens of the logins apart.
LEMMA LoginsInvKept ==
    ASSUME AuthAssumption, Typed, LoginsInv, [Next]_vars
    PROVE  LoginsInv'
  <1>0. Typed' /\ Grows /\ DatabaseOK'
    BY TypedKept, DatabaseStep
  <1>1. \A r \in requests : Undelivered(r) => r.token # NoToken /\ ~Refreshing(r)
    BY DEF Typed, RequestOK, Undelivered, Refreshing
  <1>2. CASE UNCHANGED <<requests, cookie, issued>>
    BY <1>1, <1>2, LoginsStay
  <1>3. ASSUME NEW t \in Tabs, NEW by, NEW kind, NEW user, SendsOne(t, by, kind, user)
        PROVE  LoginsInv'
    <2>1. PICK n : /\ requests' = requests \cup {n} /\ n.at = "sent"
                   /\ n.kind = "refresh" => n.token = cookie
      <3>1. PICK k : requests' = requests \cup {Request(t, by, kind, k, user)}
                     /\ (kind = "refresh" => k = cookie)
        BY <1>3 DEF SendsOne, Send
      <3>2. PICK n : n = Request(t, by, kind, k, user)
        OBVIOUS
      <3>3. n.at = "sent" /\ n.kind = kind /\ n.token = k
        BY <3>2 DEF Request
      <3> QED BY <3>1, <3>2, <3>3
    <2>2. cookie' = cookie /\ issued' = issued
      BY <1>3 DEF SendsOne, database
    <2>3. ~Creating(n) /\ ~Undelivered(n) /\ (Refreshing(n) => n.token = cookie)
      BY <2>1 DEF Creating, Undelivered, Refreshing
    <2> QED BY <1>1, <2>1, <2>2, <2>3, LoginsStay
  <1>4. ASSUME NEW t \in Tabs, Reload(t)
        PROVE  LoginsInv'
    <2> DEFINE gone(r) == [r EXCEPT !.tab = NoTab]
    <2>1. requests' = {r \in requests : r.tab # t} \cup {gone(r) : r \in Of(t)}
          /\ cookie' = cookie /\ issued' = issued
      BY <1>4 DEF Reload, database
    <2>2. ASSUME NEW r \in requests
          PROVE  /\ gone(r).row = r.row /\ gone(r).token = r.token
                 /\ Creating(gone(r)) <=> Creating(r)
                 /\ Undelivered(gone(r)) <=> Undelivered(r)
                 /\ Refreshing(gone(r)) <=> Refreshing(r)
      <3>1. r \in Requested
        BY DEF Typed, RequestOK
      <3>2. /\ gone(r).row = r.row /\ gone(r).token = r.token /\ gone(r).at = r.at
            /\ gone(r).kind = r.kind
        BY <3>1 DEF Requested
      <3> HIDE DEF gone
      <3> QED BY <3>2 DEF Creating, Undelivered, Refreshing
    <2> HIDE DEF gone
    <2>3. \A p \in requests' : \E r \in requests :
             (p = r /\ r.tab # t) \/ (p = gone(r) /\ r.tab = t)
      BY <2>1 DEF Of
    <2>4. \A p \in requests' : Creating(p) => \A n \in DOMAIN issued' : issued'[n] # p.row.sid
      BY <2>1, <2>2, <2>3, LoginsParts
    <2>5. ASSUME NEW p \in requests', NEW o \in requests',
                 Creating(p), Creating(o), p.row.sid = o.row.sid
          PROVE  p = o
      BY <2>2, <2>3, <2>5, LoginsParts
    <2>6. \A p \in requests' : Undelivered(p) =>
            /\ \A n \in DOMAIN issued' : issued'[n] = issued'[p.token] => n = p.token
            /\ cookie' # p.token
      BY <2>1, <2>2, <2>3, LoginsParts
    <2>7. ASSUME NEW p \in requests', NEW o \in requests', Undelivered(o),
                 Refreshing(p) \/ Undelivered(p), p.token = o.token
          PROVE  p = o
      BY <2>2, <2>3, <2>7, LoginsParts
    <2> QED BY <2>4, <2>5, <2>6, <2>7 DEF LoginsInv, LoginInv, Refreshing, Creating
  <1>5. ASSUME NEW r \in requests, NEW q, Exchanges(r, q), issued' = issued,
               ~Creating(q), ~Undelivered(q), Refreshing(q) => q.token = r.token
        PROVE  LoginsInv'
    <2>1. /\ requests' = (requests \ {r}) \cup {q} /\ cookie' = cookie
          /\ Refreshing(q) <=> Refreshing(r)
      BY <1>5 DEF Exchanges, Refreshing
    <2> QED BY <1>1, <1>5, <2>1, LoginsStay
  <1>6. ASSUME NEW r \in requests, Serve(r)
        PROVE  LoginsInv'
    <2>1. PICK q : /\ Exchanges(r, q)
                   /\ \/ Plain(r, q) \/ Looks(r, q) \/ Opens(r, q) \/ Refuses(r, q)
                      \/ \E sid : Stores(r, q, sid)
      BY <1>0, <1>6, ServeStep
    <2>2. q.kind = r.kind
      BY <2>1 DEF Exchanges
    <2>3. CASE Plain(r, q)
      BY <1>5, <2>1, <2>2, <2>3 DEF Plain, Creating, Undelivered, Refreshing
    <2>4. CASE Looks(r, q)
      BY <1>5, <2>1, <2>4 DEF Looks, Creating, Undelivered, Refreshing, database
    <2>5. CASE Refuses(r, q)
      BY <1>5, <2>1, <2>5 DEF Refuses, Creating, Undelivered, Refreshing, database
    <2>6. CASE Opens(r, q)
      BY <2>1, <2>6, OpensKeepsLogins
    <2>7. ASSUME NEW sid, Stores(r, q, sid)
          PROVE  LoginsInv'
      BY <1>0, <2>1, <2>7, StoresKeepsLogins
    <2> QED BY <2>1, <2>3, <2>4, <2>5, <2>6, <2>7
  <1>7. ASSUME NEW r \in requests, Lose(r)
        PROVE  LoginsInv'
    <2>1. PICK q : Exchanges(r, q) /\ q.at = "lost" /\ q.token = r.token
      BY <1>7, LoseStep
    <2>2. issued' = issued
      BY <1>7 DEF Lose, database
    <2> QED BY <1>5, <2>1, <2>2 DEF Creating, Undelivered
  <1>8. ASSUME NEW r \in requests, Drop(r)
        PROVE  LoginsInv'
    BY <1>1, <1>8, LoginsStay DEF Drop, database
  <1>9. ASSUME NEW r \in requests, Deliver(r)
        PROVE  LoginsInv'
    <2>1. issued' = issued /\ cookie' = CookieAfter(r)
      BY <1>9 DEF Deliver, database
    <2>2. PICK X : /\ requests' = (requests \ {r}) \cup X
                   /\ \A p \in X : p.at = "sent" /\ (p.kind = "refresh" => p.token = cookie)
      <3>1. CASE requests' = requests \ {r}
        <4> DEFINE X == {}
        <4>1. \A p \in X : p.at = "sent" /\ (p.kind = "refresh" => p.token = cookie)
          OBVIOUS
        <4>2. requests' = (requests \ {r}) \cup X
          BY <3>1
        <4> HIDE DEF X
        <4> QED BY <4>1, <4>2
      <3>2. ASSUME NEW new, NEW X, Becomes(r, new, X),
                   \/ BootstrapGoesOn(r, new, X) \/ X = {}
                   \/ RefreshGoesOn(r, new, X) \/ CallGoesOn(r, new, X)
            PROVE  /\ requests' = (requests \ {r}) \cup X
                   /\ \A p \in X : p.at = "sent" /\ (p.kind = "refresh" => p.token = cookie)
        BY <3>2 DEF Becomes, BootstrapGoesOn, RefreshGoesOn, CallGoesOn, Retries, Request
      <3> QED BY <1>9, <3>1, <3>2, DeliverStep
    <2>3. \A p \in X : ~Creating(p) /\ ~Undelivered(p) /\ (Refreshing(p) => p.token = cookie)
      BY <2>2 DEF Creating, Undelivered, Refreshing
    <2>4. r \notin requests'
      <3>1. r.at # "sent"
        BY <1>9 DEF Deliver, Answered
      <3> QED BY <2>2, <3>1
    <2>5. \/ cookie' = cookie \/ cookie' = NoToken
          \/ cookie' = r.token /\ (Refreshing(r) \/ Undelivered(r))
      BY <2>1 DEF CookieAfter, Refreshing, Undelivered
    <2>6. \/ cookie' = cookie \/ cookie' = NoToken
          \/ \E o \in requests \ requests' : /\ Refreshing(o) \/ Undelivered(o)
                                             /\ cookie' = o.token
      BY <2>4, <2>5
    <2>7. \A p \in requests' : p \in requests \/ p \in X
      BY <2>2
    <2>8. /\ \A p \in requests' : Creating(p) \/ Undelivered(p) => p \in requests
          /\ \A p \in requests' : Refreshing(p) =>
                \/ p.token = cookie
                \/ \E o \in requests : Refreshing(o) /\ o.token = p.token
      BY <2>3, <2>7
    <2> QED BY <1>1, <2>1, <2>6, <2>8, LoginsStay
  <1>10. UNCHANGED vars \/ TokenExpires \/ SessionExpires =>
            UNCHANGED <<requests, cookie, issued>>
    BY DEF vars, TokenExpires, SessionExpires, database
  <1> QED BY <1>2, <1>3, <1>4, <1>6, <1>7, <1>8, <1>9, <1>10, StepCases

-----------------------------------------------------------------------------
(* Rotation.                                                                *)

\* A token stays live while the hash of its session stays.
LEMMA StillLive ==
    ASSUME Typed, Grows, NEW k \in 0 .. Len(issued)
    PROVE  /\ Spent(k) => Spent(k)'
           /\ Live(k) /\ (k = NoToken \/ sessions'[issued[k]].hash = sessions[issued[k]].hash)
                => Live(k)'
  <1>1. issued \in Seq(DOMAIN sessions)
    BY DEF Typed, TypeOK
  <1>2. CASE k = NoToken
    BY <1>2 DEF Spent, Live
  <1>3. CASE k # NoToken
    <2>1. k \in DOMAIN issued /\ issued[k] \in DOMAIN sessions
      <3>1. Len(issued) \in Nat /\ DOMAIN issued = 1 .. Len(issued)
        BY <1>1
      <3>2. k \in DOMAIN issued
        BY <1>3, <3>1 DEF NoToken
      <3> QED BY <1>1, <3>2
    <2>2. issued'[k] = issued[k]
      BY <2>1 DEF Grows
    <2>3. Ended(issued[k]) => Ended(issued[k])'
      <3> DEFINE s == issued[k]
      <3>1. /\ sessions[s].revoked => sessions'[s].revoked
            /\ sessions[s].expired => sessions'[s].expired
        BY <2>1 DEF Grows
      <3> QED BY <2>2, <3>1 DEF Ended
    <2> QED BY <1>3, <2>2, <2>3 DEF Spent, Live
  <1> QED BY <1>2, <1>3

\* Rotation goes on as it was when no token is issued and no refresh is sent:
\* refreshes may end, logins be answered, sessions end.
LEMMA RefreshesStay ==
    ASSUME Typed, Grows, RefreshInv,
           \A p \in requests' : Refreshing(p) \/ Undelivered(p) => p \in requests,
           \A n \in DOMAIN issued : sessions'[issued[n]].hash = sessions[issued[n]].hash,
           \/ cookie' = cookie /\ \A p \in requests : Refreshing(p) => p \in requests'
           \/ cookie' = cookie /\ \A p \in requests : Refreshing(p) => p.at # "ok"
           \/ cookie' = NoToken
           \/ \E o \in requests : /\ (Refreshing(o) /\ o.at = "ok") \/ Undelivered(o)
                                  /\ cookie' = o.token
    PROVE  RefreshInv'
  <1>1. /\ \A p \in requests : Refreshing(p) <=> p \in Refreshes
        /\ \A p : p \in Refreshes' <=> p \in requests' /\ Refreshing(p)
        /\ \A p \in Refreshes' : p \in Refreshes
        /\ \A p \in Refreshes : p \in requests
    BY DEF Refreshing, Refreshes
  <1>2. \A p \in requests : p.token \in 0 .. Len(issued)
    BY RequestFacts
  <1>3. issued \in Seq(DOMAIN sessions) /\ cookie \in 0 .. Len(issued)
    BY DEF Typed, TypeOK
  <1>4. ASSUME NEW k \in 0 .. Len(issued)
        PROVE  (Spent(k) => Spent(k)') /\ (Live(k) => Live(k)')
    <2>1. k = NoToken \/ sessions'[issued[k]].hash = sessions[issued[k]].hash
      <3>1. Len(issued) \in Nat /\ DOMAIN issued = 1 .. Len(issued)
        BY <1>3
      <3>2. k = NoToken \/ k \in DOMAIN issued
        BY <3>1 DEF NoToken
      <3> QED BY <3>2
    <2> QED BY <2>1, StillLive
  <1>5. ASSUME NEW r \in Refreshes'
        PROVE  /\ r.tab # NoTab
               /\ r.at = "sent" => Live(r.token)'
               /\ r.at = "read" => Spent(r.token)' \/ (Valid(r) /\ Live(r.token)')
               /\ r.at = "ok" => Live(r.token)'
               /\ r.at = "refused" => Spent(r.token)'
    <2>1. r \in Refreshes /\ r \in requests
      BY <1>1 DEF Refreshes
    <2>2. r.token \in 0 .. Len(issued)
      BY <1>2, <2>1
    <2>3. (Spent(r.token) => Spent(r.token)') /\ (Live(r.token) => Live(r.token)')
      BY <1>4, <2>2
    <2> QED BY <2>1, <2>3 DEF RefreshInv
  <1>6. ASSUME NEW r \in requests', Undelivered(r)
        PROVE  Live(r.token)'
    <2>1. r \in requests /\ Live(r.token) /\ r.token \in 0 .. Len(issued)
      BY <1>2, <1>6 DEF RefreshInv
    <2> QED BY <1>4, <2>1
  <1>7. Live(cookie)' \/ \E r \in Refreshes' : r.at = "ok"
    <2>1. ASSUME NEW k \in 0 .. Len(issued), Live(k), cookie' = k
          PROVE  Live(cookie)'
      BY <1>4, <2>1 DEF Live, Spent
    <2>2. CASE cookie' = cookie /\ Live(cookie)
      BY <1>3, <2>1, <2>2
    <2>3. CASE cookie' = cookie /\ \E r \in Refreshes : r.at = "ok" /\ r \in requests'
      BY <1>1, <2>3 DEF Refreshes
    <2>4. CASE cookie' = NoToken
      BY <2>4 DEF Live, Spent
    <2>5. CASE \E o \in requests : /\ (Refreshing(o) /\ o.at = "ok") \/ Undelivered(o)
                                   /\ cookie' = o.token
      <3>1. PICK o \in requests : /\ (Refreshing(o) /\ o.at = "ok") \/ Undelivered(o)
                                  /\ cookie' = o.token
        BY <2>5
      <3>2. Live(o.token)
        BY <1>1, <3>1 DEF RefreshInv
      <3> QED BY <1>2, <2>1, <3>1, <3>2
    <2>6. Live(cookie) \/ \E r \in Refreshes : r.at = "ok"
      BY DEF RefreshInv
    <2> QED BY <1>1, <2>2, <2>3, <2>4, <2>5, <2>6
  <1>8. \A q, r \in Refreshes' : q = r
    BY <1>1 DEF RefreshInv
  <1> QED BY <1>5, <1>6, <1>7, <1>8 DEF RefreshInv

\* A login or a refresh that gets its tokens: they are live, and no other token
\* that matters is of their session.
LEMMA StoresKeepsRefresh ==
    ASSUME Typed, Grows, LoginsInv, RefreshInv, NEW r, NEW q, NEW sid,
           Exchanges(r, q), Stores(r, q, sid)
    PROVE  RefreshInv'
  <1>1. /\ requests' = (requests \ {r}) \cup {q} /\ cookie' = cookie /\ r \in requests
        /\ q.at = "ok" /\ q.kind = r.kind /\ q.tab = r.tab /\ r.at # "ok"
        /\ Refreshing(q) <=> Refreshing(r)
    BY DEF Exchanges, Stores, Refreshing
  <1>2. /\ \A p \in requests : p.token \in 0 .. Len(issued)
        /\ cookie \in 0 .. Len(issued)
    BY RequestFacts DEF Typed, TypeOK
  <1>3. Live(q.token)'
    BY DEF Live, Stores
  <1>4. ASSUME NEW k \in 0 .. Len(issued), k = NoToken \/ issued[k] # sid
        PROVE  (Spent(k) => Spent(k)') /\ (Live(k) => Live(k)')
    <2>1. k = NoToken \/ (k \in DOMAIN issued /\ issued[k] \in DOMAIN sessions)
      BY <1>1, RequestFacts DEF NoToken
    <2>2. k = NoToken \/ sessions'[issued[k]].hash = sessions[issued[k]].hash
      BY <1>4, <2>1 DEF Stores
    <2> QED BY <2>2, StillLive
  <1>5. /\ \A p \in Refreshes : p \in requests
        /\ \A p \in requests : p \in Refreshes <=> Refreshing(p)
        /\ \A p : p \in Refreshes' <=> p \in requests' /\ Refreshing(p)
        /\ \A p, o \in Refreshes : p = o
    BY DEF Refreshes, Refreshing, RefreshInv
  <1>6. ASSUME ~Refreshing(r)
        PROVE  RefreshInv'
    <2>1. Creating(r) /\ sid = r.row.sid
      BY <1>6 DEF Stores, Creating, Refreshing
    <2>2. \A n \in DOMAIN issued : issued[n] # sid
      BY <1>1, <2>1, LoginsParts
    <2>3. \A k \in 0 .. Len(issued) : (Spent(k) => Spent(k)') /\ (Live(k) => Live(k)')
      <3>1. \A k \in 0 .. Len(issued) : k = NoToken \/ k \in DOMAIN issued
        BY <1>1, RequestFacts DEF NoToken
      <3> QED BY <1>4, <2>2, <3>1
    <2>4. \A p : p \in Refreshes' <=> p \in Refreshes
      BY <1>1, <1>5, <1>6
    <2>5. ASSUME NEW p \in Refreshes'
          PROVE  /\ p.tab # NoTab
                 /\ p.at = "sent" => Live(p.token)'
                 /\ p.at = "read" => Spent(p.token)' \/ (Valid(p) /\ Live(p.token)')
                 /\ p.at = "ok" => Live(p.token)'
                 /\ p.at = "refused" => Spent(p.token)'
      <3>1. p \in Refreshes /\ p.token \in 0 .. Len(issued)
        BY <1>2, <1>5, <2>4
      <3>2. (Spent(p.token) => Spent(p.token)') /\ (Live(p.token) => Live(p.token)')
        BY <2>3, <3>1
      <3> QED BY <3>1, <3>2 DEF RefreshInv
    <2>6. ASSUME NEW p \in requests', Undelivered(p)
          PROVE  Live(p.token)'
      <3>1. CASE p = q
        BY <1>3, <3>1
      <3>2. CASE p \in requests
        BY <1>2, <2>3, <2>6, <3>2 DEF RefreshInv
      <3> QED BY <1>1, <3>1, <3>2
    <2>7. Live(cookie)' \/ \E p \in Refreshes' : p.at = "ok"
      <3>1. Live(cookie) => Live(cookie)'
        <4>1. PICK k \in 0 .. Len(issued) : k = cookie
          BY <1>2
        <4>2. Live(k) => Live(k)'
          BY <2>3
        <4> QED BY <1>1, <4>1, <4>2 DEF Live, Spent
      <3> QED BY <2>4, <3>1 DEF RefreshInv
    <2> QED BY <1>5, <2>4, <2>5, <2>6, <2>7 DEF RefreshInv
  <1>7. ASSUME Refreshing(r)
        PROVE  RefreshInv'
    <2>1. sid = issued[r.token] /\ r.token \in DOMAIN issued
      <3>1. r.at = "read" /\ r.kind = "refresh" /\ sid = issued[r.token]
        BY <1>7 DEF Stores, Refreshing
      <3>2. r.token # NoToken
        BY <1>1, <3>1 DEF Typed, RequestOK
      <3> QED BY <1>1, <3>1, <3>2, RequestFacts DEF NoToken
    <2>2. \A p : p \in Refreshes' <=> p = q
      BY <1>1, <1>5, <1>7
    <2>3. ASSUME NEW p \in requests', Undelivered(p)
          PROVE  Live(p.token)'
      <3>1. p \in requests /\ p # r
        BY <1>1, <1>7, <2>3 DEF Undelivered, Refreshing
      <3>2. issued[p.token] # sid
        BY <1>1, <1>7, <2>1, <2>3, <3>1, LoginsParts
      <3> QED BY <1>2, <1>4, <2>3, <3>1, <3>2 DEF RefreshInv
    <2>4. q.tab # NoTab
      BY <1>1, <1>5, <1>7 DEF RefreshInv
    <2> QED BY <1>1, <1>3, <2>2, <2>3, <2>4 DEF RefreshInv
  <1> QED BY <1>6, <1>7

\* Every step that is not crossed by another refresh keeps rotation in order.
LEMMA RefreshInvKept ==
    ASSUME AuthAssumption, Typed, LoginsInv, crossed \/ RefreshInv, [Next]_vars, ~crossed'
    PROVE  RefreshInv'
  <1>0. Typed' /\ Grows /\ DatabaseOK'
    BY TypedKept, DatabaseStep
  <1>1. ~crossed
    BY StepCases, <1>0, ServeStep, LoseStep
       DEF vars, SendsOne, Send, Reload, Drop, TokenExpires, SessionExpires, Deliver,
           BootstrapAnswered, ThunkAnswered, RefreshAnswered, CallAnswered
  <1>2. RefreshInv
    BY <1>1
  <1>3. /\ \A p \in Refreshes : p \in requests
        /\ \A p \in requests : p \in Refreshes <=> Refreshing(p)
        /\ \A p : p \in Refreshes' <=> p \in requests' /\ Refreshing(p)
        /\ \A p, o \in Refreshes : p = o
    BY <1>2 DEF Refreshes, Refreshing, RefreshInv
  <1>4. /\ issued \in Seq(DOMAIN sessions) /\ Len(issued) \in Nat
        /\ DOMAIN issued = 1 .. Len(issued) /\ cookie \in 0 .. Len(issued)
    <2>1. issued \in Seq(DOMAIN sessions) /\ cookie \in 0 .. Len(issued)
      BY DEF Typed, TypeOK
    <2> QED BY <2>1
  <1>5. \A n \in DOMAIN issued : issued[n] \in DOMAIN sessions
    BY <1>4
  <1>6. CASE UNCHANGED <<requests, cookie, issued, sessions>>
    BY <1>0, <1>2, <1>6, RefreshesStay
  <1>7. ASSUME NEW n, n \in requests', requests' \subseteq requests \cup {n},
               \A p \in requests : Refreshing(p) => p \in requests',
               n.at = "sent", cookie' = cookie, UNCHANGED database, n.tab \in Tabs,
               n.kind = "refresh" => n.token = cookie /\ Refreshes = {}
        PROVE  RefreshInv'
    <2>1. ~Undelivered(n) /\ (Refreshing(n) => n.token = cookie /\ Refreshes = {})
      BY <1>7 DEF Undelivered, Refreshing
    <2>2. issued' = issued /\ sessions' = sessions
      BY <1>7 DEF database
    <2>3. CASE ~Refreshing(n)
      BY <1>0, <1>2, <1>7, <2>1, <2>2, <2>3, RefreshesStay
    <2>4. CASE Refreshing(n)
      <3>1. Live(cookie) /\ \A p : p \in Refreshes' <=> p = n
        BY <1>2, <1>3, <1>7, <2>1, <2>4 DEF RefreshInv
      <3>2. \A k : (Live(k)' <=> Live(k)) /\ (Spent(k)' <=> Spent(k))
        BY <2>2 DEF Live, Spent, Ended
      <3>3. Live(cookie)'
        BY <1>7, <2>2, <3>1 DEF Live, Spent, Ended
      <3>4. \A r \in requests' : Undelivered(r) => Live(r.token)'
        BY <1>2, <1>7, <2>1, <3>2 DEF RefreshInv
      <3>5. n.tab # NoTab
        BY <1>7 DEF AuthAssumption, NoTab
      <3>6. Live(n.token)'
        BY <2>1, <2>4, <3>1, <3>2
      <3> QED BY <1>7, <3>1, <3>3, <3>4, <3>5, <3>6 DEF RefreshInv
    <2> QED BY <2>3, <2>4
  <1>8. ASSUME NEW t \in Tabs, NEW by, NEW kind, NEW user, SendsOne(t, by, kind, user)
        PROVE  RefreshInv'
    <2>1. PICK k : requests' = requests \cup {Request(t, by, kind, k, user)}
                   /\ (kind = "refresh" => k = cookie)
      BY <1>8 DEF SendsOne, Send
    <2>2. PICK n : n = Request(t, by, kind, k, user)
      OBVIOUS
    <2>3. n.at = "sent" /\ n.kind = kind /\ n.token = k /\ n.tab = t
      BY <2>2 DEF Request
    <2>4. kind = "refresh" => Refreshes = {}
      BY <1>1, <1>8 DEF SendsOne, Send, Refreshes
    <2>5. cookie' = cookie /\ UNCHANGED database
      BY <1>8 DEF SendsOne
    <2>6. /\ n \in requests' /\ requests' \subseteq requests \cup {n}
          /\ \A p \in requests : Refreshing(p) => p \in requests'
      BY <2>1, <2>2
    <2> QED BY <1>7, <2>2, <2>3, <2>1, <2>4, <2>5, <2>6
  <1>9. ASSUME NEW t \in Tabs, Reload(t)
        PROVE  RefreshInv'
    <2>1. \A r \in Of(t) : r.kind \notin {"refresh", "login"}
      BY <1>9 DEF Reload
    <2>2. \A r \in Of(t) : /\ ~Refreshing([r EXCEPT !.tab = NoTab])
                           /\ ~Undelivered([r EXCEPT !.tab = NoTab])
      <3>1. \A r \in Of(t) : r \in Requested
        BY DEF Typed, RequestOK, Of
      <3>2. \A r \in Of(t) : [r EXCEPT !.tab = NoTab].kind = r.kind
        BY <3>1 DEF Requested
      <3> QED BY <2>1, <3>2 DEF Refreshing, Undelivered
    <2>3. \A p \in requests' : Refreshing(p) \/ Undelivered(p) => p \in requests
      BY <1>9, <2>2 DEF Reload
    <2>4. \A p \in requests : Refreshing(p) => p \in requests'
      BY <1>9, <2>1 DEF Reload, Refreshing, Of
    <2>5. cookie' = cookie /\ sessions' = sessions
      BY <1>9 DEF Reload, database
    <2> QED BY <1>0, <1>2, <2>3, <2>4, <2>5, RefreshesStay
  <1>10. CASE SessionExpires
    <2>1. PICK sid \in DOMAIN sessions :
             sessions' = [sessions EXCEPT ![sid].expired = TRUE]
             /\ UNCHANGED <<accounts, issued, requests, cookie>>
      BY <1>10 DEF SessionExpires
    <2>2. DatabaseOK
      BY TypedParts
    <2>3. \A s \in DOMAIN sessions : sessions'[s].hash = sessions[s].hash
      BY <2>1, <2>2, ExpiredRow
    <2>4. \A n \in DOMAIN issued : sessions'[issued[n]].hash = sessions[issued[n]].hash
      BY <1>5, <2>3
    <2> QED BY <1>0, <1>2, <2>1, <2>4, RefreshesStay
  <1>11. ASSUME NEW r \in requests, Drop(r)
         PROVE  RefreshInv'
    <2>1. ~Refreshing(r)
      BY <1>2, <1>3, <1>11 DEF Drop, RefreshInv
    <2>2. requests' = requests \ {r} /\ cookie' = cookie /\ sessions' = sessions
      BY <1>11 DEF Drop, database
    <2> QED BY <1>0, <1>2, <2>1, <2>2, RefreshesStay
  <1>12. ASSUME NEW r \in requests, NEW q, Exchanges(r, q), ~Refreshing(r), ~Undelivered(q),
                \A n \in DOMAIN issued : sessions'[issued[n]].hash = sessions[issued[n]].hash
         PROVE  RefreshInv'
    <2>1. requests' = (requests \ {r}) \cup {q} /\ cookie' = cookie /\ ~Refreshing(q)
      BY <1>12 DEF Exchanges, Refreshing
    <2> QED BY <1>0, <1>2, <1>12, <2>1, RefreshesStay
  <1>13. ASSUME NEW r \in requests, Lose(r)
         PROVE  RefreshInv'
    <2>1. PICK q : Exchanges(r, q) /\ q.at = "lost"
      BY <1>13, LoseStep
    <2>2. sessions' = sessions /\ ~Refreshing(r)
      BY <1>13, LoseStep DEF Refreshing, database
    <2> QED BY <1>12, <1>13, <2>1, <2>2 DEF Undelivered
  <1>14. ASSUME NEW r \in requests, NEW q, Exchanges(r, q), Refreshing(r),
                UNCHANGED database, r.at # "ok", q.at \in {"read", "refused"},
                q.at = "read" => Spent(q.token) \/ (Valid(q) /\ Live(q.token)),
                q.at = "refused" => Spent(q.token)
         PROVE  RefreshInv'
    <2>1. /\ requests' = (requests \ {r}) \cup {q} /\ cookie' = cookie /\ q.tab = r.tab
          /\ Refreshing(q) /\ ~Undelivered(q)
      BY <1>14 DEF Exchanges, Refreshing, Undelivered
    <2>2. \A p : p \in Refreshes' <=> p = q
      BY <1>3, <1>14, <2>1
    <2>3. issued' = issued /\ sessions' = sessions
      BY <1>14 DEF database
    <2>4. \A k : (Live(k)' <=> Live(k)) /\ (Spent(k)' <=> Spent(k))
      BY <2>3 DEF Live, Spent, Ended
    <2>5. Live(cookie) /\ q.tab # NoTab
      BY <1>2, <1>3, <1>14, <2>1 DEF RefreshInv
    <2>6. Live(cookie)'
      BY <2>1, <2>3, <2>5 DEF Live, Spent, Ended
    <2>7. \A p \in requests' : Undelivered(p) => Live(p.token)'
      BY <1>2, <2>1, <2>4 DEF RefreshInv
    <2>8. /\ q.at = "read" => Spent(q.token)' \/ (Valid(q) /\ Live(q.token)')
          /\ q.at = "refused" => Spent(q.token)'
      BY <1>14, <2>4
    <2> QED BY <1>14, <2>2, <2>5, <2>6, <2>7, <2>8 DEF RefreshInv
  <1>15. ASSUME NEW r \in requests, Serve(r)
         PROVE  RefreshInv'
    <2>1. PICK q : /\ Exchanges(r, q)
                   /\ \/ Plain(r, q) \/ Looks(r, q) \/ Opens(r, q) \/ Refuses(r, q)
                      \/ \E sid : Stores(r, q, sid)
      BY <1>0, <1>15, ServeStep
    <2>2. q.kind = r.kind
      BY <2>1 DEF Exchanges
    <2>3. CASE Plain(r, q)
      <3>1. ~Refreshing(r) /\ ~Undelivered(q)
        BY <2>2, <2>3 DEF Plain, Refreshing, Undelivered
      <3>2. \A n \in DOMAIN issued : sessions'[issued[n]].hash = sessions[issued[n]].hash
        BY <1>5, <2>3 DEF Plain
      <3> QED BY <1>12, <2>1, <3>1, <3>2
    <2>4. CASE Looks(r, q)
      <3>1. sessions' = sessions /\ ~Undelivered(q) /\ q.token = r.token
        BY <2>4 DEF Looks, Undelivered, database
      <3>2. CASE ~Refreshing(r)
        BY <1>12, <2>1, <3>1, <3>2
      <3>3. CASE Refreshing(r)
        <4>1. Live(r.token)
          BY <1>2, <1>3, <2>4, <3>3 DEF Looks, RefreshInv
        <4>2. q.at = "refused" => Spent(q.token)
          BY <2>4, <3>3 DEF Looks, Refreshing, Spent
        <4>3. q.at = "read" => q.row = sessions[issued[q.token]]
          BY <2>4, <3>1, <3>3 DEF Looks, Refreshing
        <4>4. q.at = "read" => Spent(q.token) \/ (Valid(q) /\ Live(q.token))
          BY <3>1, <4>1, <4>3 DEF Live, Spent, Valid, Ended
        <4>5. r.at # "ok" /\ q.at \in {"read", "refused"} /\ UNCHANGED database
          BY <2>4 DEF Looks
        <4> QED BY <1>14, <2>1, <3>3, <4>2, <4>4, <4>5
      <3> QED BY <3>2, <3>3
    <2>5. CASE Refuses(r, q)
      <3>1. /\ Refreshing(r) /\ r.at = "read" /\ ~Valid(r) /\ q.at = "refused"
            /\ q.token = r.token /\ UNCHANGED database
        BY <2>5 DEF Refuses, Refreshing
      <3>2. Spent(r.token)
        BY <1>2, <1>3, <3>1 DEF RefreshInv
      <3> QED BY <1>14, <2>1, <3>1, <3>2
    <2>6. CASE Opens(r, q)
      <3>1. ~Refreshing(r) /\ ~Undelivered(q)
        BY <2>6 DEF Opens, Refreshing, Undelivered
      <3>2. \A n \in DOMAIN issued : sessions'[issued[n]].hash = sessions[issued[n]].hash
        BY <1>5, <2>6 DEF Opens
      <3> QED BY <1>12, <2>1, <3>1, <3>2
    <2>7. ASSUME NEW sid, Stores(r, q, sid)
          PROVE  RefreshInv'
      BY <1>0, <1>2, <2>1, <2>7, StoresKeepsRefresh
    <2> QED BY <2>1, <2>3, <2>4, <2>5, <2>6, <2>7
  <1>16. ASSUME NEW r \in requests, Deliver(r)
         PROVE  RefreshInv'
    <2>1. /\ cookie' = CookieAfter(r) /\ UNCHANGED database /\ r.at # "sent"
          /\ sessions' = sessions
      BY <1>16 DEF Deliver, Answered, database
    <2>2. ASSUME NEW X, requests' = (requests \ {r}) \cup X,
                 \A p \in X : ~Refreshing(p) /\ ~Undelivered(p)
          PROVE  RefreshInv'
      <3>1. \A p \in requests' : Refreshing(p) \/ Undelivered(p) => p \in requests
        BY <2>2
      <3>2. CASE ~Refreshing(r)
        <4>1. \/ cookie' = cookie \/ cookie' = NoToken
              \/ Undelivered(r) /\ cookie' = r.token
          BY <2>1, <3>2 DEF CookieAfter, Refreshing, Undelivered
        <4>2. \A p \in requests : Refreshing(p) => p \in requests'
          BY <2>2, <3>2
        <4> QED BY <1>0, <1>2, <2>1, <3>1, <4>1, <4>2, RefreshesStay
      <3>3. CASE Refreshing(r)
        <4>1. CASE r.at = "ok"
          <5>1. cookie' = r.token
            BY <2>1, <3>3, <4>1 DEF CookieAfter, Refreshing
          <5> QED BY <1>0, <1>2, <2>1, <3>1, <3>3, <4>1, <5>1, RefreshesStay
        <4>2. CASE r.at # "ok"
          <5>1. cookie' = cookie
            BY <2>1, <4>2 DEF CookieAfter
          <5>2. \A p \in requests : Refreshing(p) => p.at # "ok"
            BY <1>3, <3>3, <4>2
          <5> QED BY <1>0, <1>2, <2>1, <3>1, <5>1, <5>2, RefreshesStay
        <4> QED BY <4>1, <4>2
      <3> QED BY <3>2, <3>3
    <2>3. CASE requests' = requests \ {r}
      <3> DEFINE X == {}
      <3>1. /\ requests' = (requests \ {r}) \cup X
            /\ \A p \in X : ~Refreshing(p) /\ ~Undelivered(p)
        BY <2>3
      <3> HIDE DEF X
      <3> QED BY <2>2, <3>1
    <2>4. ASSUME r.tab \in Tabs, NEW new, NEW X, Becomes(r, new, X),
                 \/ BootstrapGoesOn(r, new, X) \/ X = {}
                 \/ RefreshGoesOn(r, new, X)
          PROVE  RefreshInv'
      <3>1. \A p \in X : p.at = "sent" /\ p.kind # "refresh"
        BY <2>4 DEF BootstrapGoesOn, RefreshGoesOn, Retries, Request
      <3>2. requests' = (requests \ {r}) \cup X
        BY <2>4 DEF Becomes
      <3> QED BY <2>2, <3>1, <3>2 DEF Refreshing, Undelivered
    <2>5. ASSUME r.tab \in Tabs, NEW new, NEW X, Becomes(r, new, X), CallGoesOn(r, new, X),
                 X # {}
          PROVE  RefreshInv'
      <3>1. /\ X = {Request(r.tab, r.by, "refresh", cookie, Nobody)} /\ r.kind = "call"
            /\ Refreshes = {}
        BY <2>5 DEF CallGoesOn
      <3>2. PICK n : n = Request(r.tab, r.by, "refresh", cookie, Nobody)
        OBVIOUS
      <3>3. n.at = "sent" /\ n.kind = "refresh" /\ n.token = cookie /\ n.tab = r.tab
        BY <3>2 DEF Request
      <3>4. requests' = (requests \ {r}) \cup {n} /\ ~Refreshing(r)
        BY <2>5, <3>1, <3>2 DEF Becomes, Refreshing
      <3>5. /\ n \in requests' /\ requests' \subseteq requests \cup {n}
            /\ \A p \in requests : Refreshing(p) => p \in requests'
        BY <3>4
      <3>6. cookie' = cookie
        BY <2>1, <3>1 DEF CookieAfter
      <3> QED BY <1>7, <2>1, <2>4, <2>5, <3>1, <3>3, <3>5, <3>6
    <2> QED BY <1>16, <2>3, <2>4, <2>5, DeliverStep
  <1>17. UNCHANGED vars \/ TokenExpires => UNCHANGED <<requests, cookie, issued, sessions>>
    BY DEF vars, TokenExpires, database
  <1> QED BY <1>6, <1>8, <1>9, <1>10, <1>11, <1>13, <1>15, <1>16, <1>17, StepCases

\* Rotation locks nobody out: a refresh is refused only to who has no cookie or
\* whose session was revoked or has expired, unless two refreshes overlapped or an
\* answer was lost.
THEOREM RefusedForCauseAlways == Spec => []RefusedForCause
  <1> DEFINE Inv == Typed /\ LoginsInv /\ (crossed \/ RefreshInv)
  <1>1. Init => Inv
    <2> SUFFICES ASSUME Init PROVE Inv
      OBVIOUS
    <2>1. Typed /\ requests = {}
      BY TypedFirst, AuthAssumption DEF Init
    <2>2. LoginsInv
      BY <2>1 DEF LoginsInv
    <2>3. Live(cookie)
      <3>1. CASE cookie = NoToken
        BY <3>1 DEF Live, Spent
      <3>2. CASE \E u \in Registered :
                   /\ sessions = <<[user |-> u, hash |-> 1, revoked |-> FALSE,
                                    expired |-> FALSE]>>
                   /\ issued = <<1>>
                   /\ cookie = 1
        <4>1. sessions[issued[cookie]].hash = cookie
          BY <3>2
        <4> QED BY <4>1 DEF Live
      <3> QED BY <3>1, <3>2 DEF Init
    <2>4. RefreshInv
      BY <2>1, <2>3 DEF RefreshInv, Refreshes
    <2> QED BY <2>1, <2>2, <2>4
  <1>2. Inv /\ [Next]_vars => Inv'
    <2> SUFFICES ASSUME Inv, [Next]_vars PROVE Inv'
      OBVIOUS
    <2>1. Typed' /\ LoginsInv'
      BY TypedKept, LoginsInvKept, AuthAssumption
    <2>2. ~crossed' => RefreshInv'
      BY RefreshInvKept, AuthAssumption
    <2> QED BY <2>1, <2>2
  <1>3. Inv => RefusedForCause
    BY DEF RefusedForCause, RefreshInv, Spent
  <1> QED BY <1>1, <1>2, <1>3, PTL DEF Spec

=============================================================================
