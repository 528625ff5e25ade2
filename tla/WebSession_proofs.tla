-------------------------- MODULE WebSession_proofs --------------------------
(* For any number of tabs, of requests and of tokens: whatever the tabs do   *)
(* to each other through localStorage, they never leave there a refresh      *)
(* token that the server has revoked, and never sign back in a user who      *)
(* signed out while no refresh was under way.                                *)
EXTENDS WebSession, TLAPS

TokensOrNone == Tokens \cup {None}

(* The two kinds of records keep their types when a field is updated.        *)
LEMMA PostUpdates ==
  /\ NoPost \in Post
  /\ \A p \in Post : p.token \in TokensOrNone /\ p.new \in TokensOrNone
  /\ \A p \in Post, s \in {"sent", "selected", "granted", "refused"}, k \in TokensOrNone :
       /\ [p EXCEPT !.pc = s] \in Post
       /\ [p EXCEPT !.pc = s, !.new = k] \in Post
       /\ [NoPost EXCEPT !.pc = s, !.token = k] \in Post
BY DEF NoPost, Post, TokensOrNone

LEMMA RequestUpdates ==
  /\ NoRequest \in Request
  /\ \A q \in Request, s \in {"sent", "refreshing", "waiting", "hung"}, k \in TokensOrNone :
       /\ [q EXCEPT !.pc = s] \in Request
       /\ [q EXCEPT !.pc = s, !.retried = TRUE] \in Request
       /\ [q EXCEPT !.pc = "sent", !.token = k] \in Request
       /\ [q EXCEPT !.revokes = k] \in Request
  /\ \A t \in Tabs, kind \in {"call", "me", "logout"}, k \in TokensOrNone :
       Sent(t, kind, k) \in Request
BY DEF NoRequest, Request, TokensOrNone, Sent

(* Every step keeps the storage, the server, the pages and the requests in   *)
(* their types: live tokens have been issued, expired ones too.              *)
THEOREM SessionTypeCorrect == Spec => []TypeOK
<1> USE MaxTokensAssumption
<1>1. Init => TypeOK
  <2> SUFFICES ASSUME Init PROVE TypeOK
    OBVIOUS
  <2>1. post \in [Tabs -> Post] /\ req \in [Requests -> Request]
    BY PostUpdates, RequestUpdates DEF Init
  <2>2. issued \in 0 .. MaxTokens /\ live \subseteq 1 .. issued /\ expired \in 0 .. issued
    BY DEF Init
  <2>3. page \in [Tabs -> {"app", "login"}] /\ leaving \in [Tabs -> BOOLEAN]
    BY DEF Init
  <2> QED
    BY <2>1, <2>2, <2>3 DEF Init, TypeOK
<1>2. TypeOK /\ [Next]_vars => TypeOK'
  <2> SUFFICES ASSUME TypeOK, [Next]_vars PROVE TypeOK'
    OBVIOUS
  <2> USE DEF TypeOK, TokensOrNone, storage, server, history
  <2>1. ASSUME NEW t \in Tabs, Login(t) PROVE TypeOK'
    <3>1. issued' = issued + 1 /\ issued' \in Tokens /\ issued' \in 0 .. MaxTokens
      BY <2>1 DEF Login, Tokens
    <3>2. live' \subseteq 1 .. issued' /\ expired' \in 0 .. issued'
      BY <2>1, <3>1 DEF Login
    <3> QED
      BY <2>1, <3>1, <3>2 DEF Login
  <2>2. ASSUME NEW t \in Tabs, Reload(t) PROVE TypeOK'
    <3>1. post' \in [Tabs -> Post] /\ req' \in [Requests -> Request]
      BY <2>2, PostUpdates, RequestUpdates DEF Reload
    <3>2. post[t].token \in TokensOrNone
      BY PostUpdates
    <3>3. abandoned' \subseteq Tokens \cup {None}
      BY <2>2, <3>2 DEF Reload
    <3>4. live' \subseteq 1 .. issued' /\ issued' = issued
      BY <2>2 DEF Reload
    <3> QED
      BY <2>2, <3>1, <3>3, <3>4 DEF Reload
  <2>3. ASSUME NEW t \in Tabs, RefreshSelect(t) PROVE TypeOK'
    BY <2>3, PostUpdates DEF RefreshSelect
  <2>4. ASSUME NEW t \in Tabs, RefreshCommit(t) PROVE TypeOK'
    <3>1. issued' = issued + 1 /\ issued' \in Tokens /\ issued' \in 0 .. MaxTokens
      BY <2>4 DEF RefreshCommit, Tokens
    <3>2. post' \in [Tabs -> Post]
      BY <2>4, <3>1, PostUpdates DEF RefreshCommit
    <3>3. live' \subseteq 1 .. issued' /\ expired' \in 0 .. issued'
      BY <2>4, <3>1 DEF RefreshCommit
    <3> QED
      BY <2>4, <3>1, <3>2, <3>3 DEF RefreshCommit
  <2>5. ASSUME NEW t \in Tabs, RefreshGranted(t) PROVE TypeOK'
    <3>1. post[t].new \in TokensOrNone
      BY PostUpdates
    <3>2. post' \in [Tabs -> Post] /\ access' \in TokensOrNone /\ refresh' \in TokensOrNone
      BY <2>5, <3>1, PostUpdates DEF RefreshGranted
    <3>3. req' \in [Requests -> Request]
      BY <2>5, <3>2, RequestUpdates DEF RefreshGranted
    <3> QED
      BY <2>5, <3>2, <3>3 DEF RefreshGranted
  <2>6. ASSUME NEW t \in Tabs, RefreshRefused(t) \/ RefreshUnanswered(t) PROVE TypeOK'
    <3>1. RefreshFailed(t) /\ UNCHANGED <<server, history>>
      BY <2>6 DEF RefreshRefused, RefreshUnanswered
    <3>2. post' \in [Tabs -> Post]
      BY <3>1, PostUpdates DEF RefreshFailed
    <3>3. req' \in [Requests -> Request]
      BY <3>1, RequestUpdates DEF RefreshFailed
    <3>4. page' \in [Tabs -> {"app", "login"}] /\ leaving' \in [Tabs -> BOOLEAN]
      BY <3>1 DEF RefreshFailed, MeRejected
    <3> QED
      BY <3>1, <3>2, <3>3, <3>4 DEF RefreshFailed
  <2>7. ASSUME NEW t \in Tabs, NEW r \in Requests, RequestStep(t, r) PROVE TypeOK'
    <3>1. ASSUME NEW kind \in {"call", "me"}, Issue(t, r, kind) PROVE TypeOK'
      BY <3>1, RequestUpdates DEF Issue
    <3>2. CASE Logout(t, r)
      BY <3>2, RequestUpdates DEF Logout
    <3>3. CASE Subscribe(t, r)
      BY <3>3, RequestUpdates DEF Subscribe
    <3>4. CASE StartRefresh(t, r)
      BY <3>4, PostUpdates, RequestUpdates DEF StartRefresh
    <3>5. CASE NoRefreshToken(t, r)
      BY <3>5, RequestUpdates DEF NoRefreshToken, MeRejected
    <3>6. CASE RejectedAgain(t, r)
      BY <3>6, RequestUpdates DEF RejectedAgain, MeRejected
    <3> QED
      BY <2>7, <3>1, <3>2, <3>3, <3>4, <3>5, <3>6 DEF RequestStep
  <2>8. ASSUME NEW r \in Requests, Answered(r) \/ NetworkError(r) PROVE TypeOK'
    <3>1. req' \in [Requests -> Request] /\ live' \subseteq live /\ issued' = issued
      BY <2>8, RequestUpdates DEF Answered, NetworkError
    <3>2. live' \subseteq 1 .. issued'
      BY <3>1
    <3> QED
      BY <2>8, <3>1, <3>2 DEF Answered, NetworkError
  <2>9. CASE Expire
    BY <2>9 DEF Expire
  <2>10. CASE UNCHANGED vars
    BY <2>10 DEF vars
  <2> QED
    BY <2>1, <2>2, <2>3, <2>4, <2>5, <2>6, <2>7, <2>8, <2>9, <2>10 DEF Next, RefreshStep
<1> QED
  BY <1>1, <1>2, PTL DEF Spec
-----------------------------------------------------------------------------
(* The inductive invariant.  What is stored, posted, granted or to be        *)
(* revoked has been issued ...                                               *)
OnlyIssued ==
  /\ refresh <= issued
  /\ \A t \in Tabs : post[t].token <= issued /\ post[t].new <= issued /\ posted[t] <= issued
  /\ \A r \in Requests : req[r].revokes <= issued

(* ... the pair that an answer brings is live and nobody has it yet: the     *)
(* page that awaits it is the only one that will store it ...                *)
GrantedIsNew ==
  \A t \in Tabs : post[t].pc = "granted" =>
    /\ post[t].new \in live
    /\ post[t].new # refresh
    /\ \A u \in Tabs :
         /\ post[u].token # post[t].new /\ posted[u] # post[t].new
         /\ post[u].pc = "granted" /\ u # t => post[u].new # post[t].new
    /\ \A r \in Requests : req[r].revokes # post[t].new

(* ... a logout revokes a token that was removed ...                         *)
RevokedIsGone == \A r \in Requests : req[r].revokes # None => req[r].revokes # refresh

(* ... what a page posted last is what it awaits the answer for, or is no    *)
(* longer stored ...                                                         *)
PostedIsGone ==
  \A t \in Tabs :
    IF t \in InFlight THEN posted[t] = post[t].token
    ELSE posted[t] # None => posted[t] # refresh

(* ... and after a logout that crossed no refresh, none is under way.        *)
SignedOutIsIdle == signedOut /\ ~crossed => refresh = None /\ InFlight = {}

SessionInv ==
  /\ OnlyIssued /\ GrantedIsNew /\ RevokedIsGone /\ PostedIsGone
  /\ SignedOutIsIdle /\ StoredTokenIsLive

(* The number of every token is a natural number.                            *)
LEMMA TokensAreNumbers ==
  ASSUME TypeOK
  PROVE  /\ issued \in Nat /\ refresh \in Nat /\ None = 0
         /\ \A k \in live : k \in Nat /\ k # None /\ k <= issued
         /\ \A u \in Tabs : post[u].token \in Nat /\ post[u].new \in Nat /\ posted[u] \in Nat
         /\ \A r \in Requests : req[r].revokes \in Nat
<1>1. TokensOrNone \subseteq Nat /\ None = 0
  BY MaxTokensAssumption DEF TokensOrNone, Tokens, None
<1>2. \A u \in Tabs : post[u] \in Post /\ posted[u] \in TokensOrNone
  BY DEF TypeOK, TokensOrNone
<1>3. \A r \in Requests : req[r].revokes \in TokensOrNone
  BY DEF TypeOK, Request, TokensOrNone
<1>4. issued \in Nat /\ live \subseteq 1 .. issued /\ refresh \in TokensOrNone
  BY MaxTokensAssumption DEF TypeOK, TokensOrNone
<1>5. \A u \in Tabs : post[u].token \in Nat /\ post[u].new \in Nat /\ posted[u] \in Nat
  BY <1>1, <1>2, PostUpdates
<1>6. \A k \in live : k \in Nat /\ k # None /\ k <= issued
  BY <1>1, <1>4
<1> QED
  BY <1>1, <1>3, <1>4, <1>5, <1>6

(* Most steps move no token: they may throw the stored ones away or forget   *)
(* a logout, and that is all.                                                *)
LEMMA QuietStep ==
  ASSUME TypeOK, SessionInv,
         refresh' \in {refresh, None},
         UNCHANGED <<issued, live, posted, abandoned, signedOut, crossed>>,
         \A u \in Tabs :
           /\ post'[u].token = post[u].token
           /\ post'[u].new = post[u].new
           /\ (post'[u].pc = "granted") = (post[u].pc = "granted")
           /\ (post'[u].pc = "idle") = (post[u].pc = "idle"),
         \A r \in Requests : req'[r].revokes \in {None, req[r].revokes}
  PROVE  SessionInv'
<1>1. InFlight' = InFlight
  BY DEF InFlight
<1>2. issued \in Nat /\ None = 0 /\ \A k \in live : k # None
  BY MaxTokensAssumption DEF TypeOK, None
<1>3. OnlyIssued'
  BY <1>2 DEF SessionInv, OnlyIssued
<1>4. GrantedIsNew'
  BY <1>2 DEF SessionInv, GrantedIsNew
<1>5. RevokedIsGone'
  BY DEF SessionInv, RevokedIsGone
<1>6. PostedIsGone'
  BY <1>1 DEF SessionInv, PostedIsGone
<1>7. SignedOutIsIdle' /\ StoredTokenIsLive'
  BY <1>1 DEF SessionInv, SignedOutIsIdle, StoredTokenIsLive, InFlight
<1> QED
  BY <1>3, <1>4, <1>5, <1>6, <1>7 DEF SessionInv

(* A new login: the number of the pair is beyond every other.                *)
LEMMA LoginStep ==
  ASSUME TypeOK, SessionInv, NEW t \in Tabs, Login(t)
  PROVE  SessionInv'
<1>1. /\ issued \in Nat /\ issued' = issued + 1 /\ issued' \in live'
      /\ live \subseteq live' /\ refresh' = issued'
      /\ post' = post /\ req' = req /\ posted' = posted /\ ~signedOut'
  BY DEF Login, TypeOK
<1>2. OnlyIssued
  BY DEF SessionInv
<1>3. OnlyIssued'
  BY <1>1, <1>2, TokensAreNumbers DEF OnlyIssued
<1>4. GrantedIsNew'
  BY <1>1, <1>2, TokensAreNumbers DEF SessionInv, GrantedIsNew, OnlyIssued
<1>5. RevokedIsGone'
  BY <1>1, <1>2, TokensAreNumbers DEF RevokedIsGone, OnlyIssued
<1>6. PostedIsGone'
  BY <1>1, <1>2, TokensAreNumbers DEF SessionInv, PostedIsGone, OnlyIssued, InFlight
<1>7. SignedOutIsIdle' /\ StoredTokenIsLive'
  BY <1>1 DEF SignedOutIsIdle, StoredTokenIsLive
<1> QED
  BY <1>3, <1>4, <1>5, <1>6, <1>7 DEF SessionInv

(* A logout takes the token it will revoke out of the storage.               *)
LEMMA LogoutStep ==
  ASSUME TypeOK, SessionInv, NEW t \in Tabs, NEW r \in Requests, Logout(t, r)
  PROVE  SessionInv'
<1>1. /\ refresh' = None /\ None = 0 /\ issued \in Nat /\ refresh \in Nat
      /\ crossed' = (InFlight # {})
      /\ UNCHANGED <<issued, live, post, posted, abandoned>>
  BY DEF Logout, TypeOK, None, Tokens, server
<1>2. \A q \in Requests : req'[q].revokes \in {None, req[q].revokes, refresh}
  BY DEF Logout, TypeOK, Sent, Request, NoRequest
<1>3. InFlight' = InFlight
  BY <1>1 DEF InFlight
<1>4. OnlyIssued'
  BY <1>1, <1>2 DEF SessionInv, OnlyIssued
<1>5. GrantedIsNew'
  <2>1. \A k \in live : k # None
    BY <1>1 DEF TypeOK
  <2> QED
    BY <1>1, <1>2, <2>1 DEF SessionInv, GrantedIsNew
<1>6. RevokedIsGone' /\ StoredTokenIsLive'
  BY <1>1 DEF RevokedIsGone, StoredTokenIsLive
<1>7. PostedIsGone'
  BY <1>1, <1>3 DEF SessionInv, PostedIsGone
<1>8. SignedOutIsIdle'
  BY <1>1, <1>3 DEF SignedOutIsIdle
<1> QED
  BY <1>4, <1>5, <1>6, <1>7, <1>8 DEF SessionInv

(* The server revokes what a logout took away: nobody has that token.        *)
LEMMA AnsweredStep ==
  ASSUME TypeOK, SessionInv, NEW r \in Requests, Answered(r)
  PROVE  SessionInv'
<1>1. /\ UNCHANGED <<refresh, issued, post, posted, abandoned, signedOut, crossed>>
      /\ live' = live \ {req[r].revokes}
  BY DEF Answered, storage, history
<1>2. \A q \in Requests : req'[q].revokes \in {None, req[q].revokes}
  BY DEF Answered, TypeOK, NoRequest
<1>3. InFlight' = InFlight
  BY <1>1 DEF InFlight
<1>4. OnlyIssued'
  BY <1>1, <1>2, TokensAreNumbers DEF SessionInv, OnlyIssued
<1>5. GrantedIsNew'
  BY <1>1, <1>2, TokensAreNumbers DEF SessionInv, GrantedIsNew
<1>6. RevokedIsGone'
  BY <1>1, <1>2 DEF SessionInv, RevokedIsGone
<1>7. PostedIsGone' /\ SignedOutIsIdle'
  BY <1>1, <1>3 DEF SessionInv, PostedIsGone, SignedOutIsIdle
<1>8. StoredTokenIsLive'
  BY <1>1, <1>3 DEF SessionInv, StoredTokenIsLive, RevokedIsGone
<1> QED
  BY <1>4, <1>5, <1>6, <1>7, <1>8 DEF SessionInv

(* A page that is loaded again abandons the token it had posted.             *)
LEMMA ReloadStep ==
  ASSUME TypeOK, SessionInv, NEW t \in Tabs, Reload(t)
  PROVE  SessionInv'
<1>1. /\ UNCHANGED <<refresh, issued, signedOut, crossed>>
      /\ posted' = [posted EXCEPT ![t] = None]
      /\ abandoned \subseteq abandoned'
      /\ t \in InFlight => post[t].token \in abandoned'
  BY DEF Reload, storage
<1>2. live' = live \/ (live' = live \ {post[t].token} /\ t \in InFlight)
  BY DEF Reload, InFlight
<1>3. \A q \in Requests : req'[q].revokes \in {None, req[q].revokes}
  BY DEF Reload, TypeOK, NoRequest
<1>4. /\ \A u \in Tabs : u # t => post'[u] = post[u] /\ posted'[u] = posted[u]
      /\ post'[t].pc = "idle" /\ post'[t].token = None /\ post'[t].new = None /\ posted'[t] = None
  BY DEF Reload, TypeOK, NoPost
<1>5. InFlight' = InFlight \ {t}
  BY <1>4 DEF InFlight
<1>6. OnlyIssued'
  BY <1>1, <1>3, <1>4, TokensAreNumbers DEF SessionInv, OnlyIssued
<1>7. GrantedIsNew'
  BY <1>1, <1>2, <1>3, <1>4, TokensAreNumbers DEF SessionInv, GrantedIsNew
<1>8. RevokedIsGone'
  BY <1>1, <1>3 DEF SessionInv, RevokedIsGone
<1>9. PostedIsGone' /\ SignedOutIsIdle'
  BY <1>1, <1>4, <1>5 DEF SessionInv, PostedIsGone, SignedOutIsIdle
<1>10. StoredTokenIsLive'
  <2>1. CASE t \in InFlight /\ post[t].token = refresh
    BY <1>1, <2>1 DEF StoredTokenIsLive
  <2>2. CASE ~(t \in InFlight /\ post[t].token = refresh)
    <3>1. refresh \in live => refresh \in live'
      BY <1>2, <2>2
    <3>2. ASSUME NEW u \in InFlight, post[u].token = refresh
          PROVE  u \in InFlight' /\ post'[u].token = refresh
      BY <1>4, <1>5, <2>2, <3>2 DEF InFlight
    <3> QED
      BY <1>1, <3>1, <3>2 DEF SessionInv, StoredTokenIsLive
  <2> QED
    BY <2>1, <2>2
<1> QED
  BY <1>6, <1>7, <1>8, <1>9, <1>10 DEF SessionInv

(* A page posts the token that is stored, which it has not posted before.    *)
LEMMA StartRefreshStep ==
  ASSUME TypeOK, SessionInv, NEW t \in Tabs, NEW r \in Requests, StartRefresh(t, r)
  PROVE  /\ SessionInv'
         /\ refresh # posted[t] /\ post'[t].token = refresh
         /\ \A u \in Tabs : u # t => post'[u] = post[u]
<1>1. /\ UNCHANGED <<refresh, issued, live, abandoned, signedOut, crossed>>
      /\ t \notin InFlight /\ refresh # None
  BY DEF StartRefresh, storage, server
<1>2. \A q \in Requests : req'[q].revokes = req[q].revokes
  BY DEF StartRefresh, TypeOK, Request
<1>3. /\ \A u \in Tabs : u # t => post'[u] = post[u] /\ posted'[u] = posted[u]
      /\ post'[t].pc = "sent" /\ post'[t].token = refresh /\ post'[t].new = None
      /\ posted'[t] = refresh
  BY DEF StartRefresh, TypeOK, NoPost
<1>4. InFlight' = InFlight \cup {t}
  BY <1>3 DEF InFlight
<1>5. OnlyIssued'
  BY <1>1, <1>2, <1>3, TokensAreNumbers DEF SessionInv, OnlyIssued
<1>6. GrantedIsNew'
  BY <1>1, <1>2, <1>3, TokensAreNumbers DEF SessionInv, GrantedIsNew
<1>7. RevokedIsGone'
  BY <1>1, <1>2 DEF SessionInv, RevokedIsGone
<1>8. PostedIsGone' /\ SignedOutIsIdle'
  BY <1>1, <1>3, <1>4 DEF SessionInv, PostedIsGone, SignedOutIsIdle
<1>9. StoredTokenIsLive'
  <2>1. t \in InFlight' /\ post'[t].token = refresh'
    BY <1>1, <1>3, <1>4
  <2> QED
    BY <2>1 DEF StoredTokenIsLive
<1>10. refresh # posted[t]
  BY <1>1 DEF SessionInv, PostedIsGone
<1> QED
  BY <1>3, <1>5, <1>6, <1>7, <1>8, <1>9, <1>10 DEF SessionInv

(* The server gives a new pair for the token that was posted.                *)
LEMMA RefreshCommitStep ==
  ASSUME TypeOK, SessionInv, NEW t \in Tabs, RefreshCommit(t)
  PROVE  SessionInv'
<1>1. /\ UNCHANGED <<refresh, req, posted, abandoned, signedOut, crossed>>
      /\ issued' = issued + 1 /\ live' = (live \ {post[t].token}) \cup {issued'}
      /\ t \in InFlight
  BY DEF RefreshCommit, storage, history, InFlight
<1>2. /\ \A u \in Tabs : u # t => post'[u] = post[u]
      /\ post'[t].pc = "granted" /\ post'[t].token = post[t].token /\ post'[t].new = issued'
  BY DEF RefreshCommit, TypeOK, Post
<1>3. InFlight' = InFlight
  BY <1>1, <1>2 DEF InFlight
<1>4. OnlyIssued /\ OnlyIssued'
  BY <1>1, <1>2, TokensAreNumbers DEF SessionInv, OnlyIssued
<1>5. GrantedIsNew'
  <2>1. ASSUME NEW u \in Tabs, u # t, post[u].pc = "granted"
        PROVE  post[u].new \in live' /\ post[u].new # issued'
    BY <1>1, <1>4, <2>1, TokensAreNumbers DEF SessionInv, GrantedIsNew, OnlyIssued
  <2>2. /\ issued' \in live' /\ issued' # refresh
        /\ \A u \in Tabs : post[u].token # issued' /\ posted[u] # issued'
        /\ \A r \in Requests : req[r].revokes # issued'
    BY <1>1, <1>4, TokensAreNumbers DEF OnlyIssued
  <2> QED
    BY <1>1, <1>2, <2>1, <2>2 DEF SessionInv, GrantedIsNew
<1>6. RevokedIsGone' /\ PostedIsGone' /\ SignedOutIsIdle'
  BY <1>1, <1>2, <1>3 DEF SessionInv, RevokedIsGone, PostedIsGone, SignedOutIsIdle
<1>7. StoredTokenIsLive'
  <2>1. \A u \in InFlight : post'[u].token = post[u].token
    BY <1>2 DEF InFlight
  <2> QED
    BY <1>1, <1>3, <2>1 DEF SessionInv, StoredTokenIsLive
<1> QED
  BY <1>4, <1>5, <1>6, <1>7 DEF SessionInv

(* The page stores the pair: it is live, and new to every page.              *)
LEMMA RefreshGrantedStep ==
  ASSUME TypeOK, SessionInv, NEW t \in Tabs, RefreshGranted(t)
  PROVE  SessionInv'
<1>1. /\ UNCHANGED <<issued, live, posted, abandoned, signedOut, crossed>>
      /\ refresh' = post[t].new /\ post[t].pc = "granted" /\ t \in InFlight
  BY DEF RefreshGranted, server, history, InFlight
<1>2. /\ \A u \in Tabs : u # t => post'[u] = post[u]
      /\ post'[t].pc = "idle" /\ post'[t].token = None /\ post'[t].new = None
  BY DEF RefreshGranted, TypeOK, NoPost
<1>3. \A q \in Requests : req'[q].revokes = req[q].revokes
  BY DEF RefreshGranted, TypeOK, Request
<1>4. InFlight' = InFlight \ {t}
  BY <1>1, <1>2 DEF InFlight
<1>5. OnlyIssued'
  BY <1>1, <1>2, <1>3, TokensAreNumbers DEF SessionInv, OnlyIssued
<1>6. GrantedIsNew'
  BY <1>1, <1>2, <1>3, TokensAreNumbers DEF SessionInv, GrantedIsNew
<1>7. RevokedIsGone'
  BY <1>1, <1>3 DEF SessionInv, RevokedIsGone, GrantedIsNew
<1>8. PostedIsGone'
  BY <1>1, <1>2, <1>4 DEF SessionInv, PostedIsGone, GrantedIsNew
<1>9. SignedOutIsIdle' /\ StoredTokenIsLive'
  BY <1>1, <1>4 DEF SessionInv, SignedOutIsIdle, StoredTokenIsLive, GrantedIsNew
<1> QED
  BY <1>5, <1>6, <1>7, <1>8, <1>9 DEF SessionInv

(* A refresh that fails throws the stored tokens away.                       *)
LEMMA RefreshFailedStep ==
  ASSUME TypeOK, SessionInv, NEW t \in Tabs, RefreshFailed(t), UNCHANGED <<server, history>>
  PROVE  SessionInv'
<1>1. /\ UNCHANGED <<issued, live, posted, abandoned, signedOut, crossed>>
      /\ refresh' = None
  BY DEF RefreshFailed, server, history
<1>2. /\ \A u \in Tabs : u # t => post'[u] = post[u]
      /\ post'[t].pc = "idle" /\ post'[t].token = None /\ post'[t].new = None
  BY DEF RefreshFailed, TypeOK, NoPost
<1>3. \A q \in Requests : req'[q].revokes \in {None, req[q].revokes}
  BY DEF RefreshFailed, TypeOK, Request, NoRequest
<1>4. InFlight' = InFlight \ {t}
  BY <1>2 DEF InFlight
<1>5. OnlyIssued'
  BY <1>1, <1>2, <1>3, TokensAreNumbers DEF SessionInv, OnlyIssued
<1>6. GrantedIsNew'
  BY <1>1, <1>2, <1>3, TokensAreNumbers DEF SessionInv, GrantedIsNew
<1>7. RevokedIsGone' /\ StoredTokenIsLive'
  BY <1>1 DEF RevokedIsGone, StoredTokenIsLive
<1>8. PostedIsGone' /\ SignedOutIsIdle'
  BY <1>1, <1>2, <1>4 DEF SessionInv, PostedIsGone, SignedOutIsIdle
<1> QED
  BY <1>5, <1>6, <1>7, <1>8 DEF SessionInv

LEMMA SessionStep ==
  ASSUME TypeOK, SessionInv, [Next]_vars
  PROVE  SessionInv'
<1>1. ASSUME NEW t \in Tabs, RefreshStep(t) PROVE SessionInv'
  <2>1. CASE RefreshSelect(t)
    <3>1. /\ UNCHANGED <<refresh, issued, live, posted, abandoned, signedOut, crossed>>
          /\ req' = req
      BY <2>1 DEF RefreshSelect, storage, server, history
    <3>2. \A u \in Tabs :
            /\ post'[u].token = post[u].token
            /\ post'[u].new = post[u].new
            /\ (post'[u].pc = "granted") = (post[u].pc = "granted")
            /\ (post'[u].pc = "idle") = (post[u].pc = "idle")
      BY <2>1 DEF RefreshSelect, TypeOK, Post
    <3> QED
      BY <3>1, <3>2, QuietStep
  <2>2. CASE RefreshRefused(t) \/ RefreshUnanswered(t)
    BY <2>2, RefreshFailedStep DEF RefreshRefused, RefreshUnanswered
  <2> QED
    BY <1>1, <2>1, <2>2, RefreshCommitStep, RefreshGrantedStep DEF RefreshStep
<1>2. ASSUME NEW t \in Tabs, NEW r \in Requests, RequestStep(t, r) PROVE SessionInv'
  <2>1. CASE \E kind \in {"call", "me"} : Issue(t, r, kind)
    <3>1. /\ UNCHANGED <<refresh, issued, live, posted, abandoned, signedOut, crossed>>
          /\ post' = post
      BY <2>1 DEF Issue, storage, server, history
    <3>2. \A q \in Requests : req'[q].revokes \in {None, req[q].revokes}
      BY <2>1 DEF Issue, Sent, NoRequest, TypeOK
    <3> QED
      BY <3>1, <3>2, QuietStep
  <2>2. CASE Subscribe(t, r) \/ NoRefreshToken(t, r) \/ RejectedAgain(t, r)
    <3>1. /\ UNCHANGED <<issued, live, posted, abandoned, signedOut, crossed>>
          /\ refresh' \in {refresh, None} /\ post' = post
      BY <2>2 DEF Subscribe, NoRefreshToken, RejectedAgain, storage, server, history
    <3>2. \A q \in Requests : req'[q].revokes \in {None, req[q].revokes}
      BY <2>2 DEF Subscribe, NoRefreshToken, RejectedAgain, NoRequest, TypeOK, Request
    <3> QED
      BY <3>1, <3>2, QuietStep
  <2> QED
    BY <1>2, <2>1, <2>2, LogoutStep, StartRefreshStep DEF RequestStep
<1>3. ASSUME NEW r \in Requests, NetworkError(r) PROVE SessionInv'
  <2>1. /\ UNCHANGED <<refresh, issued, live, posted, abandoned, signedOut, crossed>>
        /\ post' = post
    BY <1>3 DEF NetworkError, storage, server, history
  <2>2. \A q \in Requests : req'[q].revokes \in {None, req[q].revokes}
    BY <1>3 DEF NetworkError, NoRequest, TypeOK
  <2> QED
    BY <2>1, <2>2, QuietStep
<1>4. CASE Expire \/ UNCHANGED vars
  <2>1. /\ UNCHANGED <<refresh, issued, live, posted, abandoned, signedOut, crossed>>
        /\ post' = post /\ req' = req
    BY <1>4 DEF Expire, vars, storage, server, history
  <2> QED
    BY <2>1, QuietStep
<1> QED
  BY <1>1, <1>2, <1>3, <1>4, LoginStep, ReloadStep, AnsweredStep DEF Next

THEOREM SessionInvariant == Spec => []SessionInv
<1>1. Init => SessionInv
  <2> SUFFICES ASSUME Init PROVE SessionInv
    OBVIOUS
  <2>1. /\ refresh = None /\ issued = 0 /\ None = 0
        /\ \A t \in Tabs : post[t].pc = "idle" /\ post[t].token = 0 /\ post[t].new = 0 /\ posted[t] = 0
        /\ \A r \in Requests : req[r].revokes = None
    BY DEF Init, NoPost, NoRequest, None
  <2>2. InFlight = {}
    BY <2>1 DEF InFlight
  <2>3. OnlyIssued
    BY <2>1 DEF OnlyIssued
  <2> QED
    BY <2>1, <2>2, <2>3 DEF SessionInv, GrantedIsNew, RevokedIsGone, PostedIsGone, SignedOutIsIdle,
       StoredTokenIsLive
<1> QED
  BY <1>1, SessionStep, SessionTypeCorrect, PTL DEF Spec

(* However many tabs refresh, reload, sign in and sign out together, the     *)
(* refresh token in localStorage is one the server accepts, or one that a    *)
(* page has posted.                                                          *)
THEOREM StoredTokenLives == Spec => []StoredTokenIsLive
<1>1. SessionInv => StoredTokenIsLive
  BY DEF SessionInv
<1> QED
  BY <1>1, SessionInvariant, PTL

(* After a logout that crossed no refresh, no tab brings the tokens back.    *)
THEOREM SignedOutStaysOut == Spec => []SignedOutUnlessCrossed
<1>1. SessionInv => SignedOutUnlessCrossed
  BY DEF SessionInv, SignedOutIsIdle, SignedOutUnlessCrossed
<1> QED
  BY <1>1, SessionInvariant, PTL

(* isRefreshing is enough: a page never posts the same refresh token again,  *)
(* however many of its requests are refused together.                        *)
THEOREM OneRefreshPerToken == Spec => PostedOnce
<1>1. TypeOK /\ SessionInv /\ [Next]_vars =>
        [\A t \in Tabs :
           post[t] # post'[t] /\ post'[t].pc = "sent" => post'[t].token # posted[t]]_vars
  <2> SUFFICES ASSUME TypeOK, SessionInv, Next, NEW t \in Tabs,
                      post[t] # post'[t], post'[t].pc = "sent"
               PROVE  post'[t].token # posted[t]
    OBVIOUS
  <2>1. ASSUME NEW u \in Tabs, NEW r \in Requests, StartRefresh(u, r)
        PROVE  post'[t].token # posted[t]
    BY <2>1, StartRefreshStep
  <2>2. ASSUME NEW u \in Tabs, Reload(u) \/ RefreshStep(u) PROVE FALSE
    <3>1. \A v \in Tabs : v # u => post'[v] = post[v]
      BY <2>2 DEF Reload, RefreshStep, RefreshSelect, RefreshCommit, RefreshGranted,
         RefreshRefused, RefreshUnanswered, RefreshFailed, TypeOK
    <3>2. post'[u].pc # "sent"
      <4>1. CASE Reload(u)
        BY <4>1 DEF Reload, NoPost, TypeOK
      <4>2. CASE RefreshFailed(u)
        BY <4>2 DEF RefreshFailed, NoPost, TypeOK
      <4>3. CASE RefreshGranted(u)
        BY <4>3 DEF RefreshGranted, NoPost, TypeOK
      <4>4. CASE RefreshSelect(u)
        BY <4>4 DEF RefreshSelect, TypeOK, Post
      <4>5. CASE RefreshCommit(u)
        BY <4>5 DEF RefreshCommit, TypeOK, Post
      <4> QED
        BY <2>2, <4>1, <4>2, <4>3, <4>4, <4>5 DEF RefreshStep, RefreshRefused, RefreshUnanswered
    <3> QED
      BY <3>1, <3>2
  <2>3. ASSUME NEW u \in Tabs, NEW r \in Requests,
               \/ Logout(u, r) \/ Subscribe(u, r) \/ NoRefreshToken(u, r)
               \/ RejectedAgain(u, r) \/ \E kind \in {"call", "me"} : Issue(u, r, kind)
        PROVE  FALSE
    BY <2>3 DEF Logout, Subscribe, NoRefreshToken, RejectedAgain, Issue
  <2>4. ASSUME NEW r \in Requests, Answered(r) \/ NetworkError(r) PROVE FALSE
    BY <2>4 DEF Answered, NetworkError
  <2>5. CASE Expire
    BY <2>5 DEF Expire
  <2>6. ASSUME NEW u \in Tabs, Login(u) PROVE FALSE
    BY <2>6 DEF Login
  <2> QED
    BY <2>1, <2>2, <2>3, <2>4, <2>5, <2>6 DEF Next, RequestStep
<1> QED
  BY <1>1, SessionTypeCorrect, SessionInvariant, PTL DEF Spec, PostedOnce
=============================================================================
