----------------------------- MODULE WebSession -----------------------------
(***************************************************************************)
(* The session of the web application: the axios client of                 *)
(* apps/main/src/lib/api.ts with its refresh mutex, and login, logout and  *)
(* fetchUser of stores/authStore.tsx.                                      *)
(*                                                                         *)
(* The tabs of one browser share localStorage and nothing else: the mutex  *)
(* isRefreshing is a variable of each page.  The server gives a new pair   *)
(* of tokens for a refresh token and revokes it (auth.py, external): the   *)
(* pair of the n-th login or refresh is the number n.  An action is what   *)
(* runs between two awaits.  The requests of the login page itself are     *)
(* left out: they carry no token that can be refreshed.                    *)
(***************************************************************************)
EXTENDS Naturals

CONSTANTS
  Tabs,
  NoTab,
  Requests,    \* bound: requests under way at one time, whatever the tab
  MaxTokens    \* bound: pairs of tokens the server issues

ASSUME MaxTokensAssumption == MaxTokens \in Nat

VARIABLES
  access, refresh,  \* localStorage access_token and refresh_token
  issued,           \* server: pairs issued
  live,             \* server: refresh tokens not revoked
  expired,          \* server: access tokens up to this one are too old
  page,             \* each tab's route: "app" or "login"
  leaving,          \* the tab has set window.location.href and runs on
  post,             \* each tab's isRefreshing and its POST /refresh
  req,              \* the requests of the pages
  posted,           \* the refresh token each page posted last
  abandoned,        \* refresh tokens posted by a page that is gone
  signedOut,        \* logout() came after the last login ...
  crossed           \* ... while a refresh was under way in some tab

storage == <<access, refresh>>
server == <<issued, live, expired>>
history == <<posted, abandoned, signedOut, crossed>>
vars == <<storage, server, page, leaving, post, req, history>>

None == 0
Tokens == 1 .. MaxTokens

Post == [pc : {"idle", "sent", "selected", "granted", "refused"},
         token : Tokens \cup {None}, new : Tokens \cup {None}]
NoPost == [pc |-> "idle", token |-> None, new |-> None]

(* "refreshing" and "waiting": a 401 came back, and the request refreshes  *)
(* the tokens itself or has subscribed to the refresh of another one.      *)
(* "hung": its subscription was thrown away.                               *)
Request == [pc : {"idle", "sent", "refreshing", "waiting", "hung"},
            tab : Tabs \cup {NoTab}, kind : {"call", "me", "logout"}, token : Tokens \cup {None},
            retried : BOOLEAN, revokes : Tokens \cup {None}]
NoRequest == [pc |-> "idle", tab |-> NoTab, kind |-> "call", token |-> None,
              retried |-> FALSE, revokes |-> None]

InFlight == {t \in Tabs : post[t].pc # "idle"}

TypeOK ==
  /\ access \in Tokens \cup {None} /\ refresh \in Tokens \cup {None}
  /\ issued \in 0 .. MaxTokens
  /\ live \subseteq 1 .. issued /\ expired \in 0 .. issued
  /\ page \in [Tabs -> {"app", "login"}]
  /\ leaving \in [Tabs -> BOOLEAN]
  /\ post \in [Tabs -> Post]
  /\ req \in [Requests -> Request]
  /\ posted \in [Tabs -> Tokens \cup {None}]
  /\ abandoned \subseteq Tokens \cup {None}
  /\ signedOut \in BOOLEAN /\ crossed \in BOOLEAN

Init ==
  /\ access = None /\ refresh = None
  /\ issued = 0 /\ live = {} /\ expired = 0
  /\ page = [t \in Tabs |-> "login"]
  /\ leaving = [t \in Tabs |-> FALSE]
  /\ post = [t \in Tabs |-> NoPost]
  /\ req = [r \in Requests |-> NoRequest]
  /\ posted = [t \in Tabs |-> None]
  /\ abandoned = {} /\ signedOut = FALSE /\ crossed = FALSE

-----------------------------------------------------------------------------
(* The page                                                                *)

(* login() or verifyMfa() has succeeded.                                   *)
Login(t) ==
  /\ page[t] = "login" /\ ~leaving[t]
  /\ issued < MaxTokens
  /\ issued' = issued + 1
  /\ live' = live \cup {issued'}
  /\ access' = issued' /\ refresh' = issued'
  /\ page' = [page EXCEPT ![t] = "app"]
  /\ signedOut' = FALSE /\ crossed' = FALSE
  /\ UNCHANGED <<expired, leaving, post, req, posted, abandoned>>

(* The request interceptor reads the token when the request is sent.       *)
Sent(t, kind, token) ==
  [NoRequest EXCEPT !.pc = "sent", !.tab = t, !.kind = kind, !.token = token]

Issue(t, r, kind) ==
  /\ page[t] = "app" /\ req[r].pc = "idle"
  /\ req' = [req EXCEPT ![r] = Sent(t, kind, access)]
  /\ UNCHANGED <<storage, server, page, leaving, post, history>>

(* The plausible slip: logout() forgets the refresh token.                 *)
LogoutHalf(t, r) ==
  /\ page[t] = "app" /\ req[r].pc = "idle"
  /\ access' = None
  /\ page' = [page EXCEPT ![t] = "login"]
  /\ signedOut' = TRUE
  /\ crossed' = (InFlight # {})
  /\ UNCHANGED <<refresh, server, leaving, post, req, posted, abandoned>>

(* logout(): by the time the interceptor of its own request runs, the      *)
(* tokens have been removed.                                               *)
Logout(t, r) ==
  /\ page[t] = "app" /\ req[r].pc = "idle"
  /\ access' = None /\ refresh' = None
  /\ req' = IF refresh = None THEN req
            ELSE [req EXCEPT ![r] =
                    [Sent(t, "logout", access') EXCEPT !.revokes = refresh]]
  /\ page' = [page EXCEPT ![t] = "login"]
  /\ signedOut' = TRUE
  /\ crossed' = (InFlight # {})
  /\ UNCHANGED <<server, leaving, post, posted, abandoned>>

(* The browser loads the page again, or the login page that was asked for. *)
(* The server may have received what the page had posted, and then it has  *)
(* dealt with it before the page is back.                                  *)
Reload(t) ==
  /\ page' = [page EXCEPT ![t] =
                IF leaving[t] \/ access = None THEN "login" ELSE @]
  /\ leaving' = [leaving EXCEPT ![t] = FALSE]
  /\ post' = [post EXCEPT ![t] = NoPost]
  /\ req' = [r \in Requests |-> IF req[r].tab = t THEN NoRequest ELSE req[r]]
  /\ posted' = [posted EXCEPT ![t] = None]
  /\ abandoned' = IF t \in InFlight
                  THEN abandoned \cup {post[t].token} ELSE abandoned
  /\ \/ UNCHANGED live
     \/ post[t].pc = "selected" /\ live' = live \ {post[t].token}
  /\ UNCHANGED <<storage, issued, expired, signedOut, crossed>>

-----------------------------------------------------------------------------
(* The answers to a request, and the response interceptor                  *)

Accepted(token) == token > expired

Answered(r) ==
  /\ req[r].pc = "sent"
  /\ Accepted(req[r].token)
  /\ live' = live \ {req[r].revokes}
  /\ req' = [req EXCEPT ![r] = NoRequest]
  /\ UNCHANGED <<storage, issued, expired, page, leaving, post, history>>

NetworkError(r) ==
  /\ req[r].pc = "sent"
  /\ req' = [req EXCEPT ![r] = NoRequest]
  /\ UNCHANGED <<storage, server, page, leaving, post, history>>

Rejected(t, r) ==
  req[r].pc = "sent" /\ req[r].tab = t /\ ~Accepted(req[r].token)

(* 401 while the page refreshes: the request waits.                        *)
Subscribe(t, r) ==
  /\ Rejected(t, r) /\ ~req[r].retried
  /\ t \in InFlight
  /\ req' = [req EXCEPT ![r].pc = "waiting", ![r].retried = TRUE]
  /\ UNCHANGED <<storage, server, page, leaving, post, history>>

(* The plausible slip: isRefreshing is not looked at.                      *)
StartRefreshUnlocked(t, r) ==
  /\ Rejected(t, r) /\ ~req[r].retried
  /\ refresh # None
  /\ req' = [req EXCEPT ![r].pc = "refreshing", ![r].retried = TRUE]
  /\ post' = [post EXCEPT ![t] =
                [NoPost EXCEPT !.pc = "sent", !.token = refresh]]
  /\ posted' = [posted EXCEPT ![t] = refresh]
  /\ UNCHANGED <<storage, server, page, leaving, abandoned, signedOut,
                 crossed>>

StartRefresh(t, r) ==
  /\ Rejected(t, r) /\ ~req[r].retried
  /\ t \notin InFlight
  /\ refresh # None
  /\ req' = [req EXCEPT ![r].pc = "refreshing", ![r].retried = TRUE]
  /\ post' = [post EXCEPT ![t] =
                [NoPost EXCEPT !.pc = "sent", !.token = refresh]]
  /\ posted' = [posted EXCEPT ![t] = refresh]
  /\ UNCHANGED <<storage, server, page, leaving, abandoned, signedOut,
                 crossed>>

(* fetchUser rejected with 401 removes both tokens and the user, and the   *)
(* router shows the login page.                                            *)
MeRejected(t, me) ==
  page' = IF me THEN [page EXCEPT ![t] = "login"] ELSE page

NoRefreshToken(t, r) ==
  /\ Rejected(t, r) /\ ~req[r].retried
  /\ t \notin InFlight
  /\ refresh = None
  /\ access' = None
  /\ leaving' = [leaving EXCEPT ![t] = @ \/ page[t] = "app"]
  /\ MeRejected(t, req[r].kind = "me")
  /\ req' = [req EXCEPT ![r] = NoRequest]
  /\ UNCHANGED <<refresh, server, post, history>>

RejectedAgain(t, r) ==
  /\ Rejected(t, r) /\ req[r].retried
  /\ IF req[r].kind = "me"
     THEN access' = None /\ refresh' = None
     ELSE UNCHANGED storage
  /\ MeRejected(t, req[r].kind = "me")
  /\ req' = [req EXCEPT ![r] = NoRequest]
  /\ UNCHANGED <<server, leaving, post, history>>

-----------------------------------------------------------------------------
(* POST /refresh                                                           *)

RefreshSelect(t) ==
  /\ post[t].pc = "sent"
  /\ post' = [post EXCEPT ![t].pc =
                IF post[t].token \in live THEN "selected" ELSE "refused"]
  /\ UNCHANGED <<storage, server, page, leaving, req, history>>

RefreshCommit(t) ==
  /\ post[t].pc = "selected"
  /\ issued < MaxTokens
  /\ issued' = issued + 1
  /\ live' = (live \ {post[t].token}) \cup {issued'}
  /\ post' = [post EXCEPT ![t].pc = "granted", ![t].new = issued']
  /\ UNCHANGED <<storage, expired, page, leaving, req, history>>

(* Plausible slips: the new refresh token is not stored; only the request  *)
(* that refreshed is sent again.                                           *)
RefreshGrantedWith(t, token, states) ==
  /\ post[t].pc = "granted"
  /\ access' = post[t].new /\ refresh' = token
  /\ post' = [post EXCEPT ![t] = NoPost]
  /\ req' = [r \in Requests |->
               IF req[r].tab = t /\ req[r].pc \in states
               THEN [req[r] EXCEPT !.pc = "sent", !.token = access']
               ELSE req[r]]
  /\ UNCHANGED <<server, page, leaving, history>>
RefreshGrantedUnrotated(t) ==
  RefreshGrantedWith(t, refresh, {"refreshing", "waiting"})
RefreshGrantedAlone(t) == RefreshGrantedWith(t, post[t].new, {"refreshing"})

(* The pair is stored, and every request that waited is sent again with    *)
(* it.                                                                     *)
RefreshGranted(t) ==
  /\ post[t].pc = "granted"
  /\ access' = post[t].new /\ refresh' = post[t].new
  /\ post' = [post EXCEPT ![t] = NoPost]
  /\ req' = [r \in Requests |->
               IF req[r].tab = t /\ req[r].pc \in {"refreshing", "waiting"}
               THEN [req[r] EXCEPT !.pc = "sent", !.token = access']
               ELSE req[r]]
  /\ UNCHANGED <<server, page, leaving, history>>

(* Whatever went wrong, the tokens are removed and the page is left; the   *)
(* request that refreshed is rejected, those that waited are forgotten.    *)
RefreshFailed(t) ==
  LET mine == {r \in Requests : req[r].tab = t}
      own == {r \in mine : req[r].pc = "refreshing"}
  IN  /\ access' = None /\ refresh' = None
      /\ post' = [post EXCEPT ![t] = NoPost]
      /\ leaving' = [leaving EXCEPT ![t] = @ \/ page[t] = "app"]
      /\ MeRejected(t, \E r \in own : req[r].kind = "me")
      /\ req' = [r \in Requests |->
                   CASE r \in own -> NoRequest
                     [] r \in mine /\ req[r].pc = "waiting" ->
                          [req[r] EXCEPT !.pc = "hung"]
                     [] OTHER -> req[r]]

RefreshRefused(t) ==
  /\ post[t].pc = "refused"
  /\ RefreshFailed(t)
  /\ UNCHANGED <<server, history>>

(* 5xx, or no answer at all.                                               *)
RefreshUnanswered(t) ==
  /\ t \in InFlight
  /\ RefreshFailed(t)
  /\ UNCHANGED <<server, history>>

(* The plausible slip: a token that is yet to come has expired already.    *)
ExpireEarly ==
  /\ expired <= issued
  /\ expired' = expired + 1
  /\ UNCHANGED <<storage, issued, live, page, leaving, post, req, history>>

(* Access tokens live equally long, and expire in the order of issue.      *)
Expire ==
  /\ expired < issued
  /\ expired' = expired + 1
  /\ UNCHANGED <<storage, issued, live, page, leaving, post, req, history>>

-----------------------------------------------------------------------------
RefreshStep(t) ==
  \/ RefreshSelect(t)
  \/ RefreshCommit(t)
  \/ RefreshGranted(t)
  \/ RefreshRefused(t)
  \/ RefreshUnanswered(t)

RequestStep(t, r) ==
  \/ \E kind \in {"call", "me"} : Issue(t, r, kind)
  \/ Logout(t, r)
  \/ Subscribe(t, r)
  \/ StartRefresh(t, r)
  \/ NoRefreshToken(t, r)
  \/ RejectedAgain(t, r)

Next ==
  \/ \E t \in Tabs :
       \/ Login(t)
       \/ Reload(t)
       \/ RefreshStep(t)
       \/ \E r \in Requests : RequestStep(t, r)
  \/ \E r \in Requests : Answered(r) \/ NetworkError(r)
  \/ Expire

Spec == Init /\ [][Next]_vars

(* A request to the server ends, with an answer or without, and a browser  *)
(* that was told to load a page loads it.                                  *)
Fairness ==
  \A t \in Tabs : /\ WF_vars(RefreshStep(t))
                  /\ WF_vars(leaving[t] /\ Reload(t))

FairSpec == Spec /\ Fairness

-----------------------------------------------------------------------------
(* Properties                                                              *)

(* The refresh token in localStorage is one the server accepts, unless a   *)
(* page is exchanging it or was closed while it did: no interleaving of    *)
(* tabs leaves a revoked token behind, for which the next 401 would end    *)
(* the session.                                                            *)
StoredTokenIsLive ==
  refresh # None =>
    \/ refresh \in live
    \/ \E t \in InFlight : post[t].token = refresh
    \/ refresh \in abandoned

(* "When multiple requests fail with 401, only ONE refresh call is made":  *)
(* a page does not post the same refresh token again.                      *)
PostedOnce ==
  [][\A t \in Tabs :
       post[t] # post'[t] /\ post'[t].pc = "sent" =>
         post'[t].token # posted[t]]_vars

(* Once the user has signed out, no tab signs him in again, unless a       *)
(* refresh was under way when he did.                                      *)
SignedOutUnlessCrossed == signedOut /\ ~crossed => refresh = None

(* A request that waits for a refresh is sent again or rejected, or its    *)
(* page goes away; its promise is forgotten for good only while the login  *)
(* form is shown.                                                          *)
Settles ==
  \A r \in Requests :
    req[r].pc \in {"refreshing", "waiting"} ~>
      \/ req[r].pc \in {"idle", "sent"}
      \/ req[r].pc = "hung" /\ page[req[r].tab] = "login"

(* "Transient network errors (server restart, deploy) should not destroy   *)
(* the session": while the server would renew the session of a user who    *)
(* has not signed out, the browser has a token for it.                     *)
SessionSurvivesOutage == live # {} /\ ~signedOut => refresh # None
=============================================================================
