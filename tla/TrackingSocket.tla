--------------------------- MODULE TrackingSocket ---------------------------
(***************************************************************************)
(* The live position stream of one vehicle,                                *)
(* apps/mobile/src/services/trackingSocket.ts: an object that the hook     *)
(* useDriverPosition starts once, when it mounts, and stops when it        *)
(* unmounts.                                                               *)
(*                                                                         *)
(* The object remembers one WebSocket, `ws`, and one of each timer, but    *)
(* the callbacks of every WebSocket it ever opened act on these fields.    *)
(* Durations (back-off, heartbeat) are abstracted: a timer that runs may   *)
(* fire.  So is the store without a token, where nothing is opened.        *)
(***************************************************************************)

CONSTANTS
  Sockets,     \* bound: WebSocket objects that exist at one time
  NoSocket     \* null

ASSUME NoSocketAssumption == NoSocket \notin Sockets

VARIABLES
  started,         \* start() has been called
  stopped,         \* the field stopped
  listening,       \* appStateSub and netInfoSub are registered
  sock,            \* each WebSocket object: its readyState, "free" if none
  ws,              \* the field ws
  reconnectTimer,  \* the timer of _scheduleReconnect runs
  watchdogTimer,   \* the timer of _resetWatchdog runs
  isForeground,
  isOnline,
  tokenRefreshAttempted,
  refreshing,      \* _attemptTokenRefresh awaits api.get
  tokenFresh,      \* the server accepts the token of the store
  status,          \* what onStatus last reported
  raced            \* a connection was made while another was under way

vars == <<started, stopped, listening, sock, ws, reconnectTimer,
          watchdogTimer, isForeground, isOnline, tokenRefreshAttempted,
          refreshing, tokenFresh, status, raced>>

(* The token goes with the URL: "stale" is connecting with an expired one. *)
(* To say no the server accepts the connection, sends an error and closes: *)
(* with 4001 when "denied", with 4003 or 4004 when "forbidden"             *)
(* (tracking_ws.py).                                                       *)
AnsweredStates == {"open", "denied", "forbidden"}
AliveStates == {"connecting", "stale"} \cup AnsweredStates

Live == {s \in Sockets : sock[s] \in AliveStates}

TypeOK ==
  /\ {started, stopped, listening, reconnectTimer, watchdogTimer,
      isForeground, isOnline, tokenRefreshAttempted, refreshing, tokenFresh,
      raced} \subseteq BOOLEAN
  /\ sock \in [Sockets -> AliveStates \cup {"free", "closing"}]
  /\ ws \in Sockets \cup {NoSocket}
  /\ status \in {"idle", "connecting", "connected", "reconnecting",
                 "unauthorized", "closed"}

Init ==
  /\ started = FALSE /\ stopped = FALSE /\ listening = FALSE
  /\ sock = [s \in Sockets |-> "free"]
  /\ ws = NoSocket
  /\ reconnectTimer = FALSE /\ watchdogTimer = FALSE
  /\ isForeground \in BOOLEAN /\ isOnline = TRUE
  /\ tokenRefreshAttempted = FALSE /\ refreshing = FALSE
  /\ tokenFresh \in BOOLEAN
  /\ status = "idle"
  /\ raced = FALSE

-----------------------------------------------------------------------------
(* The internals                                                           *)

(* _connect, with the fields isForeground and isOnline already updated.    *)
(* Nothing here looks at ws, at the timer or at a refresh under way.       *)
Connect ==
  IF stopped
  THEN UNCHANGED <<sock, ws, status, raced>>
  ELSE IF ~isForeground' \/ ~isOnline'
  THEN status' = "reconnecting" /\ UNCHANGED <<sock, ws, raced>>
  ELSE \E s \in Sockets :
         /\ sock[s] = "free"
         /\ sock' = [sock EXCEPT ![s] =
                        IF tokenFresh THEN "connecting" ELSE "stale"]
         /\ ws' = s
         /\ status' = "connecting"
         /\ raced' = (raced \/ reconnectTimer' \/ refreshing \/ Live # {})

(* ws?.close() on the sockets sk.                                          *)
Closing(sk, s) ==
  IF s # NoSocket /\ sk[s] \in AliveStates
  THEN [sk EXCEPT ![s] = "closing"] ELSE sk

(* The plausible slip: stop() forgets the timers.                          *)
StopWithTimers(sk, w) ==
  /\ stopped' = TRUE
  /\ listening' = FALSE
  /\ sock' = Closing(sk, w)
  /\ ws' = NoSocket
  /\ status' = "closed"
  /\ UNCHANGED <<reconnectTimer, watchdogTimer>>

(* stop() on the sockets sk, with w in the field ws.                       *)
StopWith(sk, w) ==
  /\ stopped' = TRUE
  /\ listening' = FALSE
  /\ reconnectTimer' = FALSE /\ watchdogTimer' = FALSE
  /\ sock' = Closing(sk, w)
  /\ ws' = NoSocket
  /\ status' = "closed"

ScheduleReconnect ==
  IF stopped
  THEN UNCHANGED <<reconnectTimer, watchdogTimer, status>>
  ELSE /\ reconnectTimer' = TRUE
       /\ watchdogTimer' = FALSE
       /\ status' = "reconnecting"

-----------------------------------------------------------------------------
(* The hook                                                                *)

Start ==
  /\ ~started
  /\ started' = TRUE
  /\ listening' = TRUE
  /\ tokenRefreshAttempted' = FALSE
  /\ UNCHANGED <<stopped, reconnectTimer, watchdogTimer, isForeground,
                 isOnline, refreshing, tokenFresh>>
  /\ Connect

Stop ==
  /\ started
  /\ StopWith(sock, ws)
  /\ UNCHANGED <<started, isForeground, isOnline, tokenRefreshAttempted,
                 refreshing, tokenFresh, raced>>

-----------------------------------------------------------------------------
(* Callbacks of a WebSocket, which may no longer be the one in ws          *)

(* The plausible slip: the status waits for the first message.             *)
OnOpenSilently(s) ==
  /\ \/ sock[s] = "connecting"
        /\ \E answer \in {"open", "forbidden"} : sock' = [sock EXCEPT ![s] = answer]
     \/ sock[s] = "stale" /\ sock' = [sock EXCEPT ![s] = "denied"]
  /\ watchdogTimer' = TRUE
  /\ UNCHANGED <<started, stopped, listening, ws, reconnectTimer,
                 isForeground, isOnline, tokenRefreshAttempted, refreshing,
                 tokenFresh, status, raced>>

OnOpen(s) ==
  /\ \/ sock[s] = "connecting"
        /\ \E answer \in {"open", "forbidden"} : sock' = [sock EXCEPT ![s] = answer]
     \/ sock[s] = "stale" /\ sock' = [sock EXCEPT ![s] = "denied"]
  /\ status' = "connected"
  /\ watchdogTimer' = TRUE
  /\ UNCHANGED <<started, stopped, listening, ws, reconnectTimer,
                 isForeground, isOnline, tokenRefreshAttempted, refreshing,
                 tokenFresh, raced>>

OnMessage(s) ==
  /\ sock[s] \in AnsweredStates
  /\ watchdogTimer' = TRUE
  /\ UNCHANGED <<started, stopped, listening, sock, ws, reconnectTimer,
                 isForeground, isOnline, tokenRefreshAttempted, refreshing,
                 tokenFresh, status, raced>>

(* onclose clears the timers and the field ws, whoever they belong to.     *)
OnClose(s) ==
  /\ sock[s] # "free"
  /\ sock' = [sock EXCEPT ![s] = "free"]
  /\ ws' = NoSocket
  /\ watchdogTimer' = FALSE
  /\ IF stopped
     THEN reconnectTimer' = FALSE /\ status' = "closed"
     ELSE reconnectTimer' = TRUE /\ status' = "reconnecting"
  /\ UNCHANGED <<started, stopped, listening, isForeground, isOnline,
                 tokenRefreshAttempted, refreshing, tokenFresh, raced>>

(* 4001: the token is refreshed once in the life of the object.            *)
OnCloseUnauthorized(s) ==
  /\ sock[s] = "denied"
  /\ ~stopped
  /\ IF tokenRefreshAttempted
     THEN /\ StopWith([sock EXCEPT ![s] = "free"], NoSocket)
          /\ UNCHANGED <<tokenRefreshAttempted, refreshing>>
     ELSE /\ sock' = [sock EXCEPT ![s] = "free"]
          /\ ws' = NoSocket
          /\ reconnectTimer' = FALSE /\ watchdogTimer' = FALSE
          /\ status' = "unauthorized"
          /\ tokenRefreshAttempted' = TRUE
          /\ refreshing' = TRUE
          /\ UNCHANGED <<stopped, listening>>
  /\ UNCHANGED <<started, isForeground, isOnline, tokenFresh, raced>>

(* 4003 and 4004: the vehicle is not one the user may follow.              *)
OnCloseForbidden(s) ==
  /\ sock[s] = "forbidden"
  /\ ~stopped
  /\ StopWith([sock EXCEPT ![s] = "free"], NoSocket)
  /\ UNCHANGED <<started, isForeground, isOnline, tokenRefreshAttempted,
                 refreshing, tokenFresh, raced>>

RefreshSucceeds ==
  /\ refreshing
  /\ refreshing' = FALSE
  /\ tokenFresh' = TRUE
  /\ ScheduleReconnect
  /\ UNCHANGED <<started, stopped, listening, sock, ws, isForeground,
                 isOnline, tokenRefreshAttempted, raced>>

RefreshFails ==
  /\ refreshing
  /\ refreshing' = FALSE
  /\ StopWith(sock, ws)
  /\ UNCHANGED <<started, isForeground, isOnline, tokenRefreshAttempted,
                 tokenFresh, raced>>

-----------------------------------------------------------------------------
(* Timers                                                                  *)

ReconnectTimerFires ==
  /\ reconnectTimer
  /\ reconnectTimer' = FALSE
  /\ UNCHANGED <<started, stopped, listening, watchdogTimer, isForeground,
                 isOnline, tokenRefreshAttempted, refreshing, tokenFresh>>
  /\ Connect

WatchdogFires ==
  /\ watchdogTimer
  /\ watchdogTimer' = FALSE
  /\ sock' = Closing(sock, ws)
  /\ UNCHANGED <<started, stopped, listening, ws, reconnectTimer,
                 isForeground, isOnline, tokenRefreshAttempted, refreshing,
                 tokenFresh, status, raced>>

-----------------------------------------------------------------------------
(* The application and the network                                         *)

OnAppStateChange(active) ==
  /\ listening
  /\ isForeground' = active
  /\ UNCHANGED <<started, stopped, listening, reconnectTimer, watchdogTimer,
                 isOnline, tokenRefreshAttempted, refreshing, tokenFresh>>
  /\ IF ~isForeground /\ active /\ ws = NoSocket
     THEN Connect
     ELSE /\ sock' = IF isForeground /\ ~active THEN Closing(sock, ws) ELSE sock
          /\ UNCHANGED <<ws, status, raced>>

(* Plausible slips: a loss of the network is reported with a status that   *)
(* no screen knows; the return of the network starts nothing.              *)
OnNetInfoChangeReported(online) ==
  /\ listening
  /\ isOnline' = online
  /\ status' = IF online THEN status ELSE "offline"
  /\ UNCHANGED <<started, stopped, listening, reconnectTimer, watchdogTimer,
                 isForeground, tokenRefreshAttempted, refreshing, tokenFresh,
                 sock, ws, raced>>

OnNetInfoChangeIdle(online) ==
  /\ listening
  /\ isOnline' = online
  /\ UNCHANGED <<started, stopped, listening, reconnectTimer, watchdogTimer,
                 isForeground, tokenRefreshAttempted, refreshing, tokenFresh,
                 sock, ws, status, raced>>

OnNetInfoChange(online) ==
  /\ listening
  /\ isOnline' = online
  /\ UNCHANGED <<started, stopped, listening, reconnectTimer, watchdogTimer,
                 isForeground, tokenRefreshAttempted, refreshing, tokenFresh>>
  /\ IF ~isOnline /\ online /\ ws = NoSocket
     THEN Connect
     ELSE UNCHANGED <<sock, ws, status, raced>>

TokenExpires ==
  /\ tokenFresh
  /\ tokenFresh' = FALSE
  /\ UNCHANGED <<started, stopped, listening, sock, ws, reconnectTimer,
                 watchdogTimer, isForeground, isOnline,
                 tokenRefreshAttempted, refreshing, status, raced>>

-----------------------------------------------------------------------------
Next ==
  \/ Start
  \/ Stop
  \/ \E s \in Sockets :
       \/ OnOpen(s)
       \/ OnMessage(s)
       \/ OnClose(s)
       \/ OnCloseUnauthorized(s)
       \/ OnCloseForbidden(s)
  \/ RefreshSucceeds
  \/ RefreshFails
  \/ ReconnectTimerFires
  \/ WatchdogFires
  \/ \E b \in BOOLEAN : OnAppStateChange(b) \/ OnNetInfoChange(b)
  \/ TokenExpires

Spec == Init /\ [][Next]_vars

(* Timers fire, requests and closing handshakes end, and a connection that *)
(* is tried again and again is answered some day, to be told why when the  *)
(* answer is no.                                                           *)
Fairness ==
  /\ WF_vars(ReconnectTimerFires)
  /\ WF_vars(RefreshSucceeds \/ RefreshFails)
  /\ WF_vars(\E s \in Sockets : sock[s] = "closing" /\ OnClose(s))
  /\ SF_vars(\E s \in Sockets : OnOpen(s))
  /\ SF_vars(\E s \in Sockets : OnCloseUnauthorized(s))
  /\ SF_vars(\E s \in Sockets : OnCloseForbidden(s))

FairSpec == Spec /\ Fairness

-----------------------------------------------------------------------------
(* Properties                                                              *)

(* As long as no connection was made while a reconnection, a token refresh *)
(* or another socket was pending, the object holds at most one WebSocket   *)
(* that is alive, it is the one in ws, and after stop() there is none and  *)
(* no timer.                                                               *)
OneSocketUnlessRaced ==
  ~raced => /\ Live \subseteq {ws}
            /\ stopped => ~reconnectTimer /\ ~watchdogTimer

(* Until then, what the user is shown is true: "connected" when and only   *)
(* when the server has answered the socket in ws.                          *)
ShownAsItIsUnlessRaced ==
  ~raced /\ ws # NoSocket =>
    /\ sock[ws] \in AnsweredStates => status = "connected"
    /\ status = "connected" => sock[ws] \in AnsweredStates \cup {"closing"}

(* A stream that has not been stopped comes back: while the application is *)
(* in the foreground and online, a socket is open again and again.         *)
ComesBack ==
  <>[](started /\ ~stopped /\ isForeground /\ isOnline)
    => []<>(\E s \in Sockets : sock[s] = "open")

(* "Stop listening and release all resources."                             *)
StopReleases == stopped => Live = {} /\ ~reconnectTimer /\ ~watchdogTimer
=============================================================================
