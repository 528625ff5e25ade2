------------------------ MODULE TrackingSocket_proofs ------------------------
(* For any number of WebSocket objects: until a connection is made while     *)
(* another is under way, the stream holds one socket, shows the state of     *)
(* that one, and releases it with its timers when it is stopped.             *)
EXTENDS TrackingSocket, TLAPS

(* Every step keeps the fields and the sockets in their types.               *)
THEOREM SocketTypeCorrect == Spec => []TypeOK
<1>1. Init => TypeOK
  BY DEF Init, TypeOK, AliveStates, AnsweredStates
<1>2. TypeOK /\ [Next]_vars => TypeOK'
  <2> SUFFICES ASSUME TypeOK, [Next]_vars PROVE TypeOK'
    OBVIOUS
  <2> USE DEF TypeOK, AliveStates, AnsweredStates, Connect, Closing, StopWith, ScheduleReconnect
  <2>1. CASE Start
    BY <2>1 DEF Start
  <2>2. CASE Stop
    BY <2>2 DEF Stop
  <2>3. ASSUME NEW s \in Sockets,
               \/ OnOpen(s) \/ OnMessage(s) \/ OnClose(s)
               \/ OnCloseUnauthorized(s) \/ OnCloseForbidden(s)
        PROVE  TypeOK'
    BY <2>3 DEF OnOpen, OnMessage, OnClose, OnCloseUnauthorized, OnCloseForbidden
  <2>4. CASE RefreshSucceeds \/ RefreshFails
    BY <2>4 DEF RefreshSucceeds, RefreshFails
  <2>5. CASE ReconnectTimerFires \/ WatchdogFires
    BY <2>5 DEF ReconnectTimerFires, WatchdogFires
  <2>6. ASSUME NEW b \in BOOLEAN, OnAppStateChange(b) PROVE TypeOK'
    BY <2>6 DEF OnAppStateChange
  <2>7. ASSUME NEW b \in BOOLEAN, OnNetInfoChange(b) PROVE TypeOK'
    BY <2>7 DEF OnNetInfoChange
  <2>8. CASE TokenExpires \/ UNCHANGED vars
    BY <2>8 DEF TokenExpires, vars
  <2> QED
    BY <2>1, <2>2, <2>3, <2>4, <2>5, <2>6, <2>7, <2>8 DEF Next
<1> QED
  BY <1>1, <1>2, PTL DEF Spec

-----------------------------------------------------------------------------
(* The inductive invariant.  Until a connection was raced, a socket that is  *)
(* not in ws has been given up by stop(), no timer and no refresh waits      *)
(* while ws is taken, and nothing exists before start() or after stop().     *)
InUse == {s \in Sockets : sock[s] # "free"}

StreamInv ==
  ~raced =>
    /\ ~started => InUse = {} /\ ~listening /\ ~stopped /\ ~reconnectTimer /\ ~watchdogTimer /\ ~refreshing
    /\ stopped => ws = NoSocket /\ Live = {} /\ ~reconnectTimer /\ ~watchdogTimer
    /\ ~stopped => InUse \subseteq {ws}
    /\ reconnectTimer \/ refreshing => ws = NoSocket
    /\ ShownAsItIsUnlessRaced

(* A second connection is only made while a timer, a refresh or a socket is  *)
(* pending, and then it is noted; every other callback finds the fields of   *)
(* the socket it belongs to.                                                 *)
LEMMA StreamStep ==
  ASSUME TypeOK, StreamInv, [Next]_vars
  PROVE  StreamInv'
<1> SUFFICES ASSUME ~raced' PROVE StreamInv'
  BY DEF StreamInv
<1> USE NoSocketAssumption DEF StreamInv, ShownAsItIsUnlessRaced, InUse, Live, AliveStates, AnsweredStates, TypeOK
<1>1. CASE Start
  BY <1>1 DEF Start, Connect
<1>2. CASE Stop
  BY <1>2 DEF Stop, StopWith, Closing
<1>3. ASSUME NEW s \in Sockets, OnOpen(s) \/ OnMessage(s) PROVE StreamInv'
  BY <1>3 DEF OnOpen, OnMessage
<1>4. ASSUME NEW s \in Sockets, OnClose(s) PROVE StreamInv'
  BY <1>4 DEF OnClose
<1>5. ASSUME NEW s \in Sockets, OnCloseUnauthorized(s) \/ OnCloseForbidden(s) PROVE StreamInv'
  BY <1>5 DEF OnCloseUnauthorized, OnCloseForbidden, StopWith, Closing
<1>6. CASE RefreshSucceeds \/ RefreshFails
  BY <1>6 DEF RefreshSucceeds, RefreshFails, ScheduleReconnect, StopWith, Closing
<1>7. CASE ReconnectTimerFires
  BY <1>7 DEF ReconnectTimerFires, Connect
<1>8. CASE WatchdogFires \/ TokenExpires \/ UNCHANGED vars
  BY <1>8 DEF WatchdogFires, TokenExpires, Closing, vars
<1>9. ASSUME NEW b \in BOOLEAN, OnAppStateChange(b) PROVE StreamInv'
  BY <1>9 DEF OnAppStateChange, Connect, Closing
<1>10. ASSUME NEW b \in BOOLEAN, OnNetInfoChange(b) PROVE StreamInv'
  BY <1>10 DEF OnNetInfoChange, Connect
<1> QED
  BY <1>1, <1>2, <1>3, <1>4, <1>5, <1>6, <1>7, <1>8, <1>9, <1>10 DEF Next

(* The strengthening that makes the two properties below inductive.          *)
THEOREM StreamInvariant == Spec => []StreamInv
<1>1. Init => StreamInv
  BY NoSocketAssumption DEF Init, StreamInv, InUse, Live, AliveStates, AnsweredStates,
     ShownAsItIsUnlessRaced
<1> QED
  BY <1>1, StreamStep, SocketTypeCorrect, PTL DEF Spec

(* The object never holds two live sockets, and stop() leaves none and no    *)
(* timer, unless a connection was made while another was pending.            *)
THEOREM OneSocket == Spec => []OneSocketUnlessRaced
<1>1. TypeOK /\ StreamInv => OneSocketUnlessRaced
  BY NoSocketAssumption DEF TypeOK, StreamInv, InUse, Live, AliveStates, AnsweredStates,
     OneSocketUnlessRaced
<1> QED
  BY <1>1, StreamInvariant, SocketTypeCorrect, PTL

(* Until then the status on the screen is that of the socket in ws.          *)
THEOREM ShownAsItIs == Spec => []ShownAsItIsUnlessRaced
<1>1. StreamInv => ShownAsItIsUnlessRaced
  BY DEF StreamInv, ShownAsItIsUnlessRaced
<1> QED
  BY <1>1, StreamInvariant, PTL
=============================================================================
