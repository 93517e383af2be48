--------------------------- MODULE LifecycleProofs ---------------------------
(***************************************************************************)
(* Theorems about the shared HTTP handle, for any number of sessions and   *)
(* requests.                                                               *)
(*                                                                         *)
(* Which handle a request gets depends on what sessions have done before:  *)
(* the invariant says in which phases of theirs the startup handle may     *)
(* still be in _http, a request may be flying, and a handle be closed.     *)
(***************************************************************************)
EXTENDS HttpLifecycle, TLAPS

(* The startup handle is out of _http once a session has entered, and the
   numbers of later handles are larger. *)
StartupIsOver ==
  /\ phase = "startup" => \A s \in Session : session[s] = "new"
  /\ phase = "serving" => made > 0
  /\ phase = "exited" => \A s \in Session : session[s] = "new"
  /\ \A s \in Session : session[s] # "new" => phase = "serving" /\ http # StartupHandle

(* Requests are made by sessions that have entered, and fly only while their
   session is in. *)
RequestsBySessions ==
  \A r \in Req :
    /\ request[r].status = "idle" => request[r] = NoRequest
    /\ request[r].status # "idle" =>
         request[r].by \in Session /\ session[request[r].by] # "new"
    /\ request[r].status = "flying" => session[request[r].by] = "in"

(* Handles are closed by sessions that leave. *)
ClosedByLeaving ==
  closed # {} => \E s \in Session : session[s] \in {"leaving", "gone"}

LifecycleInv ==
  /\ LifecycleTypeOK
  /\ StartupIsOver
  /\ RequestsBySessions
  /\ ClosedByLeaving
  /\ StartupLoopIsLeft
  /\ ClosedIsForgotten
  /\ RequestsOfOneSurvive

-----------------------------------------------------------------------------
(* The type of request when the handles in H have been made. *)
RequestOn(H) ==
  [Req -> [status : {"idle", "flying", "ended", "broken"},
           by : Session \cup {None}, handle : H \cup {None}]]

LEMMA RequestsTyped == LifecycleTypeOK => request \in RequestOn(Handle)
  BY DEF LifecycleTypeOK, RequestOn

(* Making a handle leaves the requests well typed. *)
LEMMA RequestOnMore ==
  ASSUME NEW H, NEW G, H \subseteq G, NEW q \in RequestOn(H)
  PROVE  q \in RequestOn(G)
  <1>1. \A r \in Req : q[r] \in [status : {"idle", "flying", "ended", "broken"},
                               by : Session \cup {None}, handle : H \cup {None}]
    BY DEF RequestOn
  <1>2. \A r \in Req : q[r] \in [status : {"idle", "flying", "ended", "broken"},
                               by : Session \cup {None}, handle : G \cup {None}]
    BY <1>1
  <1> QED
    BY <1>2 DEF RequestOn

LEMMA LifecycleInitInv == LifecycleInit => LifecycleInv
  <1> SUFFICES ASSUME LifecycleInit PROVE LifecycleInv
    OBVIOUS
  <1>1. LifecycleTypeOK
    BY DEF LifecycleInit, LifecycleTypeOK, NoRequest, Handle
  <1>2. StartupIsOver /\ RequestsBySessions /\ ClosedByLeaving
    BY DEF LifecycleInit, StartupIsOver, RequestsBySessions, ClosedByLeaving, NoRequest
  <1>3. StartupLoopIsLeft
    BY NoneAssumption DEF LifecycleInit, StartupLoopIsLeft, NoRequest, StartupHandle
  <1>4. ClosedIsForgotten /\ RequestsOfOneSurvive
    BY DEF LifecycleInit, ClosedIsForgotten, RequestsOfOneSurvive, NoRequest
  <1> QED
    BY <1>1, <1>2, <1>3, <1>4 DEF LifecycleInv

LEMMA StartupCheckInv == LifecycleInv /\ StartupCheck => LifecycleInv'
  <1> SUFFICES ASSUME LifecycleInv, StartupCheck PROVE LifecycleInv'
    OBVIOUS
  <1> USE DEF LifecycleInv
  <1>1. /\ \A s \in Session : session[s] = "new"
        /\ UNCHANGED <<closed, session, request>>
        /\ phase' \in {"serving", "exited"} /\ http' = 0 /\ made' = 1
    BY DEF StartupCheck, StartupIsOver, StartupHandle
  <1>2. closed = {}
    BY <1>1 DEF ClosedByLeaving
  <1>3. \A r \in Req : request[r] = NoRequest
    BY <1>1 DEF RequestsBySessions
  <1>4. LifecycleTypeOK'
    <2>1. request' \in [Req -> [status : {"idle", "flying", "ended", "broken"},
                                by : Session \cup {None}, handle : Handle' \cup {None}]]
      BY <1>1, <1>3 DEF LifecycleTypeOK, NoRequest
    <2> QED
      BY <1>1, <1>2, <2>1 DEF LifecycleTypeOK, Handle
  <1>5. StartupIsOver' /\ RequestsBySessions' /\ ClosedByLeaving'
    BY <1>1, <1>2 DEF StartupIsOver, RequestsBySessions, ClosedByLeaving
  <1>6. StartupLoopIsLeft' /\ ClosedIsForgotten' /\ RequestsOfOneSurvive'
    BY <1>1, <1>2, <1>3 DEF StartupLoopIsLeft, ClosedIsForgotten, RequestsOfOneSurvive, NoRequest
  <1> QED
    BY <1>4, <1>5, <1>6

LEMMA EnterInv ==
  ASSUME LifecycleInv, NEW s \in Session, Enter(s)
  PROVE  LifecycleInv'
  <1> USE DEF LifecycleInv
  <1>1. /\ session[s] = "new" /\ session' = [session EXCEPT ![s] = "in"]
        /\ phase = "serving" /\ made > 0
        /\ http' = made /\ made' = made + 1
        /\ UNCHANGED <<phase, closed, request>>
    BY DEF Enter, StartupIsOver
  <1>2. LifecycleTypeOK'
    <2>1. made \in Nat /\ Handle \subseteq Handle' /\ made \in Handle'
      BY <1>1 DEF LifecycleTypeOK, Handle
    <2>2. request' \in RequestOn(Handle')
      BY <1>1, <2>1, RequestOnMore, RequestsTyped
    <2> QED
      BY <1>1, <2>1, <2>2 DEF LifecycleTypeOK, RequestOn
  <1>3. session \in [Session -> {"new", "in", "leaving", "gone"}] /\ made \in Nat
    BY DEF LifecycleTypeOK
  <1>4. StartupIsOver' /\ RequestsBySessions' /\ ClosedByLeaving'
    BY <1>1, <1>3 DEF StartupIsOver, RequestsBySessions, ClosedByLeaving, StartupHandle
  <1>5. StartupLoopIsLeft'
    BY <1>1 DEF StartupLoopIsLeft
  <1>6. ClosedIsForgotten'
    BY <1>1, <1>3 DEF ClosedIsForgotten, LifecycleTypeOK, Handle
  <1>7. RequestsOfOneSurvive'
    <2> SUFFICES ASSUME NEW q \in Session, \A x \in Session : session'[x] # "new" => x = q,
                        NEW r \in Req
                 PROVE  request[r].status # "broken"
      BY <1>1 DEF RequestsOfOneSurvive
    <2>1. \A x \in Session : session[x] = "new"
      BY <1>1, <1>3
    <2> QED
      BY <2>1 DEF RequestsBySessions
  <1> QED
    BY <1>2, <1>4, <1>5, <1>6, <1>7

LEMMA BeginExitInv ==
  ASSUME LifecycleInv, NEW s \in Session, BeginExit(s)
  PROVE  LifecycleInv'
  <1> USE DEF LifecycleInv
  <1>1. /\ session[s] = "in"
        /\ \A r \in Req : request[r].status = "flying" => request[r].by # s
        /\ session' = [session EXCEPT ![s] = IF http = None THEN "gone" ELSE "leaving"]
        /\ closed' = IF http = None THEN closed ELSE closed \cup {http}
        /\ UNCHANGED <<phase, http, made, request>>
    BY DEF BeginExit
  <1>2. session \in [Session -> {"new", "in", "leaving", "gone"}]
    BY DEF LifecycleTypeOK
  <1>3. LifecycleTypeOK'
    BY <1>1 DEF LifecycleTypeOK, Handle
  <1>4. /\ session'[s] \in {"leaving", "gone"}
        /\ \A q \in Session : q # s => session'[q] = session[q]
        /\ http # None => session'[s] = "leaving"
    BY <1>1, <1>2
  <1>5. StartupIsOver' /\ RequestsBySessions' /\ ClosedByLeaving'
    BY <1>1, <1>4 DEF StartupIsOver, RequestsBySessions, ClosedByLeaving
  <1>6. StartupLoopIsLeft'
    BY <1>1 DEF StartupLoopIsLeft
  <1>7. ClosedIsForgotten'
    <2>1. CASE http = None
      BY <2>1, <1>1, NoneAssumption DEF ClosedIsForgotten, LifecycleTypeOK, Handle
    <2>2. CASE http # None
      BY <2>2, <1>1, <1>4 DEF ClosedIsForgotten
    <2> QED
      BY <2>1, <2>2
  <1>8. RequestsOfOneSurvive'
    BY <1>1, <1>4 DEF RequestsOfOneSurvive
  <1> QED
    BY <1>3, <1>5, <1>6, <1>7, <1>8

LEMMA EndExitInv ==
  ASSUME LifecycleInv, NEW s \in Session, EndExit(s)
  PROVE  LifecycleInv'
  <1> USE DEF LifecycleInv
  <1>1. /\ session[s] = "leaving" /\ session' = [session EXCEPT ![s] = "gone"]
        /\ http' = None
        /\ UNCHANGED <<phase, made, closed, request>>
    BY DEF EndExit
  <1>2. session \in [Session -> {"new", "in", "leaving", "gone"}]
    BY DEF LifecycleTypeOK
  <1>3. LifecycleTypeOK'
    BY <1>1 DEF LifecycleTypeOK, Handle
  <1>4. /\ session'[s] = "gone"
        /\ \A q \in Session : q # s => session'[q] = session[q]
    BY <1>1, <1>2
  <1>5. StartupIsOver' /\ RequestsBySessions' /\ ClosedByLeaving'
    BY <1>1, <1>4, NoneAssumption
       DEF StartupIsOver, RequestsBySessions, ClosedByLeaving, StartupHandle
  <1>6. StartupLoopIsLeft' /\ RequestsOfOneSurvive'
    BY <1>1, <1>4 DEF StartupLoopIsLeft, RequestsOfOneSurvive
  <1>7. ClosedIsForgotten'
    BY <1>1, NoneAssumption DEF ClosedIsForgotten, LifecycleTypeOK, Handle
  <1> QED
    BY <1>3, <1>5, <1>6, <1>7

LEMMA StartInv ==
  ASSUME LifecycleInv, NEW r \in Req, NEW s \in Session, Start(r, s)
  PROVE  LifecycleInv'
  <1> USE DEF LifecycleInv
  <1> DEFINE h == IF http = None THEN made ELSE http
             new == [status |-> IF h \in closed THEN "broken" ELSE "flying",
                     by |-> s, handle |-> h]
  <1>1. /\ session[s] = "in" /\ request[r] = NoRequest
        /\ http' = h
        /\ made' = IF http = None THEN made + 1 ELSE made
        /\ request' = [request EXCEPT ![r] = new]
        /\ UNCHANGED <<phase, closed, session>>
    BY DEF Start
  <1>2. /\ phase = "serving" /\ made > 0 /\ http # StartupHandle
        /\ made \in Nat /\ http \in Handle \cup {None} /\ closed \subseteq Handle
        /\ session \in [Session -> {"new", "in", "leaving", "gone"}]
    BY <1>1 DEF StartupIsOver, LifecycleTypeOK
  <1>3. /\ h \in Handle' /\ h # StartupHandle /\ Handle \subseteq Handle' /\ made' \in Nat
        /\ made' > 0
        /\ http = None => h \notin closed
    BY <1>1, <1>2 DEF Handle, StartupHandle
  <1>4. /\ new.status \in {"flying", "broken"} /\ new.by = s /\ new.handle = h
        /\ h \notin closed => new.status = "flying"
        /\ new.status = "broken" => closed # {}
    OBVIOUS
  <1>5. new \in [status : {"idle", "flying", "ended", "broken"},
                 by : Session \cup {None}, handle : Handle' \cup {None}]
    BY <1>3
  <1> HIDE DEF h, new
  <1>6. request' \in RequestOn(Handle')
    <2>1. request \in RequestOn(Handle')
      BY <1>3, RequestOnMore, RequestsTyped
    <2> QED
      BY <2>1, <1>1, <1>5 DEF RequestOn
  <1>7. LifecycleTypeOK'
    BY <1>1, <1>2, <1>3, <1>6 DEF LifecycleTypeOK, RequestOn
  <1>8. request'[r] = new /\ \A q \in Req : q # r => request'[q] = request[q]
    BY <1>1 DEF LifecycleTypeOK
  <1>9. StartupIsOver' /\ ClosedByLeaving'
    BY <1>1, <1>2, <1>3 DEF StartupIsOver, ClosedByLeaving
  <1>10. RequestsBySessions'
    BY <1>1, <1>4, <1>8 DEF RequestsBySessions
  <1>11. StartupLoopIsLeft'
    BY <1>3, <1>4, <1>8 DEF StartupLoopIsLeft
  <1>12. ClosedIsForgotten'
    BY <1>1, <1>3 DEF ClosedIsForgotten, h
  <1>13. RequestsOfOneSurvive'
    <2>1. ASSUME NEW q \in Session, \A x \in Session : session[x] # "new" => x = q
          PROVE  new.status # "broken"
      BY <2>1, <1>1, <1>2, <1>4 DEF ClosedByLeaving
    <2> QED
      BY <2>1, <1>1, <1>8 DEF RequestsOfOneSurvive
  <1> QED
    BY <1>7, <1>9, <1>10, <1>11, <1>12, <1>13

(* A request that flies gets another status and stays what else it is. *)
LEMMA EndInv ==
  ASSUME LifecycleInv, NEW r \in Req, request[r].status = "flying",
         NEW status \in {"ended", "broken"},
         status = "broken" => closed # {},
         request' = [request EXCEPT ![r].status = status],
         UNCHANGED <<phase, http, made, closed, session>>
  PROVE  LifecycleInv'
  <1> USE DEF LifecycleInv
  <1>1. LifecycleTypeOK'
    BY DEF LifecycleTypeOK, Handle
  <1>2. /\ request'[r].status = status
        /\ request'[r].by = request[r].by
        /\ request'[r].handle = request[r].handle
        /\ \A q \in Req : q # r => request'[q] = request[q]
    BY DEF LifecycleTypeOK
  <1>3. StartupIsOver' /\ ClosedByLeaving' /\ ClosedIsForgotten'
    BY DEF StartupIsOver, ClosedByLeaving, ClosedIsForgotten
  <1>4. RequestsBySessions'
    BY <1>2 DEF RequestsBySessions
  <1>5. StartupLoopIsLeft'
    BY <1>2 DEF StartupLoopIsLeft
  <1>6. RequestsOfOneSurvive'
    <2>1. ASSUME NEW q \in Session, \A x \in Session : session[x] # "new" => x = q
          PROVE  status # "broken"
      BY <2>1 DEF ClosedByLeaving, RequestsBySessions
    <2> QED
      BY <2>1, <1>2 DEF RequestsOfOneSurvive
  <1> QED
    BY <1>1, <1>3, <1>4, <1>5, <1>6

LEMMA LifecycleNextInv == LifecycleInv /\ [LifecycleNext]_lifecycleVars => LifecycleInv'
  <1> SUFFICES ASSUME LifecycleInv, [LifecycleNext]_lifecycleVars PROVE LifecycleInv'
    OBVIOUS
  <1>1. ASSUME NEW r \in Req, End(r)
        PROVE  LifecycleInv'
    BY <1>1, EndInv DEF End
  <1>2. ASSUME NEW r \in Req, Break(r)
        PROVE  LifecycleInv'
    BY <1>2, EndInv DEF Break
  <1>3. CASE UNCHANGED lifecycleVars
    BY <1>3 DEF lifecycleVars, LifecycleInv, LifecycleTypeOK, Handle, StartupIsOver,
                RequestsBySessions, ClosedByLeaving, StartupLoopIsLeft,
                ClosedIsForgotten, RequestsOfOneSurvive
  <1> QED
    BY <1>1, <1>2, <1>3, StartupCheckInv, EnterInv, BeginExitInv, EndExitInv, StartInv
       DEF LifecycleNext

LEMMA LifecycleInvariance == LifecycleSpec => []LifecycleInv
  BY LifecycleInitInv, LifecycleNextInv, PTL DEF LifecycleSpec

-----------------------------------------------------------------------------
(* Handles are numbered as they are made, and none is used before that. *)
THEOREM HandlesTypeCorrect == LifecycleSpec => []LifecycleTypeOK
  BY LifecycleInvariance, PTL DEF LifecycleInv

(* asyncio.run(_startup_check) leaves a handle bound to a closed loop in the
   client that serves (__main__.py:38-40); no request ever goes out on it. *)
THEOREM StartupHandleIsUnused == LifecycleSpec => []StartupLoopIsLeft
  BY LifecycleInvariance, PTL DEF LifecycleInv

(* Whoever closes a handle forgets it before its own exit is over, or has had
   it replaced by then (client.py:24-32), for any number of overlapping exits. *)
THEOREM ClosedHandlesAreForgotten == LifecycleSpec => []ClosedIsForgotten
  BY LifecycleInvariance, PTL DEF LifecycleInv

(* Over stdio the lifespan does what it should: no request is broken. *)
THEOREM OneSessionIsSafe == LifecycleSpec => []RequestsOfOneSurvive
  BY LifecycleInvariance, PTL DEF LifecycleInv

(* What is left behind by the last of the sessions: __aexit__ has forgotten
   the handle, and only a session that is in makes another. *)
LEMMA ShutdownForgetsInv ==
  ASSUME LifecycleInv, ShutdownForgets, [LifecycleNext]_lifecycleVars
  PROVE  ShutdownForgets'
  <1>1. ASSUME NEW s \in Session, Enter(s) \/ \E r \in Req : Start(r, s)
        PROVE  session'[s] = "in"
    BY <1>1 DEF Enter, Start, LifecycleInv, LifecycleTypeOK
  <1>2. ASSUME NEW s \in Session, BeginExit(s)
        PROVE  ShutdownForgets'
    <2>1. session'[s] = IF http = None THEN "gone" ELSE "leaving"
      BY <1>2 DEF BeginExit, LifecycleInv, LifecycleTypeOK
    <2> QED
      BY <1>2, <2>1 DEF BeginExit, ShutdownForgets
  <1>3. ASSUME NEW s \in Session, EndExit(s)
        PROVE  ShutdownForgets'
    BY <1>3 DEF EndExit, ShutdownForgets
  <1>4. CASE StartupCheck
    BY <1>4 DEF StartupCheck, ShutdownForgets, LifecycleInv, StartupIsOver
  <1>5. CASE (\E r \in Req : End(r) \/ Break(r)) \/ UNCHANGED lifecycleVars
    BY <1>5 DEF End, Break, lifecycleVars, ShutdownForgets
  <1> QED
    BY <1>1, <1>2, <1>3, <1>4, <1>5 DEF LifecycleNext, ShutdownForgets

(* When the last session has left, the client holds no handle
   (test_server.py:81), in whatever order any number of exits, each suspended
   in its aclose, come to their ends. *)
THEOREM ShutdownLeavesNoHandle == LifecycleSpec => []ShutdownForgets
  <1>1. LifecycleInit => ShutdownForgets
    BY DEF LifecycleInit, ShutdownForgets
  <1>2. LifecycleInv /\ ShutdownForgets /\ [LifecycleNext]_lifecycleVars => ShutdownForgets'
    BY ShutdownForgetsInv
  <1> QED
    BY <1>1, <1>2, LifecycleInvariance, PTL DEF LifecycleSpec
=============================================================================
