----------------------------- MODULE MCHttpServer -----------------------------
(* HttpServer with three connections and a limit of two requests, one more   *)
(* connection than the limit.  Beside it the login in the browser (WebLogin), *)
(* which has a server of its own: of that server it needs only that it runs   *)
(* or not, so that the login here happens while the server has not begun, and *)
(* the other way round.  The .cfg files give the constants.                   *)
EXTENDS HttpServer, WebLogin

allVars == <<vars, loginVars>>

Serves(A) == LoginInit /\ A /\ UNCHANGED loginVars
LogsIn(A) == Init /\ A /\ UNCHANGED vars

HostInit == Init /\ LoginInit
HostNext == Serves(Next) \/ LogsIn(LoginNext)

(* The fairness of HttpServer and of WebLogin, each for its own part.       *)
HostFairness ==
  /\ WF_allVars(Serves(AcceptStep)) /\ WF_allVars(Serves(StopStep))
  /\ \A c \in Conn : WF_allVars(Serves(OwnStep(c)))
  /\ WF_allVars(LogsIn(WindowStep)) /\ WF_allVars(LogsIn(TimerWakes))
  /\ SF_allVars(LogsIn(TimerCloses)) /\ WF_allVars(LogsIn(TimePasses))
  /\ \A c \in Callback : WF_allVars(LogsIn(ReadStep(c)))

HostSpec == HostInit /\ [][HostNext]_allVars /\ HostFairness
=============================================================================
