------------------------------- MODULE WebLogin -------------------------------
(***************************************************************************)
(* The login of Trae Relay in the browser (webLogin).  The window's thread  *)
(* opens an attempt: a server on the loopback interface that waits for the  *)
(* browser, and a timer thread.  A callback of the browser, on a thread of  *)
(* that server, exchanges the code it brings and saves the account.  The    *)
(* attempt ends with its callback, after 30 minutes, or when the window     *)
(* stops it; the timer then stops the server.                               *)
(*                                                                         *)
(* Each attempt has a mutex and a mark that it is completed; whether a      *)
(* login is pending is one flag for all of them.  The server's threads and  *)
(* connections are HttpServer's, what save does is CredentialVault's        *)
(* (StartAdd).                                                              *)
(***************************************************************************)
EXTENDS Naturals

CONSTANTS
  MaxAttempt, \* bound: attempts the user makes
  Callback    \* threads that answer the browser

ASSUME LoginAssumption == MaxAttempt \in Nat

VARIABLES
  win,       \* where the window's thread is
  then,      \* where it goes after stop
  attempt,   \* the newest attempt, 0 before the first
  up,        \* its server runs
  pending,   \* a login is pending
  timer,     \* where the timer's thread is
  stopping,  \* it was requested to stop
  overdue,   \* attempts that began 30 minutes ago
  completed, \* attempts that have saved an account (Attempt::completed)
  cb,        \* where each callback is
  of,        \* and the attempt it belongs to
  saves      \* how many accounts each attempt has saved

Attempt == 1 .. MaxAttempt

(* A callback has the mutex of its attempt (Attempt::mutex) until the       *)
(* browser is answered.                                                     *)
AtWork    == {"exchange", "save"}
Locked(a) == \E c \in Callback : of[c] = a /\ cb[c] \in AtWork \cup {"answered"}

windowVars   == <<win, then, attempt>>
timerVars    == <<timer, stopping, overdue>>
callbackVars == <<completed, cb, of, saves>>
loginVars    == <<windowVars, up, pending, timerVars, callbackVars>>

LoginInit ==
  /\ win = "idle" /\ then = "idle" /\ attempt = 0
  /\ up = FALSE /\ pending = FALSE
  /\ timer = "none" /\ stopping = FALSE /\ overdue = {}
  /\ completed = {}
  /\ cb = [c \in Callback |-> "none"] /\ of = [c \in Callback |-> 0]
  /\ saves = [a \in Attempt |-> 0]

-----------------------------------------------------------------------------
(* stop, on the window's thread.                                            *)
stop(after) ==
  /\ pending' = FALSE /\ stopping' = TRUE
  /\ win' = "join" /\ then' = after

(* The timer has ended, or was never started.                               *)
Join ==
  /\ win = "join" /\ timer \in {"none", "ended"}
  /\ timer' = "none" /\ win' = "close"
  /\ UNCHANGED <<then, attempt, up, pending, stopping, overdue, callbackVars>>

(* server->stop(); callbacks that have been read go on.                     *)
CloseServer ==
  /\ win = "close" /\ win' = then
  /\ up' = FALSE /\ pending' = FALSE
  /\ UNCHANGED <<then, attempt, timerVars, callbackVars>>

(* start is refused while a login is pending.                               *)
Start ==
  /\ win = "idle" /\ ~pending
  /\ stop("create")
  /\ UNCHANGED <<attempt, up, timer, overdue, callbackVars>>

(* A new attempt and its server; one may fail.                              *)
Create ==
  /\ win = "create"
  /\ \/ /\ attempt < MaxAttempt
        /\ attempt' = attempt + 1 /\ up' = TRUE /\ win' = "open"
     \/ win' = "idle" /\ UNCHANGED <<attempt, up>>
  /\ UNCHANGED <<then, pending, timerVars, callbackVars>>

Pend ==
  /\ win = "open" /\ win' = "browser" /\ pending' = TRUE
  /\ UNCHANGED <<then, attempt, up, timerVars, callbackVars>>

(* ShellExecute opens the browser, or the attempt is stopped.               *)
OpenBrowser ==
  /\ win = "browser"
  /\ \/ win' = "timer" /\ UNCHANGED <<then, pending, stopping>>
     \/ stop("idle")
  /\ UNCHANGED <<attempt, up, timer, overdue, callbackVars>>

StartTimer ==
  /\ win = "timer" /\ win' = "idle"
  /\ timer' = "watch" /\ stopping' = FALSE
  /\ UNCHANGED <<then, attempt, up, pending, overdue, callbackVars>>

(* The window is destroyed (~WindowController).                             *)
Exit ==
  /\ win = "idle" /\ stop("over")
  /\ UNCHANGED <<attempt, up, timer, overdue, callbackVars>>

-----------------------------------------------------------------------------
(* The timer's thread: every 100 ms it looks whether there is a reason to   *)
(* end; when it is the 30 minutes, the login is no longer pending.          *)
\* Mutant of TimerWakes: the age of the attempt is not looked at.
TimerWaits ==
  /\ timer = "watch" /\ (stopping \/ ~pending)
  /\ timer' = "close"
  /\ UNCHANGED <<windowVars, up, pending, stopping, overdue, callbackVars>>

TimerWakes ==
  /\ timer = "watch" /\ (stopping \/ ~pending \/ attempt \in overdue)
  /\ timer' = "close"
  /\ pending' = (pending /\ stopping)
  /\ UNCHANGED <<windowVars, up, stopping, overdue, callbackVars>>

(* It stops the server while it holds the attempt's mutex: after a callback *)
(* that is at work, before those that wait.                                 *)
\* Mutant of TimerCloses: the server is stopped at once.
TimerClosesAtOnce ==
  /\ timer = "close" /\ timer' = "ended" /\ up' = FALSE
  /\ UNCHANGED <<windowVars, pending, stopping, overdue, callbackVars>>

TimerCloses ==
  /\ timer = "close" /\ ~Locked(attempt)
  /\ timer' = "ended" /\ up' = FALSE
  /\ UNCHANGED <<windowVars, pending, stopping, overdue, callbackVars>>

\* The older attempts began earlier.
TimePasses ==
  /\ \E a \in 1 .. attempt : a \notin overdue /\ overdue' = overdue \cup 1 .. a
  /\ UNCHANGED <<windowVars, up, pending, timer, stopping, callbackVars>>

-----------------------------------------------------------------------------
(* A connection of the browser, once its page is open.                      *)
Connect(c) ==
  /\ cb[c] = "none" /\ up /\ (win = "timer" \/ timer # "none")
  /\ cb' = [cb EXCEPT ![c] = "reads"] /\ of' = [of EXCEPT ![c] = attempt]
  /\ UNCHANGED <<windowVars, up, pending, timerVars, completed, saves>>

(* The browser comes back, once or, when the page is loaded again, more     *)
(* often, or the connection ends.  When the server stops not every          *)
(* connection is interrupted (StopInterruptsAll of HttpServer).             *)
Arrive(c) ==
  /\ cb[c] = "reads"
  /\ \E to \in {"waiting", "none"} : cb' = [cb EXCEPT ![c] = to]
  /\ UNCHANGED <<windowVars, up, pending, timerVars, completed, of, saves>>

\* Mutant of Expired: an attempt that has saved may save again.
ExpiredUnlessPending(a) == ~pending \/ a \in overdue

Expired(a) == a \in completed \/ ~pending \/ a \in overdue

(* With the mutex: the login is expired (410), or the callback is at work.  *)
Enter(c) ==
  /\ cb[c] = "waiting" /\ ~Locked(of[c])
  /\ cb' = [cb EXCEPT ![c] = IF Expired(of[c]) THEN "none" ELSE "exchange"]
  /\ UNCHANGED <<windowVars, up, pending, timerVars, completed, of, saves>>

(* The fields, the exchange of the code and the query of the user hold, or  *)
(* one of them fails.                                                       *)
Exchange(c) ==
  /\ cb[c] = "exchange"
  /\ \E to \in {"save", "answered"} : cb' = [cb EXCEPT ![c] = to]
  /\ UNCHANGED <<windowVars, up, pending, timerVars, completed, of, saves>>

(* save adds the account, or refuses.                                       *)
Save(c) ==
  /\ cb[c] = "save" /\ cb' = [cb EXCEPT ![c] = "answered"]
  /\ \/ completed' = completed \cup {of[c]} /\ saves' = [saves EXCEPT ![of[c]] = @ + 1]
     \/ UNCHANGED <<completed, saves>>
  /\ UNCHANGED <<windowVars, up, pending, timerVars, of>>

(* Once the browser is answered no login is pending, whoever's it was.      *)
Answered(c) ==
  /\ cb[c] = "answered" /\ cb' = [cb EXCEPT ![c] = "none"]
  /\ pending' = FALSE
  /\ UNCHANGED <<windowVars, up, timerVars, completed, of, saves>>

-----------------------------------------------------------------------------
WindowStep      == Join \/ CloseServer \/ Create \/ Pend \/ OpenBrowser \/ StartTimer
TimerStep       == TimerWakes \/ TimerCloses
ReadStep(c)     == Enter(c) \/ Exchange(c) \/ Save(c) \/ Answered(c)
CallbackStep(c) == Arrive(c) \/ ReadStep(c)

LoginNext ==
  \/ WindowStep \/ Start \/ Exit \/ TimerStep \/ TimePasses
  \/ \E c \in Callback : Connect(c) \/ CallbackStep(c)

LoginSpec == LoginInit /\ [][LoginNext]_loginVars

(* Threads are scheduled and the mutex is fair enough; calls to the         *)
(* upstream time out after 30 seconds; the clock goes on.  The browser need *)
(* not send anything (Arrive).  Its answer, sent while the mutex is held and *)
(* without a timeout, is a page of a few hundred bytes: it fits the buffer  *)
(* of the socket, so that send does not wait for the browser to read it.    *)
LoginFairness ==
  /\ WF_loginVars(WindowStep) /\ WF_loginVars(TimerWakes) /\ SF_loginVars(TimerCloses)
  /\ \A c \in Callback : WF_loginVars(ReadStep(c))
  /\ WF_loginVars(TimePasses)

-----------------------------------------------------------------------------
LoginTypeOK ==
  /\ win \in {"idle", "join", "close", "create", "open", "browser", "timer", "over"}
  /\ then \in {"idle", "create", "over"}
  /\ attempt \in 0 .. MaxAttempt
  /\ up \in BOOLEAN /\ pending \in BOOLEAN /\ stopping \in BOOLEAN
  /\ timer \in {"none", "watch", "close", "ended"}
  /\ overdue \subseteq Attempt /\ completed \subseteq Attempt
  /\ cb \in [Callback -> AtWork \cup {"none", "reads", "waiting", "answered"}]
  /\ of \in [Callback -> 0 .. MaxAttempt]
  /\ saves \in [Attempt -> Nat]

(* One attempt saves one account at most, however often and however late    *)
(* the browser comes back, also while a later attempt is pending; and once  *)
(* the timer has been joined no callback of the attempt that was stopped is *)
(* at work: stop waits for the one that was, no other one begins.           *)
LoginOnce ==
  /\ \A a \in Attempt : saves[a] <= 1
  /\ win \in {"close", "create", "over"} =>
       \A c \in Callback : cb[c] \in AtWork => of[c] < attempt

(* No login stays pending for ever, which would keep all other work on the  *)
(* accounts from being done, and the window's thread is never blocked for   *)
(* good, though it waits for a thread that waits for a callback.            *)
LoginEnds ==
  /\ pending ~> ~pending
  /\ win # "idle" ~> win \in {"idle", "over"}

(* A login that was opened stays pending until its own callback is answered, *)
(* 30 minutes are over or the window stops it.  Not so: a callback of an     *)
(* earlier attempt that waited for that attempt's mutex finds the later one's *)
(* flag, goes on, and ends the later one when it is answered.                *)
LoginIsOwn ==
  [][pending /\ ~pending' /\ win' # "join" =>
       \/ \E c \in Callback : cb[c] = "answered" /\ cb'[c] = "none" /\ of[c] = attempt
       \/ attempt \in overdue]_loginVars
=============================================================================
