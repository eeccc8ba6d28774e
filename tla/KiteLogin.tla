------------------------------ MODULE KiteLogin ------------------------------
(***************************************************************************)
(* The daily Zerodha login (auth/kite_login.py): authenticate_kite on the   *)
(* main thread, the callback server's thread that answers the browser, the  *)
(* event between them with its timeout, and the session file.  The browser  *)
(* may answer late, twice, with a refusal, or never; it may open a          *)
(* connection and send nothing, which the single-threaded server sits on.   *)
(*                                                                         *)
(* day counts the broker's token days: the boundary of 00:30 UTC at which    *)
(* Zerodha invalidates every access token.  The module's user says when it  *)
(* passes.                                                                  *)
(***************************************************************************)
EXTENDS Naturals

CONSTANTS
  RequestTokens,   \* request tokens the broker may send with a callback
  NoToken,         \* the empty request token
  MaxDay,          \* bound: token days of a behaviour
  MaxConnections   \* bound: connections the browser opens in a behaviour

ASSUME MaxDayAssumption == MaxDay \in Nat \ {0}
ASSUME MaxConnectionsAssumption == MaxConnections \in Nat
ASSUME NoTokenAssumption == NoToken \notin RequestTokens

VARIABLES
  day,       \* the broker's token day
  session,   \* the session file
  login,     \* authenticate_kite's place, its locals, and how it ended
  server,    \* the HTTPServer: callback_event, callback_result, its connection
  early      \* history: a callback was answered before the wait ended

loginVars == <<session, login, server, early>>

-----------------------------------------------------------------------------
(* Types *)

Status == {"", "success", "failed"}
Result == [token : RequestTokens \cup {NoToken}, status : Status]
NoResult == [token |-> NoToken, status |-> ""]

\* issued is the day the broker issued the access token, stamped the day of
\* generated_at, which the file and is_fresh know.
Session == [request : RequestTokens, issued : 1..MaxDay, stamped : 1..MaxDay]
NoSession == [request |-> NoToken, issued |-> 0, stamped |-> 0]

LoginStage == {"idle", "browser", "waiting", "heard", "exchange", "closing",
               "saving", "saved", "failed"}
LoginEnd == {"none", "browser", "timeout", "refused", "exchange", "save", "saved"}
NoLogin == [stage |-> "idle", got |-> NoResult, issued |-> 0, end |-> "none"]

\* held: the server's one thread reads from a connection that is still silent.
NoServer == [up |-> FALSE, held |-> FALSE, event |-> FALSE, result |-> NoResult,
             answered |-> {}, count |-> 0]

LoginTypeOK ==
  /\ day \in 1..MaxDay
  /\ session \in Session \cup {NoSession}
  /\ login \in [stage : LoginStage, got : Result, issued : 0..MaxDay, end : LoginEnd]
  /\ server \in [up : BOOLEAN, held : BOOLEAN, event : BOOLEAN, result : Result,
                 answered : SUBSET Result, count : 0..MaxConnections]
  /\ early \in BOOLEAN

LoginInit ==
  /\ day = 1
  /\ session \in {NoSession} \cup [request : RequestTokens, issued : {1}, stamped : {1}]
  /\ login = NoLogin
  /\ server = NoServer
  /\ early = FALSE

-----------------------------------------------------------------------------
(* The main thread *)

\* HTTPServer(...), callback_event = Event(), callback_result = ("", ""),
\* server_thread.start().
BeginLogin ==
  /\ login = NoLogin
  /\ login' = [login EXCEPT !.stage = "browser"]
  /\ server' = [server EXCEPT !.up = TRUE, !.held = FALSE, !.event = FALSE,
                              !.result = NoResult]
  /\ early' = FALSE
  /\ UNCHANGED session

\* What a raise inside the try leads to: the finally clause.
Abandon(end) ==
  /\ login' = [login EXCEPT !.stage = "closing", !.end = end]
  /\ UNCHANGED <<session, server, early>>

\* open_browser(login_url): a False raises.  webbrowser.open waits for a console
\* browser to end, so the call may also never return.
OpenBrowser ==
  /\ login.stage = "browser"
  /\ \/ /\ login' = [login EXCEPT !.stage = "waiting"]
        /\ UNCHANGED <<session, server, early>>
     \/ Abandon("browser")

\* callback_event.wait returns TRUE.
Hear ==
  /\ login.stage = "waiting"
  /\ server.event
  /\ login' = [login EXCEPT !.stage = "heard"]
  /\ UNCHANGED <<session, server, early>>

\* Broken variant: the time is up whether or not the event is set.
TimeOut_Deaf ==
  /\ login.stage = "waiting"
  /\ Abandon("timeout")

\* Broken variant: the wait has no timeout.
TimeOut_Never == login.stage = "waiting" /\ FALSE /\ Abandon("timeout")

\* callback_event.wait returns FALSE after timeout_seconds.
TimeOut ==
  /\ login.stage = "waiting"
  /\ ~server.event
  /\ Abandon("timeout")

\* request_token, status = callback_result: one read of the pair, which a
\* later callback may have replaced since the event was set.
ReadResult ==
  /\ login.stage = "heard"
  /\ IF server.result.status = "success" /\ server.result.token # NoToken
     THEN /\ login' = [login EXCEPT !.stage = "exchange", !.got = server.result]
          /\ UNCHANGED <<session, server, early>>
     ELSE Abandon("refused")

\* kite.generate_session(request_token): the broker issues the token of the
\* day, or the call raises.
GenerateSession ==
  /\ login.stage = "exchange"
  /\ \/ /\ login' = [login EXCEPT !.stage = "closing", !.issued = day]
        /\ UNCHANGED <<session, server, early>>
     \/ Abandon("exchange")

\* The finally clause: shutdown, join, server_close.  shutdown waits, without a
\* bound, until the server's thread has left the connection it reads from, which
\* has no timeout either; join's is never reached before.
CloseServer ==
  /\ login.stage = "closing"
  /\ ~server.held
  /\ server' = [server EXCEPT !.up = FALSE]
  /\ login' = [login EXCEPT !.stage = IF login.issued # 0 THEN "saving" ELSE "failed"]
  /\ UNCHANGED <<session, early>>

\* generated_at is now, after the server was closed.
Saved == [request |-> login.got.token, issued |-> login.issued, stamped |-> day]

\* save_session: a temporary file, its permissions, the replacement.
SaveSession ==
  /\ login.stage = "saving"
  /\ session' = Saved
  /\ login' = [login EXCEPT !.stage = "saved", !.end = "saved"]
  /\ UNCHANGED <<server, early>>

\* save_session raises: on the temporary file, which leaves the old session; or
\* after the replacement, where a failing chmod or whoami leaves the new one, and
\* a failing icacls unlinks it.
SaveFails ==
  /\ login.stage = "saving"
  /\ session' \in {session, Saved, NoSession}
  /\ login' = [login EXCEPT !.stage = "failed", !.end = "save"]
  /\ UNCHANGED <<server, early>>

LoginStep ==
  \/ OpenBrowser \/ Hear \/ TimeOut \/ ReadResult \/ GenerateSession
  \/ CloseServer \/ SaveSession \/ SaveFails

-----------------------------------------------------------------------------
(* The callback thread, on behalf of the browser *)

\* serve_forever takes one connection at a time, and none once the shutdown was
\* asked for; its handler then waits for the request line.
Connect ==
  /\ server.up /\ ~server.held
  /\ login.stage # "closing"
  /\ server.count < MaxConnections
  /\ server' = [server EXCEPT !.held = TRUE, !.count = @ + 1]
  /\ UNCHANGED <<session, login, early>>

\* The connection is closed, or asks for another path, which is answered 404.
HangUp ==
  /\ server.held
  /\ server' = [server EXCEPT !.held = FALSE]
  /\ UNCHANGED <<session, login, early>>

\* _CallbackHandler.do_GET on the callback path: the pair first, then the
\* event; the browser is told that the login was received, whatever the main
\* thread is doing.
Callback(token, status) ==
  /\ server.held
  /\ LET result == [token |-> token, status |-> status]
     IN server' = [server EXCEPT !.held = FALSE, !.result = result, !.event = TRUE,
                                 !.answered = @ \cup {result}]
  /\ early' = (early \/ login.stage \in {"browser", "waiting"})
  /\ UNCHANGED <<session, login>>

\* The broker redirects with a token when the login succeeded, else without.
BrowserStep ==
  \/ Connect \/ HangUp
  \/ \E token \in RequestTokens : Callback(token, "success")
  \/ Callback(NoToken, "failed")

-----------------------------------------------------------------------------
(* The session file *)

\* load_session: save_session replaces the file as a whole, so what is there
\* parses; a missing file is no session.
LoadedSession == session

\* _is_session_fresh: the next boundary after generated_at has not passed.
Fresh(s) == s # NoSession /\ day = s.stamped

\* A callback that was answered while the login still waited is never lost to
\* the timeout: authenticate_kite raises TimeoutError only when nothing came.
\* What is saved is a pair the browser delivered as a success, token and status
\* together, although later callbacks may have replaced it meanwhile.  And a
\* session the scripts take for fresh is one the broker still honours, or its
\* token is older than its stamp: the boundary passed between the exchange and
\* generated_at, which _is_session_fresh cannot see.
CallbackIsNotLost == login.end = "timeout" => ~early
SavedWasASuccess ==
  login.end = "saved" => [token |-> session.request, status |-> "success"] \in server.answered
FreshIsHonoured == Fresh(session) => session.issued = day \/ session.issued < session.stamped
LoginIsHonest == CallbackIsNotLost /\ SavedWasASuccess /\ FreshIsHonoured
=============================================================================
