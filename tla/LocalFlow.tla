------------------------------ MODULE LocalFlow ------------------------------
(***************************************************************************)
(* Connecting an account with credentials of the user's own: Authorize and  *)
(* the loopback server it runs (internal/integration/oauth/flow.go).  Every *)
(* redirect the browser makes is a goroutine of its own; it talks to        *)
(* Authorize over channels that hold one element, and a send to a full one  *)
(* blocks.                                                                 *)
(***************************************************************************)
EXTENDS Naturals

CONSTANT Redirects    \* bound: the redirects the browser makes

VARIABLES
  phase,      \* how far Authorize is
  outcome,    \* what it returns
  stored,     \* the token is in the store
  serving,    \* the goroutine around srv.Serve
  handler,    \* the goroutine of each redirect
  codeCh, errCh,    \* whether the channel is full
  resultCh    \* the page to show, or "empty"

vars == <<phase, outcome, stored, serving, handler, codeCh, errCh, resultCh>>

channels == <<codeCh, errCh, resultCh>>

Init ==
  /\ phase = "idle" /\ outcome = "none" /\ stored = FALSE /\ serving = "off"
  /\ handler = [r \in Redirects |-> "none"]
  /\ codeCh = FALSE /\ errCh = FALSE /\ resultCh = "empty"

(* Before Shutdown closed the listener.                                     *)
Open == serving = "on" /\ phase \in {"waiting", "exchanging", "storing"}
-----------------------------------------------------------------------------
(* Listen, serve, open the browser; without a browser there is no waiting.  *)
Authorize ==
  /\ phase = "idle"
  /\ serving' = "on"
  /\ \/ phase' = "waiting" /\ outcome' = outcome
     \/ phase' = "closing" /\ outcome' = "failed"
  /\ UNCHANGED <<stored, handler, channels>>

(* The first of the time limit, an error and a code that it comes upon.     *)
WaitTimesOut ==
  /\ phase = "waiting"
  /\ phase' = "closing" /\ outcome' = "failed"
  /\ UNCHANGED <<stored, serving, handler, channels>>

WaitGetsError ==
  /\ phase = "waiting" /\ errCh
  /\ phase' = "closing" /\ outcome' = "failed" /\ errCh' = FALSE
  /\ UNCHANGED <<stored, serving, handler, codeCh, resultCh>>

WaitGetsCode ==
  /\ phase = "waiting" /\ codeCh
  /\ phase' = "exchanging" /\ codeCh' = FALSE
  /\ UNCHANGED <<outcome, stored, serving, handler, errCh, resultCh>>

(* sendCallbackResult never blocks; what does not fit is dropped.           *)
SendCallbackResult(result) == resultCh' = IF resultCh = "empty" THEN result ELSE resultCh

ExchangeAuthorizationCode ==
  /\ phase = "exchanging"
  /\ \/ phase' = "storing" /\ UNCHANGED <<outcome, resultCh>>
     \/ phase' = "closing" /\ outcome' = "failed" /\ SendCallbackResult("failed")
  /\ UNCHANGED <<stored, serving, handler, codeCh, errCh>>

StoreToken ==
  /\ phase = "storing"
  /\ \/ stored' = TRUE /\ outcome' = "ok" /\ SendCallbackResult("complete")
     \/ stored' = stored /\ outcome' = "failed" /\ SendCallbackResult("failed")
  /\ phase' = "closing"
  /\ UNCHANGED <<serving, handler, codeCh, errCh>>

(* Mutant: the shutdown waits for the server and for every redirect.        *)
ShutdownAndDrain ==
  /\ phase = "closing" /\ serving = "off"
  /\ \A r \in Redirects : handler[r] \in {"none", "ended"}
  /\ phase' = "returned"
  /\ UNCHANGED <<outcome, stored, serving, handler, channels>>

(* Once all is drained, or after shutdownGrace.                             *)
ShutdownAndWait ==
  /\ phase = "closing"
  /\ phase' = "returned"
  /\ UNCHANGED <<outcome, stored, serving, handler, channels>>

Proceeds ==
  \/ WaitTimesOut \/ WaitGetsError \/ WaitGetsCode
  \/ ExchangeAuthorizationCode \/ StoreToken \/ ShutdownAndWait

-----------------------------------------------------------------------------
(* The browser comes back: with the code, or with a state that is not       *)
(* expected, an error, no code.                                            *)
Redirect(r, good) ==
  /\ Open /\ handler[r] = "none"
  /\ handler' = [handler EXCEPT ![r] = IF good THEN "has code" ELSE "has error"]
  /\ UNCHANGED <<phase, outcome, stored, serving, channels>>

SendError(r) ==
  /\ handler[r] = "has error" /\ ~errCh
  /\ errCh' = TRUE /\ handler' = [handler EXCEPT ![r] = "ended"]
  /\ UNCHANGED <<phase, outcome, stored, serving, codeCh, resultCh>>

SendCode(r) ==
  /\ handler[r] = "has code" /\ ~codeCh
  /\ codeCh' = TRUE /\ handler' = [handler EXCEPT ![r] = "awaits result"]
  /\ UNCHANGED <<phase, outcome, stored, serving, errCh, resultCh>>

ShowResult(r) ==
  /\ handler[r] = "awaits result" /\ resultCh # "empty"
  /\ resultCh' = "empty" /\ handler' = [handler EXCEPT ![r] = "ended"]
  /\ UNCHANGED <<phase, outcome, stored, serving, codeCh, errCh>>

(* The request's context is done.                                           *)
PageIsClosed(r) ==
  /\ handler[r] = "awaits result"
  /\ handler' = [handler EXCEPT ![r] = "ended"]
  /\ UNCHANGED <<phase, outcome, stored, serving, channels>>

(* Serve returns when the listener is closed, or with an error of its own,  *)
(* which it sends.                                                         *)
ServeEnds ==
  /\ serving = "on"
  /\ serving' = IF phase \in {"closing", "returned"} THEN "off" ELSE "has error"
  /\ UNCHANGED <<phase, outcome, stored, handler, channels>>

SendServeError ==
  /\ serving = "has error" /\ ~errCh
  /\ errCh' = TRUE /\ serving' = "off"
  /\ UNCHANGED <<phase, outcome, stored, handler, codeCh, resultCh>>

Next ==
  \/ Authorize \/ Proceeds \/ ServeEnds \/ SendServeError
  \/ \E r \in Redirects :
       \/ \E good \in BOOLEAN : Redirect(r, good)
       \/ SendError(r) \/ SendCode(r) \/ ShowResult(r) \/ PageIsClosed(r)

(* Authorize runs on, its time limits end, and goroutines that can go on    *)
(* do.  Nothing is assumed of the browser, nor of the exchange, which runs  *)
(* under the caller's context and a client without a time limit             *)
(* (authorize.go:147).                                                     *)
Fairness ==
  /\ WF_vars(phase # "exchanging" /\ Proceeds)
  /\ \A r \in Redirects : WF_vars(SendError(r) \/ SendCode(r) \/ ShowResult(r))
  /\ WF_vars(phase \in {"closing", "returned"} /\ ServeEnds) /\ WF_vars(SendServeError)

Spec == Init /\ [][Next]_vars /\ Fairness
-----------------------------------------------------------------------------
(* Authorize returns, or stays for ever in the exchange of the code, however *)
(* often and with whatever the browser comes back, and however many         *)
(* redirects are stuck on a full channel.                                  *)
AuthorizeReturns == phase # "idle" ~> (phase = "returned" \/ [](phase = "exchanging"))
=============================================================================
