----------------------------- MODULE MCHandoff -----------------------------
(***************************************************************************)
(* Both ways to connect an account: two attempts through the broker, with   *)
(* two states, two handoffs and two ports; or one with local credentials,   *)
(* to which the browser comes back up to three times.                       *)
(***************************************************************************)
EXTENDS OAuthBroker

VARIABLES part, phase, outcome, stored, serving, handler, codeCh, errCh, resultCh

localVars == <<phase, outcome, stored, serving, handler, codeCh, errCh, resultCh>>

Local == INSTANCE LocalFlow WITH Redirects <- 1 .. 3

MCInit == part \in {"broker", "local"} /\ Init /\ Local!Init

MCNext ==
  /\ UNCHANGED part
  /\ \/ part = "broker" /\ Next /\ UNCHANGED localVars
     \/ part = "local" /\ Local!Next /\ UNCHANGED vars

MCSpec == MCInit /\ [][MCNext]_<<part, vars, localVars>> /\ Fairness /\ Local!Fairness

(* Authorize with local credentials returns as well, or exchanges its code  *)
(* for ever (Flow.Authorize).                                              *)
LocalAuthorizeReturns == Local!AuthorizeReturns
=============================================================================
