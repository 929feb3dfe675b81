----------------------------- MODULE OAuthBroker -----------------------------
(***************************************************************************)
(* Connecting an account through the hosted broker: the desktop's          *)
(* BrokerFlow.Authorize, the broker's start, callback and handoff          *)
(* handlers over its two tables, and the browser between them, which may   *)
(* load a page again, load it late, or never load it.  An attempt is one   *)
(* call of Authorize; its session id and handoff challenge are random and  *)
(* are both told by the attempt.  Tokens are named by the broker state     *)
(* they were granted under.  Whether a record is past its expiry is a flag *)
(* that is set at some time and stays set.  A loopback port is free again  *)
(* once its attempt stopped listening.                                     *)
(***************************************************************************)
EXTENDS Integers, FiniteSets

CONSTANTS Attempts, StateIds, Codes, Ports, None

StateRow == [session : Attempts, port : Ports, used : BOOLEAN, expired : BOOLEAN]

HandoffRow ==
  [state : StateIds, session : Attempts, payload : BOOLEAN, used : BOOLEAN, expired : BOOLEAN]

Link == [port : Ports, state : StateIds, code : Codes]

ASSUME BrokerAssumption ==
  None \notin Attempts \cup StateIds \cup Codes \cup Ports \cup StateRow \cup HandoffRow \cup Link

VARIABLES attempt,   \* what each call of Authorize is doing
          states,    \* broker_oauth_states
          working,   \* callbacks between ConsumeOAuthState and SaveHandoff
          handoffs,  \* broker_handoffs
          pages,     \* consent pages the browser was sent to
          links      \* return links the broker's success pages hold

vars == <<attempt, states, working, handoffs, pages, links>>

brokerVars == <<states, working, handoffs>>

browserVars == <<pages, links>>

(* own: broker_state of the start response; inbox: codeCh; failed: errCh;  *)
(* answer: the tokens of the exchange response.                            *)
NewAttempt ==
  [phase |-> "idle", port |-> None, own |-> None, inbox |-> None, failed |-> FALSE,
   answer |-> None]

Init ==
  /\ attempt = [a \in Attempts |-> NewAttempt]
  /\ states = [s \in StateIds |-> None]
  /\ working = {}
  /\ handoffs = [c \in Codes |-> None]
  /\ pages = {} /\ links = {}

Saved(table) == {k \in DOMAIN table : table[k] # None}

Fresh(table) == DOMAIN table \ Saved(table)

Phase(a) == attempt[a].phase

Listening(a) == Phase(a) \in {"starting", "replying", "waiting"}

Ended(a) == Phase(a) \in {"done", "failed"}

Moves(a, to) == attempt' = [attempt EXCEPT ![a].phase = to]

(* Authorize returns an error, and with it everything it was told. *)
Fails(a) == attempt' = [attempt EXCEPT ![a].phase = "failed", ![a].answer = None]

(***************************************************************************)
(* Starting.                                                               *)
(***************************************************************************)
(* listenBrokerHandoff, then startAuth is sent. *)
Listen(a, port) ==
  /\ Phase(a) = "idle"
  /\ \A b \in Attempts : Listening(b) => attempt[b].port # port
  /\ attempt' = [attempt EXCEPT ![a].phase = "starting", ![a].port = port]
  /\ UNCHANGED <<brokerVars, browserVars>>

(* startAuthorization: SaveOAuthState, and the answer is on its way. *)
StartAuthorization(a, s) ==
  /\ Phase(a) = "starting" /\ s \in Fresh(states)
  /\ states' = [states EXCEPT ![s] = [session |-> a, port |-> attempt[a].port,
                                     used |-> FALSE, expired |-> FALSE]]
  /\ attempt' = [attempt EXCEPT ![a].phase = "replying", ![a].own = s]
  /\ UNCHANGED <<working, handoffs, browserVars>>

(* The desktop knows which state to expect and opens the browser. *)
StartReturns(a) ==
  /\ Phase(a) = "replying"
  /\ Moves(a, "waiting")
  /\ pages' = pages \cup {attempt[a].own}
  /\ UNCHANGED <<brokerVars, links>>

(* Refused (kill switch, rate limit), lost, or no browser to open. *)
StartFails(a) ==
  /\ Phase(a) \in {"starting", "replying"}
  /\ Fails(a)
  /\ UNCHANGED <<brokerVars, browserVars>>

(***************************************************************************)
(* The provider sends the browser to the callback, each time the user      *)
(* consents or loads the page again.                                       *)
(***************************************************************************)
(* Mutant: a state may be consumed again. *)
ConsumeOAuthStateAgain(s) == s \in Saved(states) /\ ~states[s].expired

ConsumeOAuthState(s) == s \in Saved(states) /\ ~states[s].used /\ ~states[s].expired

(* Mutant: the state is left to be marked when its handoff is saved.       *)
OAuthCallbackUnmarked(s) ==
  /\ s \in pages /\ ConsumeOAuthState(s)
  /\ working' = working \cup {s}
  /\ UNCHANGED <<attempt, states, handoffs, browserVars>>

OAuthCallback(s) ==
  /\ s \in pages /\ ConsumeOAuthState(s)
  /\ states' = [states EXCEPT ![s].used = TRUE]
  /\ working' = working \cup {s}
  /\ UNCHANGED <<attempt, handoffs, browserVars>>

(* The provider's code is exchanged, the tokens sealed and saved; the page *)
(* with the return link is built last and may not be.                      *)
MintHandoff(s, c) ==
  /\ s \in working /\ c \in Fresh(handoffs)
  /\ working' = working \ {s}
  /\ handoffs' = [handoffs EXCEPT ![c] = [state |-> s, session |-> states[s].session,
                                         payload |-> TRUE, used |-> FALSE, expired |-> FALSE]]
  /\ \/ links' = links \cup {[port |-> states[s].port, state |-> s, code |-> c]}
     \/ UNCHANGED links
  /\ UNCHANGED <<attempt, states, pages>>

(* The exchange with the provider fails, or the broker restarts. *)
CallbackDies(s) ==
  /\ s \in working
  /\ working' = working \ {s}
  /\ UNCHANGED <<attempt, states, handoffs, browserVars>>

ExpireState(s) ==
  /\ s \in Saved(states) /\ ~states[s].expired
  /\ states' = [states EXCEPT ![s].expired = TRUE]
  /\ UNCHANGED <<attempt, working, handoffs, browserVars>>

ExpireHandoff(c) ==
  /\ c \in Saved(handoffs) /\ ~handoffs[c].expired
  /\ handoffs' = [handoffs EXCEPT ![c].expired = TRUE]
  /\ UNCHANGED <<attempt, states, working, browserVars>>

(***************************************************************************)
(* The browser follows a link to whoever listens on its port.  Before the  *)
(* start response arrived any state is taken.  Both channels hold one      *)
(* element, and what does not fit is dropped.                              *)
(***************************************************************************)
Deliver(a, link) ==
  /\ link \in links /\ Listening(a) /\ attempt[a].port = link.port
  /\ attempt' =
       IF Phase(a) = "waiting" /\ link.state # attempt[a].own
       THEN [attempt EXCEPT ![a].failed = TRUE]
       ELSE [attempt EXCEPT ![a].inbox = IF @ = None THEN link ELSE @]
  /\ UNCHANGED <<brokerVars, browserVars>>

(***************************************************************************)
(* Authorize selects between timeout, errCh and codeCh, whichever it sees. *)
(***************************************************************************)
(* Mutant: no time limit on the wait. *)
NeverTimesOut(a) == Phase(a) = "waiting" /\ attempt[a].failed

GivesUp(a) == Phase(a) = "waiting"

(* A mismatching redirect, the time limit, or the caller cancels. *)
WaitFails(a) ==
  /\ GivesUp(a)
  /\ Fails(a)
  /\ UNCHANGED <<brokerVars, browserVars>>

WaitGetsCode(a) ==
  /\ Phase(a) = "waiting" /\ attempt[a].inbox # None
  /\ Moves(a, "exchanging")
  /\ UNCHANGED <<brokerVars, browserVars>>

(***************************************************************************)
(* exchangeHandoff, with what the redirect said and the attempt's own      *)
(* session and verifier.                                                   *)
(***************************************************************************)
(* The bindings ConsumeHandoff checks. *)
Bound(a, c) ==
  handoffs[c].session = a /\ handoffs[c].state = attempt[a].inbox.state

(* Mutant: the payload stays in the table. *)
SpendKeepingPayload(c) == handoffs' = [handoffs EXCEPT ![c].used = TRUE]

Spend(c) == handoffs' = [handoffs EXCEPT ![c].used = TRUE, ![c].payload = FALSE]

(* Mutant: the record is spent before the bindings are compared. *)
ConsumeHandoffFirst(a, c) ==
  IF ~handoffs[c].used /\ ~handoffs[c].expired
  THEN /\ Spend(c)
       /\ IF Bound(a, c)
          THEN attempt' = [attempt EXCEPT ![a].phase = "answered", ![a].answer = handoffs[c].state]
          ELSE Fails(a)
  ELSE Fails(a) /\ UNCHANGED handoffs

(* A refusal leaves the record as it was. *)
ConsumeHandoff(a, c) ==
  IF ~handoffs[c].used /\ ~handoffs[c].expired /\ Bound(a, c)
  THEN /\ Spend(c)
       /\ attempt' = [attempt EXCEPT ![a].phase = "answered", ![a].answer = handoffs[c].state]
  ELSE Fails(a) /\ UNCHANGED handoffs

ExchangeHandoff(a) ==
  /\ Phase(a) = "exchanging"
  /\ ConsumeHandoff(a, attempt[a].inbox.code)
  /\ UNCHANGED <<states, working, browserVars>>

ExchangeReturns(a) ==
  /\ Phase(a) = "answered"
  /\ Moves(a, "done")
  /\ UNCHANGED <<brokerVars, browserVars>>

(* Refused (rate limit), not sent, or the answer is lost; nobody retries. *)
ExchangeFails(a) ==
  /\ Phase(a) \in {"exchanging", "answered"}
  /\ Fails(a)
  /\ UNCHANGED <<brokerVars, browserVars>>

(* What an attempt does next, what the broker answers it, or what a time    *)
(* limit does to it.                                                       *)
Proceed(a) ==
  \/ \E s \in StateIds : StartAuthorization(a, s)
  \/ StartReturns(a) \/ StartFails(a)
  \/ WaitFails(a) \/ WaitGetsCode(a)
  \/ ExchangeHandoff(a) \/ ExchangeReturns(a) \/ ExchangeFails(a)

Next ==
  \/ \E a \in Attempts :
       \/ \E port \in Ports : Listen(a, port)
       \/ Proceed(a)
       \/ \E link \in links : Deliver(a, link)
  \/ \E s \in StateIds :
       OAuthCallback(s) \/ CallbackDies(s) \/ ExpireState(s) \/ \E c \in Codes : MintHandoff(s, c)
  \/ \E c \in Codes : ExpireHandoff(c)

(* The desktop runs on and its clock too, so that the select in Authorize   *)
(* ends.  Nothing is assumed of user, browser and broker: the two requests  *)
(* run under the caller's context and a client without a time limit         *)
(* (broker_flow.go:146, 181, 246), and may be open for ever.                *)
Fairness == \A a \in Attempts : WF_vars(WaitFails(a) \/ WaitGetsCode(a))

Spec == Init /\ [][Next]_vars /\ Fairness

(***************************************************************************)
(* Properties                                                              *)
(***************************************************************************)
Phases ==
  {"idle", "starting", "replying", "waiting", "exchanging", "answered", "done", "failed"}

AttemptRecord ==
  [phase : Phases, port : Ports \cup {None}, own : StateIds \cup {None},
   inbox : Link \cup {None}, failed : BOOLEAN, answer : StateIds \cup {None}]

(* Tables, channels and pages hold what they should, and no two attempts   *)
(* listen on the same port.                                                *)
TypeOK ==
  /\ attempt \in [Attempts -> AttemptRecord]
  /\ states \in [StateIds -> StateRow \cup {None}]
  /\ handoffs \in [Codes -> HandoffRow \cup {None}]
  /\ working \subseteq StateIds /\ pages \subseteq StateIds /\ links \subseteq Link
  /\ \A a, b \in Attempts : a # b /\ Listening(a) /\ Listening(b) => attempt[a].port # attempt[b].port

HandoffsOf(s) == {c \in Saved(handoffs) : handoffs[c].state = s}

(* The tokens of a grant are in one place at a time: sealed in the table,  *)
(* or given to one attempt.  Once they are handed out, the broker has no   *)
(* copy to hand out again (ConsumeHandoff scrubs the payload).             *)
TokensInOnePlace ==
  \A s \in StateIds :
    Cardinality({c \in HandoffsOf(s) : handoffs[c].payload})
      + Cardinality({a \in Attempts : attempt[a].answer = s}) <= 1

(* A redirect that reaches the wrong attempt, by a port that changed hands *)
(* or before the start response, does not spend the handoff of the right   *)
(* one: a spent handoff was asked for by the attempt that began it         *)
(* ("a wrong guess cannot burn it", store.go:185).                         *)
OnlyOwnerSpends ==
  \A c \in Saved(handoffs) : handoffs[c].used =>
    LET a == handoffs[c].session
    IN  /\ Phase(a) \in {"answered", "done", "failed"}
        /\ attempt[a].inbox # None /\ attempt[a].inbox.code = c

(* In startAuth, up to the browser that its answer opens, or in             *)
(* exchangeHandoff.                                                        *)
Requesting(a) == Phase(a) \in {"starting", "replying", "exchanging", "answered"}

(* Whatever user, browser and redirects do, an Authorize returns or stays   *)
(* for ever in one of its two requests to the broker; it never waits for    *)
(* ever for the redirect (BrokerFlow.Authorize, brokerAuthTimeout).         *)
AuthorizeReturns == \A a \in Attempts : Listening(a) ~> (Ended(a) \/ []Requesting(a))

(* A callback at work has consumed its state and minted no handoff yet.    *)
WorkingConsumed ==
  \A s \in working : s \in Saved(states) /\ states[s].used /\ HandoffsOf(s) = {}

(* A handoff comes from a consumed state and is bound to its session, and  *)
(* a state has at most one.                                                *)
HandoffsFromStates ==
  \A c \in Saved(handoffs) :
    LET s == handoffs[c].state
    IN  /\ s \in Saved(states) /\ states[s].used /\ HandoffsOf(s) = {c}
        /\ handoffs[c].session = states[s].session
        /\ handoffs[c].payload = ~handoffs[c].used

(* The session of a state belongs to the one attempt it answered.          *)
OwnersBegan ==
  /\ \A s \in Saved(states) :
       attempt[states[s].session].own = s /\ Phase(states[s].session) \notin {"idle", "starting"}
  /\ \A a \in Attempts : /\ Phase(a) = "replying" => attempt[a].own # None
                         /\ Phase(a) # "idle" => attempt[a].port # None

(* A link leads to a handoff, and what a listener took in is a link.       *)
LinksLead ==
  /\ \A link \in links : link.code \in Saved(handoffs) /\ handoffs[link.code].state = link.state
  /\ \A a \in Attempts : attempt[a].inbox \in links \cup {None}

(* Tokens an attempt holds were released from its own handoff, and an      *)
(* exchange knows what it asks for.                                        *)
AnswersReleased ==
  \A a \in Attempts :
    /\ Phase(a) \in {"exchanging", "answered"} => attempt[a].inbox # None
    /\ attempt[a].answer # None =>
         /\ Phase(a) \in {"answered", "done"}
         /\ \E c \in HandoffsOf(attempt[a].answer) : handoffs[c].used /\ handoffs[c].session = a

(* The two tables, the listeners and the browser agree on who began what   *)
(* and how far it is: startAuthorization, oauthCallback and exchangeHandoff*)
(* each keep it, whatever comes between them.                              *)
BrokerInv ==
  /\ TypeOK /\ WorkingConsumed /\ HandoffsFromStates /\ OwnersBegan
  /\ LinksLead /\ AnswersReleased /\ OnlyOwnerSpends

(* How far the grant of a state is: unknown, open for consent, between the *)
(* two tables, sealed, released; or void, when time or a failure ended it. *)
StageOf(s) ==
  IF states[s] = None THEN "none"
  ELSE IF s \in working THEN "consented"
  ELSE IF \E c \in HandoffsOf(s) : handoffs[c].used THEN "released"
  ELSE IF \E c \in HandoffsOf(s) : ~handoffs[c].expired THEN "sealed"
  ELSE IF ~states[s].used /\ ~states[s].expired THEN "open"
  ELSE "void"

Promised ==
  INSTANCE OneShotHandoff WITH
    Grants <- StateIds, NoAttempt <- None, NoGrant <- None,
    stage <- [s \in StateIds |-> StageOf(s)],
    owner <- [s \in StateIds |-> IF states[s] = None THEN None ELSE states[s].session],
    holds <- [a \in Attempts |-> attempt[a].answer]

(* The broker keeps its promise: tokens are released at most once, before  *)
(* they lapse, and to the attempt that began the grant.                    *)
HandoffPromise == Promised!Spec
=============================================================================
