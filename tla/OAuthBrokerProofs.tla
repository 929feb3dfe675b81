--------------------------- MODULE OAuthBrokerProofs ---------------------------
(***************************************************************************)
(* BrokerInv is an invariant of OAuthBroker, and OAuthBroker implements    *)
(* OneShotHandoff, for every set of attempts, states, codes and ports.     *)
(***************************************************************************)
EXTENDS OAuthBroker, FiniteSetTheorems, TLAPS

(* Only attempt a changes, to these fields; failed may be set as well.     *)
Becomes(a, phase, port, own, inbox, answer) ==
  /\ attempt' \in [Attempts -> AttemptRecord]
  /\ attempt'[a].phase = phase /\ attempt'[a].port = port /\ attempt'[a].own = own
  /\ attempt'[a].inbox = inbox /\ attempt'[a].answer = answer
  /\ \A b \in Attempts \ {a} : attempt'[b] = attempt[b]

-----------------------------------------------------------------------------
(* What the updates of an attempt do to its fields. *)

LEMMA MovesEffect ==
  ASSUME attempt \in [Attempts -> AttemptRecord], NEW a \in Attempts, NEW to \in Phases,
         Moves(a, to)
  PROVE  Becomes(a, to, attempt[a].port, attempt[a].own, attempt[a].inbox, attempt[a].answer)
BY DEF Moves, AttemptRecord, Becomes

LEMMA FailsEffect ==
  ASSUME attempt \in [Attempts -> AttemptRecord], NEW a \in Attempts, Fails(a)
  PROVE  Becomes(a, "failed", attempt[a].port, attempt[a].own, attempt[a].inbox, None)
BY DEF Fails, AttemptRecord, Phases, Becomes

LEMMA ListenEffect ==
  ASSUME attempt \in [Attempts -> AttemptRecord], NEW a \in Attempts, NEW port \in Ports,
         Listen(a, port)
  PROVE  Becomes(a, "starting", port, attempt[a].own, attempt[a].inbox, attempt[a].answer)
BY DEF Listen, AttemptRecord, Phases, Becomes

LEMMA StartEffect ==
  ASSUME attempt \in [Attempts -> AttemptRecord], NEW a \in Attempts, NEW s \in StateIds,
         StartAuthorization(a, s)
  PROVE  Becomes(a, "replying", attempt[a].port, s, attempt[a].inbox, attempt[a].answer)
BY DEF StartAuthorization, AttemptRecord, Phases, Becomes

LEMMA AnswerEffect ==
  ASSUME attempt \in [Attempts -> AttemptRecord], NEW a \in Attempts, NEW s \in StateIds,
         attempt' = [attempt EXCEPT ![a].phase = "answered", ![a].answer = s]
  PROVE  Becomes(a, "answered", attempt[a].port, attempt[a].own, attempt[a].inbox, s)
BY DEF AttemptRecord, Phases, Becomes

LEMMA DeliverEffect ==
  ASSUME attempt \in [Attempts -> AttemptRecord], NEW a \in Attempts, NEW link \in Link,
         Deliver(a, link)
  PROVE  \E inbox \in {attempt[a].inbox, link} :
           Becomes(a, attempt[a].phase, attempt[a].port, attempt[a].own, inbox, attempt[a].answer)
<1>1. CASE Phase(a) = "waiting" /\ link.state # attempt[a].own
  <2>1. attempt' = [attempt EXCEPT ![a].failed = TRUE]
    BY <1>1 DEF Deliver
  <2>2. Becomes(a, attempt[a].phase, attempt[a].port, attempt[a].own, attempt[a].inbox, attempt[a].answer)
    BY <2>1 DEF AttemptRecord, Becomes
  <2> QED
    BY <2>2
<1>2. CASE ~(Phase(a) = "waiting" /\ link.state # attempt[a].own)
  <2> DEFINE inbox == IF attempt[a].inbox = None THEN link ELSE attempt[a].inbox
  <2>1. attempt' = [attempt EXCEPT ![a].inbox = inbox]
    BY <1>2 DEF Deliver
  <2>2. inbox \in {attempt[a].inbox, link} /\ inbox \in Link \cup {None}
    BY DEF AttemptRecord
  <2> HIDE DEF inbox
  <2>3. Becomes(a, attempt[a].phase, attempt[a].port, attempt[a].own, inbox, attempt[a].answer)
    BY <2>1, <2>2 DEF AttemptRecord, Becomes
  <2> QED
    BY <2>2, <2>3
<1> QED
  BY <1>1, <1>2

-----------------------------------------------------------------------------
(* Such an update that keeps to the attempt's own part of the invariant.   *)
KeepsTo(a, phase, port, own, inbox, answer) ==
  /\ phase \in {"starting", "replying", "waiting"} =>
       \A b \in Attempts \ {a} : Listening(b) => attempt[b].port # port
  /\ own = attempt[a].own
  /\ phase = "replying" => Phase(a) = "replying"
  /\ phase = "idle" => Phase(a) = "idle"
  /\ phase = "starting" => Phase(a) \in {"idle", "starting"}
  /\ port # None
  /\ inbox \in links \cup {None}
  /\ phase \in {"exchanging", "answered"} => inbox # None
  /\ answer # None => answer = attempt[a].answer /\ phase \in {"answered", "done"}
  /\ Phase(a) \in {"answered", "done", "failed"} =>
       phase \in {"answered", "done", "failed"} /\ inbox = attempt[a].inbox

(* A step of one attempt that leaves the tables alone keeps the invariant. *)
LEMMA AttemptStep ==
  ASSUME BrokerInv, NEW a \in Attempts,
         NEW phase, NEW port, NEW own, NEW inbox, NEW answer,
         Becomes(a, phase, port, own, inbox, answer),
         KeepsTo(a, phase, port, own, inbox, answer),
         UNCHANGED <<brokerVars, links>>, pages' \subseteq StateIds
  PROVE  BrokerInv'
<1> USE DEF Becomes, KeepsTo, Phase, Listening, Saved, HandoffsOf, brokerVars
<1>1. TypeOK'
  BY DEF BrokerInv, TypeOK
<1>2. WorkingConsumed' /\ HandoffsFromStates'
  BY DEF BrokerInv, WorkingConsumed, HandoffsFromStates
<1>3. OwnersBegan'
  BY DEF BrokerInv, OwnersBegan, TypeOK, StateRow
<1>4. LinksLead'
  BY DEF BrokerInv, LinksLead
<1>5. AnswersReleased'
  BY DEF BrokerInv, AnswersReleased
<1>6. OnlyOwnerSpends'
  <2> SUFFICES ASSUME NEW c \in Saved(handoffs), handoffs[c].used
               PROVE  /\ attempt'[handoffs[c].session].phase \in {"answered", "done", "failed"}
                      /\ attempt'[handoffs[c].session].inbox # None
                      /\ attempt'[handoffs[c].session].inbox.code = c
    BY DEF OnlyOwnerSpends
  <2>1. handoffs[c].session \in Attempts
    BY DEF BrokerInv, TypeOK, HandoffRow
  <2>2. /\ attempt[handoffs[c].session].phase \in {"answered", "done", "failed"}
        /\ attempt[handoffs[c].session].inbox # None
        /\ attempt[handoffs[c].session].inbox.code = c
    BY DEF BrokerInv, OnlyOwnerSpends
  <2> QED
    BY <2>1, <2>2
<1> QED
  BY <1>1, <1>2, <1>3, <1>4, <1>5, <1>6 DEF BrokerInv

-----------------------------------------------------------------------------
(* The steps of an attempt that leave the tables alone. *)

LEMMA FailsStep ==
  ASSUME BrokerInv, NEW a \in Attempts, Fails(a), Phase(a) # "idle",
         UNCHANGED <<brokerVars, browserVars>>
  PROVE  BrokerInv'
<1>1. Becomes(a, "failed", attempt[a].port, attempt[a].own, attempt[a].inbox, None)
  BY FailsEffect DEF BrokerInv, TypeOK
<1>2. attempt[a].inbox \in links \cup {None} /\ attempt[a].port # None
  BY DEF BrokerInv, LinksLead, OwnersBegan
<1>3. pages' \subseteq StateIds /\ UNCHANGED <<brokerVars, links>>
  BY DEF BrokerInv, TypeOK, browserVars
<1>4. KeepsTo(a, "failed", attempt[a].port, attempt[a].own, attempt[a].inbox, None)
  BY <1>2 DEF KeepsTo
<1> QED
  BY <1>1, <1>3, <1>4, AttemptStep

(* An attempt that goes on to another phase. *)
LEMMA MovesStep ==
  ASSUME BrokerInv, NEW a \in Attempts, NEW to \in Phases \ {"idle", "starting"}, Moves(a, to),
         UNCHANGED <<brokerVars, links>>, pages' \subseteq StateIds,
         to = "waiting" => Phase(a) = "replying",
         to # "replying", Phase(a) # "idle",
         to \in {"exchanging", "answered"} => attempt[a].inbox # None,
         attempt[a].answer # None => to \in {"answered", "done"},
         Phase(a) \in {"answered", "done", "failed"} => to \in {"answered", "done", "failed"}
  PROVE  BrokerInv'
<1>1. Becomes(a, to, attempt[a].port, attempt[a].own, attempt[a].inbox, attempt[a].answer)
  BY MovesEffect DEF BrokerInv, TypeOK
<1>2. attempt[a].inbox \in links \cup {None} /\ attempt[a].port # None
  BY DEF BrokerInv, LinksLead, OwnersBegan
<1>3. to \in {"starting", "replying", "waiting"} =>
        \A b \in Attempts \ {a} : Listening(b) => attempt[b].port # attempt[a].port
  BY DEF BrokerInv, TypeOK, Listening
<1>4. KeepsTo(a, to, attempt[a].port, attempt[a].own, attempt[a].inbox, attempt[a].answer)
  BY <1>2, <1>3 DEF KeepsTo
<1> QED
  BY <1>1, <1>4, AttemptStep

LEMMA ListenStep ==
  ASSUME BrokerInv, NEW a \in Attempts, NEW port \in Ports, Listen(a, port)
  PROVE  BrokerInv'
<1>1. Becomes(a, "starting", port, attempt[a].own, attempt[a].inbox, attempt[a].answer)
  BY ListenEffect DEF BrokerInv, TypeOK
<1>2. attempt[a].inbox \in links \cup {None} /\ attempt[a].answer = None
  BY DEF BrokerInv, LinksLead, AnswersReleased, Listen
<1>3. pages' \subseteq StateIds /\ UNCHANGED <<brokerVars, links>>
  BY DEF BrokerInv, TypeOK, browserVars, Listen
<1>4. Phase(a) = "idle" /\ \A b \in Attempts : Listening(b) => attempt[b].port # port
  BY DEF Listen
<1>5. port # None
  BY BrokerAssumption
<1>6. KeepsTo(a, "starting", port, attempt[a].own, attempt[a].inbox, attempt[a].answer)
  BY <1>2, <1>4, <1>5 DEF KeepsTo
<1> QED
  BY <1>1, <1>3, <1>6, AttemptStep

LEMMA DeliverStep ==
  ASSUME BrokerInv, NEW a \in Attempts, NEW link \in links, Deliver(a, link)
  PROVE  BrokerInv'
<1>1. PICK inbox \in {attempt[a].inbox, link} :
        Becomes(a, attempt[a].phase, attempt[a].port, attempt[a].own, inbox, attempt[a].answer)
  BY DeliverEffect DEF BrokerInv, TypeOK
<1>2. inbox \in links \cup {None}
  BY <1>1 DEF BrokerInv, LinksLead
<1>3. pages' \subseteq StateIds /\ UNCHANGED <<brokerVars, links>>
  BY DEF BrokerInv, TypeOK, browserVars, Deliver
<1>4. Phase(a) \in {"starting", "replying", "waiting"}
  BY DEF Deliver, Listening
<1>5. \A b \in Attempts \ {a} : Listening(b) => attempt[b].port # attempt[a].port
  BY DEF BrokerInv, TypeOK, Deliver
<1>6. attempt[a].answer = None /\ attempt[a].port # None
  BY <1>4 DEF BrokerInv, AnswersReleased, OwnersBegan
<1>7. KeepsTo(a, attempt[a].phase, attempt[a].port, attempt[a].own, inbox, attempt[a].answer)
  BY <1>2, <1>4, <1>5, <1>6 DEF KeepsTo, Phase
<1> QED
  BY <1>1, <1>3, <1>7, AttemptStep

LEMMA StartReturnsStep ==
  ASSUME BrokerInv, NEW a \in Attempts, StartReturns(a)
  PROVE  BrokerInv'
<1>1. Phase(a) = "replying" /\ attempt[a].answer = None /\ UNCHANGED <<brokerVars, links>>
  BY DEF StartReturns, BrokerInv, AnswersReleased
<1>2. pages' \subseteq StateIds
  <2>1. attempt[a].own \in StateIds \cup {None}
    BY DEF BrokerInv, TypeOK, AttemptRecord
  <2>2. attempt[a].own \in StateIds
    BY <2>1, <1>1 DEF BrokerInv, OwnersBegan
  <2> QED
    BY <2>2 DEF StartReturns, BrokerInv, TypeOK
<1>3. "waiting" \in Phases \ {"idle", "starting"} /\ Moves(a, "waiting")
  BY DEF Phases, StartReturns
<1> QED
  BY <1>1, <1>2, <1>3, MovesStep

LEMMA WaitGetsCodeStep ==
  ASSUME BrokerInv, NEW a \in Attempts, WaitGetsCode(a)
  PROVE  BrokerInv'
<1>1. /\ Phase(a) = "waiting" /\ attempt[a].answer = None /\ attempt[a].inbox # None
      /\ Moves(a, "exchanging") /\ UNCHANGED <<brokerVars, links>>
  BY DEF WaitGetsCode, BrokerInv, AnswersReleased, browserVars
<1>2. pages' \subseteq StateIds
  BY DEF WaitGetsCode, BrokerInv, TypeOK, browserVars
<1>3. "exchanging" \in Phases \ {"idle", "starting"}
  BY DEF Phases
<1> QED
  BY <1>1, <1>2, <1>3, MovesStep

LEMMA ExchangeReturnsStep ==
  ASSUME BrokerInv, NEW a \in Attempts, ExchangeReturns(a)
  PROVE  BrokerInv'
<1>1. Phase(a) = "answered" /\ Moves(a, "done") /\ UNCHANGED <<brokerVars, links>>
  BY DEF ExchangeReturns, browserVars
<1>2. pages' \subseteq StateIds
  BY DEF ExchangeReturns, BrokerInv, TypeOK, browserVars
<1>3. "done" \in Phases \ {"idle", "starting"}
  BY DEF Phases
<1> QED
  BY <1>1, <1>2, <1>3, MovesStep

-----------------------------------------------------------------------------
(* The steps of the broker. *)

LEMMA StartStep ==
  ASSUME BrokerInv, NEW a \in Attempts, NEW s \in StateIds, StartAuthorization(a, s)
  PROVE  BrokerInv'
<1> DEFINE row == [session |-> a, port |-> attempt[a].port, used |-> FALSE, expired |-> FALSE]
<1>1. Becomes(a, "replying", attempt[a].port, s, attempt[a].inbox, attempt[a].answer)
  BY StartEffect DEF BrokerInv, TypeOK
<1>2. /\ Phase(a) = "starting" /\ states[s] = None /\ states' = [states EXCEPT ![s] = row]
      /\ UNCHANGED <<working, handoffs, pages, links>>
  BY DEF StartAuthorization, Fresh, Saved, browserVars
<1>3. s # None /\ s \notin working /\ \A c \in Saved(handoffs) : handoffs[c].state # s
  BY <1>2, BrokerAssumption DEF BrokerInv, WorkingConsumed, HandoffsFromStates, Saved
<1>4. attempt[a].answer = None
  BY <1>2 DEF BrokerInv, AnswersReleased
<1>5. attempt[a].port \in Ports
  <2>1. attempt[a].port \in Ports \cup {None}
    BY DEF BrokerInv, TypeOK, AttemptRecord
  <2> QED
    BY <1>2, <2>1 DEF BrokerInv, OwnersBegan
<1>6. row \in StateRow /\ row # None /\ row.session = a
  <2>1. row \in StateRow /\ row.session = a
    BY <1>5 DEF StateRow
  <2> HIDE DEF row
  <2> QED
    BY <2>1, BrokerAssumption
<1> HIDE DEF row
<1>7. /\ DOMAIN states' = StateIds /\ Saved(states)' = Saved(states) \cup {s}
      /\ \A t \in StateIds \ {s} : states'[t] = states[t]
      /\ states'[s] = row
  BY <1>2, <1>6 DEF Saved, BrokerInv, TypeOK
<1>8. TypeOK'
  BY <1>1, <1>2, <1>6 DEF BrokerInv, TypeOK, Becomes, Listening, Phase
<1>9. WorkingConsumed' /\ HandoffsFromStates'
  BY <1>2, <1>3, <1>7 DEF BrokerInv, TypeOK, WorkingConsumed, HandoffsFromStates, HandoffsOf, Saved, HandoffRow
<1>10. OwnersBegan'
  BY <1>1, <1>2, <1>3, <1>6, <1>7 DEF BrokerInv, OwnersBegan, Becomes, Phase, TypeOK, StateRow, Saved
<1>11. LinksLead' /\ AnswersReleased'
  BY <1>1, <1>2, <1>4 DEF BrokerInv, LinksLead, AnswersReleased, Becomes, Phase, Saved, HandoffsOf
<1>12. OnlyOwnerSpends'
  <2> SUFFICES ASSUME NEW c \in Saved(handoffs), handoffs[c].used
               PROVE  /\ attempt'[handoffs[c].session].phase \in {"answered", "done", "failed"}
                      /\ attempt'[handoffs[c].session].inbox # None
                      /\ attempt'[handoffs[c].session].inbox.code = c
    BY <1>2 DEF OnlyOwnerSpends, Phase, Saved
  <2>1. handoffs[c].session \in Attempts
    BY DEF BrokerInv, TypeOK, HandoffRow, Saved
  <2>2. /\ attempt[handoffs[c].session].phase \in {"answered", "done", "failed"}
        /\ attempt[handoffs[c].session].inbox # None
        /\ attempt[handoffs[c].session].inbox.code = c
    BY DEF BrokerInv, OnlyOwnerSpends, Phase
  <2> QED
    BY <1>1, <1>2, <2>1, <2>2 DEF Becomes, Phase
<1> QED
  BY <1>8, <1>9, <1>10, <1>11, <1>12 DEF BrokerInv

(* The flags of a state row. *)
LEMMA StateFlags ==
  ASSUME states \in [StateIds -> StateRow \cup {None}], NEW s \in Saved(states),
         \/ states' = [states EXCEPT ![s].used = TRUE]
         \/ states' = [states EXCEPT ![s].expired = TRUE]
  PROVE  /\ states' \in [StateIds -> StateRow \cup {None}] /\ Saved(states)' = Saved(states)
         /\ states'[s].session = states[s].session
         /\ states[s].used => states'[s].used
         /\ \A t \in StateIds \ {s} : states'[t] = states[t]
<1>1. s \in StateIds /\ states[s] \in StateRow
  BY DEF Saved
<1>2. states'[s] \in StateRow /\ states'[s].session = states[s].session
      /\ (states[s].used => states'[s].used)
      /\ (states' = [states EXCEPT ![s].used = TRUE] => states'[s].used)
  BY <1>1 DEF StateRow
<1>3. states' \in [StateIds -> StateRow \cup {None}]
      /\ \A t \in StateIds \ {s} : states'[t] = states[t]
  BY <1>1, <1>2
<1>4. states'[s] # None
  BY <1>2, BrokerAssumption
<1> QED
  BY <1>1, <1>2, <1>3, <1>4 DEF Saved

(* A step of the broker's that changes the flags of one state only.        *)
LEMMA StatesStep ==
  ASSUME BrokerInv, NEW s \in Saved(states), NEW w, working' = w, w \subseteq working \cup {s},
         \/ UNCHANGED states
         \/ states' = [states EXCEPT ![s].used = TRUE]
         \/ states' = [states EXCEPT ![s].expired = TRUE],
         s \in w \ working => states'[s].used /\ HandoffsOf(s) = {},
         UNCHANGED <<attempt, handoffs, browserVars>>
  PROVE  BrokerInv'
<1>1. /\ states' \in [StateIds -> StateRow \cup {None}] /\ Saved(states)' = Saved(states)
      /\ states'[s].session = states[s].session
      /\ states[s].used => states'[s].used
      /\ \A t \in StateIds \ {s} : states'[t] = states[t]
  BY StateFlags DEF BrokerInv, TypeOK
<1>2. UNCHANGED <<attempt, handoffs, pages, links>>
  BY DEF browserVars
<1>3. \A t : HandoffsOf(t)' = HandoffsOf(t)
  BY <1>2 DEF HandoffsOf, Saved
<1>4. \A t \in Saved(states) : states'[t].session = states[t].session /\ (states[t].used => states'[t].used)
  BY <1>1 DEF Saved, BrokerInv, TypeOK
<1>5. TypeOK'
  BY <1>1, <1>2 DEF BrokerInv, TypeOK, Listening, Phase, Saved
<1>6. WorkingConsumed'
  BY <1>1, <1>3, <1>4 DEF BrokerInv, WorkingConsumed
<1>7. HandoffsFromStates'
  BY <1>1, <1>2, <1>3, <1>4 DEF BrokerInv, HandoffsFromStates, Saved
<1>8. OwnersBegan'
  BY <1>1, <1>2, <1>4 DEF BrokerInv, OwnersBegan, Phase
<1>9. LinksLead' /\ AnswersReleased' /\ OnlyOwnerSpends'
  BY <1>2 DEF BrokerInv, LinksLead, AnswersReleased, OnlyOwnerSpends, HandoffsOf, Saved, Phase
<1> QED
  BY <1>5, <1>6, <1>7, <1>8, <1>9 DEF BrokerInv

LEMMA CallbackStep ==
  ASSUME BrokerInv, NEW s \in StateIds, OAuthCallback(s)
  PROVE  BrokerInv'
<1>1. /\ s \in Saved(states) /\ ~states[s].used
      /\ states' = [states EXCEPT ![s].used = TRUE] /\ working' = working \cup {s}
      /\ UNCHANGED <<attempt, handoffs, browserVars>>
  BY DEF OAuthCallback, ConsumeOAuthState
<1>2. HandoffsOf(s) = {}
  BY <1>1 DEF BrokerInv, HandoffsFromStates, HandoffsOf
<1>3. states'[s].used
  <2>1. states[s] \in StateRow /\ states \in [StateIds -> StateRow \cup {None}]
    BY <1>1 DEF BrokerInv, TypeOK, Saved
  <2> QED
    BY <1>1, <2>1 DEF StateRow
<1> QED
  BY <1>1, <1>2, <1>3, StatesStep

LEMMA CallbackDiesStep ==
  ASSUME BrokerInv, NEW s \in StateIds, CallbackDies(s)
  PROVE  BrokerInv'
<1>1. s \in Saved(states) /\ working' = working \ {s}
      /\ UNCHANGED <<attempt, states, handoffs, browserVars>>
  BY DEF CallbackDies, BrokerInv, WorkingConsumed
<1>2. \A w : w = working \ {s} => w \subseteq working \cup {s} /\ s \notin w
  OBVIOUS
<1> QED
  BY <1>1, <1>2, StatesStep

LEMMA ExpireStateStep ==
  ASSUME BrokerInv, NEW s \in StateIds, ExpireState(s)
  PROVE  BrokerInv'
<1>1. s \in Saved(states) /\ states' = [states EXCEPT ![s].expired = TRUE] /\ working' = working
      /\ UNCHANGED <<attempt, handoffs, browserVars>>
  BY DEF ExpireState
<1> QED
  BY <1>1, StatesStep

(* The flags of a handoff row. *)
Expires(c) == handoffs' = [handoffs EXCEPT ![c].expired = TRUE]

LEMMA HandoffFlags ==
  ASSUME handoffs \in [Codes -> HandoffRow \cup {None}], NEW c \in Saved(handoffs),
         Expires(c) \/ Spend(c)
  PROVE  /\ handoffs' \in [Codes -> HandoffRow \cup {None}] /\ Saved(handoffs)' = Saved(handoffs)
         /\ handoffs'[c].state = handoffs[c].state /\ handoffs'[c].session = handoffs[c].session
         /\ \A d \in Codes \ {c} : handoffs'[d] = handoffs[d]
         /\ \A s : HandoffsOf(s)' = HandoffsOf(s)
         /\ Spend(c) => /\ handoffs'[c].used /\ ~handoffs'[c].payload
                        /\ handoffs'[c].expired = handoffs[c].expired
         /\ Expires(c) => /\ handoffs'[c].used = handoffs[c].used /\ handoffs'[c].expired
                         /\ handoffs'[c].payload = handoffs[c].payload
<1>1. c \in Codes /\ handoffs[c] \in HandoffRow
  BY DEF Saved
<1> DEFINE old == handoffs[c]
           rec(used, payload, expired) ==
             [state |-> old.state, session |-> old.session, payload |-> payload,
              used |-> used, expired |-> expired]
<1>2. old = rec(old.used, old.payload, old.expired)
      /\ old.state \in StateIds /\ old.session \in Attempts
      /\ old.used \in BOOLEAN /\ old.payload \in BOOLEAN /\ old.expired \in BOOLEAN
  BY <1>1 DEF HandoffRow
<1>3. /\ Spend(c) => handoffs' = [handoffs EXCEPT ![c] = rec(TRUE, FALSE, old.expired)]
      /\ Expires(c) => handoffs' = [handoffs EXCEPT ![c] = rec(old.used, old.payload, TRUE)]
  BY <1>1, <1>2 DEF Spend, Expires, HandoffRow
<1>4. /\ rec(TRUE, FALSE, old.expired) \in HandoffRow
      /\ rec(old.used, old.payload, TRUE) \in HandoffRow
  BY <1>2 DEF HandoffRow
<1>5. /\ handoffs' \in [Codes -> HandoffRow \cup {None}] /\ handoffs'[c] \in HandoffRow
      /\ \A d \in Codes \ {c} : handoffs'[d] = handoffs[d]
  BY <1>1, <1>3, <1>4
<1>6. /\ Spend(c) => handoffs'[c] = rec(TRUE, FALSE, old.expired)
      /\ Expires(c) => handoffs'[c] = rec(old.used, old.payload, TRUE)
  BY <1>1, <1>3
<1>7. /\ handoffs'[c].state = old.state /\ handoffs'[c].session = old.session
      /\ old.used => handoffs'[c].used
      /\ Spend(c) => /\ handoffs'[c].used /\ ~handoffs'[c].payload
                     /\ handoffs'[c].expired = old.expired
      /\ Expires(c) => /\ handoffs'[c].used = old.used /\ handoffs'[c].expired
                      /\ handoffs'[c].payload = old.payload
  BY <1>6
<1>8. handoffs'[c] # None
  BY <1>5, BrokerAssumption
<1>9. Saved(handoffs)' = Saved(handoffs)
  BY <1>1, <1>5, <1>8 DEF Saved
<1> HIDE DEF rec
<1>10. \A s : HandoffsOf(s)' = HandoffsOf(s)
  BY <1>5, <1>7, <1>9 DEF HandoffsOf, Saved
<1> QED
  BY <1>5, <1>7, <1>9, <1>10 DEF Saved

LEMMA ExpireHandoffStep ==
  ASSUME BrokerInv, NEW c \in Codes, ExpireHandoff(c)
  PROVE  BrokerInv'
<1>1. /\ c \in Saved(handoffs) /\ Expires(c)
      /\ UNCHANGED <<attempt, states, working, pages, links>>
  BY DEF ExpireHandoff, Expires, browserVars
<1>2. /\ handoffs' \in [Codes -> HandoffRow \cup {None}] /\ Saved(handoffs)' = Saved(handoffs)
      /\ \A s : HandoffsOf(s)' = HandoffsOf(s)
      /\ \A d \in Saved(handoffs) : /\ handoffs'[d].state = handoffs[d].state
                                   /\ handoffs'[d].session = handoffs[d].session
                                   /\ handoffs'[d].used = handoffs[d].used
                                   /\ handoffs'[d].payload = handoffs[d].payload
  <2>1. c \in Codes /\ handoffs \in [Codes -> HandoffRow \cup {None}] /\ Saved(handoffs) \subseteq Codes
    BY DEF BrokerInv, TypeOK, Saved
  <2>2. handoffs' \in [Codes -> HandoffRow \cup {None}] /\ Saved(handoffs)' = Saved(handoffs)
    BY <1>1, <2>1, HandoffFlags, Zenon
  <2>3. \A s : HandoffsOf(s)' = HandoffsOf(s)
    BY <1>1, <2>1, HandoffFlags, Zenon
  <2>4. handoffs'[c].state = handoffs[c].state /\ handoffs'[c].session = handoffs[c].session
    BY <1>1, <2>1, HandoffFlags, Zenon
  <2>5. \A d \in Codes \ {c} : handoffs'[d] = handoffs[d]
    BY <1>1, <2>1, HandoffFlags, Zenon
  <2>6. handoffs'[c].used = handoffs[c].used /\ handoffs'[c].payload = handoffs[c].payload
    BY <1>1, <2>1, HandoffFlags, Zenon
  <2> QED
    BY <2>1, <2>2, <2>3, <2>4, <2>5, <2>6
<1>3. TypeOK'
  BY <1>1, <1>2 DEF BrokerInv, TypeOK, Listening, Phase
<1>4. WorkingConsumed'
  BY <1>1, <1>2 DEF BrokerInv, WorkingConsumed, Saved
<1>5. HandoffsFromStates'
  <2> SUFFICES ASSUME NEW d \in Saved(handoffs)
               PROVE  /\ handoffs[d].state \in Saved(states) /\ states[handoffs[d].state].used
                      /\ HandoffsOf(handoffs[d].state) = {d}
                      /\ handoffs[d].session = states[handoffs[d].state].session
                      /\ handoffs[d].payload = ~handoffs[d].used
    BY <1>1, <1>2 DEF HandoffsFromStates, Saved
  <2> QED
    BY DEF BrokerInv, HandoffsFromStates
<1>6. OwnersBegan'
  BY <1>1 DEF BrokerInv, OwnersBegan, Phase, Saved
<1>7. LinksLead'
  BY <1>1, <1>2 DEF BrokerInv, LinksLead
<1>8. AnswersReleased'
  <2> SUFFICES ASSUME NEW a \in Attempts
               PROVE  /\ Phase(a) \in {"exchanging", "answered"} => attempt[a].inbox # None
                      /\ attempt[a].answer # None =>
                           /\ Phase(a) \in {"answered", "done"}
                           /\ \E d \in HandoffsOf(attempt[a].answer) :
                                handoffs'[d].used /\ handoffs'[d].session = a
    BY <1>1, <1>2 DEF AnswersReleased, Phase
  <2> QED
    BY <1>2 DEF BrokerInv, AnswersReleased, HandoffsOf
<1>9. OnlyOwnerSpends'
  BY <1>1, <1>2 DEF BrokerInv, OnlyOwnerSpends, Phase
<1> QED
  BY <1>3, <1>4, <1>5, <1>6, <1>7, <1>8, <1>9 DEF BrokerInv

(* A new handoff. *)
LEMMA MintStep ==
  ASSUME BrokerInv, NEW s \in StateIds, NEW c \in Codes, MintHandoff(s, c)
  PROVE  BrokerInv'
<1> DEFINE row == [state |-> s, session |-> states[s].session, payload |-> TRUE,
                   used |-> FALSE, expired |-> FALSE]
           link == [port |-> states[s].port, state |-> s, code |-> c]
<1>1. /\ s \in working /\ working' = working \ {s}
      /\ handoffs[c] = None /\ handoffs' = [handoffs EXCEPT ![c] = row]
      /\ links' = links \cup {link} \/ links' = links
      /\ UNCHANGED <<attempt, states, pages>>
  BY DEF MintHandoff, Fresh, Saved
<1>2. s \in Saved(states) /\ states[s].used /\ HandoffsOf(s) = {} /\ states[s] \in StateRow
  BY <1>1 DEF BrokerInv, WorkingConsumed, TypeOK, Saved
<1>3. row \in HandoffRow /\ link \in Link
  BY <1>2 DEF HandoffRow, Link, StateRow
<1>4. row # None
  <2> HIDE DEF row
  <2> QED
    BY <1>3, BrokerAssumption
<1>5. /\ row.state = s /\ row.session = states[s].session /\ row.payload = ~row.used /\ ~row.used
      /\ link.code = c /\ link.state = s
  OBVIOUS
<1> HIDE DEF row, link
<1>6. /\ handoffs'[c] = row /\ \A d \in Codes \ {c} : handoffs'[d] = handoffs[d]
      /\ Saved(handoffs)' = Saved(handoffs) \cup {c} /\ c \notin Saved(handoffs)
      /\ handoffs' \in [Codes -> HandoffRow \cup {None}]
  BY <1>1, <1>3, <1>4 DEF Saved, BrokerInv, TypeOK
<1>7. \A d \in Saved(handoffs) : handoffs'[d] = handoffs[d] /\ handoffs[d].state # s
  BY <1>2, <1>6 DEF HandoffsOf, Saved, BrokerInv, TypeOK
<1>8. HandoffsOf(s)' = {c} /\ \A t \in StateIds \ {s} : HandoffsOf(t)' = HandoffsOf(t)
  BY <1>5, <1>6, <1>7 DEF HandoffsOf
<1>9. TypeOK'
  BY <1>1, <1>3, <1>6 DEF BrokerInv, TypeOK, Listening, Phase
<1>10. WorkingConsumed'
  BY <1>1, <1>8 DEF BrokerInv, WorkingConsumed, Saved, TypeOK
<1>11. HandoffsFromStates'
  <2> SUFFICES ASSUME NEW d \in Saved(handoffs) \cup {c}, NEW t, t = handoffs'[d].state
               PROVE  /\ t \in Saved(states) /\ states[t].used /\ HandoffsOf(t)' = {d}
                      /\ handoffs'[d].session = states[t].session
                      /\ handoffs'[d].payload = ~handoffs'[d].used
    BY <1>1, <1>6 DEF HandoffsFromStates, HandoffsOf, Saved
  <2>1. CASE d = c
    BY <1>2, <1>5, <1>6, <1>8, <2>1
  <2>2. CASE d # c
    <3>1. d \in Saved(handoffs) /\ handoffs'[d] = handoffs[d] /\ t \in StateIds \ {s}
      BY <1>7, <2>2 DEF BrokerInv, HandoffsFromStates, Saved, TypeOK
    <3>2. /\ t \in Saved(states) /\ states[t].used /\ HandoffsOf(t) = {d}
          /\ handoffs[d].session = states[t].session
          /\ handoffs[d].payload = ~handoffs[d].used
      BY <3>1 DEF BrokerInv, HandoffsFromStates
    <3> QED
      BY <1>8, <3>1, <3>2
  <2> QED
    BY <2>1, <2>2
<1>12. OwnersBegan'
  BY <1>1 DEF BrokerInv, OwnersBegan, Phase, Saved
<1>13. LinksLead'
  <2>1. \A l \in links : l.code \in Saved(handoffs)' /\ handoffs'[l.code].state = l.state
    BY <1>6, <1>7 DEF BrokerInv, LinksLead
  <2>2. link.code \in Saved(handoffs)' /\ handoffs'[link.code].state = link.state
    BY <1>5, <1>6
  <2> QED
    BY <1>1, <2>1, <2>2 DEF BrokerInv, LinksLead
<1>14. AnswersReleased'
  <2> SUFFICES ASSUME NEW a \in Attempts
               PROVE  /\ Phase(a) \in {"exchanging", "answered"} => attempt[a].inbox # None
                      /\ attempt[a].answer # None =>
                           /\ Phase(a) \in {"answered", "done"}
                           /\ \E d \in HandoffsOf(attempt[a].answer)' :
                                handoffs'[d].used /\ handoffs'[d].session = a
    BY <1>1 DEF AnswersReleased, Phase, HandoffsOf
  <2>1. ASSUME attempt[a].answer # None
        PROVE  \E d \in HandoffsOf(attempt[a].answer)' : handoffs'[d].used /\ handoffs'[d].session = a
    <3>1. PICK d \in HandoffsOf(attempt[a].answer) : handoffs[d].used /\ handoffs[d].session = a
      BY <2>1 DEF BrokerInv, AnswersReleased
    <3>2. d \in Saved(handoffs) /\ handoffs[d].state = attempt[a].answer
      BY <3>1 DEF HandoffsOf
    <3>3. d \in HandoffsOf(attempt[a].answer)'
      BY <1>1, <1>6, <1>7, <3>2 DEF HandoffsOf
    <3> QED
      BY <1>7, <3>1, <3>2, <3>3
  <2> QED
    BY <2>1 DEF BrokerInv, AnswersReleased
<1>15. OnlyOwnerSpends'
  BY <1>1, <1>5, <1>6, <1>7 DEF BrokerInv, OnlyOwnerSpends, Phase
<1> QED
  BY <1>9, <1>10, <1>11, <1>12, <1>13, <1>14, <1>15 DEF BrokerInv

(* What an exchange asks for is a handoff. *)
LEMMA AskedFor ==
  ASSUME BrokerInv, NEW a \in Attempts, ExchangeHandoff(a)
  PROVE  /\ Phase(a) = "exchanging" /\ attempt[a].inbox # None
         /\ attempt[a].inbox.code \in Saved(handoffs)
         /\ handoffs[attempt[a].inbox.code].state = attempt[a].inbox.state
         /\ attempt[a].answer = None
BY DEF ExchangeHandoff, BrokerInv, AnswersReleased, LinksLead

(* The broker releases the tokens to the attempt. *)
Releases(a, c) ==
  /\ ~handoffs[c].used /\ ~handoffs[c].expired /\ Bound(a, c) /\ Spend(c)
  /\ attempt' = [attempt EXCEPT ![a].phase = "answered", ![a].answer = handoffs[c].state]
  /\ UNCHANGED <<states, working, pages, links>>

LEMMA ExchangeCases ==
  ASSUME BrokerInv, NEW a \in Attempts, ExchangeHandoff(a)
  PROVE  \/ Fails(a) /\ UNCHANGED <<brokerVars, browserVars>>
         \/ Releases(a, attempt[a].inbox.code)
BY DEF ExchangeHandoff, ConsumeHandoff, Releases, brokerVars, browserVars

LEMMA ReleaseStep ==
  ASSUME BrokerInv, NEW a \in Attempts, NEW c \in Saved(handoffs), Releases(a, c),
         Phase(a) = "exchanging", attempt[a].inbox # None, attempt[a].inbox.code = c
  PROVE  BrokerInv'
<1>1. c \in Codes /\ handoffs[c] \in HandoffRow
      /\ handoffs \in [Codes -> HandoffRow \cup {None}] /\ Saved(handoffs) \subseteq Codes
  BY DEF BrokerInv, TypeOK, Saved
<1>2. Becomes(a, "answered", attempt[a].port, attempt[a].own, attempt[a].inbox, handoffs[c].state)
  <2>1. handoffs[c].state \in StateIds
    BY <1>1 DEF HandoffRow
  <2>2. attempt \in [Attempts -> AttemptRecord]
        /\ attempt' = [attempt EXCEPT ![a].phase = "answered", ![a].answer = handoffs[c].state]
    BY DEF Releases, BrokerInv, TypeOK
  <2> QED
    BY <2>1, <2>2, AnswerEffect
<1>3. /\ handoffs[c].session = a /\ ~handoffs[c].used /\ Spend(c)
      /\ UNCHANGED <<states, working, pages, links>>
  BY DEF Releases, Bound
<1>4. handoffs' \in [Codes -> HandoffRow \cup {None}] /\ Saved(handoffs)' = Saved(handoffs)
  BY <1>1, <1>3, HandoffFlags, Zenon
<1>5. \A s : HandoffsOf(s)' = HandoffsOf(s)
  BY <1>1, <1>3, HandoffFlags, Zenon
<1>6. handoffs'[c].state = handoffs[c].state /\ handoffs'[c].session = handoffs[c].session
  BY <1>1, <1>3, HandoffFlags, Zenon
<1>7. \A d \in Codes \ {c} : handoffs'[d] = handoffs[d]
  BY <1>1, <1>3, HandoffFlags, Zenon
<1>8. handoffs'[c].used /\ ~handoffs'[c].payload
  BY <1>1, <1>3, HandoffFlags, Zenon
<1>9. handoffs[c].state \in StateIds /\ handoffs[c].state # None
  BY <1>1, BrokerAssumption DEF HandoffRow
<1>10. TypeOK'
  BY <1>2, <1>3, <1>4 DEF BrokerInv, TypeOK, Becomes, Listening, Phase
<1>11. WorkingConsumed'
  BY <1>3, <1>5 DEF BrokerInv, WorkingConsumed, Saved
<1>12. HandoffsFromStates'
  <2> SUFFICES ASSUME NEW d \in Saved(handoffs)
               PROVE  /\ handoffs[d].state \in Saved(states) /\ states[handoffs[d].state].used
                      /\ HandoffsOf(handoffs[d].state) = {d}
                      /\ handoffs[d].session = states[handoffs[d].state].session
                      /\ handoffs'[d].payload = ~handoffs'[d].used
    <3>1. \A d \in Saved(handoffs) :
            handoffs'[d].state = handoffs[d].state /\ handoffs'[d].session = handoffs[d].session
      BY <1>1, <1>6, <1>7
    <3> QED
      BY <1>3, <1>4, <1>5, <3>1 DEF HandoffsFromStates, Saved
  <2>1. CASE d = c
    <3>1. handoffs'[d].payload \in BOOLEAN /\ handoffs'[d].used \in BOOLEAN
      BY <1>1, <1>4 DEF HandoffRow, Saved
    <3>2. handoffs'[d].payload = ~handoffs'[d].used
      BY <1>8, <2>1, <3>1
    <3> QED
      BY <3>2 DEF BrokerInv, HandoffsFromStates
  <2>2. CASE d # c
    BY <1>1, <1>7, <2>2 DEF BrokerInv, HandoffsFromStates
  <2> QED
    BY <2>1, <2>2
<1>13. OwnersBegan'
  BY <1>2, <1>3 DEF BrokerInv, OwnersBegan, Becomes, Phase, Saved, TypeOK, StateRow
<1>14. LinksLead'
  BY <1>1, <1>2, <1>3, <1>4, <1>6, <1>7 DEF BrokerInv, LinksLead, Becomes
<1>15. AnswersReleased'
  <2>1. c \in HandoffsOf(handoffs[c].state)
    BY DEF HandoffsOf
  <2> SUFFICES ASSUME NEW b \in Attempts, NEW t, t = attempt'[b].answer
               PROVE  /\ attempt'[b].phase \in {"exchanging", "answered"} => attempt'[b].inbox # None
                      /\ t # None =>
                           /\ attempt'[b].phase \in {"answered", "done"}
                           /\ \E d \in HandoffsOf(t)' : handoffs'[d].used /\ handoffs'[d].session = b
    BY DEF AnswersReleased, Phase, HandoffsOf
  <2>2. CASE b = a
    BY <1>2, <1>3, <1>5, <1>6, <1>8, <2>1, <2>2 DEF Becomes
  <2>3. CASE b # a
    <3>1. attempt'[b] = attempt[b]
      BY <1>2, <2>3 DEF Becomes
    <3>2. ASSUME t # None
          PROVE  \E d \in HandoffsOf(t)' : handoffs'[d].used /\ handoffs'[d].session = b
      <4>1. PICK d \in HandoffsOf(t) : handoffs[d].used /\ handoffs[d].session = b
        BY <3>1, <3>2 DEF BrokerInv, AnswersReleased
      <4>2. d \in Codes \ {c}
        BY <1>1, <1>3, <4>1 DEF HandoffsOf
      <4> QED
        BY <1>5, <1>7, <4>1, <4>2
    <3> QED
      BY <3>1, <3>2 DEF BrokerInv, AnswersReleased, Phase
  <2> QED
    BY <2>2, <2>3
<1>16. OnlyOwnerSpends'
  <2> SUFFICES ASSUME NEW d \in Saved(handoffs), handoffs'[d].used, NEW b, b = handoffs'[d].session
               PROVE  /\ attempt'[b].phase \in {"answered", "done", "failed"}
                      /\ attempt'[b].inbox # None /\ attempt'[b].inbox.code = d
    BY <1>4 DEF OnlyOwnerSpends, Phase
  <2>1. CASE d = c
    BY <1>2, <1>3, <1>6, <2>1 DEF Becomes
  <2>2. CASE d # c
    <3>1. handoffs'[d] = handoffs[d] /\ handoffs[d].session \in Attempts
      BY <1>1, <1>7, <2>2 DEF HandoffRow, Saved
    <3>2. /\ attempt[b].phase \in {"answered", "done", "failed"}
          /\ attempt[b].inbox # None /\ attempt[b].inbox.code = d
      BY <3>1 DEF BrokerInv, OnlyOwnerSpends, Phase
    <3>3. b # a
      BY <3>2, <2>2
    <3> QED
      BY <1>2, <3>1, <3>2, <3>3 DEF Becomes
  <2> QED
    BY <2>1, <2>2
<1> QED
  BY <1>10, <1>11, <1>12, <1>13, <1>14, <1>15, <1>16 DEF BrokerInv

LEMMA ExchangeStep ==
  ASSUME BrokerInv, NEW a \in Attempts, ExchangeHandoff(a)
  PROVE  BrokerInv'
<1>1. /\ Phase(a) = "exchanging" /\ attempt[a].inbox # None
      /\ attempt[a].inbox.code \in Saved(handoffs)
  BY AskedFor
<1>2. CASE Fails(a) /\ UNCHANGED <<brokerVars, browserVars>>
  BY <1>1, <1>2, FailsStep
<1>3. CASE Releases(a, attempt[a].inbox.code)
  BY <1>1, <1>3, ReleaseStep
<1> QED
  BY <1>2, <1>3, ExchangeCases

-----------------------------------------------------------------------------
LEMMA BrokerInit == Init => BrokerInv
<1> SUFFICES ASSUME Init PROVE BrokerInv
  OBVIOUS
<1>1. NewAttempt \in AttemptRecord
  BY DEF NewAttempt, AttemptRecord, Phases
<1>2. \A a \in Attempts : attempt[a] = NewAttempt
  BY DEF Init
<1>3. NewAttempt.phase = "idle" /\ NewAttempt.inbox = None /\ NewAttempt.answer = None
  BY DEF NewAttempt
<1>4. TypeOK
  BY <1>1, <1>2, <1>3 DEF Init, TypeOK, Listening, Phase
<1>5. Saved(states) = {} /\ Saved(handoffs) = {} /\ working = {} /\ links = {}
  BY DEF Init, Saved
<1> QED
  BY <1>2, <1>3, <1>4, <1>5 DEF BrokerInv, WorkingConsumed, HandoffsFromStates, OwnersBegan, LinksLead,
     AnswersReleased, OnlyOwnerSpends, Phase

LEMMA BrokerNext == BrokerInv /\ [Next]_vars => BrokerInv'
<1> SUFFICES ASSUME BrokerInv, [Next]_vars PROVE BrokerInv'
  OBVIOUS
<1>1. ASSUME NEW a \in Attempts, NEW port \in Ports, Listen(a, port) PROVE BrokerInv'
  BY <1>1, ListenStep
<1>2. ASSUME NEW a \in Attempts, Proceed(a) PROVE BrokerInv'
  <2>1. ASSUME NEW s \in StateIds, StartAuthorization(a, s) PROVE BrokerInv'
    BY <2>1, StartStep
  <2>2. CASE StartReturns(a)
    BY <2>2, StartReturnsStep
  <2>3. CASE StartFails(a) \/ WaitFails(a) \/ ExchangeFails(a)
    BY <2>3, FailsStep DEF StartFails, WaitFails, GivesUp, ExchangeFails
  <2>4. CASE WaitGetsCode(a)
    BY <2>4, WaitGetsCodeStep
  <2>5. CASE ExchangeHandoff(a)
    BY <2>5, ExchangeStep
  <2>6. CASE ExchangeReturns(a)
    BY <2>6, ExchangeReturnsStep
  <2> QED
    BY <1>2, <2>1, <2>2, <2>3, <2>4, <2>5, <2>6 DEF Proceed
<1>3. ASSUME NEW a \in Attempts, NEW link \in links, Deliver(a, link) PROVE BrokerInv'
  BY <1>3, DeliverStep
<1>4. ASSUME NEW s \in StateIds, OAuthCallback(s) \/ CallbackDies(s) \/ ExpireState(s)
      PROVE  BrokerInv'
  BY <1>4, CallbackStep, CallbackDiesStep, ExpireStateStep
<1>5. ASSUME NEW s \in StateIds, NEW c \in Codes, MintHandoff(s, c) PROVE BrokerInv'
  BY <1>5, MintStep
<1>6. ASSUME NEW c \in Codes, ExpireHandoff(c) PROVE BrokerInv'
  BY <1>6, ExpireHandoffStep
<1>7. CASE UNCHANGED vars
  BY <1>7 DEF vars, BrokerInv, TypeOK, WorkingConsumed, HandoffsFromStates, OwnersBegan, LinksLead,
     AnswersReleased, OnlyOwnerSpends, Phase, Listening, HandoffsOf, Saved
<1> QED
  BY <1>1, <1>2, <1>3, <1>4, <1>5, <1>6, <1>7 DEF Next

(* Every reachable state of the two tables, the listeners and the browser  *)
(* is consistent, whatever is lost, repeated, late or misdirected.         *)
THEOREM BrokerInvariant == Spec => []BrokerInv
<1> QED
  BY BrokerInit, BrokerNext, PTL DEF Spec

(* No two listeners share a port, and every table and channel keeps its    *)
(* type.                                                                   *)
THEOREM BrokerTypeCorrect == Spec => []TypeOK
<1>1. BrokerInv => TypeOK
  BY DEF BrokerInv
<1> QED
  BY <1>1, BrokerInvariant, PTL

(* A handoff is spent by the attempt that began its grant, never by a      *)
(* misdirected redirect.                                                   *)
THEOREM OwnerSpends == Spec => []OnlyOwnerSpends
<1>1. BrokerInv => OnlyOwnerSpends
  BY DEF BrokerInv
<1> QED
  BY <1>1, BrokerInvariant, PTL

(* Tokens are sealed in one row or held by one attempt, never both.        *)
THEOREM TokensOnce == Spec => []TokensInOnePlace
<1>1. BrokerInv => TokensInOnePlace
  <2> SUFFICES ASSUME BrokerInv, NEW s \in StateIds
               PROVE  Cardinality({c \in HandoffsOf(s) : handoffs[c].payload})
                        + Cardinality({a \in Attempts : attempt[a].answer = s}) <= 1
    BY DEF TokensInOnePlace
  <2> DEFINE sealed == {c \in HandoffsOf(s) : handoffs[c].payload}
             holders == {a \in Attempts : attempt[a].answer = s}
  <2>1. Cardinality({}) = 0 /\ \A x : Cardinality({x}) = 1
    BY FS_EmptySet, FS_Singleton
  <2>2. s # None
    BY BrokerAssumption
  <2>3. \A c \in HandoffsOf(s) : HandoffsOf(s) = {c} /\ handoffs[c].payload = ~handoffs[c].used
    BY DEF BrokerInv, HandoffsFromStates, HandoffsOf
  <2>4. \A a \in holders : \E c \in HandoffsOf(s) : handoffs[c].used /\ handoffs[c].session = a
    BY <2>2 DEF BrokerInv, AnswersReleased
  <2>5. CASE holders = {}
    <3>1. sealed = {} \/ \E c : sealed = {c}
      BY <2>3
    <3>2. Cardinality(sealed) \in {0, 1} /\ Cardinality(holders) = 0
      BY <2>1, <2>5, <3>1
    <3> QED
      BY <3>2
  <2>6. CASE holders # {}
    <3>1. PICK a \in holders : TRUE
      BY <2>6
    <3>2. PICK c \in HandoffsOf(s) : handoffs[c].used /\ handoffs[c].session = a
      BY <2>4, <3>1
    <3>3. sealed = {}
      BY <2>3, <3>2
    <3>4. holders = {a}
      BY <2>3, <2>4, <3>1, <3>2
    <3>5. Cardinality(sealed) = 0 /\ Cardinality(holders) = 1
      BY <2>1, <3>3, <3>4
    <3> QED
      BY <3>5
  <2> QED
    BY <2>5, <2>6
<1> QED
  BY <1>1, BrokerInvariant, PTL

-----------------------------------------------------------------------------
(* The refinement. *)

(* Without a row a grant is unknown, a callback at work has it consented.  *)
LEMMA StageEarly ==
  ASSUME BrokerInv, NEW s \in StateIds
  PROVE  /\ states[s] = None => StageOf(s) = "none" /\ s \notin working /\ HandoffsOf(s) = {}
         /\ s \in working => StageOf(s) = "consented" /\ HandoffsOf(s) = {} /\ states[s] # None
         /\ states[s] # None /\ s \notin working /\ HandoffsOf(s) = {} =>
              StageOf(s) = IF ~states[s].used /\ ~states[s].expired THEN "open" ELSE "void"
<1>1. s \in working => HandoffsOf(s) = {} /\ states[s] # None
  BY DEF BrokerInv, WorkingConsumed, Saved
<1>2. states[s] = None => HandoffsOf(s) = {}
  BY DEF BrokerInv, HandoffsFromStates, HandoffsOf, Saved
<1> QED
  BY <1>1, <1>2 DEF StageOf

(* With a handoff, the handoff says how far the grant is.                  *)
LEMMA StageLate ==
  ASSUME BrokerInv, NEW c \in Saved(handoffs), NEW s, s = handoffs[c].state
  PROVE  /\ s \in StateIds /\ HandoffsOf(s) = {c} /\ s \notin working
         /\ StageOf(s) = IF handoffs[c].used THEN "released"
                         ELSE IF ~handoffs[c].expired THEN "sealed" ELSE "void"
<1>1. s \in Saved(states) /\ states[s].used /\ HandoffsOf(s) = {c}
  BY DEF BrokerInv, HandoffsFromStates
<1>2. s \notin working
  BY <1>1 DEF BrokerInv, WorkingConsumed
<1> QED
  BY <1>1, <1>2 DEF StageOf, Saved, BrokerInv, TypeOK

LEMMA StageFrame ==
  ASSUME NEW s, states'[s] = states[s], s \in working' <=> s \in working,
         HandoffsOf(s)' = HandoffsOf(s),
         \A c \in HandoffsOf(s) : handoffs'[c].used = handoffs[c].used
                                  /\ handoffs'[c].expired = handoffs[c].expired
  PROVE  StageOf(s)' = StageOf(s)
BY DEF StageOf

LEMMA PromiseInit == BrokerInv /\ Init => Promised!Init
<1> SUFFICES ASSUME BrokerInv, Init PROVE Promised!Init
  OBVIOUS
<1>1. \A s \in StateIds : states[s] = None /\ StageOf(s) = "none"
  BY StageEarly DEF Init
<1>2. \A a \in Attempts : attempt[a].answer = None
  BY DEF Init, NewAttempt
<1> QED
  BY <1>1, <1>2 DEF Promised!Init

(* A step that moves one grant on, and one that loses an answer.           *)
LEMMA StageMoves ==
  ASSUME NEW s \in StateIds, NEW from, NEW to, StageOf(s) \in from, StageOf(s)' = to,
         \A t \in StateIds \ {s} : StageOf(t)' = StageOf(t)
  PROVE  Promised!Advance(s, from, to)
BY DEF Promised!Advance

(* A step that leaves the tables alone moves no grant.                     *)
LEMMA TablesAlone ==
  ASSUME UNCHANGED brokerVars
  PROVE  \A s \in StateIds : StageOf(s)' = StageOf(s) /\ states'[s] = states[s]
<1>1. \A s : HandoffsOf(s)' = HandoffsOf(s)
  BY DEF HandoffsOf, Saved, brokerVars
<1> QED
  BY <1>1, StageFrame DEF brokerVars

(* Nor does it show if no answer changes.                                  *)
LEMMA StutterStep ==
  ASSUME NEW a \in Attempts, NEW phase, NEW port, NEW own, NEW inbox,
         Becomes(a, phase, port, own, inbox, attempt[a].answer), UNCHANGED brokerVars
  PROVE  UNCHANGED Promised!handoffVars
<1>1. \A b \in Attempts : attempt'[b].answer = attempt[b].answer
  BY DEF Becomes
<1> QED
  BY <1>1, TablesAlone DEF Promised!handoffVars

LEMMA LoseStep ==
  ASSUME BrokerInv, NEW a \in Attempts, Fails(a), UNCHANGED <<brokerVars, browserVars>>
  PROVE  Promised!Lose(a)
<1>1. Becomes(a, "failed", attempt[a].port, attempt[a].own, attempt[a].inbox, None)
  BY FailsEffect DEF BrokerInv, TypeOK
<1>2. \A b \in Attempts \ {a} : attempt'[b].answer = attempt[b].answer
  BY <1>1 DEF Becomes
<1>3. attempt'[a].answer = None
  BY <1>1 DEF Becomes
<1> QED
  BY <1>2, <1>3, TablesAlone DEF Promised!Lose

(* startAuthorization opens a grant for an attempt that has none.          *)
LEMMA OpenStep ==
  ASSUME BrokerInv, BrokerInv', NEW a \in Attempts, NEW s \in StateIds, StartAuthorization(a, s)
  PROVE  Promised!Open(s, a)
<1>1. Becomes(a, "replying", attempt[a].port, s, attempt[a].inbox, attempt[a].answer)
  BY StartEffect DEF BrokerInv, TypeOK
<1>2. /\ Phase(a) = "starting" /\ states[s] = None /\ UNCHANGED <<working, handoffs>>
      /\ states' = [states EXCEPT ![s] = [session |-> a, port |-> attempt[a].port,
                                          used |-> FALSE, expired |-> FALSE]]
  BY DEF StartAuthorization, Fresh, Saved
<1>3. states \in [StateIds -> StateRow \cup {None}]
  BY DEF BrokerInv, TypeOK
<1>4. /\ states'[s].session = a /\ ~states'[s].used /\ ~states'[s].expired
      /\ \A t \in StateIds \ {s} : states'[t] = states[t]
  BY <1>2, <1>3
<1>5. states'[s] # None
  <2>1. [session |-> a, port |-> attempt[a].port, used |-> FALSE, expired |-> FALSE] = states'[s]
    BY <1>2, <1>3
  <2>2. states'[s] \in StateRow
    <3>1. attempt[a].port \in Ports \cup {None}
      BY DEF BrokerInv, TypeOK, AttemptRecord
    <3>2. attempt[a].port \in Ports
      BY <1>2, <3>1 DEF BrokerInv, OwnersBegan
    <3>3. [session |-> a, port |-> attempt[a].port, used |-> FALSE, expired |-> FALSE] \in StateRow
      BY <3>2 DEF StateRow
    <3> QED
      BY <2>1, <3>3
  <2> QED
    BY <2>2, BrokerAssumption
<1>6. \A t : HandoffsOf(t)' = HandoffsOf(t)
  BY <1>2 DEF HandoffsOf, Saved
<1>7. StageOf(s) = "none" /\ s \notin working /\ HandoffsOf(s) = {}
  BY <1>2, StageEarly
<1>8. StageOf(s)' = "open"
  BY <1>2, <1>4, <1>5, <1>6, <1>7 DEF StageOf
<1>9. \A t \in StateIds \ {s} : StageOf(t)' = StageOf(t)
  BY <1>2, <1>4, <1>6, StageFrame
<1>10. Promised!Advance(s, {"none"}, "open")
  BY <1>7, <1>8, <1>9, StageMoves
<1>11. \A t \in StateIds : (IF states[t] = None THEN None ELSE states[t].session) # a
  BY <1>2, BrokerAssumption DEF BrokerInv, OwnersBegan, Saved, TypeOK
<1>12. \A b \in Attempts : attempt'[b].answer = attempt[b].answer
  BY <1>1 DEF Becomes
<1> QED
  BY <1>4, <1>5, <1>10, <1>11, <1>12 DEF Promised!Open

(* The owners and the answers stay, as every other grant does.             *)
LEMMA OthersStay ==
  ASSUME UNCHANGED attempt,
         \A t \in StateIds : /\ states'[t] = None <=> states[t] = None
                             /\ states'[t] # None => states'[t].session = states[t].session
  PROVE  UNCHANGED <<[t \in StateIds |-> IF states[t] = None THEN None ELSE states[t].session],
                     [b \in Attempts |-> attempt[b].answer]>>
OBVIOUS

LEMMA ConsentStep ==
  ASSUME BrokerInv, BrokerInv', NEW s \in StateIds, OAuthCallback(s)
  PROVE  Promised!Consent(s)
<1>1. /\ s \in Saved(states) /\ ~states[s].used /\ ~states[s].expired
      /\ states' = [states EXCEPT ![s].used = TRUE] /\ working' = working \cup {s}
      /\ UNCHANGED <<attempt, handoffs>>
  BY DEF OAuthCallback, ConsumeOAuthState
<1>2. states \in [StateIds -> StateRow \cup {None}] /\ states[s] # None
  BY <1>1 DEF BrokerInv, TypeOK, Saved
<1>3. /\ Saved(states)' = Saved(states) /\ states'[s].session = states[s].session
      /\ \A t \in StateIds \ {s} : states'[t] = states[t]
  BY <1>1, <1>2, StateFlags
<1>4. HandoffsOf(s) = {} /\ s \notin working
  BY <1>1 DEF BrokerInv, HandoffsFromStates, HandoffsOf, WorkingConsumed
<1>5. StageOf(s) = "open"
  BY <1>1, <1>2, <1>4 DEF StageOf
<1>6. StageOf(s)' = "consented"
  BY <1>1, <1>3 DEF StageOf, Saved
<1>7. \A t : HandoffsOf(t)' = HandoffsOf(t)
  BY <1>1 DEF HandoffsOf, Saved
<1>8. \A t \in StateIds \ {s} : StageOf(t)' = StageOf(t)
  BY <1>1, <1>3, <1>7, StageFrame
<1>9. Promised!Advance(s, {"open"}, "consented")
  BY <1>5, <1>6, <1>8, StageMoves
<1>10. \A t \in StateIds : /\ states'[t] = None <=> states[t] = None
                           /\ states'[t] # None => states'[t].session = states[t].session
  BY <1>2, <1>3 DEF Saved, BrokerInv, TypeOK
<1> QED
  BY <1>1, <1>9, <1>10, OthersStay DEF Promised!Consent

LEMMA DiesLapses ==
  ASSUME BrokerInv, BrokerInv', NEW s \in StateIds, CallbackDies(s)
  PROVE  Promised!Lapse(s)
<1>1. s \in working /\ working' = working \ {s} /\ UNCHANGED <<attempt, states, handoffs>>
  BY DEF CallbackDies
<1>2. HandoffsOf(s) = {} /\ states[s] # None /\ states[s].used /\ StageOf(s) = "consented"
  BY <1>1, StageEarly DEF BrokerInv, WorkingConsumed
<1>3. \A t : HandoffsOf(t)' = HandoffsOf(t)
  BY <1>1 DEF HandoffsOf, Saved
<1>4. StageOf(s)' = "void"
  BY <1>1, <1>2, <1>3 DEF StageOf
<1>5. \A t \in StateIds \ {s} : StageOf(t)' = StageOf(t)
  BY <1>1, <1>3, StageFrame
<1>6. Promised!Advance(s, {"open", "consented", "sealed"}, "void")
  BY <1>2, <1>4, <1>5, StageMoves
<1> QED
  BY <1>1, <1>6, OthersStay DEF Promised!Lapse

LEMMA ExpireStateLapses ==
  ASSUME BrokerInv, BrokerInv', NEW s \in StateIds, ExpireState(s)
  PROVE  Promised!Lapse(s) \/ UNCHANGED Promised!handoffVars
<1>1. /\ s \in Saved(states) /\ ~states[s].expired /\ states' = [states EXCEPT ![s].expired = TRUE]
      /\ UNCHANGED <<attempt, working, handoffs>>
  BY DEF ExpireState
<1>2. states \in [StateIds -> StateRow \cup {None}] /\ states[s] \in StateRow /\ states[s] # None
  BY <1>1 DEF BrokerInv, TypeOK, Saved
<1>3. /\ Saved(states)' = Saved(states) /\ states'[s].session = states[s].session
      /\ \A t \in StateIds \ {s} : states'[t] = states[t]
  BY <1>1, <1>2, StateFlags
<1>4. states'[s].expired /\ states'[s] # None
  BY <1>1, <1>2, <1>3 DEF StateRow, Saved
<1>5. \A t : HandoffsOf(t)' = HandoffsOf(t)
  BY <1>1 DEF HandoffsOf, Saved
<1>6. \A t \in StateIds \ {s} : StageOf(t)' = StageOf(t)
  BY <1>1, <1>3, <1>5, StageFrame
<1>7. \A t \in StateIds : /\ states'[t] = None <=> states[t] = None
                          /\ states'[t] # None => states'[t].session = states[t].session
  BY <1>2, <1>3 DEF Saved, BrokerInv, TypeOK
<1>8. CASE StageOf(s) = "open"
  <2>1. s \notin working /\ ~\E c \in HandoffsOf(s) : handoffs[c].used \/ ~handoffs[c].expired
    BY <1>2, <1>8 DEF StageOf
  <2>2. StageOf(s)' = "void"
    BY <1>1, <1>4, <1>5, <2>1 DEF StageOf
  <2>3. Promised!Advance(s, {"open", "consented", "sealed"}, "void")
    BY <1>6, <1>8, <2>2, StageMoves
  <2> QED
    BY <1>1, <1>7, <2>3, OthersStay DEF Promised!Lapse
<1>9. CASE StageOf(s) # "open"
  <2>1. StageOf(s)' = StageOf(s)
    BY <1>1, <1>2, <1>4, <1>5, <1>9 DEF StageOf
  <2>2. \A t \in StateIds : StageOf(t)' = StageOf(t)
    BY <1>6, <2>1
  <2> QED
    BY <1>1, <1>7, <2>2, OthersStay DEF Promised!handoffVars
<1> QED
  BY <1>8, <1>9

LEMMA SealStep ==
  ASSUME BrokerInv, BrokerInv', NEW s \in StateIds, NEW c \in Codes, MintHandoff(s, c)
  PROVE  Promised!Seal(s)
<1> DEFINE row == [state |-> s, session |-> states[s].session, payload |-> TRUE,
                   used |-> FALSE, expired |-> FALSE]
<1>1. /\ s \in working /\ working' = working \ {s} /\ c \notin Saved(handoffs)
      /\ handoffs' = [handoffs EXCEPT ![c] = row] /\ UNCHANGED <<attempt, states>>
  BY DEF MintHandoff, Fresh
<1>2. StageOf(s) = "consented" /\ states[s] # None
  BY <1>1, StageEarly
<1>3. /\ handoffs'[c] = row /\ DOMAIN handoffs = Codes /\ DOMAIN handoffs' = Codes
      /\ \A d \in Codes \ {c} : handoffs'[d] = handoffs[d]
  BY <1>1 DEF BrokerInv, TypeOK
<1>4. c \in Saved(handoffs)'
  <2>1. states[s].session \in Attempts
    BY <1>2 DEF BrokerInv, TypeOK, StateRow
  <2>2. row \in HandoffRow
    BY <2>1 DEF HandoffRow
  <2> HIDE DEF row
  <2> QED
    BY <1>3, <2>2, BrokerAssumption DEF Saved
<1>5. row.state = s /\ ~row.used /\ ~row.expired
  OBVIOUS
<1> HIDE DEF row
<1>6. StageOf(s)' = "sealed"
  <2>1. s = handoffs'[c].state /\ ~handoffs'[c].used /\ ~handoffs'[c].expired
    BY <1>3, <1>5
  <2>2. HandoffsOf(s)' = {c}
    BY <1>4, <2>1 DEF BrokerInv, HandoffsFromStates, HandoffsOf
  <2> QED
    BY <1>1, <1>2, <2>1, <2>2 DEF StageOf
<1>7. \A t \in StateIds \ {s} : HandoffsOf(t)' = HandoffsOf(t)
  BY <1>1, <1>3, <1>5 DEF HandoffsOf, Saved
<1>8. \A t \in StateIds \ {s} : StageOf(t)' = StageOf(t)
  <2> SUFFICES ASSUME NEW t \in StateIds \ {s} PROVE StageOf(t)' = StageOf(t)
    OBVIOUS
  <2>1. \A d \in HandoffsOf(t) : handoffs'[d] = handoffs[d]
    BY <1>1, <1>3 DEF HandoffsOf, Saved
  <2> QED
    BY <1>1, <1>7, <2>1, StageFrame
<1>9. Promised!Advance(s, {"consented"}, "sealed")
  BY <1>2, <1>6, <1>8, StageMoves
<1> QED
  BY <1>1, <1>9, OthersStay DEF Promised!Seal

(* What one handoff's row says is the stage of its grant only.             *)
LEMMA OneHandoffMoves ==
  ASSUME BrokerInv, NEW c \in Saved(handoffs), Expires(c) \/ Spend(c), UNCHANGED <<states, working>>
  PROVE  /\ \A t \in StateIds \ {handoffs[c].state} : StageOf(t)' = StageOf(t)
         /\ StageOf(handoffs[c].state) =
               IF handoffs[c].used THEN "released"
               ELSE IF ~handoffs[c].expired THEN "sealed" ELSE "void"
         /\ \A t : t = handoffs[c].state =>
              StageOf(t)' = IF handoffs'[c].used THEN "released"
                            ELSE IF ~handoffs'[c].expired THEN "sealed" ELSE "void"
<1>1. handoffs \in [Codes -> HandoffRow \cup {None}]
  BY DEF BrokerInv, TypeOK
<1>2. \A t : HandoffsOf(t)' = HandoffsOf(t)
  BY <1>1, HandoffFlags, Zenon
<1>3. \A d \in Codes \ {c} : handoffs'[d] = handoffs[d]
  BY <1>1, HandoffFlags, Zenon
<1>4. \A t \in StateIds \ {handoffs[c].state} : StageOf(t)' = StageOf(t)
  <2> SUFFICES ASSUME NEW t \in StateIds \ {handoffs[c].state} PROVE StageOf(t)' = StageOf(t)
    OBVIOUS
  <2>1. \A d \in HandoffsOf(t) : handoffs'[d] = handoffs[d]
    BY <1>1, <1>3 DEF HandoffsOf, Saved
  <2> QED
    BY <1>2, <2>1, StageFrame
<1>5. ASSUME NEW t, t = handoffs[c].state
      PROVE  StageOf(t)' = IF handoffs'[c].used THEN "released"
                           ELSE IF ~handoffs'[c].expired THEN "sealed" ELSE "void"
  <2>1. HandoffsOf(t) = {c} /\ t \notin working
    BY <1>5, StageLate
  <2>2. states[t] # None /\ states[t].used
    BY <1>5 DEF BrokerInv, HandoffsFromStates, Saved
  <2> QED
    BY <1>2, <2>1, <2>2 DEF StageOf
<1>6. StageOf(handoffs[c].state) =
        IF handoffs[c].used THEN "released" ELSE IF ~handoffs[c].expired THEN "sealed" ELSE "void"
  BY StageLate
<1> QED
  BY <1>4, <1>5, <1>6

LEMMA ExpireHandoffLapses ==
  ASSUME BrokerInv, NEW c \in Codes, ExpireHandoff(c)
  PROVE  (\E s \in StateIds : Promised!Lapse(s)) \/ UNCHANGED Promised!handoffVars
<1>1. /\ c \in Saved(handoffs) /\ ~handoffs[c].expired /\ Expires(c)
      /\ UNCHANGED <<attempt, states, working>>
  BY DEF ExpireHandoff, Expires
<1>2. PICK s \in StateIds : s = handoffs[c].state
  BY <1>1, StageLate
<1>3. handoffs'[c].used = handoffs[c].used /\ handoffs'[c].expired
  BY <1>1, HandoffFlags, Zenon DEF BrokerInv, TypeOK
<1>4. /\ \A t \in StateIds \ {s} : StageOf(t)' = StageOf(t)
      /\ StageOf(s) = IF handoffs[c].used THEN "released" ELSE "sealed"
      /\ StageOf(s)' = IF handoffs[c].used THEN "released" ELSE "void"
  BY <1>1, <1>2, <1>3, OneHandoffMoves
<1>5. CASE handoffs[c].used
  <2>1. \A t \in StateIds : StageOf(t)' = StageOf(t)
    BY <1>4, <1>5
  <2> QED
    BY <1>1, <2>1, OthersStay DEF Promised!handoffVars
<1>6. CASE ~handoffs[c].used
  <2>1. Promised!Advance(s, {"open", "consented", "sealed"}, "void")
    BY <1>4, <1>6, StageMoves
  <2> QED
    BY <1>1, <2>1, OthersStay DEF Promised!Lapse
<1> QED
  BY <1>5, <1>6

(* exchangeHandoff releases a sealed grant to its owner.                   *)
LEMMA ReleaseReleases ==
  ASSUME BrokerInv, NEW a \in Attempts, NEW c \in Saved(handoffs), Releases(a, c)
  PROVE  \E s \in StateIds : Promised!Release(s)
<1>1. /\ ~handoffs[c].used /\ ~handoffs[c].expired /\ handoffs[c].session = a /\ Spend(c)
      /\ attempt' = [attempt EXCEPT ![a].phase = "answered", ![a].answer = handoffs[c].state]
      /\ UNCHANGED <<states, working>>
  BY DEF Releases, Bound
<1>2. PICK s \in StateIds : s = handoffs[c].state
  BY StageLate
<1>3. handoffs'[c].used
  BY <1>1, HandoffFlags, Zenon DEF BrokerInv, TypeOK
<1>4. /\ \A t \in StateIds \ {s} : StageOf(t)' = StageOf(t)
      /\ StageOf(s) = "sealed" /\ StageOf(s)' = "released"
  BY <1>1, <1>2, <1>3, OneHandoffMoves
<1>5. Promised!Advance(s, {"sealed"}, "released")
  BY <1>4, StageMoves
<1>6. states[s] # None /\ states[s].session = a
  BY <1>1, <1>2 DEF BrokerInv, HandoffsFromStates, Saved
<1>7. Becomes(a, "answered", attempt[a].port, attempt[a].own, attempt[a].inbox, s)
  BY <1>1, <1>2, AnswerEffect DEF BrokerInv, TypeOK
<1>8. [b \in Attempts |-> attempt'[b].answer] = [[b \in Attempts |-> attempt[b].answer] EXCEPT ![a] = s]
  BY <1>7 DEF Becomes
<1>9. [t \in StateIds |-> IF states[t] = None THEN None ELSE states[t].session][s] = a
  BY <1>6
<1> QED
  BY <1>1, <1>5, <1>8, <1>9 DEF Promised!Release

(* The steps of an attempt, as steps of the promise.                       *)
LEMMA ProceedPromised ==
  ASSUME BrokerInv, BrokerInv', NEW a \in Attempts, Proceed(a)
  PROVE  [Promised!Next]_(Promised!handoffVars)
<1>0. attempt \in [Attempts -> AttemptRecord]
  BY DEF BrokerInv, TypeOK
<1>1. ASSUME NEW s \in StateIds, StartAuthorization(a, s) PROVE Promised!Next
  BY <1>1, OpenStep DEF Promised!Next
<1>2. CASE StartReturns(a) \/ WaitGetsCode(a) \/ ExchangeReturns(a)
  <2>1. PICK to \in Phases : Moves(a, to) /\ UNCHANGED brokerVars
    BY <1>2 DEF StartReturns, WaitGetsCode, ExchangeReturns, Phases
  <2>2. Becomes(a, to, attempt[a].port, attempt[a].own, attempt[a].inbox, attempt[a].answer)
    BY <1>0, <2>1, MovesEffect
  <2> QED
    BY <2>1, <2>2, StutterStep
<1>3. CASE StartFails(a) \/ WaitFails(a) \/ ExchangeFails(a)
  <2>1. Fails(a) /\ UNCHANGED <<brokerVars, browserVars>>
    BY <1>3 DEF StartFails, WaitFails, ExchangeFails
  <2> QED
    BY <2>1, LoseStep DEF Promised!Next
<1>4. CASE ExchangeHandoff(a)
  <2>1. attempt[a].inbox.code \in Saved(handoffs)
    BY <1>4, AskedFor
  <2>2. CASE Fails(a) /\ UNCHANGED <<brokerVars, browserVars>>
    BY <2>2, LoseStep DEF Promised!Next
  <2>3. CASE Releases(a, attempt[a].inbox.code)
    BY <2>1, <2>3, ReleaseReleases DEF Promised!Next
  <2> QED
    BY <1>4, <2>2, <2>3, ExchangeCases
<1> QED
  BY <1>1, <1>2, <1>3, <1>4 DEF Proceed

LEMMA PromiseNext ==
  BrokerInv /\ BrokerInv' /\ [Next]_vars => [Promised!Next]_(Promised!handoffVars)
<1> SUFFICES ASSUME BrokerInv, BrokerInv', [Next]_vars
             PROVE  [Promised!Next]_(Promised!handoffVars)
  OBVIOUS
<1>0. attempt \in [Attempts -> AttemptRecord]
  BY DEF BrokerInv, TypeOK
<1>1. ASSUME NEW a \in Attempts, NEW port \in Ports, Listen(a, port)
      PROVE  UNCHANGED Promised!handoffVars
  <2>1. Becomes(a, "starting", port, attempt[a].own, attempt[a].inbox, attempt[a].answer)
    BY <1>0, <1>1, ListenEffect
  <2> QED
    BY <1>1, <2>1, StutterStep DEF Listen
<1>2. ASSUME NEW a \in Attempts, Proceed(a) PROVE [Promised!Next]_(Promised!handoffVars)
  BY <1>2, ProceedPromised
<1>3. ASSUME NEW a \in Attempts, NEW link \in links, Deliver(a, link)
      PROVE  UNCHANGED Promised!handoffVars
  <2>1. link \in Link
    BY <1>3 DEF BrokerInv, TypeOK
  <2>2. PICK inbox \in {attempt[a].inbox, link} :
          Becomes(a, attempt[a].phase, attempt[a].port, attempt[a].own, inbox, attempt[a].answer)
    BY <1>0, <1>3, <2>1, DeliverEffect
  <2> QED
    BY <1>3, <2>2, StutterStep DEF Deliver
<1>4. ASSUME NEW s \in StateIds, OAuthCallback(s) \/ CallbackDies(s) \/ ExpireState(s)
      PROVE  [Promised!Next]_(Promised!handoffVars)
  BY <1>4, ConsentStep, DiesLapses, ExpireStateLapses DEF Promised!Next
<1>5. ASSUME NEW s \in StateIds, NEW c \in Codes, MintHandoff(s, c) PROVE Promised!Next
  BY <1>5, SealStep DEF Promised!Next
<1>6. ASSUME NEW c \in Codes, ExpireHandoff(c) PROVE [Promised!Next]_(Promised!handoffVars)
  BY <1>6, ExpireHandoffLapses DEF Promised!Next
<1>7. CASE UNCHANGED vars
  <2>1. UNCHANGED brokerVars /\ UNCHANGED attempt
    BY <1>7 DEF vars, brokerVars
  <2> QED
    BY <2>1, TablesAlone DEF Promised!handoffVars
<1> QED
  BY <1>1, <1>2, <1>3, <1>4, <1>5, <1>6, <1>7 DEF Next

(* The broker, its tables, the redirects and the desktop together keep the *)
(* promise of OneShotHandoff: a grant is begun by one attempt, released at *)
(* most once, before it lapses, and to that attempt.                       *)
THEOREM KeepsPromise == Spec => HandoffPromise
<1>1. BrokerInv /\ Init => Promised!Init
  BY PromiseInit
<1>2. BrokerInv /\ BrokerInv' /\ [Next]_vars => [Promised!Next]_(Promised!handoffVars)
  BY PromiseNext
<1> QED
  BY <1>1, <1>2, BrokerInvariant, PTL DEF Spec, HandoffPromise, Promised!Spec
=============================================================================
