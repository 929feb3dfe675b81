--------------------------- MODULE ConnectionsProofs ---------------------------
(***************************************************************************)
(* Every call comes to its end (CallsEnd), the selection is the user's      *)
(* (SelectionKept), the stores agree (StoresAgree) and the refresh token is *)
(* the accepted one (RefreshTokenKept), for every number of calls, retries, *)
(* grants and tokens, with any bound on the faults.                         *)
(***************************************************************************)
EXTENDS Connections, SequenceTheorems, TLAPS

Phases == {"load", "send", "exchange", "persist", "flag"}

(* A call in progress has something to do and rounds left or used up.       *)
InShape(call) ==
  /\ call.todo \in Seq(Steps) /\ call.todo # <<>>
  /\ call.round \in 0 .. MaxRateRetries /\ call.http \in Phases
  /\ call = [op |-> call.op, todo |-> call.todo, http |-> call.http, token |-> call.token,
             round |-> call.round, refreshed |-> call.refreshed]

(* A call with other phase, token, round or flag.                           *)
With(call, http, token, round, refreshed) ==
  [op |-> call.op, todo |-> call.todo, http |-> http, token |-> token, round |-> round, refreshed |-> refreshed]

CallsInShape ==
  /\ provider.name \in Providers /\ calls = [c \in Calls |-> calls[c]]
  /\ \A c \in Calls : calls[c] # NoCall => InShape(calls[c])

Phase(http) ==
  CASE http = "load" -> 5 [] http = "send" -> 4 [] http = "exchange" -> 3
    [] http = "persist" -> 2 [] http = "flag" -> 1

(* The steps a call may still take.                                        *)
Ahead(call) ==
  (IF call.op = "connect" THEN Len(Connect) + Len(Disconnect) ELSE 0) + Len(call.todo)

(* The three ways to come closer to the end: a step, a round, a phase.      *)
Closer(new, old) ==
  \/ Ahead(new) < Ahead(old)
  \/ Ahead(new) = Ahead(old) /\ new.round > old.round
  \/ Ahead(new) = Ahead(old) /\ new.round = old.round /\ Phase(new.http) < Phase(old.http)

Rounds == MaxRateRetries + 1

-----------------------------------------------------------------------------
LEMMA StepsAhead ==
  ASSUME NEW a \in Nat, NEW b \in Nat, a < b PROVE a * Rounds + Rounds <= b * Rounds
<1>1. Rounds \in Nat
  BY ConnectionsAssumption DEF Rounds
<1>2. b - a - 1 \in Nat /\ b = a + 1 + (b - a - 1)
  OBVIOUS
<1>3. ASSUME NEW m \in Nat, NEW k \in Nat PROVE (a + 1 + k) * m = a * m + m + k * m /\ k * m \in Nat /\ a * m \in Nat
  OBVIOUS
<1>4. b * Rounds = a * Rounds + Rounds + (b - a - 1) * Rounds /\ (b - a - 1) * Rounds \in Nat /\ a * Rounds \in Nat
  BY <1>1, <1>2, <1>3, Zenon
<1> HIDE DEF Rounds
<1> QED BY <1>1, <1>4

LEMMA Lexicographic ==
  ASSUME NEW a \in Nat, NEW b \in Nat, NEW r \in 0 .. MaxRateRetries, NEW s \in 0 .. MaxRateRetries,
         NEW p \in 1 .. 5, NEW q \in 1 .. 5,
         a < b \/ (a = b /\ r > s) \/ (a = b /\ r = s /\ p < q)
  PROVE  (a * (MaxRateRetries + 1) + MaxRateRetries - r) * 6 + p
           < (b * (MaxRateRetries + 1) + MaxRateRetries - s) * 6 + q
<1>1. MaxRateRetries \in Nat
  BY ConnectionsAssumption
<1>2. a * Rounds \in Nat /\ b * Rounds \in Nat
  BY <1>1 DEF Rounds
<1>3. ASSUME NEW m \in Nat, NEW n \in Nat, m = a * Rounds, n = b * Rounds
      PROVE  (m + MaxRateRetries - r) * 6 + p < (n + MaxRateRetries - s) * 6 + q
  <2>1. CASE a < b
    <3>1. m + Rounds <= n
      BY <1>3, <2>1, StepsAhead, Zenon
    <3>2. Rounds = MaxRateRetries + 1
      BY DEF Rounds
    <3> QED BY <1>1, <3>1, <3>2
  <2>2. CASE a = b
    <3>1. m = n
      BY <1>3, <2>2
    <3> QED BY <1>1, <2>2, <3>1
  <2> QED BY <2>1, <2>2
<1> QED BY <1>2, <1>3, Zenon DEF Rounds

LEMMA Pieces ==
  ASSUME provider.name \in Providers
  PROVE  /\ \A todo \in {Connect, Disconnect, Fetch, Refresh} : todo \in Seq(Steps) /\ todo # <<>>
         /\ Len(Connect) \in Nat /\ Len(Disconnect) \in Nat
<1>0. /\ \A w \in Doings : Step(w) \in Steps
      /\ \A k \in ResourceKinds : List(k) \in Steps /\ Clear(k) \in Steps
  BY DEF Steps
<1>1. /\ Step("authorize") \in Steps /\ Step("identify") \in Steps /\ Step("store") \in Steps
      /\ Step("row") \in Steps /\ Step("read") \in Steps /\ Step("revoke") \in Steps
      /\ Step("unstore") \in Steps /\ Step("unrow") \in Steps /\ Step("usable") \in Steps
      /\ Step("pick") \in Steps /\ Step("fetch") \in Steps
      /\ List("calendar") \in Steps /\ List("repo") \in Steps /\ List("channel") \in Steps
      /\ List("workspace") \in Steps /\ Clear("repo") \in Steps /\ Clear("channel") \in Steps
      /\ Clear("workspace") \in Steps
  BY <1>0 DEF Doings, ResourceKinds
<1>2. /\ GoogleLists \in Seq(Steps) /\ GoogleLists # <<>>
      /\ GitHubLists \in Seq(Steps) /\ GitHubLists # <<>>
      /\ SlackLists \in Seq(Steps) /\ SlackLists # <<>>
      /\ BitbucketLists \in Seq(Steps) /\ BitbucketLists # <<>>
  BY <1>1 DEF GoogleLists, GitHubLists, SlackLists, BitbucketLists
<1>3. /\ GoogleConnect \in Seq(Steps) /\ GoogleConnect # <<>>
      /\ GitHubConnect \in Seq(Steps) /\ GitHubConnect # <<>>
      /\ SlackConnect \in Seq(Steps) /\ SlackConnect # <<>>
      /\ BitbucketConnect \in Seq(Steps) /\ BitbucketConnect # <<>>
  <2>1. ASSUME NEW s \in Seq(Steps), NEW t \in Seq(Steps), s # <<>>
        PROVE  s \o t \in Seq(Steps) /\ s \o t # <<>>
    BY <2>1, ConcatProperties
  <2>2. /\ <<Step("authorize"), Step("store"), Step("row")>> \in Seq(Steps)
        /\ <<Step("authorize"), Step("identify"), Step("store"), Step("row")>> \in Seq(Steps)
    BY <1>1
  <2>3. /\ <<Step("authorize"), Step("store"), Step("row")>> # <<>>
        /\ <<Step("authorize"), Step("identify"), Step("store"), Step("row")>> # <<>>
    OBVIOUS
  <2> QED BY <1>2, <2>1, <2>2, <2>3, Zenon DEF GoogleConnect, GitHubConnect, SlackConnect, BitbucketConnect
<1>4. /\ GoogleDisconnect \in Seq(Steps) /\ GoogleDisconnect # <<>>
      /\ GitHubDisconnect \in Seq(Steps) /\ GitHubDisconnect # <<>>
      /\ SlackDisconnect \in Seq(Steps) /\ SlackDisconnect # <<>>
      /\ BitbucketDisconnect \in Seq(Steps) /\ BitbucketDisconnect # <<>>
  BY <1>1 DEF GoogleDisconnect, GitHubDisconnect, SlackDisconnect, BitbucketDisconnect
<1>5. /\ GoogleFetch \in Seq(Steps) /\ GoogleFetch # <<>>
      /\ GitHubFetch \in Seq(Steps) /\ GitHubFetch # <<>>
      /\ SlackFetch \in Seq(Steps) /\ SlackFetch # <<>>
      /\ BitbucketFetch \in Seq(Steps) /\ BitbucketFetch # <<>>
  BY <1>1 DEF GoogleFetch, GitHubFetch, SlackFetch, BitbucketFetch
<1>6. Connect \in Seq(Steps) /\ Connect # <<>>
  BY <1>3 DEF Connect, Providers
<1>7. Disconnect \in Seq(Steps) /\ Disconnect # <<>>
  BY <1>4 DEF Disconnect, Providers
<1>8. Fetch \in Seq(Steps) /\ Fetch # <<>>
  BY <1>5 DEF Fetch, Providers
<1>9. Refresh \in Seq(Steps) /\ Refresh # <<>>
  BY <1>2 DEF Refresh, Providers
<1> QED BY <1>6, <1>7, <1>8, <1>9, LenProperties

(* A call of this shape has a distance, and closer is less.                 *)
LEMMA CloserIsLess ==
  ASSUME provider.name \in Providers, provider' = provider, NEW new, NEW old, InShape(new), InShape(old), Closer(new, old)
  PROVE  Distance(new) < Distance(old)
<1>1. ASSUME NEW call, InShape(call)
      PROVE  /\ Ahead(call) \in Nat /\ Phase(call.http) \in 1 .. 5 /\ call.round \in 0 .. MaxRateRetries
             /\ Distance(call) = (Ahead(call) * (MaxRateRetries + 1) + MaxRateRetries - call.round) * 6
                                   + Phase(call.http)
  <2>1. Len(call.todo) \in Nat /\ Len(Connect) \in Nat /\ Len(Disconnect) \in Nat
    BY <1>1, Pieces, LenProperties DEF InShape
  <2>2. Phase(call.http) \in 1 .. 5
    BY <1>1 DEF InShape, Phases, Phase
  <2>3. Ahead(call) \in Nat
    <3>1. CASE call.op = "connect"
      <4>1. ASSUME NEW x \in Nat, NEW y \in Nat, NEW z \in Nat PROVE x + y + z \in Nat
        OBVIOUS
      <4>2. Ahead(call) = Len(Connect) + Len(Disconnect) + Len(call.todo)
        BY <3>1 DEF Ahead
      <4> QED BY <2>1, <4>1, <4>2, Zenon
    <3>2. CASE call.op # "connect"
      BY <2>1, <3>2 DEF Ahead
    <3> QED BY <3>1, <3>2
  <2>4. Distance(call) = (Ahead(call) * (MaxRateRetries + 1) + MaxRateRetries - call.round) * 6 + Phase(call.http)
    BY DEF Distance, Ahead, Phase
  <2> QED BY <1>1, <2>2, <2>3, <2>4 DEF InShape
<1> DEFINE Shaped(call) ==
             /\ Ahead(call) \in Nat /\ Phase(call.http) \in 1 .. 5 /\ call.round \in 0 .. MaxRateRetries
             /\ Distance(call) = (Ahead(call) * (MaxRateRetries + 1) + MaxRateRetries - call.round) * 6
                                   + Phase(call.http)
<1>2. Shaped(new) /\ Shaped(old)
  BY <1>1
<1>3. \/ Ahead(new) < Ahead(old)
      \/ Ahead(new) = Ahead(old) /\ new.round > old.round
      \/ Ahead(new) = Ahead(old) /\ new.round = old.round /\ Phase(new.http) < Phase(old.http)
  BY DEF Closer
<1>4. (Ahead(new) * (MaxRateRetries + 1) + MaxRateRetries - new.round) * 6 + Phase(new.http)
        < (Ahead(old) * (MaxRateRetries + 1) + MaxRateRetries - old.round) * 6 + Phase(old.http)
  BY <1>2, <1>3, Lexicographic
<1> QED BY <1>2, <1>4

-----------------------------------------------------------------------------
(* One call has moved on, the others are where they were.                   *)
Moved(c) ==
  /\ calls[c] # NoCall
  /\ calls' = [calls EXCEPT ![c] = calls'[c]]
  /\ calls'[c] = NoCall \/ (InShape(calls'[c]) /\ Closer(calls'[c], calls[c]))

LEMMA GoingShape ==
  ASSUME NEW op, NEW todo \in Seq(Steps), NEW token
  PROVE  \/ Going(op, todo, token) = NoCall
         \/ /\ InShape(Going(op, todo, token)) /\ todo # <<>>
            /\ Going(op, todo, token).op = op /\ Going(op, todo, token).todo = todo
<1> DEFINE t == IF Head(todo).do \in {"identify", "store", "revoke"} THEN token ELSE NoToken
<1>1. CASE todo = <<>>
  BY <1>1 DEF Going
<1>2. CASE todo # <<>>
  <2>1. Going(op, todo, token) = [NewCall(op, todo) EXCEPT !.token = t]
    BY <1>2 DEF Going
  <2> HIDE DEF t
  <2>2. Going(op, todo, token) = [op |-> op, todo |-> todo, http |-> "load", token |-> t, round |-> 0, refreshed |-> FALSE]
    BY <2>1 DEF NewCall
  <2>3. 0 \in 0 .. MaxRateRetries
    BY ConnectionsAssumption
  <2> QED BY <1>2, <2>2, <2>3 DEF InShape, Phases
<1> QED BY <1>1, <1>2

LEMMA TailIsShorter ==
  ASSUME NEW todo \in Seq(Steps), todo # <<>>
  PROVE  Tail(todo) \in Seq(Steps) /\ Len(Tail(todo)) \in Nat /\ Len(todo) \in Nat /\ Len(Tail(todo)) < Len(todo)
  BY HeadTailProperties, LenProperties

LEMMA StepDone ==
  ASSUME CallsInShape, NEW c \in Calls, calls[c] # NoCall, NEW token,
         calls' = [calls EXCEPT ![c] = Going(calls[c].op, Tail(calls[c].todo), token)]
  PROVE  Moved(c)
<1> DEFINE new == Going(calls[c].op, Tail(calls[c].todo), token)
<1>1. InShape(calls[c])
  BY DEF CallsInShape
<1>2. calls'[c] = new /\ calls' = [calls EXCEPT ![c] = calls'[c]]
  BY DEF CallsInShape
<1>3. /\ Tail(calls[c].todo) \in Seq(Steps) /\ Len(Tail(calls[c].todo)) \in Nat /\ Len(calls[c].todo) \in Nat
      /\ Len(Tail(calls[c].todo)) < Len(calls[c].todo)
  BY <1>1, TailIsShorter DEF InShape
<1>4. new = NoCall \/ (InShape(new) /\ new.op = calls[c].op /\ new.todo = Tail(calls[c].todo))
  <2> DEFINE rest == Tail(calls[c].todo)
  <2>1. rest \in Seq(Steps)
    BY <1>3
  <2> HIDE DEF rest
  <2>2. \/ Going(calls[c].op, rest, token) = NoCall
        \/ /\ InShape(Going(calls[c].op, rest, token))
           /\ Going(calls[c].op, rest, token).op = calls[c].op /\ Going(calls[c].op, rest, token).todo = rest
    BY <2>1, GoingShape
  <2> QED BY <2>2 DEF rest
<1> HIDE DEF new
<1>5. ASSUME new # NoCall PROVE Closer(new, calls[c])
  <2>1. ASSUME NEW x \in Nat, NEW a \in Nat, NEW b \in Nat, a < b PROVE x + a < x + b
    BY <2>1
  <2>2. new.op = calls[c].op /\ new.todo = Tail(calls[c].todo)
    BY <1>4, <1>5
  <2>3. Len(Connect) + Len(Disconnect) \in Nat
    <3>1. Len(Connect) \in Nat /\ Len(Disconnect) \in Nat
      BY Pieces DEF CallsInShape
    <3> QED BY <3>1
  <2> DEFINE stage(op) == IF op = "connect" THEN Len(Connect) + Len(Disconnect) ELSE 0
  <2>4. stage(calls[c].op) \in Nat
    BY <2>3
  <2>5. Ahead(new) = stage(calls[c].op) + Len(Tail(calls[c].todo)) /\ Ahead(calls[c]) = stage(calls[c].op) + Len(calls[c].todo)
    BY <2>2 DEF Ahead
  <2> HIDE DEF stage
  <2> QED BY <1>3, <2>1, <2>4, <2>5 DEF Closer
<1> QED BY <1>2, <1>4, <1>5 DEF Moved

LEMMA CallGivenUp ==
  ASSUME CallsInShape, NEW c \in Calls, calls[c] # NoCall, GoOn(c, <<>>)
  PROVE  Moved(c)
<1>1. calls' = [calls EXCEPT ![c] = NoCall]
  BY DEF GoOn, Going
<1> QED BY <1>1 DEF CallsInShape, Moved

LEMMA StepFails ==
  ASSUME CallsInShape, NEW c \in Calls, calls[c] # NoCall, Fail(c)
  PROVE  Moved(c)
<1> DEFINE op == IF calls[c].op = "connect" THEN "disconnect" ELSE calls[c].op
           new == Going(op, Recovery(c), calls[c].token)
<1>1. InShape(calls[c]) /\ op # "connect"
  BY DEF CallsInShape
<1>2. calls'[c] = new /\ calls' = [calls EXCEPT ![c] = calls'[c]]
  BY DEF CallsInShape, Fail
<1>3. /\ Tail(calls[c].todo) \in Seq(Steps) /\ Len(Tail(calls[c].todo)) \in Nat /\ Len(calls[c].todo) \in Nat
      /\ Len(Tail(calls[c].todo)) < Len(calls[c].todo)
  BY <1>1, TailIsShorter DEF InShape
<1>4. Len(Connect) \in Nat /\ Len(Disconnect) \in Nat /\ Disconnect \in Seq(Steps) /\ Connect # <<>> /\ Connect \in Seq(Steps)
  BY Pieces DEF CallsInShape
<1>5. Len(Connect) > 0
  BY <1>4, LenProperties, EmptySeq
<1>6. <<Step("unstore")>> \in Seq(Steps) /\ Len(<<Step("unstore")>>) = 1
  <2>1. Step("unstore") \in Steps
    BY DEF Steps, Doings
  <2> QED BY <2>1
<1>7. \/ Recovery(c) = Tail(calls[c].todo) \/ Recovery(c) = <<>>
      \/ calls[c].op = "connect" /\ Recovery(c) \in {<<Step("unstore")>>, Disconnect}
  BY DEF Recovery
<1>8. Recovery(c) \in Seq(Steps)
  BY <1>3, <1>4, <1>6, <1>7, EmptySeq
<1>9. new = NoCall \/ (InShape(new) /\ new.op = op /\ new.todo = Recovery(c) /\ Recovery(c) # <<>>)
  BY <1>8, GoingShape
<1> HIDE DEF op, new
<1>10. ASSUME new # NoCall PROVE Closer(new, calls[c])
  <2>1. Ahead(new) = 0 + Len(Recovery(c)) /\ Len(Recovery(c)) \in Nat
    BY <1>1, <1>8, <1>9, <1>10, LenProperties DEF Ahead
  <2>2. CASE calls[c].op = "connect"
    <3>1. Ahead(calls[c]) = Len(Connect) + Len(Disconnect) + Len(calls[c].todo)
      BY <2>2 DEF Ahead
    <3>2. \/ Len(Recovery(c)) = Len(Tail(calls[c].todo)) \/ Len(Recovery(c)) = 1
          \/ Len(Recovery(c)) = Len(Disconnect)
      BY <1>6, <1>7, <1>9, <1>10
    <3>3. ASSUME NEW x \in Nat, NEW y \in Nat, NEW z \in Nat, NEW t \in Nat, NEW r \in Nat, x > 0, t < z,
                 r = t \/ r = 1 \/ r = y
          PROVE  0 + r < x + y + z
      BY <3>3
    <3>4. 0 + Len(Recovery(c)) < Len(Connect) + Len(Disconnect) + Len(calls[c].todo)
      BY <1>3, <1>4, <1>5, <2>1, <3>2, <3>3
    <3> QED BY <2>1, <3>1, <3>4 DEF Closer
  <2>3. CASE calls[c].op # "connect"
    <3>1. Ahead(calls[c]) = 0 + Len(calls[c].todo)
      BY <2>3 DEF Ahead
    <3>2. Recovery(c) = Tail(calls[c].todo)
      BY <1>7, <1>9, <1>10, <2>3
    <3> QED BY <1>3, <2>1, <3>1, <3>2 DEF Closer
  <2> QED BY <2>2, <2>3
<1> QED BY <1>2, <1>9, <1>10 DEF Moved

LEMMA RecordUpdates ==
  ASSUME NEW call, InShape(call), NEW h, NEW t, NEW r
  PROVE  /\ [call EXCEPT !.http = h] = With(call, h, call.token, call.round, call.refreshed)
         /\ [call EXCEPT !.round = r] = With(call, call.http, call.token, r, call.refreshed)
         /\ Holds(call, t, h) = With(call, h, t, call.round, call.refreshed)
         /\ NextRound(call) = With(call, "send", call.token, call.round + 1, TRUE)
<1>1. PICK a, b, c, d, e, f :
        call = [op |-> a, todo |-> b, http |-> c, token |-> d, round |-> e, refreshed |-> f]
  BY DEF InShape
<1>2. call.op = a /\ call.todo = b /\ call.http = c /\ call.token = d /\ call.round = e /\ call.refreshed = f
  BY <1>1
<1>3. [call EXCEPT !.http = h] = [op |-> a, todo |-> b, http |-> h, token |-> d, round |-> e, refreshed |-> f]
  BY <1>1
<1>4. [call EXCEPT !.round = r] = [op |-> a, todo |-> b, http |-> c, token |-> d, round |-> r, refreshed |-> f]
  BY <1>1
<1>5. Holds(call, t, h)
        = [op |-> a, todo |-> b, http |-> h, token |-> t, round |-> e, refreshed |-> f]
  <2>1. [call EXCEPT !.token = t] = [op |-> a, todo |-> b, http |-> c, token |-> t, round |-> e, refreshed |-> f]
    BY <1>1
  <2>2. ASSUME NEW y, y = [call EXCEPT !.token = t]
        PROVE  [y EXCEPT !.http = h] = [op |-> a, todo |-> b, http |-> h, token |-> t, round |-> e, refreshed |-> f]
    <3>1. y = [op |-> a, todo |-> b, http |-> c, token |-> t, round |-> e, refreshed |-> f]
      BY <2>1, <2>2
    <3> QED BY <3>1
  <2> QED BY <2>2 DEF Holds
<1>6. NextRound(call)
        = [op |-> a, todo |-> b, http |-> "send", token |-> d, round |-> call.round + 1, refreshed |-> TRUE]
  <2>1. [call EXCEPT !.http = "send"]
          = [op |-> a, todo |-> b, http |-> "send", token |-> d, round |-> e, refreshed |-> f]
    BY <1>1
  <2>2. ASSUME NEW y, y = [call EXCEPT !.http = "send"], NEW v
        PROVE  [y EXCEPT !.refreshed = v]
                 = [op |-> a, todo |-> b, http |-> "send", token |-> d, round |-> e, refreshed |-> v]
    <3>1. y = [op |-> a, todo |-> b, http |-> "send", token |-> d, round |-> e, refreshed |-> f]
      BY <2>1, <2>2
    <3> QED BY <3>1
  <2>3. ASSUME NEW v, NEW y, y = [[call EXCEPT !.http = "send"] EXCEPT !.refreshed = v], NEW k
        PROVE  [y EXCEPT !.round = k]
                 = [op |-> a, todo |-> b, http |-> "send", token |-> d, round |-> k, refreshed |-> v]
    <3>1. y = [op |-> a, todo |-> b, http |-> "send", token |-> d, round |-> e, refreshed |-> v]
      BY <2>2, <2>3
    <3> QED BY <3>1
  <2> QED BY <2>3 DEF NextRound
<1> QED BY <1>2, <1>3, <1>4, <1>5, <1>6, Zenon DEF With

LEMMA CallUpdates ==
  ASSUME CallsInShape, NEW c \in Calls, calls[c] # NoCall, NEW h, NEW t, NEW r
  PROVE  /\ [calls EXCEPT ![c].http = h]
              = [calls EXCEPT ![c] = With(calls[c], h, calls[c].token, calls[c].round, calls[c].refreshed)]
         /\ [calls EXCEPT ![c].round = r]
              = [calls EXCEPT ![c] = With(calls[c], calls[c].http, calls[c].token, r, calls[c].refreshed)]
         /\ Holds(calls[c], t, h) = With(calls[c], h, t, calls[c].round, calls[c].refreshed)
         /\ NextRound(calls[c]) = With(calls[c], "send", calls[c].token, calls[c].round + 1, TRUE)
<1>1. InShape(calls[c]) /\ calls = [d \in Calls |-> calls[d]]
  BY DEF CallsInShape
<1>2. /\ [calls EXCEPT ![c].http = h] = [calls EXCEPT ![c] = [calls[c] EXCEPT !.http = h]]
      /\ [calls EXCEPT ![c].round = r] = [calls EXCEPT ![c] = [calls[c] EXCEPT !.round = r]]
  BY <1>1
<1>3. /\ [calls[c] EXCEPT !.http = h] = With(calls[c], h, calls[c].token, calls[c].round, calls[c].refreshed)
      /\ [calls[c] EXCEPT !.round = r] = With(calls[c], calls[c].http, calls[c].token, r, calls[c].refreshed)
  BY <1>1, RecordUpdates
<1>4. /\ Holds(calls[c], t, h) = With(calls[c], h, t, calls[c].round, calls[c].refreshed)
      /\ NextRound(calls[c]) = With(calls[c], "send", calls[c].token, calls[c].round + 1, TRUE)
  BY <1>1, RecordUpdates, Zenon
<1> QED BY <1>2, <1>3, <1>4, Zenon

(* Within a request: another phase, or another round.                       *)
LEMMA PhaseMoves ==
  ASSUME CallsInShape, NEW c \in Calls, calls[c] # NoCall, NEW http \in Phases, NEW token, NEW refreshed,
         NEW round \in 0 .. MaxRateRetries,
         \/ round > calls[c].round
         \/ round = calls[c].round /\ Phase(http) < Phase(calls[c].http),
         calls' = [calls EXCEPT ![c] = With(calls[c], http, token, round, refreshed)]
  PROVE  Moved(c)
<1> DEFINE new == With(calls[c], http, token, round, refreshed)
<1>1. InShape(calls[c])
  BY DEF CallsInShape
<1>2. calls'[c] = new /\ calls' = [calls EXCEPT ![c] = calls'[c]]
  BY DEF CallsInShape
<1>3. /\ new.op = calls[c].op /\ new.todo = calls[c].todo /\ new.http = http /\ new.round = round
      /\ new.token = token /\ new.refreshed = refreshed
  BY DEF With
<1>4. InShape(new)
  <2>1. new = [op |-> new.op, todo |-> new.todo, http |-> new.http, token |-> new.token, round |-> new.round,
               refreshed |-> new.refreshed]
    BY <1>3, Zenon DEF With
  <2> HIDE DEF new
  <2> QED BY <1>1, <1>3, <2>1 DEF InShape
<1> HIDE DEF new
<1>5. Ahead(new) = Ahead(calls[c])
  BY <1>3 DEF Ahead
<1> QED BY <1>2, <1>3, <1>4, <1>5 DEF Closer, Moved

-----------------------------------------------------------------------------
LEMMA SendMoves == ASSUME CallsInShape, NEW c \in Calls, Send(c) PROVE Moved(c)
<1>1. calls[c] # NoCall /\ calls[c].http = "send" /\ InShape(calls[c])
  BY DEF Send, InRequest, CallsInShape
<1>2. CASE Answered(c)
  BY <1>1, <1>2, StepDone DEF Answered, Done, GoOn
<1>3. CASE Unauthorized(c)
  <2>1. PICK http \in {"flag", "exchange"} : Http(c, http)
    BY <1>3 DEF Unauthorized
  <2>2. calls' = [calls EXCEPT ![c] = With(calls[c], http, calls[c].token, calls[c].round, calls[c].refreshed)]
    BY <1>1, <2>1, CallUpdates DEF Http
  <2>3. http \in Phases /\ calls[c].round \in 0 .. MaxRateRetries /\ Phase(http) < Phase(calls[c].http)
    BY <1>1, <2>1 DEF Phases, Phase, InShape
  <2> QED BY <1>1, <2>2, <2>3, PhaseMoves
<1>4. CASE RateLimited(c)
  <2>1. CASE calls[c].round < MaxRateRetries
    <3>1. calls' = [calls EXCEPT ![c] = With(calls[c], "send", calls[c].token, calls[c].round + 1, calls[c].refreshed)]
      <4>1. calls' = [calls EXCEPT ![c].round = calls[c].round + 1]
        BY <1>4, <2>1 DEF RateLimited
      <4>2. [calls EXCEPT ![c].round = calls[c].round + 1]
              = [calls EXCEPT ![c] = With(calls[c], calls[c].http, calls[c].token, calls[c].round + 1, calls[c].refreshed)]
        BY <1>1, CallUpdates
      <4> QED BY <1>1, <4>1, <4>2, Zenon
    <3>2. calls[c].round + 1 \in 0 .. MaxRateRetries /\ calls[c].round + 1 > calls[c].round /\ "send" \in Phases
      BY <1>1, <2>1, ConnectionsAssumption DEF InShape, Phases
    <3> QED BY <1>1, <3>1, <3>2, PhaseMoves
  <2>2. CASE ~(calls[c].round < MaxRateRetries)
    BY <1>1, <1>4, <2>2, StepFails DEF RateLimited
  <2> QED BY <2>1, <2>2
<1>5. CASE Unanswered(c)
  BY <1>1, <1>5, StepFails DEF Unanswered
<1> QED BY <1>2, <1>3, <1>4, <1>5 DEF Send

LEMMA RefreshMoves == ASSUME CallsInShape, NEW c \in Calls, RefreshToken(c) PROVE Moved(c)
<1>1. calls[c] # NoCall /\ calls[c].http = "exchange" /\ InShape(calls[c])
  BY DEF RefreshToken, InRequest, CallsInShape
<1>2. \E token : \E http \in {"persist", "flag"} :
        calls' = [calls EXCEPT ![c] = With(calls[c], http, token, calls[c].round, calls[c].refreshed)]
  <2>1. CASE Exchange(c, calls[c].token) /\ ~Http(c, "flag")
    <3> DEFINE next == [calls[c].token EXCEPT !.access = grants[calls[c].token.grant].gen + 1,
                          !.refresh = NextRefresh(calls[c].token, grants[calls[c].token.grant].gen + 1)]
    <3>1. calls' = [calls EXCEPT ![c] = Holds(calls[c], next, "persist")]
      BY <2>1 DEF Exchange
    <3> HIDE DEF next
    <3>2. Holds(calls[c], next, "persist")
            = With(calls[c], "persist", next, calls[c].round, calls[c].refreshed)
      BY <1>1, CallUpdates
    <3>3. calls' = [calls EXCEPT ![c] = With(calls[c], "persist", next, calls[c].round, calls[c].refreshed)]
      BY <3>1, <3>2, Zenon
    <3> QED BY <3>3
  <2>2. ASSUME NEW http \in {"persist", "flag"}, Http(c, http)
        PROVE  calls' = [calls EXCEPT ![c] = With(calls[c], http, calls[c].token, calls[c].round, calls[c].refreshed)]
    BY <1>1, <2>2, CallUpdates DEF Http
  <2> QED BY <2>1, <2>2 DEF RefreshToken, StillValid
<1>3. PICK token, http :
        /\ http \in {"persist", "flag"}
        /\ calls' = [calls EXCEPT ![c] = With(calls[c], http, token, calls[c].round, calls[c].refreshed)]
  BY <1>2
<1>4. http \in Phases /\ Phase(http) < Phase(calls[c].http) /\ calls[c].round \in 0 .. MaxRateRetries
  BY <1>1, <1>3 DEF Phases, Phase, InShape
<1> QED BY <1>1, <1>3, <1>4, PhaseMoves

LEMMA PersistMoves == ASSUME CallsInShape, NEW c \in Calls, PersistToken(c) PROVE Moved(c)
<1>1. calls[c] # NoCall /\ calls[c].http = "persist" /\ InShape(calls[c])
  BY DEF PersistToken, InRequest, CallsInShape
<1>2. CASE Http(c, "flag")
  <2>1. calls' = [calls EXCEPT ![c] = With(calls[c], "flag", calls[c].token, calls[c].round, calls[c].refreshed)]
    BY <1>1, <1>2, CallUpdates DEF Http
  <2>2. "flag" \in Phases /\ calls[c].round \in 0 .. MaxRateRetries /\ Phase("flag") < Phase(calls[c].http)
    BY <1>1 DEF Phases, Phase, InShape
  <2> QED BY <1>1, <2>1, <2>2, PhaseMoves
<1>3. CASE /\ calls[c].round < MaxRateRetries
           /\ calls' = [calls EXCEPT ![c] = NextRound(calls[c])]
  <2>1. calls' = [calls EXCEPT ![c] = With(calls[c], "send", calls[c].token, calls[c].round + 1, TRUE)]
    <3>1. NextRound(calls[c]) = With(calls[c], "send", calls[c].token, calls[c].round + 1, TRUE)
      BY <1>1, CallUpdates, Zenon
    <3> QED BY <1>3, <3>1, Zenon
  <2>2. calls[c].round + 1 \in 0 .. MaxRateRetries /\ calls[c].round + 1 > calls[c].round /\ "send" \in Phases
    BY <1>1, <1>3, ConnectionsAssumption DEF InShape, Phases
  <2> QED BY <1>1, <2>1, <2>2, PhaseMoves
<1>4. CASE Fail(c)
  BY <1>1, <1>4, StepFails
<1>5. \/ Http(c, "flag") \/ Fail(c)
      \/ /\ calls[c].round < MaxRateRetries
         /\ calls' = [calls EXCEPT ![c] = NextRound(calls[c])]
  BY Zenon DEF PersistToken
<1> QED BY <1>2, <1>3, <1>4, <1>5, Zenon

LEMMA LoadMoves == ASSUME CallsInShape, NEW c \in Calls, LoadToken(c) PROVE Moved(c)
<1>1. calls[c] # NoCall /\ calls[c].http = "load" /\ InShape(calls[c])
  BY DEF LoadToken, InRequest, CallsInShape
<1>2. PICK http \in {"flag", "send"} :
        calls' = [calls EXCEPT ![c] = Holds(calls[c], keychain, http)]
  <2> DEFINE http == IF keychain = NoToken THEN "flag" ELSE "send"
  <2>1. calls' = [calls EXCEPT ![c] = Holds(calls[c], keychain, http)]
    BY DEF LoadToken
  <2>2. http \in {"flag", "send"}
    OBVIOUS
  <2> HIDE DEF http
  <2> QED BY <2>1, <2>2, Zenon
<1>3. calls' = [calls EXCEPT ![c] = With(calls[c], http, keychain, calls[c].round, calls[c].refreshed)]
  <2>1. Holds(calls[c], keychain, http)
          = With(calls[c], http, keychain, calls[c].round, calls[c].refreshed)
    BY <1>1, CallUpdates
  <2> QED BY <1>2, <2>1, Zenon
<1>4. http \in Phases /\ Phase(http) < Phase(calls[c].http) /\ calls[c].round \in 0 .. MaxRateRetries
  BY <1>1 DEF Phases, Phase, InShape
<1> QED BY <1>1, <1>3, <1>4, PhaseMoves

(* Every step of a call, and every fault of one, moves that call.           *)
LEMMA AdvanceMoves == ASSUME CallsInShape, NEW c \in Calls, Advance(c) PROVE Moved(c) /\ provider' = provider
<1>1. provider' = provider
  BY DEF Advance, Authorize, Identify, StoreToken, UpsertRow, LoadToken, Send, RefreshToken, PersistToken,
         MarkNeedsReauth, UsableAccount, PickSelected, ClearResources, ReadToken, Revoke, DeleteToken, DeleteRow
<1>2. ASSUME Done(c), calls[c] # NoCall PROVE Moved(c)
  BY <1>2, StepDone DEF Done, GoOn
<1>3. ASSUME NEW token, Holding(c, token), calls[c] # NoCall PROVE Moved(c)
  BY <1>3, StepDone DEF Holding
<1>4. CASE Authorize(c)
  BY <1>3, <1>4, StepFails DEF Authorize, At
<1>5. CASE Identify(c)
  BY <1>2, <1>5, StepFails DEF Identify, At
<1>6. CASE StoreToken(c) \/ UpsertRow(c) \/ ClearResources(c) \/ Revoke(c) \/ DeleteToken(c) \/ DeleteRow(c)
  BY <1>2, <1>6 DEF StoreToken, UpsertRow, ClearResources, Revoke, DeleteToken, DeleteRow, At
<1>7. CASE ReadToken(c)
  BY <1>3, <1>7 DEF ReadToken, At
<1>8. CASE UsableAccount(c) \/ PickSelected(c)
  BY <1>2, <1>8, CallGivenUp DEF UsableAccount, PickSelected, At
<1>9. CASE MarkNeedsReauth(c)
  BY <1>9, StepFails DEF MarkNeedsReauth, InRequest
<1> QED BY <1>1, <1>4, <1>5, <1>6, <1>7, <1>8, <1>9, LoadMoves, SendMoves, RefreshMoves, PersistMoves DEF Advance

LEMMA FaultMoves ==
  ASSUME CallsInShape, NEW c \in Calls, NEW what, Fault(c, what)
  PROVE  Moved(c) /\ provider' = provider
  BY StepFails DEF Fault, At

LEMMA OthersMove ==
  ASSUME CallsInShape, (\E c \in Calls : StartCall(c)) \/ SetSelected \/ Restart \/ Expire \/ Withdraw \/ UNCHANGED vars
  PROVE  CallsInShape' /\ \A c \in Calls : calls'[c] = calls[c] \/ calls[c] = NoCall \/ calls'[c] = NoCall
<1>1. CASE \E c \in Calls : StartCall(c)
  <2>1. PICK c \in Calls : StartCall(c)
    BY <1>1
  <2>2. \E op, todo : /\ todo \in {Connect, Disconnect, Fetch, Refresh}
                      /\ calls[c] = NoCall /\ provider' = provider /\ calls' = [calls EXCEPT ![c] = NewCall(op, todo)]
    BY <2>1, Zenon DEF StartCall
  <2> PICK op, todo : /\ todo \in {Connect, Disconnect, Fetch, Refresh}
                      /\ calls[c] = NoCall /\ provider' = provider /\ calls' = [calls EXCEPT ![c] = NewCall(op, todo)]
    BY <2>2
  <2>3. todo \in Seq(Steps) /\ todo # <<>> /\ 0 \in 0 .. MaxRateRetries
    BY Pieces, ConnectionsAssumption DEF CallsInShape
  <2>4. InShape(NewCall(op, todo))
    BY <2>3 DEF NewCall, InShape, Phases
  <2> QED BY <2>2, <2>4 DEF CallsInShape
<1>2. CASE SetSelected \/ Expire \/ Withdraw \/ UNCHANGED vars
  <2>1. UNCHANGED <<provider, calls>>
    BY <1>2 DEF SetSelected, Expire, Withdraw, vars
  <2> QED BY <2>1 DEF CallsInShape
<1>3. CASE Restart
  <2>1. provider' = provider /\ (calls' = calls \/ calls' = [c \in Calls |-> NoCall])
    BY <1>3 DEF Restart
  <2> QED BY <2>1 DEF CallsInShape
<1> QED BY <1>1, <1>2, <1>3

LEMMA NextMoves ==
  ASSUME CallsInShape, [Next]_vars
  PROVE  /\ CallsInShape'
         /\ \A c \in Calls : \/ calls'[c] = calls[c] \/ calls[c] = NoCall \/ calls'[c] = NoCall
                             \/ Distance(calls'[c]) < Distance(calls[c])
<1>1. ASSUME NEW c \in Calls, Moved(c), provider' = provider
      PROVE  /\ CallsInShape'
             /\ \A d \in Calls : \/ calls'[d] = calls[d] \/ calls[d] = NoCall \/ calls'[d] = NoCall
                                 \/ Distance(calls'[d]) < Distance(calls[d])
  <2>1. \A d \in Calls \ {c} : calls'[d] = calls[d]
    BY <1>1 DEF Moved, CallsInShape
  <2>2. CallsInShape'
    BY <1>1, <2>1 DEF Moved, CallsInShape
  <2>3. calls'[c] = NoCall \/ Distance(calls'[c]) < Distance(calls[c])
    BY <1>1, CloserIsLess DEF Moved, CallsInShape
  <2> QED BY <2>1, <2>2, <2>3
<1> QED BY <1>1, AdvanceMoves, FaultMoves, OthersMove DEF Next

LEMMA InitCalls == Init => CallsInShape
  BY DEF Init, CallsInShape

-----------------------------------------------------------------------------
(* Every call returns: whatever refreshes, retries, failures and other      *)
(* calls come in between, each of its steps takes it closer to its end      *)
(* (Client.Do, and the providers' Connect, Disconnect, Fetch).              *)
THEOREM CallsComeToEnd == Spec => CallsEnd
<1>1. CallsInShape /\ [Next]_vars => CallsInShape'
  BY NextMoves
<1>2. CallsInShape /\ [Next]_vars =>
        [\A c \in Calls : (calls[c] \notin {NoCall, calls'[c]} /\ calls'[c] # NoCall)
                            => Distance(calls'[c]) < Distance(calls[c])]_vars
  BY NextMoves
<1> QED BY InitCalls, <1>1, <1>2, PTL DEF Spec, CallsEnd

(* What the user selected is deselected by the user or by a disconnect      *)
(* only, never by listing, fetching or reconnecting.                        *)
THEOREM SelectionSurvives == Spec => SelectionKept
<1>1. ASSUME Next PROVE selected \subseteq selected' \/ calls' = calls \/ \E c \in Calls : At(c, "clear")
  <2>1. ASSUME NEW c \in Calls, Advance(c) PROVE selected \subseteq selected' \/ At(c, "clear")
    BY <2>1 DEF Advance, Authorize, Identify, StoreToken, UpsertRow, LoadToken, Send, Answered, Upsert, Unauthorized,
         RateLimited, Unanswered, RefreshToken, PersistToken, MarkNeedsReauth, UsableAccount, PickSelected,
         ClearResources, ReadToken, Revoke, DeleteToken, DeleteRow, stores
  <2> QED BY <1>1, <2>1 DEF Next, StartCall, Fault, SetSelected, Restart, Expire, Withdraw, stores
<1>2. [Next]_vars => [selected \subseteq selected' \/ calls' = calls \/ \E c \in Calls : At(c, "clear")]_vars
  BY <1>1
<1> QED BY <1>2, PTL DEF Spec, SelectionKept

-----------------------------------------------------------------------------
(* What the three stores hold while calls are under way, as long as no      *)
(* write fails and no call is cut short.                                    *)

(* What each kind of call does.                                             *)
Does(op) ==
  CASE op = "connect"    -> {"authorize", "identify", "store", "row", "list"}
    [] op = "disconnect" -> {"clear", "read", "revoke", "unstore", "unrow"}
    [] op = "refresh"    -> {"list"}
    [] op = "fetch"      -> {"usable", "list", "pick", "fetch"}

(* What comes after what: a token is stored before its row is written and   *)
(* taken out right before the row is deleted, which is the last thing.      *)
Neighbours(this, next) ==
  /\ next = "identify" => this = "authorize"
  /\ next = "store" => this \in {"authorize", "identify"}
  /\ next = "row" <=> this = "store"
  /\ next = "unrow" <=> this = "unstore"
  /\ next = "list" => this \in {"row", "list", "usable"}
  /\ this = "unrow" => next = "end"

InOrder(todo) ==
  \A i \in 1 .. Len(todo) :
    Neighbours(todo[i].do, IF i < Len(todo) THEN todo[i + 1].do ELSE "end")

(* The steps of a call belong to it and to the provider.                    *)
Belong(op, todo, name, kinds) ==
  \A i \in 1 .. Len(todo) :
    /\ todo[i].do \in Does(op)
    /\ todo[i].do = "list" => todo[i].of \in kinds /\ (op = "fetch" => name = "google")

Planned(call, name, kinds) ==
  /\ call.op \in AccountOps \cup {"fetch"} /\ call.refreshed \in BOOLEAN
  /\ call.token \in Tokens \cup {NoToken}
  /\ InOrder(call.todo) /\ Belong(call.op, call.todo, name, kinds)
  /\ Head(call.todo).do \in {"identify", "store"} => call.token \in Tokens
  /\ call.http # "load" => Head(call.todo).do \in {"list", "fetch"}
  /\ call.http \in {"send", "exchange", "persist"} => call.token \in Tokens
  /\ call.http = "persist" => name \in {"google", "bitbucket"}

(* One operation on the account at a time.                                  *)
OnAccount(c) == calls[c] # NoCall /\ calls[c].op \in AccountOps

OneAccountOp ==
  \A c, d \in Calls : OnAccount(c) /\ OnAccount(d) => c = d

CallsPlanned ==
  /\ provider.rotates => provider.name = "bitbucket"
  /\ keychain \in Tokens \cup {NoToken} /\ grants \in [1 .. MaxGrants -> Grants]
  /\ \A c \in Calls : calls[c] # NoCall => Planned(calls[c], provider.name, Kinds)
  /\ OneAccountOp

(* What the stores hold while an operation on the account is under way.     *)
RowHasToken ==
  /\ \A c \in Calls : At(c, "row") => keychain # NoToken
  /\ row # "none" /\ keychain = NoToken => \E c \in Calls : At(c, "unrow")

TokenHasRow ==
  /\ \A c \in Calls : At(c, "unrow") /\ ~Refreshes => keychain = NoToken
  /\ row = "none" /\ keychain # NoToken => Refreshes \/ \E c \in Calls : At(c, "row")

NeedsRow(call) ==
  call.op \in {"disconnect", "refresh"} \/ (call.op = "connect" /\ Head(call.todo).do = "list")

RowStands == \A c \in Calls : calls[c] # NoCall /\ NeedsRow(calls[c]) => row # "none"

ResourcesHaveRow ==
  provider.name # "google" =>
    /\ known \subseteq Kinds
    /\ row = "none" => known = {}
    /\ \A c \in Calls : calls[c] # NoCall /\ calls[c].op = "disconnect" =>
         \A k \in known : \E i \in 1 .. Len(calls[c].todo) : calls[c].todo[i] = Clear(k)

StoresInv == RowHasToken /\ TokenHasRow /\ RowStands /\ ResourcesHaveRow

(* Whoever holds a token of a grant, and whether the provider would refresh *)
(* with it.                                                                *)
Fresh(token) == token.refresh = grants[token.grant].refresh

(* Nothing more will happen to it: it is fresh, or what should replace it    *)
(* was lost.                                                                *)
Settled(token) == Fresh(token) \/ (provider.rotates /\ grants[token.grant].lost)

Holder(c) == calls[c] # NoCall /\ calls[c].token # NoToken

Sound(token) ==
  /\ grants[token.grant].gen # 0
  /\ IF provider.rotates THEN token.refresh <= grants[token.grant].gen ELSE Fresh(token)

(* The call holds a refresh token that nobody else has (provider.rotates).  *)
AloneFresh(c) ==
  /\ Fresh(calls[c].token)
  /\ provider.rotates =>
       /\ \A d \in Calls \ {c} : Holder(d) /\ calls[d].token.grant = calls[c].token.grant => ~Fresh(calls[d].token)
       /\ keychain # NoToken /\ keychain.grant = calls[c].token.grant => ~Fresh(keychain)

AloneGranted(c) ==
  /\ Fresh(calls[c].token)
  /\ provider.rotates =>
       /\ \A d \in Calls \ {c} : Holder(d) => calls[d].token.grant # calls[c].token.grant
       /\ keychain # NoToken => keychain.grant # calls[c].token.grant

TokensInv ==
  /\ provider.rotates => \A g \in 1 .. MaxGrants : grants[g].refresh = grants[g].gen
  /\ keychain # NoToken => Sound(keychain)
  /\ \A c \in Calls : Holder(c) => Sound(calls[c].token)
  /\ \A c \in Calls : InRequest(c, "persist") => AloneFresh(c)
  /\ \A c \in Calls : At(c, "identify") \/ At(c, "store") => AloneGranted(c)
  /\ keychain # NoToken =>
       \/ Settled(keychain)
       \/ \E c \in Calls : InRequest(c, "persist") /\ calls[c].token.grant = keychain.grant

AccountInv == faults \in Nat /\ (faults = 0 => CallsPlanned /\ StoresInv /\ TokensInv)

-----------------------------------------------------------------------------
(* The plans of the four providers are in order.                            *)
Good(op, todo) == InOrder(todo) /\ Belong(op, todo, provider.name, Kinds)

LEMMA ThreeAndOne ==
  ASSUME NEW a \in Steps, NEW b \in Steps, NEW c \in Steps, NEW d \in Steps
  PROVE  <<a, b, c>> \o <<d>> = <<a, b, c, d>>
<1>1. <<a, b, c>> \in Seq(Steps) /\ <<d>> \in Seq(Steps) /\ <<a, b, c, d>> \in Seq(Steps)
  OBVIOUS
<1>2. /\ <<a, b, c>> \o <<d>> \in Seq(Steps) /\ Len(<<a, b, c>> \o <<d>>) = 4
      /\ \A i \in 1 .. 4 : (<<a, b, c>> \o <<d>>)[i] = IF i <= 3 THEN <<a, b, c>>[i] ELSE <<d>>[i - 3]
  BY <1>1, ConcatProperties
<1>3. \A i \in 1 .. 4 : (<<a, b, c>> \o <<d>>)[i] = <<a, b, c, d>>[i]
  BY <1>2
<1> QED BY <1>1, <1>2, <1>3, SeqEqual

LEMMA FourAndOne ==
  ASSUME NEW a \in Steps, NEW b \in Steps, NEW c \in Steps, NEW d \in Steps, NEW e \in Steps
  PROVE  <<a, b, c, d>> \o <<e>> = <<a, b, c, d, e>>
<1>1. <<a, b, c, d>> \in Seq(Steps) /\ <<e>> \in Seq(Steps) /\ <<a, b, c, d, e>> \in Seq(Steps)
  OBVIOUS
<1>2. /\ <<a, b, c, d>> \o <<e>> \in Seq(Steps) /\ Len(<<a, b, c, d>> \o <<e>>) = 5
      /\ \A i \in 1 .. 5 : (<<a, b, c, d>> \o <<e>>)[i] = IF i <= 4 THEN <<a, b, c, d>>[i] ELSE <<e>>[i - 4]
  BY <1>1, ConcatProperties
<1>3. \A i \in 1 .. 5 : (<<a, b, c, d>> \o <<e>>)[i] = <<a, b, c, d, e>>[i]
  BY <1>2
<1> QED BY <1>1, <1>2, <1>3, SeqEqual

LEMMA FourAndTwo ==
  ASSUME NEW a \in Steps, NEW b \in Steps, NEW c \in Steps, NEW d \in Steps, NEW e \in Steps, NEW f \in Steps
  PROVE  <<a, b, c, d>> \o <<e, f>> = <<a, b, c, d, e, f>>
<1>1. <<a, b, c, d>> \in Seq(Steps) /\ <<e, f>> \in Seq(Steps) /\ <<a, b, c, d, e, f>> \in Seq(Steps)
  OBVIOUS
<1>2. /\ <<a, b, c, d>> \o <<e, f>> \in Seq(Steps) /\ Len(<<a, b, c, d>> \o <<e, f>>) = 6
      /\ \A i \in 1 .. 6 : (<<a, b, c, d>> \o <<e, f>>)[i] = IF i <= 4 THEN <<a, b, c, d>>[i] ELSE <<e, f>>[i - 4]
  BY <1>1, ConcatProperties
<1>3. \A i \in 1 .. 6 : (<<a, b, c, d>> \o <<e, f>>)[i] = <<a, b, c, d, e, f>>[i]
  BY <1>2
<1> QED BY <1>1, <1>2, <1>3, SeqEqual

LEMMA ConnectPlanned ==
  ASSUME provider.name \in Providers
  PROVE  Good("connect", Connect) /\ Head(Connect).do = "authorize"
<1>0. /\ Step("authorize") \in Steps /\ Step("identify") \in Steps /\ Step("store") \in Steps
      /\ Step("row") \in Steps /\ List("calendar") \in Steps /\ List("repo") \in Steps
      /\ List("channel") \in Steps /\ List("workspace") \in Steps
  <2>1. /\ \A w \in Doings : Step(w) \in Steps
        /\ \A k \in ResourceKinds : List(k) \in Steps
    BY DEF Steps
  <2> QED BY <2>1 DEF Doings, ResourceKinds
<1>1. CASE provider.name = "google"
  <2>1. <<Step("authorize"), Step("store"), Step("row")>> \o <<List("calendar")>>
        = <<Step("authorize"), Step("store"), Step("row"), List("calendar")>>
    BY <1>0, ThreeAndOne
  <2>2. Connect = <<Step("authorize"), Step("store"), Step("row"), List("calendar")>>
    BY <1>1, <2>1 DEF Connect, GoogleConnect, GoogleLists
  <2>3. "calendar" \in Kinds
    BY <1>1 DEF Kinds
  <2> QED BY <2>2, <2>3 DEF Good, InOrder, Belong, Neighbours, Does, Step, List
<1>2. CASE provider.name = "github"
  <2>1. <<Step("authorize"), Step("identify"), Step("store"), Step("row")>> \o <<List("repo")>>
        = <<Step("authorize"), Step("identify"), Step("store"), Step("row"), List("repo")>>
    BY <1>0, FourAndOne
  <2>2. Connect = <<Step("authorize"), Step("identify"), Step("store"), Step("row"), List("repo")>>
    BY <1>2, <2>1 DEF Connect, GitHubConnect, GitHubLists
  <2>3. "repo" \in Kinds
    BY <1>2 DEF Kinds
  <2> QED BY <2>2, <2>3 DEF Good, InOrder, Belong, Neighbours, Does, Step, List
<1>3. CASE provider.name = "slack"
  <2>1. <<Step("authorize"), Step("identify"), Step("store"), Step("row")>> \o <<List("channel")>>
        = <<Step("authorize"), Step("identify"), Step("store"), Step("row"), List("channel")>>
    BY <1>0, FourAndOne
  <2>2. Connect = <<Step("authorize"), Step("identify"), Step("store"), Step("row"), List("channel")>>
    BY <1>3, <2>1 DEF Connect, SlackConnect, SlackLists
  <2>3. "channel" \in Kinds
    BY <1>3 DEF Kinds
  <2> QED BY <2>2, <2>3 DEF Good, InOrder, Belong, Neighbours, Does, Step, List
<1>4. CASE provider.name = "bitbucket"
  <2>1. <<Step("authorize"), Step("identify"), Step("store"), Step("row")>> \o <<List("workspace"), List("repo")>>
        = <<Step("authorize"), Step("identify"), Step("store"), Step("row"), List("workspace"), List("repo")>>
    BY <1>0, FourAndTwo
  <2>2. Connect = <<Step("authorize"), Step("identify"), Step("store"), Step("row"), List("workspace"), List("repo")>>
    BY <1>4, <2>1 DEF Connect, BitbucketConnect, BitbucketLists
  <2>3. "workspace" \in Kinds /\ "repo" \in Kinds
    BY <1>4 DEF Kinds
  <2> QED BY <2>2, <2>3 DEF Good, InOrder, Belong, Neighbours, Does, Step, List
<1> QED BY <1>1, <1>2, <1>3, <1>4 DEF Providers

(* A disconnect clears every kind of resource, except Google's calendars.   *)
Clears(todo) == \A k \in Kinds : \E i \in 1 .. Len(todo) : todo[i] = Clear(k)

LEMMA DisconnectPlanned ==
  ASSUME provider.name \in Providers
  PROVE  /\ Good("disconnect", Disconnect) /\ Head(Disconnect).do \in {"read", "clear"}
         /\ provider.name # "google" => Clears(Disconnect)
<1>1. CASE provider.name = "google"
  <2>1. Disconnect = <<Step("read"), Step("revoke"), Step("unstore"), Step("unrow")>>
    BY <1>1 DEF Disconnect, GoogleDisconnect
  <2> QED BY <1>1, <2>1 DEF Good, InOrder, Belong, Neighbours, Does, Step
<1>2. ASSUME NEW k, Kinds = {k}, k \in {"repo", "channel"},
             Disconnect = <<Clear(k), Step("read"), Step("revoke"), Step("unstore"), Step("unrow")>>
      PROVE  Good("disconnect", Disconnect) /\ Head(Disconnect).do \in {"read", "clear"} /\ Clears(Disconnect)
  <2>1. Good("disconnect", Disconnect) /\ Head(Disconnect).do \in {"read", "clear"}
    BY <1>2 DEF Good, InOrder, Belong, Neighbours, Does, Step, Clear
  <2>2. Len(Disconnect) = 5 /\ Disconnect[1] = Clear(k)
    BY <1>2
  <2> QED BY <1>2, <2>1, <2>2 DEF Clears
<1>3. CASE provider.name \in {"github", "slack"}
  BY <1>2, <1>3 DEF Disconnect, GitHubDisconnect, SlackDisconnect, Kinds
<1>4. CASE provider.name = "bitbucket"
  <2>1. /\ Disconnect = <<Clear("repo"), Clear("workspace"), Step("unstore"), Step("unrow")>>
        /\ Kinds = {"workspace", "repo"}
    BY <1>4 DEF Disconnect, BitbucketDisconnect, Kinds
  <2>2. Good("disconnect", Disconnect) /\ Head(Disconnect).do \in {"read", "clear"}
    BY <2>1 DEF Good, InOrder, Belong, Neighbours, Does, Step, Clear
  <2>3. Len(Disconnect) = 4 /\ Disconnect[1] = Clear("repo") /\ Disconnect[2] = Clear("workspace")
    BY <2>1
  <2> QED BY <2>1, <2>2, <2>3 DEF Clears
<1> QED BY <1>1, <1>3, <1>4 DEF Providers

LEMMA FetchPlanned ==
  ASSUME provider.name \in Providers
  PROVE  Good("fetch", Fetch) /\ Head(Fetch).do \in {"usable", "pick"}
<1>1. CASE provider.name = "google"
  <2>1. Fetch = <<Step("usable"), List("calendar"), Step("pick"), Step("fetch")>> /\ "calendar" \in Kinds
    BY <1>1 DEF Fetch, GoogleFetch, Kinds
  <2> QED BY <1>1, <2>1 DEF Good, InOrder, Belong, Neighbours, Does, Step, List
<1>2. CASE provider.name = "github"
  <2>1. Fetch = <<Step("pick"), Step("fetch"), Step("fetch")>>
    BY <1>2 DEF Fetch, GitHubFetch
  <2> QED BY <2>1 DEF Good, InOrder, Belong, Neighbours, Does, Step
<1>3. CASE provider.name \in {"slack", "bitbucket"}
  <2>1. Fetch = <<Step("pick"), Step("fetch")>>
    BY <1>3 DEF Fetch, SlackFetch, BitbucketFetch
  <2> QED BY <2>1 DEF Good, InOrder, Belong, Neighbours, Does, Step
<1> QED BY <1>1, <1>2, <1>3 DEF Providers

LEMMA RefreshPlanned ==
  ASSUME provider.name \in Providers
  PROVE  Good("refresh", Refresh) /\ Head(Refresh).do = "list"
<1>1. ASSUME NEW k \in Kinds, Refresh = <<List(k)>> PROVE Good("refresh", Refresh) /\ Head(Refresh).do = "list"
  BY <1>1 DEF Good, InOrder, Belong, Neighbours, Does, List
<1>2. CASE provider.name \in {"google", "github", "slack"}
  BY <1>1, <1>2 DEF Refresh, GoogleLists, GitHubLists, SlackLists, Kinds
<1>3. CASE provider.name = "bitbucket"
  <2>1. Refresh = <<List("workspace"), List("repo")>> /\ {"workspace", "repo"} \subseteq Kinds
    BY <1>3 DEF Refresh, BitbucketLists, Kinds
  <2> QED BY <2>1 DEF Good, InOrder, Belong, Neighbours, Does, List
<1> QED BY <1>2, <1>3 DEF Providers

(* What is left of a plan is in order.                                      *)
LEMMA TailPlanned ==
  ASSUME NEW op, NEW todo \in Seq(Steps), todo # <<>>, Good(op, todo)
  PROVE  /\ Good(op, Tail(todo)) /\ Head(todo).do \in Does(op)
         /\ Head(todo).do = "list" => Head(todo).of \in Kinds /\ (op = "fetch" => provider.name = "google")
         /\ IF Tail(todo) = <<>> THEN Neighbours(Head(todo).do, "end")
            ELSE Neighbours(Head(todo).do, Head(Tail(todo)).do)
         /\ \A i \in 1 .. Len(todo) : todo[i] = Head(todo) \/ \E j \in 1 .. Len(Tail(todo)) : Tail(todo)[j] = todo[i]
<1> DEFINE n == Len(todo)
<1>1. /\ n \in Nat /\ n # 0 /\ Head(todo) = todo[1] /\ Len(Tail(todo)) = n - 1 /\ Tail(todo) \in Seq(Steps)
      /\ \A i \in 1 .. (n - 1) : Tail(todo)[i] = todo[i + 1]
  BY HeadTailProperties, LenProperties, EmptySeq
<1> HIDE DEF n
<1>2. /\ \A i \in 1 .. n : Neighbours(todo[i].do, IF i < n THEN todo[i + 1].do ELSE "end")
      /\ Belong(op, todo, provider.name, Kinds)
  BY DEF Good, InOrder, n
<1>3. InOrder(Tail(todo))
  <2> SUFFICES ASSUME NEW i \in 1 .. (n - 1)
               PROVE  Neighbours(Tail(todo)[i].do, IF i < n - 1 THEN Tail(todo)[i + 1].do ELSE "end")
    BY <1>1 DEF InOrder
  <2>1. i + 1 \in 1 .. n /\ (i < n - 1 <=> i + 1 < n) /\ Tail(todo)[i] = todo[i + 1]
    BY <1>1
  <2>2. i < n - 1 => Tail(todo)[i + 1] = todo[i + 2] /\ i + 2 = (i + 1) + 1
    BY <1>1
  <2>3. Neighbours(todo[i + 1].do, IF i + 1 < n THEN todo[(i + 1) + 1].do ELSE "end")
    BY <1>2, <2>1
  <2>4. CASE i < n - 1
    BY <2>1, <2>2, <2>3, <2>4
  <2>5. CASE ~(i < n - 1)
    BY <2>1, <2>3, <2>5
  <2> QED BY <2>4, <2>5
<1>4. Belong(op, Tail(todo), provider.name, Kinds)
  <2>1. \A i \in 1 .. (n - 1) : i + 1 \in 1 .. n
    BY <1>1
  <2> QED BY <1>1, <1>2, <2>1 DEF Belong, n
<1>5. 1 \in 1 .. n
  BY <1>1
<1>6. /\ Head(todo).do \in Does(op)
      /\ Head(todo).do = "list" => Head(todo).of \in Kinds /\ (op = "fetch" => provider.name = "google")
  BY <1>1, <1>2, <1>5 DEF Belong, n
<1>7. ASSUME Tail(todo) = <<>> PROVE Neighbours(Head(todo).do, "end")
  <2>1. n = 1
    BY <1>1, <1>7, EmptySeq
  <2> QED BY <1>1, <1>2, <1>5, <2>1
<1>8. ASSUME Tail(todo) # <<>> PROVE Neighbours(Head(todo).do, Head(Tail(todo)).do)
  <2>1. n - 1 # 0 /\ Head(Tail(todo)) = Tail(todo)[1]
    BY <1>1, <1>8, HeadTailProperties, EmptySeq
  <2>2. 1 < n /\ 1 + 1 = 2 /\ Tail(todo)[1] = todo[2]
    BY <1>1, <2>1
  <2>3. Neighbours(todo[1].do, IF 1 < n THEN todo[1 + 1].do ELSE "end")
    BY <1>2, <1>5
  <2>4. Neighbours(todo[1].do, todo[2].do)
    BY <2>2, <2>3
  <2> QED BY <1>1, <2>1, <2>2, <2>4
<1>9. \A i \in 1 .. n : todo[i] = Head(todo) \/ \E j \in 1 .. (n - 1) : Tail(todo)[j] = todo[i]
  <2> TAKE i \in 1 .. n
  <2>1. CASE i = 1
    BY <1>1, <2>1
  <2>2. CASE i # 1
    <3>1. i - 1 \in 1 .. (n - 1) /\ (i - 1) + 1 = i
      BY <1>1, <2>2
    <3> QED BY <1>1, <3>1
  <2> QED BY <2>1, <2>2
<1> QED BY <1>1, <1>3, <1>4, <1>6, <1>7, <1>8, <1>9 DEF Good, n

-----------------------------------------------------------------------------
(* A call in progress moves on: to its next step, within its request, to    *)
(* the rollback of a connect, or to its end.                                *)
OnlyCall(c) == calls[c] # NoCall /\ calls' = [calls EXCEPT ![c] = calls'[c]]

InProgress(call) == call # NoCall /\ Planned(call, provider.name, Kinds)

Stepped(c, token) ==
  IF calls'[c] = NoCall
  THEN Tail(calls[c].todo) = <<>> /\ Neighbours(Head(calls[c].todo).do, "end")
  ELSE /\ InProgress(calls'[c]) /\ calls'[c].http = "load" /\ calls'[c].token \in {token, NoToken}
       /\ calls'[c].op = calls[c].op /\ calls'[c].todo = Tail(calls[c].todo)
       /\ Neighbours(Head(calls[c].todo).do, Head(calls'[c].todo).do)

RolledBack(c) ==
  /\ calls[c].op = "connect" /\ Head(calls[c].todo).do = "list" /\ provider.name # "google"
  /\ InProgress(calls'[c]) /\ calls'[c].http = "load" /\ calls'[c].token = NoToken
  /\ calls'[c].op = "disconnect" /\ calls'[c].todo = Disconnect

Within(c, http, token) ==
  /\ InProgress(calls'[c]) /\ calls'[c].http = http /\ calls'[c].token = token
  /\ calls'[c].op = calls[c].op /\ calls'[c].todo = calls[c].todo

Sane == CallsInShape /\ CallsPlanned

LEMMA InFlight ==
  ASSUME NEW call, NEW name, NEW kinds, InShape(call), Planned(call, name, kinds)
  PROVE  call # NoCall
<1>1. /\ call = [op |-> call.op, todo |-> call.todo, http |-> call.http, token |-> call.token,
                round |-> call.round, refreshed |-> call.refreshed]
      /\ call.op \in AccountOps \cup {"fetch"} /\ call.todo \in Seq(Steps)
      /\ call.http \in {"load", "send", "exchange", "persist", "flag"}
      /\ call.token \in Tokens \cup {NoToken} /\ call.round \in 0 .. MaxRateRetries /\ call.refreshed \in BOOLEAN
  BY DEF InShape, Planned, Phases
<1>2. call \in CallType
  BY <1>1 DEF CallType
<1> QED BY <1>2, NamesAssumption

LEMMA CallKnown ==
  ASSUME Sane, NEW c \in Calls, calls[c] # NoCall
  PROVE  /\ InShape(calls[c]) /\ Planned(calls[c], provider.name, Kinds)
         /\ calls[c].todo \in Seq(Steps) /\ calls[c].todo # <<>>
         /\ Good(calls[c].op, calls[c].todo) /\ provider.name \in Providers
         /\ Head(calls[c].todo).do \in Does(calls[c].op)
  <1>1. /\ InShape(calls[c]) /\ Planned(calls[c], provider.name, Kinds) /\ provider.name \in Providers
    BY DEF Sane, CallsInShape, CallsPlanned
  <1>2. calls[c].todo \in Seq(Steps) /\ calls[c].todo # <<>> /\ Good(calls[c].op, calls[c].todo)
    BY <1>1 DEF InShape, Planned, Good
  <1> QED BY <1>1, <1>2, TailPlanned

(* The operations of each step (providers' Connect, Disconnect, Fetch).     *)
LEMMA OpOfStep ==
  ASSUME Sane, NEW c \in Calls, calls[c] # NoCall
  PROVE  LET do == Head(calls[c].todo).do
             op == calls[c].op
         IN /\ do \in {"authorize", "identify", "store", "row"} => op = "connect"
            /\ do \in {"clear", "read", "revoke", "unstore", "unrow"} => op = "disconnect"
            /\ do = "fetch" => op = "fetch"
            /\ do = "list" => op \in {"connect", "refresh", "fetch"}
            /\ do = "list" /\ provider.name # "google" => op \in {"connect", "refresh"}
<1>1. /\ Head(calls[c].todo).do \in Does(calls[c].op) /\ calls[c].op \in AccountOps \cup {"fetch"}
  BY CallKnown DEF Planned
<1>2. Head(calls[c].todo).do = "list" => (calls[c].op = "fetch" => provider.name = "google")
  BY CallKnown, TailPlanned
<1> QED BY <1>1, <1>2 DEF Does, AccountOps

LEMMA GoingIs ==
  ASSUME NEW op, NEW todo, todo # <<>>, NEW token
  PROVE  Going(op, todo, token)
           = [op |-> op, todo |-> todo, http |-> "load",
              token |-> IF Head(todo).do \in {"identify", "store", "revoke"} THEN token ELSE NoToken,
              round |-> 0, refreshed |-> FALSE]
<1> DEFINE t == IF Head(todo).do \in {"identify", "store", "revoke"} THEN token ELSE NoToken
<1>1. Going(op, todo, token) = [NewCall(op, todo) EXCEPT !.token = t]
  BY DEF Going
<1> HIDE DEF t
<1>2. Going(op, todo, token)
        = [op |-> op, todo |-> todo, http |-> "load", token |-> t, round |-> 0, refreshed |-> FALSE]
  BY <1>1 DEF NewCall
<1> QED BY <1>2 DEF t

LEMMA GoingPlanned ==
  ASSUME NEW op \in AccountOps \cup {"fetch"}, NEW todo \in Seq(Steps), todo # <<>>, Good(op, todo),
         NEW token \in Tokens \cup {NoToken},
         Head(todo).do \in {"identify", "store"} => token \in Tokens
  PROVE  LET new == Going(op, todo, token) IN
         /\ InProgress(new) /\ new.op = op /\ new.todo = todo /\ new.http = "load"
         /\ new.token \in {token, NoToken}
         /\ Head(todo).do \notin {"identify", "store", "revoke"} => new.token = NoToken
<1> DEFINE new == Going(op, todo, token)
<1>1. /\ new.op = op /\ new.todo = todo /\ new.http = "load" /\ new.refreshed = FALSE
      /\ new.token = IF Head(todo).do \in {"identify", "store", "revoke"} THEN token ELSE NoToken
  BY GoingIs
<1>2. InShape(new)
  <2>1. /\ new = [op |-> new.op, todo |-> new.todo, http |-> new.http, token |-> new.token, round |-> new.round,
                  refreshed |-> new.refreshed]
        /\ new.round = 0
    BY GoingIs
  <2> HIDE DEF new
  <2>2. 0 \in 0 .. MaxRateRetries
    BY ConnectionsAssumption
  <2> QED BY <1>1, <2>1, <2>2 DEF InShape, Phases
<1> HIDE DEF new
<1>3. Planned(new, provider.name, Kinds)
  BY <1>1 DEF Planned, Good
<1>4. new # NoCall
  BY <1>2, <1>3, InFlight
<1> QED BY <1>1, <1>3, <1>4 DEF InProgress, new

LEMMA StepsOn ==
  ASSUME Sane, NEW c \in Calls, calls[c] # NoCall, NEW token \in Tokens \cup {NoToken},
         Head(calls[c].todo).do \in {"authorize", "identify"} => token \in Tokens,
         calls' = [calls EXCEPT ![c] = Going(calls[c].op, Tail(calls[c].todo), token)]
  PROVE  OnlyCall(c) /\ Stepped(c, token)
<1> DEFINE old == calls[c]
           rest == Tail(calls[c].todo)
           this == Head(calls[c].todo).do
<1>1. calls'[c] = Going(old.op, rest, token) /\ OnlyCall(c)
  BY DEF Sane, CallsInShape, OnlyCall
<1>2. /\ old.op \in AccountOps \cup {"fetch"} /\ Good(old.op, rest) /\ rest \in Seq(Steps)
      /\ IF rest = <<>> THEN Neighbours(this, "end") ELSE Neighbours(this, Head(rest).do)
  <2>1. old.todo \in Seq(Steps) /\ old.todo # <<>> /\ Good(old.op, old.todo) /\ old.op \in AccountOps \cup {"fetch"}
    BY CallKnown DEF Planned
  <2> QED BY <2>1, TailPlanned, TailIsShorter
<1>3. CASE rest = <<>>
  <2>1. calls'[c] = NoCall
    BY <1>1, <1>3 DEF Going
  <2> QED BY <1>1, <1>2, <1>3, <2>1 DEF Stepped
<1>4. CASE rest # <<>>
  <2>1. Head(rest).do \in {"identify", "store"} => token \in Tokens
    BY <1>2, <1>4 DEF Neighbours
  <2> HIDE DEF rest
  <2>2. LET new == Going(old.op, rest, token) IN
         /\ InProgress(new) /\ new.op = old.op /\ new.todo = rest /\ new.http = "load"
         /\ new.token \in {token, NoToken}
    BY <1>2, <1>4, <2>1, GoingPlanned
  <2>3. calls'[c] # NoCall
    BY <1>1, <2>2 DEF InProgress
  <2> QED BY <1>1, <1>2, <1>4, <2>2, <2>3 DEF Stepped, rest
<1> QED BY <1>3, <1>4

LEMMA GivenUp ==
  ASSUME Sane, NEW c \in Calls, calls[c] # NoCall, GoOn(c, <<>>)
  PROVE  OnlyCall(c) /\ calls'[c] = NoCall
  BY DEF Sane, CallsInShape, GoOn, Going, OnlyCall

LEMMA FailsOn ==
  ASSUME Sane, NEW c \in Calls, calls[c] # NoCall, Fail(c),
         Head(calls[c].todo).do \in {"authorize", "identify", "list", "fetch"}
  PROVE  OnlyCall(c) /\ (calls'[c] = NoCall \/ Stepped(c, calls[c].token) \/ RolledBack(c))
<1> DEFINE old == calls[c]
           this == Head(calls[c].todo).do
           op == IF calls[c].op = "connect" THEN "disconnect" ELSE calls[c].op
<1>1. calls'[c] = Going(op, Recovery(c), old.token) /\ OnlyCall(c) /\ calls' = [calls EXCEPT ![c] = Going(op, Recovery(c), old.token)]
  BY DEF Sane, CallsInShape, OnlyCall, Fail
<1>2. old.token \in Tokens \cup {NoToken} /\ provider.name \in Providers
  BY CallKnown DEF Planned
<1>3. CASE this = "fetch"
  <2>1. op = old.op /\ Recovery(c) = Tail(old.todo)
    BY <1>3, OpOfStep DEF Recovery
  <2> QED BY <1>1, <1>2, <1>3, <2>1, StepsOn
<1>4. CASE this # "fetch" /\ Recovery(c) = <<>>
  BY <1>1, <1>4 DEF Going
<1>5. CASE this # "fetch" /\ Recovery(c) # <<>>
  <2>1. this = "list" /\ old.op = "connect" /\ provider.name # "google" /\ Recovery(c) = Disconnect /\ op = "disconnect"
    BY <1>5 DEF Recovery
  <2>2. Disconnect \in Seq(Steps) /\ Disconnect # <<>> /\ Good("disconnect", Disconnect)
        /\ Head(Disconnect).do \in {"read", "clear"} /\ "disconnect" \in AccountOps
    BY <1>2, Pieces, DisconnectPlanned DEF AccountOps
  <2>3. LET new == Going("disconnect", Disconnect, old.token) IN
         /\ InProgress(new) /\ new.op = "disconnect" /\ new.todo = Disconnect /\ new.http = "load"
         /\ new.token = NoToken
    BY <1>2, <2>2, GoingPlanned
  <2> QED BY <1>1, <2>1, <2>3 DEF RolledBack
<1> QED BY <1>3, <1>4, <1>5

LEMMA StaysWithin ==
  ASSUME Sane, NEW c \in Calls, calls[c] # NoCall, Head(calls[c].todo).do \in {"list", "fetch"},
         NEW http \in Phases, NEW token \in Tokens \cup {NoToken}, NEW round \in 0 .. MaxRateRetries,
         NEW refreshed \in BOOLEAN,
         http \in {"send", "exchange", "persist"} => token \in Tokens,
         http = "persist" => Refreshes,
         calls' = [calls EXCEPT ![c] = With(calls[c], http, token, round, refreshed)]
  PROVE  OnlyCall(c) /\ Within(c, http, token)
<1> DEFINE new == With(calls[c], http, token, round, refreshed)
<1>1. calls'[c] = new /\ OnlyCall(c)
  BY DEF Sane, CallsInShape, OnlyCall
<1>2. /\ new.op = calls[c].op /\ new.todo = calls[c].todo /\ new.http = http /\ new.round = round
      /\ new.token = token /\ new.refreshed = refreshed
      /\ new = [op |-> new.op, todo |-> new.todo, http |-> new.http, token |-> new.token, round |-> new.round,
                refreshed |-> new.refreshed]
  BY DEF With
<1> HIDE DEF new
<1>3. InShape(calls[c]) /\ Planned(calls[c], provider.name, Kinds)
  BY CallKnown
<1>4. InShape(new)
  BY <1>2, <1>3 DEF InShape
<1>5. Planned(new, provider.name, Kinds)
  BY <1>2, <1>3 DEF Planned, Refreshes
<1> QED BY <1>1, <1>2, <1>4, <1>5, InFlight DEF Within, InProgress

LEMMA PlannedKept ==
  ASSUME Sane, NEW c \in Calls, OnlyCall(c), provider' = provider,
         calls'[c] # NoCall =>
           InProgress(calls'[c]) /\ (calls'[c].op \in AccountOps => calls[c].op \in AccountOps),
         keychain' \in Tokens \cup {NoToken}, grants' \in [1 .. MaxGrants -> Grants]
  PROVE  CallsPlanned'
<1>1. \A d \in Calls \ {c} : calls'[d] = calls[d]
  BY DEF OnlyCall, Sane, CallsInShape
<1>2. Kinds' = Kinds
  BY DEF Kinds
<1>3. \A d \in Calls : calls'[d] # NoCall => Planned(calls'[d], provider'.name, Kinds')
  BY <1>1, <1>2 DEF InProgress, Sane, CallsPlanned
<1>4. \A d \in Calls : OnAccount(d)' => OnAccount(d)
  BY <1>1 DEF OnAccount, OnlyCall
<1>5. OneAccountOp'
  BY <1>4 DEF OneAccountOp, Sane, CallsPlanned
<1>6. provider'.rotates => provider'.name = "bitbucket"
  BY DEF Sane, CallsPlanned
<1> QED BY <1>3, <1>5, <1>6 DEF CallsPlanned

-----------------------------------------------------------------------------
(* A call that goes on, and what it does to the stores on the way short of  *)
(* storing and removing the token or the row: it may store a newer token,   *)
(* flag the row, and list resources of an account that has a row.           *)
GoesOn(c) ==
  \/ calls'[c] = NoCall \/ RolledBack(c)
  \/ \E token : Stepped(c, token)
  \/ \E http, token : Within(c, http, token)

Lists(c) ==
  /\ calls[c].op \in {"connect", "refresh"} /\ NeedsRow(calls[c])
  /\ calls'[c] # NoCall => calls'[c].op = calls[c].op
  /\ \E kind \in Kinds : known' = known \cup {kind}

PassingStep(c) ==
  /\ OnlyCall(c) /\ GoesOn(c) /\ provider' = provider
  /\ Head(calls[c].todo).do \notin {"store", "row", "unstore", "unrow", "clear"}
  /\ keychain' = keychain \/ (keychain' \in Tokens /\ Refreshes)
  /\ row' = row \/ (row # "none" /\ row' # "none")
  /\ known' = known \/ provider.name = "google" \/ Lists(c)

LEMMA GoesOnOps ==
  ASSUME Sane, NEW c \in Calls, OnlyCall(c), GoesOn(c)
  PROVE  calls'[c] # NoCall =>
           InProgress(calls'[c]) /\ (calls'[c].op \in AccountOps => calls[c].op \in AccountOps)
  BY DEF GoesOn, RolledBack, Stepped, Within, AccountOps

LEMMA PassingHeads ==
  ASSUME Sane, NEW c \in Calls, PassingStep(c), calls'[c] # NoCall
  PROVE  /\ Head(calls'[c].todo).do \notin {"row", "unrow"}
         /\ NeedsRow(calls'[c]) => NeedsRow(calls[c])
<1>1. /\ Head(calls[c].todo).do \notin {"store", "row", "unstore", "unrow", "clear"}
      /\ calls[c] # NoCall /\ provider.name \in Providers
  BY CallKnown DEF PassingStep, OnlyCall
<1>2. CASE RolledBack(c)
  <2>1. Head(calls'[c].todo).do \in {"read", "clear"}
    BY <1>1, <1>2, DisconnectPlanned DEF RolledBack
  <2> QED BY <1>2, <2>1 DEF RolledBack, NeedsRow
<1>3. ASSUME NEW token, Stepped(c, token)
      PROVE  /\ Head(calls'[c].todo).do \notin {"row", "unrow"}
             /\ NeedsRow(calls'[c]) => NeedsRow(calls[c])
  <2>1. calls'[c].op = calls[c].op /\ Neighbours(Head(calls[c].todo).do, Head(calls'[c].todo).do)
    BY <1>3 DEF Stepped
  <2>2. Head(calls'[c].todo).do \notin {"row", "unrow"}
    BY <1>1, <2>1 DEF Neighbours
  <2>3. Head(calls'[c].todo).do = "list" => Head(calls[c].todo).do \in {"list", "usable"}
    BY <1>1, <2>1 DEF Neighbours
  <2>4. Head(calls[c].todo).do = "usable" => calls[c].op # "connect"
    BY <1>1, CallKnown DEF Does
  <2> QED BY <2>1, <2>2, <2>3, <2>4 DEF NeedsRow
<1>4. ASSUME NEW http, NEW token, Within(c, http, token)
      PROVE  /\ Head(calls'[c].todo).do \notin {"row", "unrow"}
             /\ NeedsRow(calls'[c]) => NeedsRow(calls[c])
  BY <1>1, <1>4 DEF Within, NeedsRow
<1> QED BY <1>2, <1>3, <1>4 DEF PassingStep, GoesOn

LEMMA PassingStores ==
  ASSUME Sane, StoresInv, NEW c \in Calls, PassingStep(c)
  PROVE  StoresInv'
<1>0. /\ \A d \in Calls \ {c} : calls'[d] = calls[d]
      /\ calls[c] # NoCall /\ Kinds' = Kinds /\ (Refreshes' <=> Refreshes) /\ provider' = provider
      /\ Head(calls[c].todo).do \notin {"store", "row", "unstore", "unrow", "clear"}
      /\ provider.name \in Providers
  BY CallKnown DEF PassingStep, OnlyCall, Sane, CallsInShape, Kinds, Refreshes
<1>1. calls'[c] # NoCall => Head(calls'[c].todo).do \notin {"row", "unrow"}
  BY PassingHeads
<1>2. keychain' = NoToken => keychain = NoToken
  BY NamesAssumption DEF PassingStep
<1>3. row' = "none" <=> row = "none"
  BY DEF PassingStep
<1>4. \A d \in Calls : \A what \in {"row", "unrow"} : At(d, what)' <=> At(d, what)
  BY <1>0, <1>1 DEF At
<1>5. RowHasToken'
  BY <1>2, <1>3, <1>4 DEF RowHasToken, StoresInv
<1>6. TokenHasRow'
  BY <1>0, <1>2, <1>3, <1>4 DEF TokenHasRow, StoresInv, PassingStep
<1>7. RowStands'
  BY <1>0, <1>3, PassingHeads DEF RowStands, StoresInv
<1>8. ResourcesHaveRow'
  <2> SUFFICES ASSUME provider.name # "google" PROVE ResourcesHaveRow'
    BY <1>0 DEF ResourcesHaveRow
  <2>1. /\ known \subseteq Kinds /\ (row = "none" => known = {})
        /\ \A d \in Calls : calls[d] # NoCall /\ calls[d].op = "disconnect" =>
             \A k \in known : \E i \in 1 .. Len(calls[d].todo) : calls[d].todo[i] = Clear(k)
    BY DEF StoresInv, ResourcesHaveRow
  <2>2. CASE known' # known
    <3>1. Lists(c) /\ row # "none"
      BY <1>0, <2>2 DEF PassingStep, Lists, StoresInv, RowStands
    <3>2. known' \subseteq Kinds
      BY <2>1, <3>1 DEF Lists
    <3>3. \A d \in Calls : calls'[d] # NoCall => calls'[d].op # "disconnect"
      <4>1. \A d \in Calls : OnAccount(d) => d = c
        BY <1>0, <3>1 DEF Lists, OnAccount, AccountOps, Sane, CallsPlanned, OneAccountOp
      <4> QED BY <1>0, <3>1, <4>1 DEF Lists, OnAccount, AccountOps
    <3> QED BY <1>0, <1>3, <3>1, <3>2, <3>3 DEF ResourcesHaveRow
  <2>3. CASE known' = known
    <3>1. ASSUME calls'[c] # NoCall, calls'[c].op = "disconnect", NEW k \in known
          PROVE  \E i \in 1 .. Len(calls'[c].todo) : calls'[c].todo[i] = Clear(k)
      <4>1. CASE RolledBack(c)
        BY <1>0, <2>1, <4>1, DisconnectPlanned DEF RolledBack, Clears
      <4>2. ASSUME NEW token, Stepped(c, token)
            PROVE  \E i \in 1 .. Len(calls'[c].todo) : calls'[c].todo[i] = Clear(k)
        <5>1. calls[c].op = "disconnect" /\ calls'[c].todo = Tail(calls[c].todo)
          BY <3>1, <4>2 DEF Stepped
        <5>2. PICK i \in 1 .. Len(calls[c].todo) : calls[c].todo[i] = Clear(k)
          BY <1>0, <2>1, <5>1
        <5>3. calls[c].todo[i] # Head(calls[c].todo)
          BY <1>0, <5>2 DEF Clear
        <5>4. \E j \in 1 .. Len(Tail(calls[c].todo)) : Tail(calls[c].todo)[j] = calls[c].todo[i]
          BY <1>0, <5>3, CallKnown, TailPlanned
        <5> QED BY <5>1, <5>2, <5>4
      <4>3. ASSUME NEW http, NEW token, Within(c, http, token)
            PROVE  \E i \in 1 .. Len(calls'[c].todo) : calls'[c].todo[i] = Clear(k)
        BY <1>0, <2>1, <3>1, <4>3 DEF Within
      <4> QED BY <3>1, <4>1, <4>2, <4>3 DEF PassingStep, GoesOn
    <3>2. \A d \in Calls : calls'[d] # NoCall /\ calls'[d].op = "disconnect" =>
            \A k \in known : \E i \in 1 .. Len(calls'[d].todo) : calls'[d].todo[i] = Clear(k)
      BY <1>0, <2>1, <3>1
    <3> QED BY <1>0, <1>3, <2>1, <2>3, <3>2 DEF ResourcesHaveRow
  <2> QED BY <2>2, <2>3
<1> QED BY <1>5, <1>6, <1>7, <1>8 DEF StoresInv

-----------------------------------------------------------------------------
(* The steps that store and remove the token, the row and the resources.    *)

(* Next to an operation on the account there are fetches only.              *)
LEMMA OthersFetch ==
  ASSUME Sane, NEW c \in Calls, OnAccount(c), NEW d \in Calls \ {c}, calls[d] # NoCall
  PROVE  calls[d].op = "fetch" /\ Head(calls[d].todo).do \in {"usable", "list", "pick", "fetch"}
<1>1. calls[d].op \in AccountOps \cup {"fetch"} /\ Head(calls[d].todo).do \in Does(calls[d].op)
  BY CallKnown DEF Planned
<1>2. ~OnAccount(d)
  BY DEF Sane, CallsPlanned, OneAccountOp
<1> QED BY <1>1, <1>2 DEF OnAccount, Does

LEMMA DoneSteps ==
  ASSUME Sane, NEW c \in Calls, calls[c] # NoCall, Head(calls[c].todo).do # "authorize", Done(c)
  PROVE  /\ OnlyCall(c) /\ Stepped(c, calls[c].token)
         /\ \A d \in Calls \ {c} : calls'[d] = calls[d]
<1>1. /\ calls[c].token \in Tokens \cup {NoToken}
      /\ Head(calls[c].todo).do = "identify" => calls[c].token \in Tokens
  BY CallKnown DEF Planned
<1>2. OnlyCall(c) /\ Stepped(c, calls[c].token)
  BY <1>1, StepsOn DEF Done, GoOn
<1> QED BY <1>2 DEF OnlyCall, Sane, CallsInShape

LEMMA StoreStores ==
  ASSUME Sane, StoresInv, NEW c \in Calls, StoreToken(c)
  PROVE  StoresInv'
<1>1. /\ calls[c] # NoCall /\ Head(calls[c].todo).do = "store" /\ calls[c].op = "connect"
      /\ calls[c].token \in Tokens /\ OnAccount(c)
  BY CallKnown, OpOfStep DEF StoreToken, At, Planned, OnAccount, AccountOps
<1>2. Stepped(c, calls[c].token) /\ \A d \in Calls \ {c} : calls'[d] = calls[d]
  BY <1>1, DoneSteps DEF StoreToken
<1>3. calls'[c] # NoCall /\ calls'[c].op = "connect" /\ Head(calls'[c].todo).do = "row"
  BY <1>1, <1>2 DEF Stepped, Neighbours
<1>4. /\ keychain' # NoToken /\ row' = row /\ known' = known /\ Kinds' = Kinds /\ provider' = provider
      /\ (Refreshes' <=> Refreshes)
  BY <1>1, NamesAssumption DEF StoreToken, Kinds, Refreshes
<1>5. RowHasToken'
  BY <1>4 DEF RowHasToken
<1>6. \A d \in Calls : ~At(d, "unrow")'
  BY <1>1, <1>2, <1>3, OthersFetch DEF At
<1>7. TokenHasRow'
  BY <1>3, <1>6 DEF TokenHasRow, At
<1>8. RowStands'
  BY <1>2, <1>3, <1>4 DEF RowStands, StoresInv, NeedsRow
<1>9. ResourcesHaveRow'
  BY <1>2, <1>3, <1>4 DEF ResourcesHaveRow, StoresInv
<1> QED BY <1>5, <1>7, <1>8, <1>9 DEF StoresInv

LEMMA UpsertStores ==
  ASSUME Sane, StoresInv, NEW c \in Calls, UpsertRow(c)
  PROVE  StoresInv'
<1>1. calls[c] # NoCall /\ Head(calls[c].todo).do = "row" /\ calls[c].op = "connect" /\ OnAccount(c)
  BY OpOfStep DEF UpsertRow, At, OnAccount, AccountOps
<1>2. Stepped(c, calls[c].token) /\ \A d \in Calls \ {c} : calls'[d] = calls[d]
  BY <1>1, DoneSteps DEF UpsertRow
<1>3. calls'[c] # NoCall => calls'[c].op = "connect" /\ Head(calls'[c].todo).do # "unrow"
  BY <1>1, <1>2 DEF Stepped, Neighbours
<1>4. /\ keychain' = keychain /\ keychain # NoToken /\ row' = "connected" /\ known' = known /\ Kinds' = Kinds
      /\ provider' = provider
  BY DEF UpsertRow, Kinds, StoresInv, RowHasToken
<1>5. RowHasToken' /\ RowStands'
  BY <1>4 DEF RowHasToken, RowStands
<1>6. \A d \in Calls : ~At(d, "unrow")'
  BY <1>1, <1>2, <1>3, OthersFetch DEF At
<1>7. TokenHasRow'
  BY <1>4, <1>6 DEF TokenHasRow
<1>8. ResourcesHaveRow'
  BY <1>2, <1>3, <1>4 DEF ResourcesHaveRow, StoresInv
<1> QED BY <1>5, <1>7, <1>8 DEF StoresInv

(* What a disconnect has left to clear after a step, unless the step did.   *)
LEMMA StillToClear ==
  ASSUME Sane, ResourcesHaveRow, provider.name # "google", NEW c \in Calls, calls[c] # NoCall,
         calls[c].op = "disconnect", NEW token, Stepped(c, token), calls'[c] # NoCall,
         NEW k \in known, Clear(k) # Head(calls[c].todo)
  PROVE  \E i \in 1 .. Len(calls'[c].todo) : calls'[c].todo[i] = Clear(k)
<1>1. PICK i \in 1 .. Len(calls[c].todo) : calls[c].todo[i] = Clear(k)
  BY DEF ResourcesHaveRow
<1>2. \E j \in 1 .. Len(Tail(calls[c].todo)) : Tail(calls[c].todo)[j] = calls[c].todo[i]
  BY <1>1, CallKnown, TailPlanned
<1> QED BY <1>1, <1>2 DEF Stepped

LEMMA ClearStores ==
  ASSUME Sane, StoresInv, NEW c \in Calls, ClearResources(c)
  PROVE  StoresInv'
<1> DEFINE kind == Head(calls[c].todo).of
<1>1. calls[c] # NoCall /\ Head(calls[c].todo).do = "clear" /\ calls[c].op = "disconnect" /\ OnAccount(c)
  BY OpOfStep DEF ClearResources, At, OnAccount, AccountOps
<1>2. Stepped(c, calls[c].token) /\ \A d \in Calls \ {c} : calls'[d] = calls[d]
  BY <1>1, DoneSteps DEF ClearResources
<1>3. calls'[c] # NoCall => Head(calls'[c].todo).do \notin {"row", "unrow"}
  BY <1>1, <1>2 DEF Stepped, Neighbours
<1>4. /\ keychain' = keychain /\ row' = row /\ known' = known \ {kind} /\ Kinds' = Kinds /\ provider' = provider
      /\ row # "none"
  BY <1>1 DEF ClearResources, Kinds, StoresInv, RowStands, NeedsRow
<1>5. \A d \in Calls : \A what \in {"row", "unrow"} : At(d, what)' <=> At(d, what)
  BY <1>1, <1>2, <1>3 DEF At
<1>6. RowHasToken'
  BY <1>4, <1>5 DEF RowHasToken, StoresInv
<1>7. TokenHasRow'
  BY <1>4, <1>5 DEF TokenHasRow, StoresInv, Refreshes
<1>8. RowStands'
  BY <1>4 DEF RowStands
<1>9. ASSUME provider.name # "google", NEW d \in Calls, calls'[d] # NoCall, calls'[d].op = "disconnect", NEW k \in known'
      PROVE  \E i \in 1 .. Len(calls'[d].todo) : calls'[d].todo[i] = Clear(k)
  <2>1. d = c
    BY <1>1, <1>2, <1>9, OthersFetch
  <2>2. k \in known /\ Clear(k) # Head(calls[c].todo)
    BY <1>4, <1>9 DEF Clear
  <2> QED BY <1>1, <1>2, <1>9, <2>1, <2>2, StillToClear DEF StoresInv
<1>10. ResourcesHaveRow'
  BY <1>4, <1>9 DEF ResourcesHaveRow, StoresInv
<1> QED BY <1>6, <1>7, <1>8, <1>10 DEF StoresInv

LEMMA DeleteTokenStores ==
  ASSUME Sane, StoresInv, NEW c \in Calls, DeleteToken(c)
  PROVE  StoresInv'
<1>1. calls[c] # NoCall /\ Head(calls[c].todo).do = "unstore" /\ calls[c].op = "disconnect" /\ OnAccount(c)
  BY OpOfStep DEF DeleteToken, At, OnAccount, AccountOps
<1>2. Stepped(c, calls[c].token) /\ \A d \in Calls \ {c} : calls'[d] = calls[d]
  BY <1>1, DoneSteps DEF DeleteToken
<1>3. calls'[c] # NoCall /\ Head(calls'[c].todo).do = "unrow"
  BY <1>1, <1>2 DEF Stepped, Neighbours
<1>4. /\ keychain' = NoToken /\ row' = row /\ known' = known /\ Kinds' = Kinds /\ provider' = provider
      /\ row # "none"
  BY <1>1 DEF DeleteToken, Kinds, StoresInv, RowStands, NeedsRow
<1>5. \A d \in Calls : ~At(d, "row")'
  BY <1>1, <1>2, <1>3, OthersFetch DEF At
<1>6. RowHasToken'
  BY <1>3, <1>5 DEF RowHasToken, At
<1>7. TokenHasRow' /\ RowStands'
  BY <1>4 DEF TokenHasRow, RowStands
<1>8. ASSUME provider.name # "google", NEW d \in Calls, calls'[d] # NoCall, calls'[d].op = "disconnect", NEW k \in known'
      PROVE  \E i \in 1 .. Len(calls'[d].todo) : calls'[d].todo[i] = Clear(k)
  <2>1. d = c
    BY <1>1, <1>2, <1>8, OthersFetch
  <2>2. k \in known /\ Clear(k) # Head(calls[c].todo)
    BY <1>1, <1>4, <1>8 DEF Clear
  <2> QED BY <1>1, <1>2, <1>8, <2>1, <2>2, StillToClear DEF StoresInv
<1>9. ResourcesHaveRow'
  BY <1>4, <1>8 DEF ResourcesHaveRow, StoresInv
<1> QED BY <1>6, <1>7, <1>9 DEF StoresInv

LEMMA DeleteRowStores ==
  ASSUME Sane, StoresInv, NEW c \in Calls, DeleteRow(c)
  PROVE  StoresInv'
<1>1. /\ calls[c] # NoCall /\ Head(calls[c].todo).do = "unrow" /\ calls[c].op = "disconnect" /\ OnAccount(c)
      /\ At(c, "unrow") /\ calls[c].todo \in Seq(Steps) /\ calls[c].todo # <<>>
  BY OpOfStep, CallKnown DEF DeleteRow, At, OnAccount, AccountOps
<1>2. /\ OnlyCall(c) /\ Stepped(c, calls[c].token) /\ \A d \in Calls \ {c} : calls'[d] = calls[d]
  BY <1>1, DoneSteps DEF DeleteRow
<1>3. calls'[c] = NoCall /\ Tail(calls[c].todo) = <<>>
  <2>1. SUFFICES ASSUME calls'[c] # NoCall PROVE FALSE
    BY <1>2 DEF Stepped
  <2>2. /\ Head(calls'[c].todo).do = "end" /\ calls'[c].op = "disconnect"
        /\ calls'[c].todo = Tail(calls[c].todo) /\ Good("disconnect", Tail(calls[c].todo))
    BY <1>1, <1>2, <2>1, CallKnown, TailPlanned DEF Stepped, Neighbours
  <2>3. Tail(calls[c].todo) \in Seq(Steps)
    BY <1>1, TailIsShorter
  <2>4. Tail(calls[c].todo) # <<>>
    <3>1. (Sane /\ OnlyCall(c)) => InShape(calls'[c]) \/ calls'[c] = NoCall
      <4>1. calls' = [calls EXCEPT ![c] = Going(calls[c].op, Tail(calls[c].todo), calls[c].token)]
        BY DEF DeleteRow, Done, GoOn
      <4> QED BY <2>3, <4>1, GoingShape DEF Sane, CallsInShape
    <3> QED BY <1>2, <2>1, <2>2, <3>1 DEF InShape
  <2>5. Head(Tail(calls[c].todo)).do \in Does("disconnect")
    BY <2>2, <2>3, <2>4, TailPlanned
  <2> QED BY <2>2, <2>5 DEF Does
<1>4. keychain' = keychain /\ row' = "none" /\ known' = known /\ Kinds' = Kinds /\ provider' = provider
  BY DEF DeleteRow, Kinds
<1>5. \A d \in Calls : calls'[d] # NoCall =>
        calls'[d].op = "fetch" /\ Head(calls'[d].todo).do \notin {"row", "unrow"}
  BY <1>1, <1>2, <1>3, OthersFetch
<1>6. RowHasToken' /\ RowStands'
  BY <1>4, <1>5 DEF RowHasToken, RowStands, NeedsRow, At
<1>7. TokenHasRow'
  BY <1>1, <1>4, <1>5 DEF TokenHasRow, StoresInv, At, Refreshes
<1>8. provider.name # "google" => known = {}
  <2> SUFFICES ASSUME provider.name # "google", NEW k \in known PROVE FALSE
    OBVIOUS
  <2>1. PICK i \in 1 .. Len(calls[c].todo) : calls[c].todo[i] = Clear(k)
    BY <1>1 DEF StoresInv, ResourcesHaveRow
  <2>2. calls[c].todo[i] = Head(calls[c].todo) \/ \E j \in 1 .. Len(Tail(calls[c].todo)) : Tail(calls[c].todo)[j] = calls[c].todo[i]
    BY <1>1, CallKnown, TailPlanned
  <2>3. Len(Tail(calls[c].todo)) = 0
    BY <1>3, EmptySeq
  <2> QED BY <1>1, <2>1, <2>2, <2>3 DEF Clear
<1>9. ResourcesHaveRow'
  BY <1>4, <1>5, <1>8 DEF ResourcesHaveRow
<1> QED BY <1>6, <1>7, <1>9 DEF StoresInv

LEMMA StartStores ==
  ASSUME Sane, NEW c \in Calls, StartCall(c)
  PROVE  CallsPlanned' /\ (StoresInv => StoresInv')
<1>0. provider.name \in Providers /\ calls = [d \in Calls |-> calls[d]] /\ calls[c] = NoCall
  BY DEF Sane, CallsInShape, StartCall
<1>1. PICK op, todo :
        /\ \/ op = "fetch" /\ todo = Fetch
           \/ op = "connect" /\ todo = Connect /\ NoAccountOp
           \/ op = "disconnect" /\ todo = Disconnect /\ NoAccountOp /\ row # "none"
           \/ op = "refresh" /\ todo = Refresh /\ NoAccountOp /\ row # "none"
        /\ calls' = [calls EXCEPT ![c] = NewCall(op, todo)]
  BY Zenon DEF StartCall
<1>2. /\ UNCHANGED <<provider, keychain, row, known, grants>> /\ Kinds' = Kinds
      /\ \A d \in Calls \ {c} : calls'[d] = calls[d]
      /\ calls'[c] = NewCall(op, todo) /\ calls'[c].op = op /\ calls'[c].todo = todo /\ calls'[c].http = "load"
      /\ calls'[c].token = NoToken /\ calls'[c].refreshed = FALSE
  BY <1>0, <1>1 DEF StartCall, stores, Kinds, NewCall
<1>3. /\ todo \in Seq(Steps) /\ todo # <<>> /\ Good(op, todo) /\ op \in AccountOps \cup {"fetch"}
      /\ Head(todo).do \in {"authorize", "read", "clear", "usable", "pick", "list"}
      /\ op = "connect" => Head(todo).do = "authorize"
      /\ op = "disconnect" /\ provider.name # "google" => Clears(todo)
  BY <1>0, <1>1, Pieces, ConnectPlanned, DisconnectPlanned, FetchPlanned, RefreshPlanned DEF AccountOps
<1>4. Planned(calls'[c], provider'.name, Kinds')
  BY <1>2, <1>3 DEF Planned, Good
<1>5. CallsPlanned'
  <2>1. \A d \in Calls : calls'[d] # NoCall => Planned(calls'[d], provider'.name, Kinds')
    BY <1>2, <1>4 DEF Sane, CallsPlanned
  <2>2. op # "fetch" => \A d \in Calls : ~OnAccount(d)
    BY <1>1 DEF NoAccountOp, OnAccount
  <2>3. OneAccountOp'
    BY <1>2, <2>2 DEF Sane, CallsPlanned, OneAccountOp, OnAccount, AccountOps
  <2> QED BY <1>2, <2>1, <2>3 DEF Sane, CallsPlanned
<1>6. ASSUME StoresInv PROVE StoresInv'
  <2>1. \A d \in Calls : \A what \in {"row", "unrow"} : At(d, what)' <=> At(d, what)
    BY <1>0, <1>2, <1>3 DEF At
  <2>2. RowHasToken'
    BY <1>2, <1>6, <2>1 DEF StoresInv, RowHasToken
  <2>3. TokenHasRow'
    BY <1>2, <1>6, <2>1 DEF StoresInv, TokenHasRow, Refreshes
  <2>4. NeedsRow(calls'[c]) => row # "none"
    BY <1>1, <1>2, <1>3 DEF NeedsRow
  <2>5. RowStands'
    BY <1>2, <1>6, <2>4 DEF StoresInv, RowStands
  <2>6. ResourcesHaveRow'
    BY <1>2, <1>3, <1>6 DEF StoresInv, ResourcesHaveRow, Clears
  <2> QED BY <2>2, <2>3, <2>5, <2>6 DEF StoresInv
<1> QED BY <1>5, <1>6

-----------------------------------------------------------------------------
(* The refresh tokens: who holds one, and which one the provider accepts.   *)
Signing(c) == At(c, "identify") \/ At(c, "store")

Saving(c) == InRequest(c, "persist")

LEMMA TokensTyped ==
  ASSUME CallsPlanned
  PROVE  /\ keychain # NoToken => keychain \in Tokens
         /\ \A c \in Calls : Holder(c) => calls[c].token \in Tokens
         /\ \A c \in Calls : Saving(c) \/ Signing(c) => Holder(c)
         /\ \A token \in Tokens : token.grant \in 1 .. MaxGrants /\ token.refresh \in Nat
<1>1. \A c \in Calls : calls[c] # NoCall => Planned(calls[c], provider.name, Kinds)
  BY DEF CallsPlanned
<1>2. \A c \in Calls : Holder(c) => calls[c].token \in Tokens
  BY <1>1 DEF Holder, Planned
<1>3. \A c \in Calls : Saving(c) \/ Signing(c) => calls[c] # NoCall /\ calls[c].token \in Tokens
  BY <1>1 DEF Saving, Signing, InRequest, At, Planned
<1>4. \A c \in Calls : Saving(c) \/ Signing(c) => Holder(c)
  BY <1>3, NamesAssumption DEF Holder
<1>5. \A token \in Tokens : token.grant \in 1 .. MaxGrants /\ token.refresh \in Nat
  BY DEF Tokens
<1> QED BY <1>2, <1>4, <1>5 DEF CallsPlanned

(* Steps at which calls give tokens up and take none.                       *)
LEMMA TokensCarried ==
  ASSUME CallsPlanned, TokensInv, provider' = provider, keychain' \in {keychain, NoToken},
         \A g \in 1 .. MaxGrants :
           /\ grants'[g].gen = grants[g].gen /\ grants'[g].refresh = grants[g].refresh
           /\ grants'[g].lost = grants[g].lost,
         \A d \in Calls : Holder(d)' => Holder(d) /\ calls'[d].token = calls[d].token,
         \A d \in Calls : Saving(d) => Saving(d)',
         \A d \in Calls : Saving(d)' => Holder(d)' /\ (Saving(d) \/ ~provider.rotates),
         \A d \in Calls : Signing(d)' => Holder(d)' /\ Signing(d)
  PROVE  TokensInv'
<1>1. \A token \in Tokens : (Fresh(token)' <=> Fresh(token)) /\ (Sound(token)' <=> Sound(token))
  BY TokensTyped DEF Fresh, Sound
<1>2. \A d \in Calls : Holder(d)' => calls'[d].token \in Tokens /\ Sound(calls[d].token)
  BY TokensTyped DEF TokensInv
<1>3. keychain' # NoToken => keychain' = keychain /\ keychain \in Tokens /\ Sound(keychain)
  BY TokensTyped DEF TokensInv
<1>4. provider'.rotates => \A g \in 1 .. MaxGrants : grants'[g].refresh = grants'[g].gen
  BY DEF TokensInv
<1>5. keychain' # NoToken => Sound(keychain)'
  BY <1>3 DEF Sound, Fresh, Tokens
<1>6. \A d \in Calls : Holder(d)' => Sound(calls[d].token)'
  BY <1>2 DEF Sound, Fresh, Tokens
<1>7. ASSUME NEW d \in Calls, Saving(d)' PROVE AloneFresh(d)'
  <2>1. Holder(d)' /\ Holder(d) /\ calls'[d].token = calls[d].token /\ calls[d].token \in Tokens
    BY <1>2, <1>7
  <2>2. Fresh(calls[d].token)
    BY <1>2, <1>7, <2>1 DEF TokensInv, AloneFresh, Sound, Saving
  <2>3. Fresh(calls[d].token)'
    BY <2>1, <2>2 DEF Fresh, Tokens
  <2>4. ASSUME provider.rotates, NEW e \in Calls \ {d}, Holder(e)', calls'[e].token.grant = calls'[d].token.grant
        PROVE  ~Fresh(calls[e].token)'
    <3>1. Holder(e) /\ calls'[e].token = calls[e].token /\ calls[e].token \in Tokens
      BY <1>2, <2>4
    <3>2. ~Fresh(calls[e].token)
      BY <1>7, <2>1, <2>4, <3>1 DEF TokensInv, AloneFresh, Saving
    <3> QED BY <3>1, <3>2 DEF Fresh, Tokens
  <2>5. ASSUME provider.rotates, keychain' # NoToken, keychain'.grant = calls'[d].token.grant
        PROVE  ~Fresh(keychain)'
    <3>1. ~Fresh(keychain)
      BY <1>3, <1>7, <2>1, <2>5 DEF TokensInv, AloneFresh, Saving
    <3> QED BY <1>3, <2>5, <3>1 DEF Fresh, Tokens
  <2> QED BY <2>3, <2>4, <2>5 DEF AloneFresh
<1>8. ASSUME NEW d \in Calls, Signing(d)' PROVE AloneGranted(d)'
  <2>1. Holder(d)' /\ Holder(d) /\ calls'[d].token = calls[d].token /\ calls[d].token \in Tokens
        /\ AloneGranted(d)
    BY <1>2, <1>8 DEF TokensInv, Signing
  <2>2. Fresh(calls[d].token)'
    BY <2>1 DEF Fresh, Tokens, AloneGranted
  <2> QED BY <1>3, <2>1, <2>2 DEF AloneGranted
<1>9. ASSUME keychain' # NoToken
      PROVE  Settled(keychain)' \/ \E d \in Calls : Saving(d)' /\ calls'[d].token.grant = keychain'.grant
  <2>1. Settled(keychain) => Settled(keychain)'
    BY <1>3, <1>9 DEF Settled, Fresh, Tokens
  <2>2. Settled(keychain) \/ \E d \in Calls : Saving(d) /\ calls[d].token.grant = keychain.grant
    BY <1>3, <1>9 DEF TokensInv, Saving
  <2> QED BY <1>3, <1>9, <2>1, <2>2
<1> QED BY <1>4, <1>5, <1>6, <1>7, <1>8, <1>9 DEF TokensInv, Saving, Signing

(* A call reads the token that is in the keychain.                          *)
LEMMA TokenRead ==
  ASSUME CallsPlanned, TokensInv, NEW c \in Calls, provider' = provider, keychain' = keychain, grants' = grants,
         \A d \in Calls \ {c} : calls'[d] = calls[d],
         Holder(c)' => calls'[c].token = keychain /\ keychain # NoToken,
         ~Saving(c), ~Saving(c)', ~Signing(c)'
  PROVE  TokensInv'
<1>1. \A d \in Calls \ {c} : /\ (Holder(d)' <=> Holder(d)) /\ (Saving(d)' <=> Saving(d))
                             /\ (Signing(d)' <=> Signing(d))
  BY DEF Holder, Saving, Signing, InRequest, At
<1>2. ASSUME NEW d \in Calls, Saving(d)' PROVE AloneFresh(d)'
  <2>1. d # c /\ AloneFresh(d)
    BY <1>1, <1>2 DEF TokensInv, Saving
  <2> QED BY <1>1, <2>1 DEF AloneFresh, Fresh
<1>3. ASSUME NEW d \in Calls, Signing(d)' PROVE AloneGranted(d)'
  <2>1. d # c /\ AloneGranted(d)
    BY <1>1, <1>3 DEF TokensInv, Signing
  <2> QED BY <1>1, <2>1 DEF AloneGranted, Fresh
<1>4. \A d \in Calls : Holder(d)' => Sound(calls[d].token)'
  BY <1>1 DEF TokensInv, Sound, Fresh
<1>5. keychain' # NoToken =>
        Sound(keychain)' /\ (Settled(keychain)' \/ \E d \in Calls : Saving(d)' /\ calls'[d].token.grant = keychain'.grant)
  <2>1. keychain # NoToken =>
          Sound(keychain) /\ (Settled(keychain) \/ \E d \in Calls : Saving(d) /\ calls[d].token.grant = keychain.grant)
    BY DEF TokensInv, Saving
  <2>2. \A d \in Calls : Saving(d) => d # c /\ Saving(d)' /\ calls'[d] = calls[d]
    BY <1>1
  <2> QED BY <2>1, <2>2 DEF Settled, Sound, Fresh
<1>6. provider'.rotates => \A g \in 1 .. MaxGrants : grants'[g].refresh = grants'[g].gen
  BY DEF TokensInv
<1> QED BY <1>2, <1>3, <1>4, <1>5, <1>6 DEF TokensInv, Saving, Signing

(* A call stores the token it holds, which is the one that is accepted.     *)
LEMMA TokenStored ==
  ASSUME CallsPlanned, TokensInv, NEW c \in Calls, Holder(c), provider' = provider, grants' = grants,
         keychain' = calls[c].token, Fresh(calls[c].token),
         \A d \in Calls \ {c} : calls'[d] = calls[d],
         provider.rotates =>
           \A d \in Calls \ {c} : Saving(d) \/ Signing(d) => calls[d].token.grant # calls[c].token.grant,
         Holder(c)' => calls'[c].token = calls[c].token, ~Saving(c)', ~Signing(c)'
  PROVE  TokensInv'
<1>1. \A d \in Calls \ {c} : /\ (Holder(d)' <=> Holder(d)) /\ (Saving(d)' <=> Saving(d))
                             /\ (Signing(d)' <=> Signing(d))
  BY DEF Holder, Saving, Signing, InRequest, At
<1>2. ASSUME NEW d \in Calls, Saving(d)' PROVE AloneFresh(d)'
  <2>1. d # c /\ AloneFresh(d) /\ Saving(d)
    BY <1>1, <1>2 DEF TokensInv, Saving
  <2> QED BY <1>1, <2>1 DEF AloneFresh, Fresh
<1>3. ASSUME NEW d \in Calls, Signing(d)' PROVE AloneGranted(d)'
  <2>1. d # c /\ AloneGranted(d) /\ Signing(d)
    BY <1>1, <1>3 DEF TokensInv, Signing
  <2> QED BY <1>1, <2>1 DEF AloneGranted, Fresh
<1>4. \A d \in Calls : Holder(d)' => Sound(calls[d].token)'
  BY <1>1 DEF TokensInv, Sound, Fresh
<1>5. Sound(keychain)' /\ Settled(keychain)'
  BY DEF TokensInv, Sound, Settled, Fresh
<1>6. provider'.rotates => \A g \in 1 .. MaxGrants : grants'[g].refresh = grants'[g].gen
  BY DEF TokensInv
<1> QED BY <1>2, <1>3, <1>4, <1>5, <1>6 DEF TokensInv, Saving, Signing

-----------------------------------------------------------------------------
(* What each step of a call does to the plans, the stores and the tokens.   *)
Orderly == CallsPlanned /\ StoresInv /\ TokensInv

(* Steps after which a call holds its token still, or none.                 *)
KeepsToken(c) ==
  \/ calls'[c] = NoCall \/ RolledBack(c) \/ Stepped(c, calls[c].token)
  \/ \E http \in Phases : Within(c, http, calls[c].token) /\ (http = "persist" => ~provider.rotates)

LEMMA TokenKept ==
  ASSUME Sane, TokensInv, NEW c \in Calls, OnlyCall(c), KeepsToken(c), ~Saving(c),
         Head(calls[c].todo).do = "authorize" => calls'[c] = NoCall,
         provider' = provider, keychain' \in {keychain, NoToken},
         \A g \in 1 .. MaxGrants :
           /\ grants'[g].gen = grants[g].gen /\ grants'[g].refresh = grants[g].refresh
           /\ grants'[g].lost = grants[g].lost
  PROVE  TokensInv'
<1>1. \A d \in Calls \ {c} : calls'[d] = calls[d]
  BY DEF OnlyCall, Sane, CallsInShape
<1>2. \A d \in Calls \ {c} : /\ (Holder(d)' <=> Holder(d)) /\ (Saving(d)' <=> Saving(d))
                             /\ (Signing(d)' <=> Signing(d))
  BY <1>1 DEF Holder, Saving, Signing, InRequest, At
<1>3. Holder(c)' => Holder(c) /\ calls'[c].token = calls[c].token
  BY DEF KeepsToken, RolledBack, Stepped, Within, Holder, OnlyCall
<1>4. Saving(c)' => Holder(c)' /\ ~provider.rotates
  <2>1. Saving(c)' => calls'[c].http = "persist" /\ calls'[c] # NoCall
    BY DEF Saving, InRequest
  <2>2. Saving(c)' => InProgress(calls'[c]) /\ ~provider.rotates
    BY <2>1 DEF KeepsToken, RolledBack, Stepped, Within
  <2>3. InProgress(calls'[c]) /\ calls'[c].http = "persist" => calls'[c].token \in Tokens
    BY DEF InProgress, Planned
  <2> QED BY <2>1, <2>2, <2>3, NamesAssumption DEF Holder
<1>5. Signing(c)' => Holder(c)' /\ Signing(c)
  <2> SUFFICES ASSUME Signing(c)' PROVE Holder(c)' /\ Signing(c)
    OBVIOUS
  <2>1. calls'[c] # NoCall /\ Head(calls'[c].todo).do \in {"identify", "store"}
    BY DEF Signing, At
  <2>2. ~RolledBack(c)
    BY <2>1, CallKnown, DisconnectPlanned DEF RolledBack, OnlyCall
  <2>3. InProgress(calls'[c])
    BY <2>1, <2>2 DEF KeepsToken, Stepped, Within
  <2>4. Holder(c)'
    BY <2>1, <2>3, NamesAssumption DEF InProgress, Planned, Holder
  <2>5. Head(calls[c].todo).do \in {"identify", "store"}
    BY <2>1, <2>2 DEF KeepsToken, Stepped, Within, Neighbours
  <2> QED BY <2>4, <2>5 DEF Signing, At, OnlyCall
<1>6. \A d \in Calls : Holder(d)' => Holder(d) /\ calls'[d].token = calls[d].token
  BY <1>1, <1>2, <1>3
<1>7. \A d \in Calls : Saving(d) => Saving(d)'
  BY <1>2
<1>8. \A d \in Calls : Saving(d)' => Holder(d)' /\ (Saving(d) \/ ~provider.rotates)
  BY <1>2, <1>4, TokensTyped DEF Sane
<1>9. \A d \in Calls : Signing(d)' => Holder(d)' /\ Signing(d)
  BY <1>2, <1>5, TokensTyped DEF Sane
<1> QED BY <1>6, <1>7, <1>8, <1>9, TokensCarried DEF Sane

(* A step short of storing or removing anything.                            *)
LEMMA StepKeepsOrder ==
  ASSUME Sane, StoresInv, TokensInv, NEW c \in Calls, OnlyCall(c), KeepsToken(c), ~Saving(c),
         Head(calls[c].todo).do = "authorize" => calls'[c] = NoCall,
         Head(calls[c].todo).do \notin {"store", "row", "unstore", "unrow", "clear"},
         provider' = provider, keychain' = keychain,
         row' = row \/ (row # "none" /\ row' # "none"),
         known' = known \/ provider.name = "google" \/ Lists(c),
         grants' \in [1 .. MaxGrants -> Grants],
         \A g \in 1 .. MaxGrants :
           /\ grants'[g].gen = grants[g].gen /\ grants'[g].refresh = grants[g].refresh
           /\ grants'[g].lost = grants[g].lost
  PROVE  Orderly'
<1>1. GoesOn(c)
  BY DEF KeepsToken, GoesOn
<1>2. keychain' \in Tokens \cup {NoToken}
  BY DEF Sane, CallsPlanned
<1>3. CallsPlanned'
  BY <1>1, <1>2, GoesOnOps, PlannedKept
<1>4. StoresInv'
  BY <1>1, PassingStores DEF PassingStep
<1>5. TokensInv'
  BY TokenKept
<1> QED BY <1>3, <1>4, <1>5 DEF Orderly

(* A step of a connect or disconnect that writes to a store other than the  *)
(* keychain, or empties that.                                              *)
LEMMA WriteKeepsOrder ==
  ASSUME Sane, TokensInv, NEW c \in Calls, calls[c] # NoCall, Done(c), StoresInv',
         Head(calls[c].todo).do \in {"row", "unstore", "unrow", "clear"},
         provider' = provider, keychain' \in {keychain, NoToken}, grants' = grants
  PROVE  Orderly'
<1>1. OnlyCall(c) /\ Stepped(c, calls[c].token)
  BY DoneSteps
<1>2. GoesOn(c) /\ KeepsToken(c)
  BY <1>1 DEF GoesOn, KeepsToken
<1>3. keychain' \in Tokens \cup {NoToken} /\ grants' \in [1 .. MaxGrants -> Grants]
  BY DEF Sane, CallsPlanned
<1>4. CallsPlanned'
  BY <1>1, <1>2, <1>3, GoesOnOps, PlannedKept
<1>5. ~Saving(c)
  BY DEF Saving, InRequest
<1>6. TokensInv'
  BY <1>1, <1>2, <1>5, TokenKept
<1> QED BY <1>4, <1>6 DEF Orderly

LEMMA IdentifyOrder ==
  ASSUME Sane, StoresInv, TokensInv, NEW c \in Calls, Identify(c)
  PROVE  Orderly'
<1>1. calls[c] # NoCall /\ Head(calls[c].todo).do = "identify"
  BY DEF Identify, At
<1>2. ~Saving(c)
  BY <1>1 DEF Saving, InRequest
<1>3. OnlyCall(c) /\ KeepsToken(c)
  BY <1>1, DoneSteps, FailsOn DEF Identify, KeepsToken
<1>4. UNCHANGED <<provider, keychain, row, known, grants>> /\ grants' \in [1 .. MaxGrants -> Grants]
  BY DEF Identify, stores, Sane, CallsPlanned
<1> QED BY <1>1, <1>2, <1>3, <1>4, StepKeepsOrder

LEMMA WritesOrder ==
  ASSUME Sane, StoresInv, TokensInv, NEW c \in Calls,
         UpsertRow(c) \/ ClearResources(c) \/ DeleteToken(c) \/ DeleteRow(c)
  PROVE  Orderly'
<1>1. StoresInv'
  BY UpsertStores, ClearStores, DeleteTokenStores, DeleteRowStores
<1>2. /\ calls[c] # NoCall /\ Done(c) /\ Head(calls[c].todo).do \in {"row", "unstore", "unrow", "clear"}
      /\ provider' = provider /\ keychain' \in {keychain, NoToken} /\ grants' = grants
  BY DEF UpsertRow, ClearResources, DeleteToken, DeleteRow, At
<1> QED BY <1>1, <1>2, WriteKeepsOrder

LEMMA StoreOrder ==
  ASSUME Sane, StoresInv, TokensInv, NEW c \in Calls, StoreToken(c)
  PROVE  Orderly'
<1>1. /\ calls[c] # NoCall /\ Head(calls[c].todo).do = "store" /\ calls[c].token \in Tokens
      /\ Signing(c) /\ Holder(c)
  BY CallKnown, NamesAssumption DEF StoreToken, At, Planned, Signing, Holder
<1>2. /\ OnlyCall(c) /\ Stepped(c, calls[c].token) /\ \A d \in Calls \ {c} : calls'[d] = calls[d]
  BY <1>1, DoneSteps DEF StoreToken
<1>3. UNCHANGED <<provider, grants>> /\ keychain' = calls[c].token /\ grants' \in [1 .. MaxGrants -> Grants]
  BY DEF StoreToken, Sane, CallsPlanned
<1>4. CallsPlanned'
  BY <1>1, <1>2, <1>3, GoesOnOps, PlannedKept DEF GoesOn
<1>5. AloneGranted(c)
  BY <1>1 DEF TokensInv, Signing
<1>6. ASSUME provider.rotates, NEW d \in Calls \ {c}, Saving(d) \/ Signing(d)
      PROVE  calls[d].token.grant # calls[c].token.grant
  BY <1>5, <1>6, TokensTyped DEF Sane, AloneGranted
<1>7. /\ Holder(c)' => calls'[c].token = calls[c].token
      /\ ~Saving(c)' /\ ~Signing(c)'
  BY <1>1, <1>2 DEF Stepped, Neighbours, Holder, Saving, Signing, InRequest, At
<1>8. TokensInv'
  BY <1>1, <1>2, <1>3, <1>5, <1>6, <1>7, TokenStored DEF Sane, AloneGranted
<1> QED BY <1>4, <1>8, StoreStores DEF Orderly

LEMMA LookOrder ==
  ASSUME Sane, StoresInv, TokensInv, NEW c \in Calls, UsableAccount(c) \/ PickSelected(c)
  PROVE  Orderly'
<1>1. calls[c] # NoCall /\ Head(calls[c].todo).do \in {"usable", "pick"}
  BY DEF UsableAccount, PickSelected, At
<1>2. Done(c) \/ GoOn(c, <<>>)
  BY DEF UsableAccount, PickSelected
<1>3. ~Saving(c)
  BY <1>1 DEF Saving, InRequest
<1>4. OnlyCall(c) /\ KeepsToken(c)
  BY <1>1, <1>2, DoneSteps, GivenUp DEF KeepsToken
<1>5. UNCHANGED <<provider, keychain, row, known, grants>> /\ grants' \in [1 .. MaxGrants -> Grants]
  BY DEF UsableAccount, PickSelected, stores, Sane, CallsPlanned
<1> QED BY <1>1, <1>3, <1>4, <1>5, StepKeepsOrder

LEMMA RevokeOrder ==
  ASSUME Sane, StoresInv, TokensInv, NEW c \in Calls, Revoke(c)
  PROVE  Orderly'
<1>1. calls[c] # NoCall /\ Head(calls[c].todo).do = "revoke"
  BY DEF Revoke, At
<1>2. ~Saving(c)
  BY <1>1 DEF Saving, InRequest
<1>3. OnlyCall(c) /\ KeepsToken(c)
  BY <1>1, DoneSteps DEF Revoke, KeepsToken
<1>4. UNCHANGED <<provider, keychain, row, known>>
  BY DEF Revoke, stores
<1>5. grants \in [1 .. MaxGrants -> Grants]
  BY DEF Sane, CallsPlanned
<1>6. ASSUME NEW g \in 1 .. MaxGrants, grants' = [grants EXCEPT ![g].open = FALSE]
      PROVE  /\ grants' \in [1 .. MaxGrants -> Grants]
             /\ \A h \in 1 .. MaxGrants :
                  /\ grants'[h].gen = grants[h].gen /\ grants'[h].refresh = grants[h].refresh
                  /\ grants'[h].lost = grants[h].lost
  BY <1>5, <1>6 DEF Grants
<1>7. Revocable(calls[c].token) => calls[c].token.grant \in 1 .. MaxGrants
  BY <1>1, CallKnown DEF Revocable, Planned, Tokens
<1>8. /\ grants' \in [1 .. MaxGrants -> Grants]
      /\ \A h \in 1 .. MaxGrants :
           /\ grants'[h].gen = grants[h].gen /\ grants'[h].refresh = grants[h].refresh
           /\ grants'[h].lost = grants[h].lost
  BY <1>5, <1>6, <1>7 DEF Revoke
<1> QED BY <1>1, <1>2, <1>3, <1>4, <1>8, StepKeepsOrder

LEMMA ReadOrder ==
  ASSUME Sane, StoresInv, TokensInv, NEW c \in Calls, ReadToken(c)
  PROVE  Orderly'
<1>1. calls[c] # NoCall /\ Head(calls[c].todo).do = "read"
  BY DEF ReadToken, At
<1>2. keychain \in Tokens \cup {NoToken} /\ grants \in [1 .. MaxGrants -> Grants]
  BY DEF Sane, CallsPlanned
<1>3. OnlyCall(c) /\ Stepped(c, keychain)
  BY <1>1, <1>2, StepsOn DEF ReadToken, Holding
<1>4. UNCHANGED <<provider, keychain, row, known, grants>>
  BY DEF ReadToken, stores
<1>5. CallsPlanned'
  BY <1>2, <1>3, <1>4, GoesOnOps, PlannedKept DEF GoesOn
<1>6. StoresInv'
  <2>1. PassingStep(c)
    BY <1>1, <1>3, <1>4 DEF PassingStep, GoesOn
  <2> QED BY <2>1, PassingStores
<1>7. \A d \in Calls \ {c} : calls'[d] = calls[d]
  BY <1>3 DEF OnlyCall, Sane, CallsInShape
<1>8. /\ Holder(c)' => calls'[c].token = keychain /\ keychain # NoToken
      /\ ~Saving(c) /\ ~Saving(c)' /\ ~Signing(c)'
  BY <1>1, <1>3 DEF Stepped, Neighbours, Holder, Saving, Signing, InRequest, At
<1>9. TokensInv'
  BY <1>4, <1>7, <1>8, TokenRead DEF Sane
<1> QED BY <1>5, <1>6, <1>9 DEF Orderly

(* Steps of a request.                                                      *)
LEMMA InRequestKnown ==
  ASSUME Sane, NEW c \in Calls, NEW http, InRequest(c, http)
  PROVE  /\ calls[c] # NoCall /\ Head(calls[c].todo).do \in {"list", "fetch"} /\ calls[c].http = http
         /\ calls[c].round \in 0 .. MaxRateRetries /\ calls[c].refreshed \in BOOLEAN
         /\ calls[c].token \in Tokens \cup {NoToken}
         /\ http \in {"send", "exchange", "persist"} => calls[c].token \in Tokens
         /\ http = "persist" => Refreshes
  BY CallKnown DEF InRequest, InShape, Planned, Refreshes

LEMMA LoadOrder ==
  ASSUME Sane, StoresInv, TokensInv, NEW c \in Calls, LoadToken(c)
  PROVE  Orderly'
<1> DEFINE http == IF keychain = NoToken THEN "flag" ELSE "send"
<1>1. InRequest(c, "load") /\ keychain \in Tokens \cup {NoToken} /\ grants \in [1 .. MaxGrants -> Grants]
  BY DEF LoadToken, Sane, CallsPlanned
<1>2. /\ calls[c] # NoCall /\ Head(calls[c].todo).do \in {"list", "fetch"} /\ calls[c].http = "load"
      /\ calls[c].round \in 0 .. MaxRateRetries /\ calls[c].refreshed \in BOOLEAN
  BY <1>1, InRequestKnown
<1>3. calls' = [calls EXCEPT ![c] = Holds(calls[c], keychain, http)]
  BY DEF LoadToken
<1>4. http \in Phases /\ http \in {"send", "flag"} /\ (http = "send" => keychain \in Tokens)
  BY <1>1 DEF Phases
<1> HIDE DEF http
<1>5. calls' = [calls EXCEPT ![c] = With(calls[c], http, keychain, calls[c].round, calls[c].refreshed)]
  <2>1. Holds(calls[c], keychain, http) = With(calls[c], http, keychain, calls[c].round, calls[c].refreshed)
    BY <1>2, CallUpdates DEF Sane
  <2> QED BY <1>3, <2>1, Zenon
<1>6. OnlyCall(c) /\ Within(c, http, keychain)
  BY <1>1, <1>2, <1>4, <1>5, StaysWithin
<1>7. UNCHANGED <<provider, keychain, row, known, grants>>
  BY DEF LoadToken, stores
<1>8. CallsPlanned'
  BY <1>1, <1>6, <1>7, GoesOnOps, PlannedKept DEF GoesOn
<1>9. StoresInv'
  <2>1. PassingStep(c)
    BY <1>2, <1>6, <1>7 DEF PassingStep, GoesOn
  <2> QED BY <2>1, PassingStores
<1>10. \A d \in Calls \ {c} : calls'[d] = calls[d]
  BY <1>6 DEF OnlyCall, Sane, CallsInShape
<1>11. /\ Holder(c)' => calls'[c].token = keychain /\ keychain # NoToken
       /\ ~Saving(c) /\ ~Saving(c)' /\ ~Signing(c)'
  BY <1>2, <1>4, <1>6 DEF Within, Holder, Saving, Signing, InRequest, At
<1>12. TokensInv'
  BY <1>7, <1>10, <1>11, TokenRead DEF Sane
<1> QED BY <1>8, <1>9, <1>12 DEF Orderly

(* Within a request, with the token that the call holds.                    *)
LEMMA HttpWithin ==
  ASSUME Sane, NEW c \in Calls, NEW at, InRequest(c, at), NEW http \in Phases, Http(c, http),
         http \in {"send", "exchange", "persist"} => calls[c].token \in Tokens,
         http = "persist" => Refreshes
  PROVE  OnlyCall(c) /\ Within(c, http, calls[c].token)
<1>1. /\ calls[c] # NoCall /\ Head(calls[c].todo).do \in {"list", "fetch"}
      /\ calls[c].round \in 0 .. MaxRateRetries /\ calls[c].refreshed \in BOOLEAN
      /\ calls[c].token \in Tokens \cup {NoToken}
  BY InRequestKnown
<1>2. calls' = [calls EXCEPT ![c] = With(calls[c], http, calls[c].token, calls[c].round, calls[c].refreshed)]
  BY <1>1, CallUpdates DEF Http, Sane
<1> QED BY <1>1, <1>2, StaysWithin

LEMMA HttpStays ==
  ASSUME Sane, NEW c \in Calls, NEW at, InRequest(c, at), NEW http \in Phases, Http(c, http),
         http \in {"send", "exchange", "persist"} => calls[c].token \in Tokens,
         http = "persist" => Refreshes /\ ~provider.rotates
  PROVE  OnlyCall(c) /\ KeepsToken(c)
  BY HttpWithin DEF KeepsToken

LEMMA SendOrder ==
  ASSUME Sane, StoresInv, TokensInv, NEW c \in Calls, Send(c)
  PROVE  Orderly'
<1> DEFINE this == Head(calls[c].todo)
<1>1. /\ InRequest(c, "send") /\ calls[c] # NoCall /\ this.do \in {"list", "fetch"} /\ calls[c].http = "send"
      /\ calls[c].round \in 0 .. MaxRateRetries /\ calls[c].refreshed \in BOOLEAN /\ calls[c].token \in Tokens
  BY InRequestKnown DEF Send
<1>2. ~Saving(c)
  BY <1>1 DEF Saving, InRequest
<1>3. UNCHANGED <<provider, keychain, row, grants>> /\ grants' \in [1 .. MaxGrants -> Grants]
  BY DEF Send, Sane, CallsPlanned
<1>4. ASSUME OnlyCall(c), KeepsToken(c), known' = known \/ provider.name = "google" \/ Lists(c)
      PROVE  Orderly'
  BY <1>1, <1>2, <1>3, <1>4, StepKeepsOrder
<1>5. ASSUME Fail(c) PROVE OnlyCall(c) /\ KeepsToken(c)
  BY <1>1, <1>5, FailsOn DEF KeepsToken
<1>6. CASE Answered(c)
  <2>1. OnlyCall(c) /\ Stepped(c, calls[c].token)
    BY <1>1, <1>6, DoneSteps DEF Answered
  <2>2. CASE this.do = "fetch"
    BY <1>4, <1>6, <2>1, <2>2 DEF Answered, KeepsToken
  <2>3. CASE this.do = "list"
    <3>1. known' = known \cup {this.of}
      BY <1>6, <2>3 DEF Answered, Upsert
    <3>2. this.of \in Kinds
      BY <1>1, <2>3, CallKnown, TailPlanned
    <3>3. provider.name # "google" => calls[c].op \in {"connect", "refresh"} /\ NeedsRow(calls[c])
      BY <1>1, <2>3, OpOfStep DEF NeedsRow
    <3>4. calls'[c] # NoCall => calls'[c].op = calls[c].op
      BY <2>1 DEF Stepped
    <3>5. provider.name = "google" \/ Lists(c)
      BY <3>1, <3>2, <3>3, <3>4 DEF Lists
    <3> QED BY <1>4, <2>1, <3>5 DEF KeepsToken
  <2> QED BY <1>1, <2>2, <2>3
<1>7. CASE Unauthorized(c)
  <2>1. PICK http \in {"flag", "exchange"} : Http(c, http)
    BY <1>7 DEF Unauthorized
  <2>2. OnlyCall(c) /\ KeepsToken(c)
    BY <1>1, <2>1, HttpStays DEF Phases
  <2> QED BY <1>4, <1>7, <2>2 DEF Unauthorized
<1>8. CASE RateLimited(c)
  <2>1. CASE calls[c].round < MaxRateRetries
    <3>1. calls' = [calls EXCEPT ![c] = With(calls[c], "send", calls[c].token, calls[c].round + 1, calls[c].refreshed)]
      <4>1. calls' = [calls EXCEPT ![c].round = calls[c].round + 1]
        BY <1>8, <2>1 DEF RateLimited
      <4>2. [calls EXCEPT ![c].round = calls[c].round + 1]
              = [calls EXCEPT ![c] = With(calls[c], calls[c].http, calls[c].token, calls[c].round + 1, calls[c].refreshed)]
        BY <1>1, CallUpdates DEF Sane
      <4> QED BY <1>1, <4>1, <4>2, Zenon
    <3>2. calls[c].round + 1 \in 0 .. MaxRateRetries /\ "send" \in Phases
      BY <1>1, <2>1, ConnectionsAssumption DEF Phases
    <3>3. OnlyCall(c) /\ Within(c, "send", calls[c].token)
      BY <1>1, <3>1, <3>2, StaysWithin
    <3>4. KeepsToken(c)
      BY <3>2, <3>3 DEF KeepsToken
    <3> QED BY <1>4, <1>8, <3>3, <3>4 DEF RateLimited
  <2>2. CASE ~(calls[c].round < MaxRateRetries)
    BY <1>4, <1>5, <1>8, <2>2 DEF RateLimited
  <2> QED BY <2>1, <2>2
<1>9. CASE Unanswered(c)
  BY <1>4, <1>5, <1>9 DEF Unanswered
<1> QED BY <1>6, <1>7, <1>8, <1>9 DEF Send

LEMMA FlagOrder ==
  ASSUME Sane, StoresInv, TokensInv, NEW c \in Calls, MarkNeedsReauth(c)
  PROVE  Orderly'
<1>1. calls[c] # NoCall /\ Head(calls[c].todo).do \in {"list", "fetch"} /\ calls[c].http = "flag"
  BY InRequestKnown DEF MarkNeedsReauth
<1>2. ~Saving(c)
  BY <1>1 DEF Saving, InRequest
<1>3. OnlyCall(c) /\ KeepsToken(c)
  BY <1>1, FailsOn DEF MarkNeedsReauth, KeepsToken
<1>4. UNCHANGED <<provider, keychain, known, grants>> /\ grants' \in [1 .. MaxGrants -> Grants]
  BY DEF MarkNeedsReauth, Sane, CallsPlanned
<1>5. row' = row \/ (row # "none" /\ row' # "none")
  BY DEF MarkNeedsReauth
<1> QED BY <1>1, <1>2, <1>3, <1>4, <1>5, StepKeepsOrder

(* The token is stored: by the call that alone holds the one accepted.      *)
LEMMA PersistOrder ==
  ASSUME Sane, StoresInv, TokensInv, NEW c \in Calls, PersistToken(c), faults' = faults, faults \in Nat
  PROVE  Orderly'
<1>1. /\ Saving(c) /\ calls[c] # NoCall /\ Head(calls[c].todo).do \in {"list", "fetch"} /\ calls[c].http = "persist"
      /\ calls[c].round \in 0 .. MaxRateRetries /\ calls[c].token \in Tokens /\ Refreshes
  BY InRequestKnown DEF PersistToken, Saving
<1>2. /\ keychain' = calls[c].token
      /\ IF calls[c].round < MaxRateRetries THEN calls' = [calls EXCEPT ![c] = NextRound(calls[c])] ELSE Fail(c)
  BY DEF PersistToken
<1>3. UNCHANGED <<provider, row, known, grants>> /\ grants' \in [1 .. MaxGrants -> Grants]
  BY DEF PersistToken, Sane, CallsPlanned
<1>4. /\ OnlyCall(c) /\ GoesOn(c)
      /\ calls'[c] # NoCall => /\ calls'[c].token \in {calls[c].token, NoToken} /\ calls'[c].http # "persist"
                               /\ Head(calls'[c].todo).do \notin {"identify", "store"}
  <2>1. CASE calls[c].round < MaxRateRetries
    <3>1. calls' = [calls EXCEPT ![c] = With(calls[c], "send", calls[c].token, calls[c].round + 1, TRUE)]
      <4>1. NextRound(calls[c]) = With(calls[c], "send", calls[c].token, calls[c].round + 1, TRUE)
        BY <1>1, CallUpdates, Zenon DEF Sane
      <4> QED BY <1>2, <2>1, <4>1
    <3>2. calls[c].round + 1 \in 0 .. MaxRateRetries /\ "send" \in Phases
      BY <1>1, <2>1, ConnectionsAssumption DEF Phases
    <3>3. OnlyCall(c) /\ Within(c, "send", calls[c].token)
      BY <1>1, <3>1, <3>2, StaysWithin
    <3> QED BY <1>1, <3>3 DEF GoesOn, Within
  <2>2. CASE ~(calls[c].round < MaxRateRetries)
    <3>1. OnlyCall(c) /\ (calls'[c] = NoCall \/ Stepped(c, calls[c].token) \/ RolledBack(c))
      BY <1>1, <1>2, <2>2, FailsOn
    <3>2. Head(Disconnect).do \in {"read", "clear"}
      BY <1>1, CallKnown, DisconnectPlanned
    <3> QED BY <1>1, <3>1, <3>2 DEF GoesOn, Stepped, RolledBack, Neighbours
  <2> QED BY <2>1, <2>2
<1>5. CallsPlanned'
  BY <1>1, <1>2, <1>3, <1>4, GoesOnOps, PlannedKept
<1>6. StoresInv'
  <2>1. PassingStep(c)
    BY <1>1, <1>2, <1>3, <1>4 DEF PassingStep
  <2> QED BY <2>1, PassingStores
<1>7. \A d \in Calls \ {c} : calls'[d] = calls[d]
  BY <1>4 DEF OnlyCall, Sane, CallsInShape
<1>8. AloneFresh(c) /\ Holder(c)
  BY <1>1, TokensTyped DEF TokensInv, Saving, Sane
<1>9. ASSUME provider.rotates, NEW d \in Calls \ {c}, Saving(d) \/ Signing(d)
      PROVE  calls[d].token.grant # calls[c].token.grant
  <2>1. Holder(d) /\ Fresh(calls[d].token)
    BY <1>9, TokensTyped DEF TokensInv, Saving, Signing, Sane, AloneFresh, AloneGranted
  <2> QED BY <1>8, <1>9, <2>1 DEF AloneFresh
<1>10. (Holder(c)' => calls'[c].token = calls[c].token) /\ ~Saving(c)' /\ ~Signing(c)'
  BY <1>4 DEF Holder, Saving, Signing, InRequest, At
<1>11. TokensInv'
  BY <1>2, <1>3, <1>7, <1>8, <1>9, <1>10, TokenStored DEF Sane, AloneFresh
<1> QED BY <1>5, <1>6, <1>11 DEF Orderly

LEMMA TokenUpdated ==
  ASSUME NEW token \in Tokens, NEW a, NEW r
  PROVE  [token EXCEPT !.access = a, !.refresh = r]
           = [grant |-> token.grant, access |-> a, refresh |-> r, source |-> token.source]
<1>1. PICK g, b, f, s : token = [grant |-> g, access |-> b, refresh |-> f, source |-> s]
  BY DEF Tokens
<1>2. token.grant = g /\ token.source = s
  BY <1>1
<1>3. [token EXCEPT !.access = a] = [grant |-> g, access |-> a, refresh |-> f, source |-> s]
  BY <1>1
<1>4. ASSUME NEW y, y = [token EXCEPT !.access = a]
      PROVE  [y EXCEPT !.refresh = r] = [grant |-> g, access |-> a, refresh |-> r, source |-> s]
  <2>1. y = [grant |-> g, access |-> a, refresh |-> f, source |-> s]
    BY <1>3, <1>4
  <2> QED BY <2>1
<1> QED BY <1>2, <1>4

(* What an exchange does at the provider.                                   *)
LEMMA Exchanged ==
  ASSUME Sane, NEW c \in Calls, NEW token \in Tokens, Exchange(c, token)
  PROVE  \E next \in Tokens :
           /\ next.grant = token.grant /\ Fresh(token)
           /\ next.refresh = (IF provider.rotates THEN grants[token.grant].gen + 1 ELSE token.refresh)
           /\ grants' \in [1 .. MaxGrants -> Grants]
           /\ grants'[token.grant].gen = grants[token.grant].gen + 1
           /\ grants'[token.grant].refresh = next.refresh
           /\ \A g \in 1 .. MaxGrants \ {token.grant} : grants'[g] = grants[g]
           /\ \/ calls' = [calls EXCEPT ![c] = Holds(calls[c], next, "persist")]
              \/ Http(c, "flag") /\ (provider.rotates => grants'[token.grant].lost)
<1> DEFINE g == token.grant
           gen == grants[g].gen + 1
           next == [token EXCEPT !.access = gen, !.refresh = NextRefresh(token, gen)]
<1>1. /\ g \in 1 .. MaxGrants /\ token.refresh \in 0 .. MaxGens
      /\ token = [grant |-> g, access |-> token.access, refresh |-> token.refresh, source |-> token.source]
      /\ token.source \in Sources
  BY DEF Tokens
<1>2. /\ grants \in [1 .. MaxGrants -> Grants] /\ grants[g] \in Grants
      /\ grants[g] = [gen |-> grants[g].gen, expired |-> grants[g].expired, refresh |-> grants[g].refresh,
                      open |-> grants[g].open, lost |-> grants[g].lost]
      /\ grants[g].lost \in BOOLEAN
  BY <1>1 DEF Sane, CallsPlanned, Grants
<1>3. gen \in 1 .. MaxGens /\ gen <= MaxGens /\ Fresh(token)
  <2>1. grants[g].gen \in 0 .. MaxGens /\ gen <= MaxGens /\ MaxGens \in Nat
    BY <1>2, ConnectionsAssumption DEF Grants, Exchange
  <2> QED BY <2>1 DEF Exchange, Fresh
<1>4. NextRefresh(token, gen) \in 0 .. MaxGens
  BY <1>1, <1>3 DEF NextRefresh
<1>5. next = [grant |-> g, access |-> gen, refresh |-> NextRefresh(token, gen), source |-> token.source]
  BY TokenUpdated
<1>6. next \in Tokens /\ next.grant = g /\ next.refresh = NextRefresh(token, gen)
  <2> HIDE DEF g, gen
  <2> QED BY <1>1, <1>3, <1>4, <1>5 DEF Tokens
<1>7. PICK arrives \in BOOLEAN :
        /\ grants' = [grants EXCEPT ![g] =
                        [gen |-> gen, expired |-> grants[g].expired,
                         refresh |-> IF provider.rotates THEN gen ELSE grants[g].refresh,
                         open |-> grants[g].open, lost |-> grants[g].lost \/ (provider.rotates /\ ~arrives)]]
        /\ IF arrives THEN calls' = [calls EXCEPT ![c] = Holds(@, next, "persist")] ELSE Http(c, "flag")
  BY DEF Exchange
<1>8. /\ grants' \in [1 .. MaxGrants -> Grants] /\ grants'[g].gen = gen /\ grants'[g].refresh = next.refresh
      /\ grants'[g].lost = (grants[g].lost \/ (provider.rotates /\ ~arrives))
      /\ \A h \in 1 .. MaxGrants \ {g} : grants'[h] = grants[h]
  <2>1. next.refresh = IF provider.rotates THEN gen ELSE grants[g].refresh
    BY <1>3, <1>6 DEF NextRefresh, Fresh
  <2>2. next.refresh \in 0 .. MaxGens /\ gen \in 0 .. MaxGens
    BY <1>3, <1>4, <1>6
  <2> DEFINE was == grants[g].lost \/ (provider.rotates /\ ~arrives)
  <2>3. was \in BOOLEAN
    BY <1>2
  <2>4. grants' = [grants EXCEPT ![g] = [gen |-> gen, expired |-> grants[g].expired, refresh |-> next.refresh,
                                        open |-> grants[g].open, lost |-> was]]
    <3> HIDE DEF next, gen, g
    <3> QED BY <1>7, <2>1, Zenon
  <2>5. [gen |-> gen, expired |-> grants[g].expired, refresh |-> next.refresh, open |-> grants[g].open,
         lost |-> was] \in Grants
    <3> HIDE DEF next, gen, was
    <3> QED BY <1>2, <2>2, <2>3 DEF Grants
  <2> HIDE DEF next, gen, was
  <2>6. /\ grants' \in [1 .. MaxGrants -> Grants] /\ grants'[g].gen = gen /\ grants'[g].refresh = next.refresh
        /\ grants'[g].lost = was /\ \A h \in 1 .. MaxGrants \ {g} : grants'[h] = grants[h]
    BY <1>1, <1>2, <2>4, <2>5
  <2> QED BY <2>6 DEF was
<1>9. next.refresh = IF provider.rotates THEN gen ELSE token.refresh
  BY <1>6 DEF NextRefresh
<1> HIDE DEF next
<1> QED BY <1>3, <1>6, <1>7, <1>8, <1>9

(* The call now holds the one refresh token that the provider accepts; where *)
(* refresh tokens rotate, whoever else held it has an old one.  If the       *)
(* answer did not arrive, the call too holds what it held, an old one.      *)
LEMMA ExchangeTokens ==
  ASSUME Sane, TokensInv, NEW c \in Calls, Holder(c), ~Signing(c), ~Signing(c)', Fresh(calls[c].token),
         provider' = provider, keychain' = keychain, NEW next \in Tokens, next.grant = calls[c].token.grant,
         next.refresh = (IF provider.rotates THEN grants[next.grant].gen + 1 ELSE calls[c].token.refresh),
         grants' \in [1 .. MaxGrants -> Grants],
         grants'[next.grant].gen = grants[next.grant].gen + 1, grants'[next.grant].refresh = next.refresh,
         \A h \in 1 .. MaxGrants \ {next.grant} : grants'[h] = grants[h],
         \A d \in Calls \ {c} : calls'[d] = calls[d],
         \/ Saving(c)' /\ calls'[c].token = next
         \/ /\ ~Saving(c)' /\ calls'[c].token = calls[c].token
            /\ provider.rotates => grants'[next.grant].lost
  PROVE  TokensInv'
<1> DEFINE g == next.grant
<1>1. /\ g \in 1 .. MaxGrants /\ grants[g].gen \in Nat /\ next # NoToken
      /\ \A h \in 1 .. MaxGrants : grants[h].gen \in Nat /\ grants[h].refresh \in Nat
  <2>1. next.grant \in 1 .. MaxGrants
    BY TokensTyped DEF Sane
  <2>2. grants \in [1 .. MaxGrants -> Grants] /\ \A grant \in Grants : grant.gen \in Nat /\ grant.refresh \in Nat
    BY ConnectionsAssumption DEF Sane, CallsPlanned, Grants
  <2>3. \A h \in 1 .. MaxGrants : grants[h].gen \in Nat /\ grants[h].refresh \in Nat
    BY <2>2
  <2> QED BY <2>1, <2>3, NamesAssumption
<1>2. \A d \in Calls \ {c} : /\ (Holder(d)' <=> Holder(d)) /\ (Saving(d)' <=> Saving(d))
                             /\ (Signing(d)' <=> Signing(d))
  BY DEF Holder, Saving, Signing, InRequest, At
<1>3. ASSUME NEW token \in Tokens, Sound(token)
      PROVE  /\ grants'[token.grant].gen # 0
             /\ IF provider'.rotates THEN token.refresh <= grants'[token.grant].gen
                ELSE token.refresh = grants'[token.grant].refresh
             /\ token.grant = g /\ provider.rotates => token.refresh # grants'[token.grant].refresh
             /\ token.grant # g => grants'[token.grant] = grants[token.grant]
  <2>1. token.grant \in 1 .. MaxGrants /\ token.refresh \in Nat
    BY <1>3, TokensTyped DEF Sane
  <2>2. CASE token.grant # g
    BY <1>3, <2>1, <2>2 DEF Sound, Fresh
  <2>3. CASE token.grant = g
    BY <1>1, <1>3, <2>1, <2>3 DEF Sound, Fresh
  <2> QED BY <2>2, <2>3
<1>4. \A d \in Calls : Holder(d) => calls[d].token \in Tokens /\ Sound(calls[d].token)
  BY TokensTyped DEF Sane, TokensInv
<1>5. keychain # NoToken => keychain \in Tokens /\ Sound(keychain)
  BY TokensTyped DEF Sane, TokensInv
<1>6. provider'.rotates => \A h \in 1 .. MaxGrants : grants'[h].refresh = grants'[h].gen
  BY DEF TokensInv
<1>7. keychain' # NoToken => Sound(keychain)'
  BY <1>3, <1>5 DEF Sound, Fresh
<1>8. ASSUME NEW d \in Calls, Holder(d)' PROVE Sound(calls[d].token)'
  <2>1. CASE d = c /\ calls'[c].token = next
    <3>1. grants'[g].gen # 0 /\ next.refresh = grants'[g].refresh
      BY <1>1
    <3>2. provider.rotates => next.refresh <= grants'[g].gen
      BY <1>1
    <3> QED BY <2>1, <3>1, <3>2 DEF Sound, Fresh
  <2>2. CASE Holder(d) /\ calls'[d].token = calls[d].token
    <3>1. calls'[d].token = calls[d].token /\ Holder(d)
      BY <2>2
    <3>2. calls[d].token \in Tokens /\ Sound(calls[d].token)
      BY <1>4, <3>1
    <3>3. /\ grants'[calls[d].token.grant].gen # 0
          /\ IF provider'.rotates THEN calls[d].token.refresh <= grants'[calls[d].token.grant].gen
             ELSE calls[d].token.refresh = grants'[calls[d].token.grant].refresh
      BY <1>3, <3>2
    <3> QED BY <3>1, <3>3 DEF Sound, Fresh
  <2>3. d = c => calls'[c].token = next \/ (Holder(d) /\ calls'[d].token = calls[d].token)
    OBVIOUS
  <2>4. d # c => Holder(d) /\ calls'[d].token = calls[d].token
    BY <1>2, <1>8
  <2> QED BY <2>1, <2>2, <2>3, <2>4
<1>9. ASSUME Saving(c)' PROVE AloneFresh(c)'
  <2>1. Fresh(calls[c].token)' /\ calls'[c].token = next
    BY <1>9 DEF Fresh
  <2>2. ASSUME provider.rotates, NEW d \in Calls \ {c}, Holder(d)', calls'[d].token.grant = g
        PROVE  ~Fresh(calls[d].token)'
    BY <1>2, <1>3, <1>4, <2>2 DEF Fresh
  <2>3. ASSUME provider.rotates, keychain' # NoToken, keychain'.grant = g
        PROVE  ~Fresh(keychain)'
    BY <1>3, <1>5, <2>3 DEF Fresh
  <2> QED BY <2>1, <2>2, <2>3 DEF AloneFresh
<1>10. ASSUME NEW d \in Calls \ {c}, Saving(d)' PROVE AloneFresh(d)'
  <2>1. Saving(d) /\ AloneFresh(d) /\ Holder(d) /\ calls[d].token \in Tokens /\ Sound(calls[d].token)
        /\ calls'[d] = calls[d]
    BY <1>2, <1>4, <1>10, TokensTyped DEF TokensInv, Saving, Sane
  <2>2. CASE ~provider.rotates
    BY <1>3, <2>1, <2>2 DEF AloneFresh, Fresh
  <2>3. CASE provider.rotates
    <3>1. calls[d].token.grant # g
      BY <2>1, <2>3 DEF AloneFresh
    <3>2. Fresh(calls[d].token)'
      <4>1. grants'[calls[d].token.grant] = grants[calls[d].token.grant]
        BY <1>3, <2>1, <3>1
      <4> QED BY <2>1, <4>1 DEF AloneFresh, Fresh
    <3>3. ASSUME NEW e \in Calls \ {d}, Holder(e)', calls'[e].token.grant = calls'[d].token.grant
          PROVE  ~Fresh(calls[e].token)'
      <4>0. e # c
        BY <2>1, <3>1, <3>3
      <4>1. e # c /\ Holder(e) /\ calls'[e] = calls[e]
        BY <1>2, <3>3, <4>0
      <4>2. ~Fresh(calls[e].token) /\ calls[e].token \in Tokens /\ Sound(calls[e].token)
        BY <1>4, <2>1, <2>3, <3>3, <4>1 DEF AloneFresh
      <4>3. calls[e].token.grant # g
        BY <2>1, <3>1, <3>3, <4>1
      <4>4. grants'[calls[e].token.grant] = grants[calls[e].token.grant]
        BY <1>3, <4>2, <4>3
      <4> QED BY <4>1, <4>2, <4>4 DEF Fresh
    <3>4. ASSUME keychain' # NoToken, keychain'.grant = calls'[d].token.grant PROVE ~Fresh(keychain)'
      <4>1. ~Fresh(keychain) /\ keychain \in Tokens /\ Sound(keychain) /\ keychain.grant # g
        BY <1>5, <2>1, <2>3, <3>1, <3>4 DEF AloneFresh
      <4>2. grants'[keychain.grant] = grants[keychain.grant]
        BY <1>3, <4>1
      <4> QED BY <4>1, <4>2 DEF Fresh
    <3> QED BY <3>2, <3>3, <3>4 DEF AloneFresh
  <2> QED BY <2>2, <2>3
<1>11. ASSUME NEW d \in Calls, Signing(d)' PROVE AloneGranted(d)'
  <2>1. /\ d # c /\ Signing(d) /\ AloneGranted(d) /\ Holder(d) /\ calls[d].token \in Tokens /\ Sound(calls[d].token)
        /\ calls'[d] = calls[d]
    BY <1>2, <1>4, <1>11, TokensTyped DEF TokensInv, Signing, Sane
  <2>2. CASE ~provider.rotates
    BY <1>3, <2>1, <2>2 DEF AloneGranted, Fresh
  <2>3. CASE provider.rotates
    <3>1. calls[d].token.grant # g
      BY <2>1, <2>3 DEF AloneGranted
    <3>2. Fresh(calls[d].token)'
      <4>1. grants'[calls[d].token.grant] = grants[calls[d].token.grant]
        BY <1>3, <2>1, <3>1
      <4> QED BY <2>1, <4>1 DEF AloneGranted, Fresh
    <3>3. ASSUME NEW e \in Calls \ {d}, Holder(e)' PROVE calls'[e].token.grant # calls'[d].token.grant
      <4>1. CASE e = c
        BY <2>1, <3>1, <4>1
      <4>2. CASE e # c
        <5>1. Holder(e) /\ calls'[e] = calls[e]
          BY <1>2, <3>3, <4>2
        <5> QED BY <2>1, <2>3, <3>3, <5>1 DEF AloneGranted
      <4> QED BY <4>1, <4>2
    <3>4. keychain' # NoToken => keychain'.grant # calls'[d].token.grant
      BY <2>1, <2>3 DEF AloneGranted
    <3> QED BY <3>2, <3>3, <3>4 DEF AloneGranted
  <2> QED BY <2>2, <2>3
<1>12. ASSUME keychain' # NoToken
       PROVE  Settled(keychain)' \/ \E d \in Calls : Saving(d)' /\ calls'[d].token.grant = keychain'.grant
  <2>1. CASE keychain.grant = g
    <3>1. CASE Saving(c)'
      BY <2>1, <3>1
    <3>2. CASE ~Saving(c)' /\ provider.rotates
      BY <2>1, <3>2 DEF Settled
    <3>3. CASE ~provider.rotates
      BY <1>3, <1>5, <1>12, <3>3 DEF Settled, Fresh
    <3> QED BY <3>1, <3>2, <3>3
  <2>2. CASE keychain.grant # g
    <3>1. grants'[keychain.grant] = grants[keychain.grant]
      BY <1>3, <1>5, <1>12, <2>2
    <3>2. Settled(keychain) \/ \E d \in Calls : Saving(d) /\ calls[d].token.grant = keychain.grant
      BY <1>12 DEF TokensInv, Saving
    <3>3. CASE Settled(keychain)
      BY <3>1, <3>3 DEF Settled, Fresh
    <3>4. ASSUME NEW d \in Calls, Saving(d), calls[d].token.grant = keychain.grant
          PROVE  Saving(d)' /\ calls'[d].token.grant = keychain'.grant
      BY <1>2, <2>2, <3>4
    <3> QED BY <3>2, <3>3, <3>4
  <2> QED BY <2>1, <2>2
<1> QED BY <1>6, <1>7, <1>8, <1>9, <1>10, <1>11, <1>12 DEF TokensInv, Saving, Signing

LEMMA RefreshOrder ==
  ASSUME Sane, StoresInv, TokensInv, NEW c \in Calls, RefreshToken(c)
  PROVE  Orderly'
<1>1. /\ InRequest(c, "exchange") /\ calls[c] # NoCall /\ Head(calls[c].todo).do \in {"list", "fetch"}
      /\ calls[c].http = "exchange" /\ calls[c].token \in Tokens
      /\ calls[c].round \in 0 .. MaxRateRetries /\ calls[c].refreshed \in BOOLEAN
  BY InRequestKnown DEF RefreshToken
<1>2. UNCHANGED <<provider, keychain, row, known>> /\ ~Saving(c) /\ ~Signing(c) /\ Holder(c)
  BY <1>1, NamesAssumption DEF RefreshToken, stores, Saving, Signing, InRequest, At, Holder
<1>3. ASSUME NEW http \in {"persist", "flag"}, Http(c, http), grants' = grants,
             http = "persist" => Refreshes /\ ~provider.rotates
      PROVE  Orderly'
  <2>1. OnlyCall(c) /\ KeepsToken(c)
    BY <1>1, <1>3, HttpStays DEF Phases
  <2>2. grants' \in [1 .. MaxGrants -> Grants]
    BY <1>3 DEF Sane, CallsPlanned
  <2> QED BY <1>1, <1>2, <1>3, <2>1, <2>2, StepKeepsOrder
<1>4. CASE Refreshes /\ Exchange(c, calls[c].token)
  <2>1. PICK next \in Tokens :
           /\ next.grant = calls[c].token.grant /\ Fresh(calls[c].token)
           /\ next.refresh = (IF provider.rotates THEN grants[calls[c].token.grant].gen + 1 ELSE calls[c].token.refresh)
           /\ grants' \in [1 .. MaxGrants -> Grants]
           /\ grants'[calls[c].token.grant].gen = grants[calls[c].token.grant].gen + 1
           /\ grants'[calls[c].token.grant].refresh = next.refresh
           /\ \A g \in 1 .. MaxGrants \ {calls[c].token.grant} : grants'[g] = grants[g]
           /\ \/ calls' = [calls EXCEPT ![c] = Holds(calls[c], next, "persist")]
              \/ Http(c, "flag") /\ (provider.rotates => grants'[calls[c].token.grant].lost)
    BY <1>1, <1>4, Exchanged
  <2>2. ASSUME calls' = [calls EXCEPT ![c] = Holds(calls[c], next, "persist")]
        PROVE  OnlyCall(c) /\ Within(c, "persist", next)
    <3>1. Holds(calls[c], next, "persist") = With(calls[c], "persist", next, calls[c].round, calls[c].refreshed)
      BY <1>1, CallUpdates DEF Sane
    <3>2. calls' = [calls EXCEPT ![c] = With(calls[c], "persist", next, calls[c].round, calls[c].refreshed)]
      BY <2>2, <3>1
    <3> QED BY <1>1, <1>4, <3>2, StaysWithin DEF Phases
  <2>3. \/ OnlyCall(c) /\ Within(c, "persist", next)
        \/ /\ OnlyCall(c) /\ Within(c, "flag", calls[c].token)
           /\ provider.rotates => grants'[calls[c].token.grant].lost
    <3>1. Http(c, "flag") => OnlyCall(c) /\ Within(c, "flag", calls[c].token)
      BY <1>1, HttpWithin DEF Phases
    <3> QED BY <2>1, <2>2, <3>1
  <2>4. keychain' \in Tokens \cup {NoToken}
    BY <1>2 DEF Sane, CallsPlanned
  <2>5. OnlyCall(c) /\ GoesOn(c)
    BY <2>3 DEF GoesOn
  <2>6. CallsPlanned'
    BY <1>2, <2>1, <2>4, <2>5, GoesOnOps, PlannedKept
  <2>7. StoresInv'
    <3>1. PassingStep(c)
      BY <1>1, <1>2, <2>5 DEF PassingStep
    <3> QED BY <3>1, PassingStores
  <2>10. \A d \in Calls \ {c} : calls'[d] = calls[d]
    BY <2>5 DEF OnlyCall, Sane, CallsInShape
  <2>8. /\ ~Signing(c)'
        /\ \/ Saving(c)' /\ calls'[c].token = next
           \/ /\ ~Saving(c)' /\ calls'[c].token = calls[c].token
              /\ provider.rotates => grants'[calls[c].token.grant].lost
    <3>1. CASE Within(c, "persist", next)
      BY <1>1, <3>1 DEF Within, InProgress, Saving, Signing, InRequest, At
    <3>2. CASE Within(c, "flag", calls[c].token) /\ (provider.rotates => grants'[calls[c].token.grant].lost)
      BY <1>1, <3>2 DEF Within, InProgress, Saving, Signing, InRequest, At
    <3> QED BY <2>3, <3>1, <3>2
  <2>9. TokensInv'
    <3>1. Holder(c) /\ ~Signing(c) /\ ~Signing(c)' /\ Fresh(calls[c].token) /\ UNCHANGED <<provider, keychain>>
      BY <1>2, <2>1, <2>8
    <3>2. /\ next.refresh = (IF provider.rotates THEN grants[next.grant].gen + 1 ELSE calls[c].token.refresh)
          /\ grants' \in [1 .. MaxGrants -> Grants]
          /\ grants'[next.grant].gen = grants[next.grant].gen + 1 /\ grants'[next.grant].refresh = next.refresh
          /\ \A h \in 1 .. MaxGrants \ {next.grant} : grants'[h] = grants[h]
      BY <2>1
    <3>3. \/ Saving(c)' /\ calls'[c].token = next
          \/ /\ ~Saving(c)' /\ calls'[c].token = calls[c].token
             /\ provider.rotates => grants'[next.grant].lost
      BY <2>1, <2>8
    <3> QED BY <2>1, <2>10, <3>1, <3>2, <3>3, ExchangeTokens
  <2> QED BY <2>6, <2>7, <2>9 DEF Orderly
<1>5. CASE Refreshes /\ StillValid(c, calls[c].token)
  <2>1. ~provider.rotates
    BY <1>5 DEF StillValid, Sane, CallsPlanned
  <2> QED BY <1>3, <1>5, <2>1 DEF StillValid
<1>6. CASE Http(c, "flag") /\ UNCHANGED grants
  BY <1>3, <1>6
<1> QED BY <1>4, <1>5, <1>6 DEF RefreshToken

(* A new grant: nobody has a token of it yet.                               *)
LEMMA GrantTokens ==
  ASSUME Sane, TokensInv, NEW c \in Calls, calls[c] # NoCall, Head(calls[c].todo).do = "authorize",
         provider' = provider, NEW g \in 1 .. MaxGrants, grants[g].gen = 0,
         NEW token \in Tokens, token.grant = g, Refreshes => token.refresh = 1,
         grants' \in [1 .. MaxGrants -> Grants], grants'[g].gen = 1, grants'[g].refresh = token.refresh,
         \A h \in 1 .. MaxGrants \ {g} : grants'[h] = grants[h],
         keychain' = keychain \/ (keychain' = token /\ ~provider.rotates),
         \A d \in Calls \ {c} : calls'[d] = calls[d],
         Holder(c)' => calls'[c].token = token, ~Saving(c)', Signing(c)' => Holder(c)'
  PROVE  TokensInv'
<1>1. \A d \in Calls \ {c} : /\ (Holder(d)' <=> Holder(d)) /\ (Saving(d)' <=> Saving(d))
                             /\ (Signing(d)' <=> Signing(d))
  BY DEF Holder, Saving, Signing, InRequest, At
<1>2. ASSUME NEW t \in Tokens, Sound(t) PROVE t.grant # g /\ grants'[t.grant] = grants[t.grant]
  BY <1>2, TokensTyped DEF Sound, Sane
<1>3. \A d \in Calls : Holder(d) => calls[d].token \in Tokens /\ Sound(calls[d].token)
  BY TokensTyped DEF Sane, TokensInv
<1>4. keychain # NoToken => keychain \in Tokens /\ Sound(keychain)
  BY TokensTyped DEF Sane, TokensInv
<1>5. provider'.rotates => \A h \in 1 .. MaxGrants : grants'[h].refresh = grants'[h].gen
  <2>1. provider.rotates => Refreshes
    BY DEF Sane, CallsPlanned, Refreshes
  <2> QED BY <2>1 DEF TokensInv
<1>6. ASSUME NEW t, t = token
      PROVE  grants'[t.grant].gen # 0 /\ t.refresh = grants'[t.grant].refresh
             /\ (provider.rotates => t.refresh <= grants'[t.grant].gen)
  <2>1. provider.rotates => Refreshes
    BY DEF Sane, CallsPlanned, Refreshes
  <2> QED BY <1>6, <2>1
<1>7. ASSUME NEW d \in Calls \ {c}, Holder(d)'
      PROVE  /\ calls'[d] = calls[d] /\ calls[d].token \in Tokens /\ Sound(calls[d].token)
             /\ calls[d].token.grant # g /\ grants'[calls[d].token.grant] = grants[calls[d].token.grant]
  BY <1>1, <1>2, <1>3, <1>7
<1>8. ASSUME NEW d \in Calls, Holder(d)' PROVE Sound(calls[d].token)'
  <2>1. CASE d = c
    BY <1>6, <1>8, <2>1 DEF Sound, Fresh
  <2>2. CASE d # c
    BY <1>7, <1>8, <2>2 DEF Sound, Fresh
  <2> QED BY <2>1, <2>2
<1>9. ASSUME NEW d \in Calls, Saving(d)' PROVE AloneFresh(d)'
  <2>1. /\ d # c /\ Saving(d) /\ AloneFresh(d) /\ Holder(d)' /\ calls'[d] = calls[d]
        /\ calls[d].token.grant # g /\ grants'[calls[d].token.grant] = grants[calls[d].token.grant]
    BY <1>1, <1>7, <1>9, TokensTyped DEF TokensInv, Saving, Sane
  <2>2. Fresh(calls[d].token)'
    BY <2>1 DEF AloneFresh, Fresh
  <2>3. ASSUME provider.rotates, NEW e \in Calls \ {d}, Holder(e)', calls'[e].token.grant = calls'[d].token.grant
        PROVE  ~Fresh(calls[e].token)'
    <3>1. e # c
      BY <2>1, <2>3
    <3>2. ~Fresh(calls[e].token) /\ calls'[e] = calls[e] /\ grants'[calls[e].token.grant] = grants[calls[e].token.grant]
      BY <1>1, <1>7, <2>1, <2>3, <3>1 DEF AloneFresh
    <3> QED BY <3>2 DEF Fresh
  <2>4. ASSUME provider.rotates, keychain' # NoToken, keychain'.grant = calls'[d].token.grant
        PROVE  ~Fresh(keychain)'
    <3>1. keychain' = keychain
      BY <2>4
    <3>2. ~Fresh(keychain) /\ grants'[keychain.grant] = grants[keychain.grant]
      BY <1>2, <1>4, <2>1, <2>4, <3>1 DEF AloneFresh
    <3> QED BY <3>1, <3>2 DEF Fresh
  <2> QED BY <2>2, <2>3, <2>4 DEF AloneFresh
<1>10. ASSUME NEW d \in Calls, Signing(d)' PROVE AloneGranted(d)'
  <2>1. CASE d = c
    <3>1. calls'[c].token = token
      BY <1>10, <2>1
    <3>2. Fresh(calls[c].token)'
      BY <1>6, <3>1 DEF Fresh
    <3>3. \A e \in Calls \ {c} : Holder(e)' => calls'[e].token.grant # g
      BY <1>7
    <3>4. provider.rotates /\ keychain' # NoToken => keychain'.grant # g
      BY <1>2, <1>4
    <3> QED BY <2>1, <3>1, <3>2, <3>3, <3>4 DEF AloneGranted
  <2>2. CASE d # c
    <3>1. /\ Signing(d) /\ AloneGranted(d) /\ Holder(d)' /\ calls'[d] = calls[d]
          /\ calls[d].token.grant # g /\ grants'[calls[d].token.grant] = grants[calls[d].token.grant]
      BY <1>1, <1>7, <1>10, <2>2, TokensTyped DEF TokensInv, Signing, Sane
    <3>2. Fresh(calls[d].token)'
      BY <3>1 DEF AloneGranted, Fresh
    <3>3. ASSUME provider.rotates, NEW e \in Calls \ {d}, Holder(e)'
          PROVE  calls'[e].token.grant # calls'[d].token.grant
      <4>1. CASE e = c
        BY <3>1, <3>3, <4>1
      <4>2. CASE e # c
        BY <1>1, <3>1, <3>3, <4>2 DEF AloneGranted
      <4> QED BY <4>1, <4>2
    <3>4. provider.rotates /\ keychain' # NoToken => keychain'.grant # calls'[d].token.grant
      BY <3>1 DEF AloneGranted
    <3> QED BY <3>2, <3>3, <3>4 DEF AloneGranted
  <2> QED BY <2>1, <2>2
<1>11. ASSUME keychain' # NoToken
       PROVE  Sound(keychain)' /\ (Settled(keychain)' \/ \E d \in Calls : Saving(d)' /\ calls'[d].token.grant = keychain'.grant)
  <2>1. CASE keychain' = token /\ ~provider.rotates
    BY <1>6, <2>1 DEF Sound, Settled, Fresh
  <2>2. CASE keychain' = keychain
    <3>1. keychain \in Tokens /\ Sound(keychain) /\ grants'[keychain.grant] = grants[keychain.grant]
      BY <1>2, <1>4, <1>11, <2>2
    <3>2. Settled(keychain) \/ \E d \in Calls : Saving(d) /\ calls[d].token.grant = keychain.grant
      BY <1>11, <2>2 DEF TokensInv, Saving
    <3>3. \A d \in Calls : Saving(d) => d # c /\ Saving(d)' /\ calls'[d] = calls[d]
      BY <1>1 DEF Saving, InRequest
    <3> QED BY <2>2, <3>1, <3>2, <3>3 DEF Sound, Settled, Fresh
  <2> QED BY <2>1, <2>2
<1> QED BY <1>5, <1>8, <1>9, <1>10, <1>11 DEF TokensInv, Saving, Signing

LEMMA AuthorizeOrder ==
  ASSUME Sane, StoresInv, TokensInv, NEW c \in Calls, Authorize(c)
  PROVE  Orderly'
<1>1. /\ calls[c] # NoCall /\ Head(calls[c].todo).do = "authorize" /\ provider.name \in Providers
      /\ calls[c].op = "connect" /\ UNCHANGED <<provider, mode, row, known, selected, faults>>
      /\ grants \in [1 .. MaxGrants -> Grants] /\ keychain \in Tokens \cup {NoToken}
  BY CallKnown, OpOfStep DEF Authorize, At, Sane, CallsPlanned
<1>2. ~Saving(c)
  BY <1>1 DEF Saving, InRequest
<1>3. CASE Fail(c) /\ UNCHANGED <<grants, keychain>>
  <2>1. Recovery(c) = <<>>
    BY <1>1 DEF Recovery
  <2>2. OnlyCall(c) /\ calls'[c] = NoCall
    BY <1>1, <1>3, <2>1 DEF Fail, Going, OnlyCall, Sane, CallsInShape
  <2> QED BY <1>1, <1>2, <1>3, <2>2, StepKeepsOrder DEF KeepsToken
<1>4. ASSUME NEW g \in 1 .. MaxGrants, NEW pat \in BOOLEAN, grants[g].gen = 0,
             NEW token, token = [grant |-> g, access |-> 1, refresh |-> IF Refreshes THEN 1 ELSE 0, source |-> Source(pat)],
             grants' = [grants EXCEPT ![g] = [gen |-> 1, expired |-> 0, refresh |-> token.refresh, open |-> TRUE,
                                           lost |-> FALSE]],
             keychain' = (IF provider.name = "google" /\ mode = "local" THEN token ELSE keychain),
             Holding(c, token)
      PROVE  Orderly'
  <2>1. token.grant = g /\ (Refreshes => token.refresh = 1) /\ token.refresh \in 0 .. 1
    BY <1>4
  <2>2. token \in Tokens
    <3>1. Source(pat) \in Sources
      BY DEF Source, Sources
    <3>2. 1 \in 1 .. MaxGens /\ 0 \in 0 .. MaxGens /\ 1 \in 0 .. MaxGens
      BY ConnectionsAssumption
    <3> QED BY <1>4, <3>1, <3>2 DEF Tokens
  <2>3. /\ grants' \in [1 .. MaxGrants -> Grants] /\ grants'[g].gen = 1 /\ grants'[g].refresh = token.refresh
        /\ \A h \in 1 .. MaxGrants \ {g} : grants'[h] = grants[h]
    <3>1. [gen |-> 1, expired |-> 0, refresh |-> token.refresh, open |-> TRUE, lost |-> FALSE] \in Grants
      BY <2>1, ConnectionsAssumption DEF Grants
    <3> QED BY <1>1, <1>4, <3>1
  <2>4. OnlyCall(c) /\ Stepped(c, token)
    BY <1>1, <1>4, <2>2, StepsOn DEF Holding
  <2>5. keychain' = keychain \/ (keychain' = token /\ provider.name = "google")
    BY <1>4
  <2>6. keychain' = keychain \/ (keychain' = token /\ ~provider.rotates)
    BY <2>5 DEF Sane, CallsPlanned
  <2>7. CallsPlanned'
    BY <1>1, <2>2, <2>3, <2>4, <2>5, GoesOnOps, PlannedKept DEF GoesOn
  <2>8. StoresInv'
    <3>1. keychain' = keychain \/ (keychain' \in Tokens /\ Refreshes)
      BY <2>2, <2>5 DEF Refreshes
    <3>2. PassingStep(c)
      BY <1>1, <2>4, <3>1 DEF PassingStep, GoesOn
    <3> QED BY <3>2, PassingStores
  <2>9. \A d \in Calls \ {c} : calls'[d] = calls[d]
    BY <2>4 DEF OnlyCall, Sane, CallsInShape
  <2>10. (Holder(c)' => calls'[c].token = token) /\ ~Saving(c)'
    BY <2>4 DEF Stepped, Holder, Saving, InRequest
  <2>11. Signing(c)' => Holder(c)'
    <3>1. Signing(c)' => calls'[c] # NoCall /\ Head(calls'[c].todo).do \in {"identify", "store"}
      BY DEF Signing, At
    <3>2. Signing(c)' => calls'[c].token \in Tokens
      BY <2>4, <3>1 DEF Stepped, InProgress, Planned
    <3> QED BY <3>1, <3>2, NamesAssumption DEF Holder
  <2>12. provider' = provider /\ grants[g].gen = 0
    BY <1>1, <1>4
  <2>13. TokensInv'
    BY <1>1, <2>1, <2>2, <2>3, <2>6, <2>9, <2>10, <2>11, <2>12, GrantTokens
  <2> QED BY <2>7, <2>8, <2>13 DEF Orderly
<1> QED BY <1>3, <1>4 DEF Authorize

LEMMA StartOrder ==
  ASSUME Sane, StoresInv, TokensInv, NEW c \in Calls, StartCall(c)
  PROVE  Orderly'
<1>1. \E op, todo : /\ todo \in {Connect, Disconnect, Fetch, Refresh}
                    /\ calls[c] = NoCall /\ calls' = [calls EXCEPT ![c] = NewCall(op, todo)]
  BY Zenon DEF StartCall
<1> PICK op, todo : /\ todo \in {Connect, Disconnect, Fetch, Refresh}
                    /\ calls[c] = NoCall /\ calls' = [calls EXCEPT ![c] = NewCall(op, todo)]
  BY <1>1
<1>2. UNCHANGED <<provider, keychain, grants>>
  BY DEF StartCall, stores
<1>3. \A d \in Calls \ {c} : calls'[d] = calls[d]
  BY DEF Sane, CallsInShape
<1>4. calls'[c].todo = todo /\ calls'[c].http = "load" /\ calls'[c].token = NoToken
  BY DEF NewCall, Sane, CallsInShape
<1>5. Head(todo).do \notin {"identify", "store"}
  BY ConnectPlanned, DisconnectPlanned, FetchPlanned, RefreshPlanned DEF Sane, CallsInShape
<1>6. ~Holder(c)' /\ ~Saving(c)' /\ ~Signing(c)' /\ ~Saving(c)
  BY <1>4, <1>5 DEF Holder, Saving, Signing, InRequest, At
<1>7. \A d \in Calls \ {c} : /\ (Holder(d)' <=> Holder(d)) /\ (Saving(d)' <=> Saving(d))
                             /\ (Signing(d)' <=> Signing(d))
  BY <1>3 DEF Holder, Saving, Signing, InRequest, At
<1>8. \A d \in Calls : Saving(d) \/ Signing(d) => Holder(d)
  BY TokensTyped DEF Sane
<1>9. TokensInv'
  BY <1>2, <1>3, <1>6, <1>7, <1>8, TokensCarried DEF Sane
<1> QED BY <1>9, StartStores DEF Orderly

(* What happens outside of the calls.                                       *)
LEMMA OutsideOrder ==
  ASSUME Sane, StoresInv, TokensInv, UNCHANGED <<provider, keychain, row, known, calls>>,
         grants' \in [1 .. MaxGrants -> Grants],
         \A g \in 1 .. MaxGrants :
           /\ grants'[g].gen = grants[g].gen /\ grants'[g].refresh = grants[g].refresh
           /\ grants'[g].lost = grants[g].lost
  PROVE  Orderly'
<1>1. Kinds' = Kinds /\ (Refreshes' <=> Refreshes)
  BY DEF Kinds, Refreshes
<1>2. CallsPlanned'
  BY <1>1 DEF Sane, CallsPlanned, OneAccountOp, OnAccount
<1>3. StoresInv'
  BY <1>1 DEF StoresInv, RowHasToken, TokenHasRow, RowStands, ResourcesHaveRow, At
<1>4. \A d \in Calls : /\ (Holder(d)' <=> Holder(d)) /\ (Saving(d)' <=> Saving(d)) /\ (Signing(d)' <=> Signing(d))
                       /\ (Saving(d) \/ Signing(d) => Holder(d))
  BY TokensTyped DEF Holder, Saving, Signing, InRequest, At, Sane
<1>5. TokensInv'
  BY <1>4, TokensCarried DEF Sane
<1> QED BY <1>2, <1>3, <1>5 DEF Orderly

LEMMA OutsideSteps ==
  ASSUME Sane, StoresInv, TokensInv, faults' = faults, faults \in Nat,
         SetSelected \/ Restart \/ Expire \/ Withdraw \/ UNCHANGED vars
  PROVE  Orderly'
<1>1. grants \in [1 .. MaxGrants -> Grants]
  BY DEF Sane, CallsPlanned
<1>2. UNCHANGED <<provider, keychain, row, known, calls>>
  BY DEF SetSelected, Restart, Expire, Withdraw, vars, stores
<1>3. /\ grants' \in [1 .. MaxGrants -> Grants]
      /\ \A g \in 1 .. MaxGrants :
           /\ grants'[g].gen = grants[g].gen /\ grants'[g].refresh = grants[g].refresh
           /\ grants'[g].lost = grants[g].lost
  <2>1. CASE SetSelected \/ Restart \/ UNCHANGED vars
    <3>1. grants' = grants
      BY <2>1 DEF SetSelected, Restart, vars
    <3> QED BY <1>1, <3>1
  <2>2. CASE Expire
    <3>1. PICK g \in 1 .. MaxGrants : grants' = [grants EXCEPT ![g].expired = grants[g].gen]
      BY <2>2 DEF Expire
    <3>2. grants[g].gen \in 0 .. MaxGens
      BY <1>1 DEF Grants
    <3> QED BY <1>1, <3>1, <3>2 DEF Grants
  <2>3. CASE Withdraw
    <3>1. PICK g \in 1 .. MaxGrants : grants' = [grants EXCEPT ![g].open = FALSE]
      BY <2>3 DEF Withdraw
    <3> QED BY <1>1, <3>1 DEF Grants
  <2> QED BY <2>1, <2>2, <2>3
<1> QED BY <1>2, <1>3, OutsideOrder

LEMMA AdvanceOrder ==
  ASSUME Sane, StoresInv, TokensInv, NEW c \in Calls, Advance(c), faults' = faults, faults \in Nat
  PROVE  Orderly'
  BY AuthorizeOrder, IdentifyOrder, StoreOrder, WritesOrder, LoadOrder, SendOrder, RefreshOrder, PersistOrder,
     FlagOrder, LookOrder, ReadOrder, RevokeOrder DEF Advance

LEMMA FaultsCount ==
  ASSUME faults \in Nat, [Next]_vars
  PROVE  faults' = faults \/ (faults' = faults + 1 /\ faults' \in Nat /\ faults' # 0)
<1>1. faults' = faults \/ faults' = faults + 1
  <2>1. ASSUME NEW c \in Calls, Advance(c) PROVE faults' = faults \/ faults' = faults + 1
    BY <2>1 DEF Advance, Authorize, Identify, StoreToken, UpsertRow, LoadToken, Send, RefreshToken, PersistToken,
         MarkNeedsReauth, UsableAccount, PickSelected, ClearResources, ReadToken, Revoke, DeleteToken, DeleteRow
  <2> QED BY <2>1 DEF Next, StartCall, Fault, SetSelected, Restart, Expire, Withdraw, vars
<1> QED BY <1>1

LEMMA AccountKept ==
  ASSUME CallsInShape, AccountInv, [Next]_vars
  PROVE  AccountInv'
<1>1. CASE faults' # faults
  BY <1>1, FaultsCount DEF AccountInv
<1>2. CASE faults' = faults /\ faults = 0
  <2>1. Sane /\ StoresInv /\ TokensInv /\ faults \in Nat
    BY <1>2 DEF AccountInv, Sane
  <2>2. ASSUME NEW c \in Calls, NEW what PROVE ~Fault(c, what)
    BY <1>2 DEF Fault
  <2>3. Orderly'
    <3>1. CASE \E c \in Calls : StartCall(c)
      BY <2>1, <3>1, StartOrder
    <3>2. CASE \E c \in Calls : Advance(c)
      BY <1>2, <2>1, <3>2, AdvanceOrder
    <3>3. CASE SetSelected \/ Restart \/ Expire \/ Withdraw \/ UNCHANGED vars
      BY <1>2, <2>1, <3>3, OutsideSteps
    <3> QED BY <2>2, <3>1, <3>2, <3>3 DEF Next
  <2> QED BY <1>2, <2>1, <2>3 DEF AccountInv, Orderly
<1>3. CASE faults' = faults /\ faults # 0
  BY <1>3 DEF AccountInv
<1> QED BY <1>1, <1>2, <1>3

LEMMA InitAccount == Init => AccountInv
<1> SUFFICES ASSUME Init PROVE AccountInv
  OBVIOUS
<1>1. /\ \A c \in Calls : calls[c] = NoCall
      /\ keychain = NoToken /\ row = "none" /\ known = {} /\ faults = 0
      /\ \A g \in 1 .. MaxGrants : grants[g].refresh = 0 /\ grants[g].gen = 0
      /\ provider.rotates => provider.name = "bitbucket"
  BY DEF Init
<1>2. grants \in [1 .. MaxGrants -> Grants]
  BY ConnectionsAssumption DEF Init, Grants
<1>3. CallsPlanned
  BY <1>1, <1>2 DEF CallsPlanned, OneAccountOp, OnAccount
<1>4. StoresInv
  BY <1>1 DEF StoresInv, RowHasToken, TokenHasRow, RowStands, ResourcesHaveRow, At
<1>5. TokensInv
  BY <1>1 DEF TokensInv, Holder, InRequest, At
<1> QED BY <1>1, <1>3, <1>4, <1>5 DEF AccountInv

-----------------------------------------------------------------------------
(* Until the first write that fails or call that is cut short: the calls    *)
(* follow the plans of their provider, one operation on the account at a    *)
(* time; a row has its token, resources their row, and every token that is  *)
(* held its grant.  Of the refresh tokens of a grant at most one is accepted,*)
(* held by the keychain or by the one call that is about to store it, unless *)
(* the answer that carried it was lost.                                     *)
THEOREM AccountInvariant == Spec => []AccountInv
<1>1. CallsInShape /\ AccountInv /\ [Next]_vars => CallsInShape' /\ AccountInv'
  BY NextMoves, AccountKept
<1> QED BY InitCalls, InitAccount, <1>1, PTL DEF Spec

(* Once every call has returned and none has failed half way, the keychain, *)
(* the connection row and the rows of the resources agree (Connect,         *)
(* Disconnect and the stores they write one after the other).               *)
THEOREM StoresInAgreement == Spec => []StoresAgree
<1>1. AccountInv => StoresAgree
  <2> SUFFICES ASSUME CallsPlanned, StoresInv, Quiet
               PROVE  /\ row # "none" => keychain # NoToken
                      /\ row = "none" /\ provider.name # "google" => known = {}
                      /\ row = "none" /\ keychain # NoToken => Refreshes
    BY DEF AccountInv, StoresAgree
  <2> QED BY DEF StoresInv, Quiet, RowHasToken, TokenHasRow, ResourcesHaveRow, At
<1> QED BY AccountInvariant, <1>1, PTL

(* However refreshes interleave, the refresh token that is left in the      *)
(* keychain is the one the provider accepts, unless its answer to one of    *)
(* them was lost (TokenRefresher.Refresh and Store.Set in Client.Do).       *)
THEOREM RefreshTokenStays == Spec => []RefreshTokenKept
<1>1. AccountInv => RefreshTokenKept
  <2> SUFFICES ASSUME TokensInv, Quiet, keychain # NoToken
               PROVE  \/ keychain.refresh = grants[keychain.grant].refresh
                      \/ provider.rotates /\ grants[keychain.grant].lost
    BY DEF AccountInv, RefreshTokenKept
  <2> QED BY DEF TokensInv, Quiet, InRequest, Settled, Fresh
<1> QED BY AccountInvariant, <1>1, PTL
=============================================================================
