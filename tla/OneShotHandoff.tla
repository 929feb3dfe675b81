---------------------------- MODULE OneShotHandoff ----------------------------
(***************************************************************************)
(* What the hosted broker promises a desktop: an attempt to connect begins *)
(* at most one grant; once the user consents, its tokens are sealed; they  *)
(* are released at most once, to the attempt that began the grant, and     *)
(* never after they lapsed.  How the browser, the redirects and the two    *)
(* tables bring that about is OAuthBroker's matter.                        *)
(***************************************************************************)
CONSTANTS Attempts, Grants, NoAttempt, NoGrant

VARIABLES stage,  \* how far each grant is
          owner,  \* the attempt that began it
          holds   \* the grant whose tokens an attempt has been given

handoffVars == <<stage, owner, holds>>

Init ==
  /\ stage = [g \in Grants |-> "none"]
  /\ owner = [g \in Grants |-> NoAttempt]
  /\ holds = [a \in Attempts |-> NoGrant]

Advance(g, from, to) == stage[g] \in from /\ stage' = [stage EXCEPT ![g] = to]

Open(g, a) ==
  /\ Advance(g, {"none"}, "open")
  /\ \A h \in Grants : owner[h] # a
  /\ owner' = [owner EXCEPT ![g] = a]
  /\ UNCHANGED holds

Consent(g) == Advance(g, {"open"}, "consented") /\ UNCHANGED <<owner, holds>>

Seal(g) == Advance(g, {"consented"}, "sealed") /\ UNCHANGED <<owner, holds>>

(* The consent came to nothing, or was not used in time. *)
Lapse(g) == Advance(g, {"open", "consented", "sealed"}, "void") /\ UNCHANGED <<owner, holds>>

Release(g) ==
  /\ Advance(g, {"sealed"}, "released")
  /\ holds' = [holds EXCEPT ![owner[g]] = g]
  /\ UNCHANGED owner

(* The tokens never arrive. *)
Lose(a) == holds' = [holds EXCEPT ![a] = NoGrant] /\ UNCHANGED <<stage, owner>>

Next ==
  \/ \E g \in Grants :
       \/ \E a \in Attempts : Open(g, a)
       \/ Consent(g) \/ Seal(g) \/ Lapse(g) \/ Release(g)
  \/ \E a \in Attempts : Lose(a)

Spec == Init /\ [][Next]_handoffVars
=============================================================================
