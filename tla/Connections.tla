---------------------------- MODULE Connections ----------------------------
(***************************************************************************)
(* The connection of one account (internal/integration): a token in the    *)
(* system keychain, a row of integration_connection, and rows for the      *)
(* calendars, repositories, channels or workspaces of the account with     *)
(* what the user selected among them.  The three stores are written one    *)
(* after the other, by the calls that connect, disconnect, list and fetch, *)
(* and nothing but the order of those writes keeps them together.          *)
(*                                                                         *)
(* Every request to a provider goes through httpclient.Client, which reads *)
(* the token, refreshes it once on a 401, retries a 429 a few times, and   *)
(* flags the row needs_reauth when the token is of no use any more.        *)
(*                                                                         *)
(* A call is the list of the steps it has left; the steps of the calls     *)
(* interleave.  The settings page starts one account operation at a time   *)
(* (IntegrationConnectShell.tsx), fetches run next to it.                  *)
(***************************************************************************)
EXTENDS Integers, Sequences, FiniteSets

CONSTANTS
  Calls,             \* names for the calls in progress
  NoCall, NoToken,
  MaxRateRetries,    \* maxRateRetries of client.go: 3 in the code
  MaxGrants,         \* bound: times the user grants access at the provider
  MaxGens,           \* bound: access tokens issued under one grant
  MaxFaults          \* bound: failed writes and crashes in the middle of a call

ASSUME ConnectionsAssumption ==
  /\ {MaxRateRetries, MaxFaults} \subseteq Nat
  /\ {MaxGrants, MaxGens} \subseteq Nat \ {0}

VARIABLES
  provider,   \* the provider of the account, and whether it rotates refresh tokens
  mode,       \* auth_mode of the running application: "broker" or "local"
  keychain,   \* the token stored for the account
  row,        \* the status of its connection row, "none" without one
  known,      \* the kinds of resources with rows
  selected,   \* the kinds of resources with a selected row
  grants,     \* what the provider remembers of each grant, and what became of it
  calls, faults

stores == <<keychain, row, known, selected>>

vars == <<provider, mode, stores, grants, calls, faults>>

Providers == {"google", "github", "slack", "bitbucket"}

Kinds == CASE provider.name = "google"    -> {"calendar"}
           [] provider.name = "github"    -> {"repo"}
           [] provider.name = "slack"     -> {"channel"}
           [] provider.name = "bitbucket" -> {"workspace", "repo"}

ResourceKinds == {"calendar", "repo", "channel", "workspace"}

Sources == {"unset", "broker", "local_oauth", "pat"}

(* An access token is the generation of its grant it was issued with, a     *)
(* refresh token the generation that issued it; 0 is the empty token.      *)
Tokens == [grant : 1..MaxGrants, access : 1..MaxGens, refresh : 0..MaxGens, source : Sources]

(* gen: the last generation; expired: the last one whose access token ran  *)
(* out; refresh: the refresh token that is accepted; open: not withdrawn;   *)
(* lost, a history: an answer that carried a new refresh token of the grant *)
(* did not arrive.                                                         *)
Grants == [gen : 0..MaxGens, expired : 0..MaxGens, refresh : 0..MaxGens, open : BOOLEAN, lost : BOOLEAN]

Accepted(token) == grants[token.grant].open /\ token.access > grants[token.grant].expired

Refreshes == provider.name \in {"google", "bitbucket"}

-----------------------------------------------------------------------------
(* What each operation of each provider does, in order. *)

Step(what) == [do |-> what, of |-> "account"]
List(kind) == [do |-> "list", of |-> kind]
Clear(kind) == [do |-> "clear", of |-> kind]

(* SyncCalendars, SyncRepos, SyncChannels, SyncWorkspacesRepos. *)
GoogleLists    == <<List("calendar")>>
GitHubLists    == <<List("repo")>>
SlackLists     == <<List("channel")>>
BitbucketLists == <<List("workspace"), List("repo")>>

GoogleConnect    == <<Step("authorize"), Step("store"), Step("row")>> \o GoogleLists
GitHubConnect    == <<Step("authorize"), Step("identify"), Step("store"), Step("row")>> \o GitHubLists
SlackConnect     == <<Step("authorize"), Step("identify"), Step("store"), Step("row")>> \o SlackLists
BitbucketConnect == <<Step("authorize"), Step("identify"), Step("store"), Step("row")>> \o BitbucketLists

GoogleDisconnect    == <<Step("read"), Step("revoke"), Step("unstore"), Step("unrow")>>
GitHubDisconnect    == <<Clear("repo"), Step("read"), Step("revoke"), Step("unstore"), Step("unrow")>>
SlackDisconnect     == <<Clear("channel"), Step("read"), Step("revoke"), Step("unstore"), Step("unrow")>>

(* Mutant: the workspaces stay. *)
BitbucketDisconnectRepos == <<Clear("repo"), Step("unstore"), Step("unrow")>>

BitbucketDisconnect == <<Clear("repo"), Clear("workspace"), Step("unstore"), Step("unrow")>>

(* A fetch asks for what is selected: the events of a period, after a look  *)
(* at the status of the account and a new list of its calendars, or the    *)
(* evidence of a gap: commits and then merged pull requests, messages,     *)
(* commits.                                                                *)
GoogleFetch    == <<Step("usable"), List("calendar"), Step("pick"), Step("fetch")>>
GitHubFetch    == <<Step("pick"), Step("fetch"), Step("fetch")>>
SlackFetch     == <<Step("pick"), Step("fetch")>>
BitbucketFetch == <<Step("pick"), Step("fetch")>>

Connect == CASE provider.name = "google"    -> GoogleConnect
             [] provider.name = "github"    -> GitHubConnect
             [] provider.name = "slack"     -> SlackConnect
             [] provider.name = "bitbucket" -> BitbucketConnect

Disconnect == CASE provider.name = "google"    -> GoogleDisconnect
                [] provider.name = "github"    -> GitHubDisconnect
                [] provider.name = "slack"     -> SlackDisconnect
                [] provider.name = "bitbucket" -> BitbucketDisconnect

Fetch == CASE provider.name = "google"    -> GoogleFetch
           [] provider.name = "github"    -> GitHubFetch
           [] provider.name = "slack"     -> SlackFetch
           [] provider.name = "bitbucket" -> BitbucketFetch

Refresh == CASE provider.name = "google"    -> GoogleLists
             [] provider.name = "github"    -> GitHubLists
             [] provider.name = "slack"     -> SlackLists
             [] provider.name = "bitbucket" -> BitbucketLists

Doings == {"authorize", "identify", "store", "row", "read", "revoke", "unstore", "unrow", "usable", "pick",
           "fetch"}

Steps == {Step(w) : w \in Doings} \cup {List(k) : k \in ResourceKinds} \cup {Clear(k) : k \in ResourceKinds}

AccountOps == {"connect", "disconnect", "refresh"}

(* A call: its steps; where it is in a request; the token it holds, the     *)
(* rounds of the request and whether it has refreshed the token.           *)
CallType == [op : AccountOps \cup {"fetch"}, todo : Seq(Steps),
             http : {"load", "send", "exchange", "persist", "flag"},
             token : Tokens \cup {NoToken}, round : 0..MaxRateRetries, refreshed : BOOLEAN]

ASSUME NamesAssumption == NoToken \notin Tokens /\ NoCall \notin CallType

NewCall(op, todo) == [op |-> op, todo |-> todo, http |-> "load", token |-> NoToken,
                      round |-> 0, refreshed |-> FALSE]

TypeOK ==
  /\ provider \in [name : Providers, rotates : BOOLEAN] /\ mode \in {"broker", "local"}
  /\ keychain \in Tokens \cup {NoToken} /\ row \in {"none", "connected", "needs_reauth"}
  /\ known \subseteq Kinds /\ selected \subseteq known
  /\ grants \in [1..MaxGrants -> Grants]
  /\ \A c \in Calls : calls[c] = NoCall \/ calls[c] \in CallType
  /\ faults \in 0..MaxFaults

Init ==
  /\ provider \in [name : Providers, rotates : BOOLEAN]
  /\ provider.rotates => provider.name = "bitbucket"
  /\ mode \in {"broker", "local"}
  /\ keychain = NoToken /\ row = "none" /\ known = {} /\ selected = {}
  /\ grants = [g \in 1..MaxGrants |-> [gen |-> 0, expired |-> 0, refresh |-> 0, open |-> FALSE,
                                     lost |-> FALSE]]
  /\ calls = [c \in Calls |-> NoCall]
  /\ faults = 0

-----------------------------------------------------------------------------
(* Moving through the steps of a call. *)

At(c, what) == calls[c] # NoCall /\ Head(calls[c].todo).do = what

(* The call goes on with these steps, holding a token for those that need   *)
(* one, or returns when there are none.                                    *)
Going(op, todo, token) ==
  IF todo = <<>> THEN NoCall
  ELSE [NewCall(op, todo) EXCEPT
          !.token = IF Head(todo).do \in {"identify", "store", "revoke"} THEN token ELSE NoToken]

GoOn(c, todo) == calls' = [calls EXCEPT ![c] = Going(@.op, todo, @.token)]

Done(c) == GoOn(c, Tail(calls[c].todo))

(* Holding(c, token): done, and the call holds the token. *)
Holding(c, token) == calls' = [calls EXCEPT ![c] = Going(@.op, Tail(@.todo), token)]

(* What is left to do after a step fails.  A connect of GitHub, Slack or    *)
(* Bitbucket takes the token out again when there is no row for it, and     *)
(* disconnects when the resources cannot be listed; Google's leaves what it *)
(* has done.  Revocation and evidence are best effort.                     *)
Recovery(c) ==
  LET call == calls[c]
      at == Head(call.todo).do
  IN IF at \in {"revoke", "fetch"} THEN Tail(call.todo)
     ELSE IF call.op # "connect" \/ provider.name = "google" THEN <<>>
     ELSE IF at = "row" THEN <<Step("unstore")>>
     ELSE IF at = "list" THEN Disconnect
     ELSE <<>>

(* Rolling back is no connect any more: its own failures end it. *)
Fail(c) ==
  calls' = [calls EXCEPT ![c] =
              Going(IF @.op = "connect" THEN "disconnect" ELSE @.op, Recovery(c), @.token)]

(* A keychain or database write that fails. *)
Fault(c, what) ==
  /\ At(c, what) /\ faults < MaxFaults
  /\ faults' = faults + 1
  /\ Fail(c)
  /\ UNCHANGED <<provider, mode, stores, grants>>

-----------------------------------------------------------------------------
(* Connecting. *)

Source(pat) == IF pat THEN "pat"
               ELSE IF provider.name = "google" THEN "unset"
               ELSE IF mode = "broker" THEN "broker" ELSE "local_oauth"

(* Authorizer.Authorize, or the personal access token the user pasted: the  *)
(* user grants access and the call holds the token.  The local flow of     *)
(* Google stores it by itself as well.  A grant whose tokens never arrive   *)
(* is known to nobody here, as if it had not been given.                    *)
Authorize(c) ==
  /\ At(c, "authorize")
  /\ \/ \E g \in 1..MaxGrants, pat \in BOOLEAN :
          /\ grants[g].gen = 0 /\ \A h \in 1..(g - 1) : grants[h].gen # 0
          /\ pat => provider.name = "github"
          /\ LET token == [grant |-> g, access |-> 1, refresh |-> IF Refreshes THEN 1 ELSE 0,
                           source |-> Source(pat)]
             IN /\ grants' = [grants EXCEPT ![g] = [gen |-> 1, expired |-> 0, refresh |-> token.refresh,
                                                    open |-> TRUE, lost |-> FALSE]]
                /\ keychain' = IF provider.name = "google" /\ mode = "local" THEN token ELSE keychain
                /\ Holding(c, token)
     \/ Fail(c) /\ UNCHANGED <<grants, keychain>>
  /\ UNCHANGED <<provider, mode, row, known, selected, faults>>

(* fetchUser, fetchAuthTest: whose token is it? *)
Identify(c) ==
  /\ At(c, "identify")
  /\ (Accepted(calls[c].token) /\ Done(c)) \/ Fail(c)
  /\ UNCHANGED <<provider, mode, stores, grants, faults>>

StoreToken(c) ==
  /\ At(c, "store")
  /\ keychain' = calls[c].token
  /\ Done(c)
  /\ UNCHANGED <<provider, mode, row, known, selected, grants, faults>>

(* Registry.Upsert, with StatusConnected. *)
UpsertRow(c) ==
  /\ At(c, "row")
  /\ row' = "connected"
  /\ Done(c)
  /\ UNCHANGED <<provider, mode, keychain, known, selected, grants, faults>>

-----------------------------------------------------------------------------
(* A request: httpclient.Client.Do. *)

InRequest(c, http) ==
  /\ calls[c] # NoCall /\ Head(calls[c].todo).do \in {"list", "fetch"} /\ calls[c].http = http

Http(c, http) == calls' = [calls EXCEPT ![c].http = http]

Holds(call, token, http) == [call EXCEPT !.token = token, !.http = http]

(* The round after a refresh. *)
NextRound(call) == [call EXCEPT !.http = "send", !.refreshed = TRUE, !.round = @ + 1]

(* Store.Get. *)
LoadToken(c) ==
  /\ InRequest(c, "load")
  /\ calls' = [calls EXCEPT ![c] = Holds(@, keychain, IF keychain = NoToken THEN "flag" ELSE "send")]
  /\ UNCHANGED <<provider, mode, stores, grants, faults>>

(* Mutant: the selection is written with the rest of the row. *)
UpsertAll(kind) ==
  /\ known' = known \cup {kind}
  /\ \/ selected' = selected \ {kind}
     \/ kind = "calendar" /\ selected' = selected \cup {kind}

(* UpsertCalendar, UpsertGitHubRepo, ...: a new resource is unselected,     *)
(* unless it is a primary calendar; one that is known keeps its selection. *)
Upsert(kind) ==
  /\ known' = known \cup {kind}
  /\ \/ selected' = selected
     \/ kind = "calendar" /\ kind \notin known /\ selected' = selected \cup {kind}

(* The provider accepts the token and the answer is used. *)
Answered(c) ==
  /\ Accepted(calls[c].token)
  /\ Done(c)
  /\ IF Head(calls[c].todo).do = "list" THEN Upsert(Head(calls[c].todo).of)
     ELSE UNCHANGED <<known, selected>>

(* 401: refresh once; after that, the account needs the user. *)
Unauthorized(c) ==
  /\ ~Accepted(calls[c].token)
  /\ Http(c, IF calls[c].refreshed THEN "flag" ELSE "exchange")
  /\ UNCHANGED <<known, selected>>

(* 429: wait and try again; the last answer is handed to the caller. *)
RateLimited(c) ==
  /\ IF calls[c].round < MaxRateRetries
     THEN calls' = [calls EXCEPT ![c].round = @ + 1]
     ELSE Fail(c)
  /\ UNCHANGED <<known, selected>>

(* No answer, or one that is neither of these. *)
Unanswered(c) == Fail(c) /\ UNCHANGED <<known, selected>>

Send(c) ==
  /\ InRequest(c, "send")
  /\ Answered(c) \/ Unauthorized(c) \/ RateLimited(c) \/ Unanswered(c)
  /\ UNCHANGED <<provider, mode, keychain, row, grants, faults>>

(* Mutant: the response's, whether or not it has one. *)
NextRefreshOfResponse(token, gen) == IF provider.rotates THEN gen ELSE 0

(* The refresh token of the response, or the one that was used. *)
NextRefresh(token, gen) == IF provider.rotates THEN gen ELSE token.refresh

(* The provider exchanges the refresh token, directly or for the broker.    *)
(* What it answers arrives, or does not: the connection breaks, the broker  *)
(* fails after the provider answered it, the response cannot be read.       *)
Exchange(c, token) ==
  LET grant == grants[token.grant]
      gen == grant.gen + 1
      next == [token EXCEPT !.access = gen, !.refresh = NextRefresh(token, gen)]
  IN /\ grant.open /\ token.refresh # 0 /\ token.refresh = grant.refresh /\ gen <= MaxGens
     /\ \E arrives \in BOOLEAN :
          /\ grants' = [grants EXCEPT ![token.grant] =
                          [gen |-> gen, expired |-> grant.expired,
                           refresh |-> IF provider.rotates THEN gen ELSE grant.refresh,
                           open |-> grant.open, lost |-> grant.lost \/ (provider.rotates /\ ~arrives)]]
          /\ IF arrives THEN calls' = [calls EXCEPT ![c] = Holds(@, next, "persist")]
             ELSE Http(c, "flag")

(* oauth2.TokenSource, Google's in local mode: a token that has not run out *)
(* is handed back as it is.                                                *)
StillValid(c, token) ==
  /\ provider.name = "google" /\ mode = "local" /\ token.access > grants[token.grant].expired
  /\ Http(c, "persist")
  /\ UNCHANGED grants

(* TokenRefresher.Refresh, or the TokenSource.  Any failure is final: an    *)
(* empty or refused refresh token, a provider that has none, a broker that *)
(* is down, limits or has refreshing switched off; and an answer that is    *)
(* lost is no different from these, though the provider has acted.          *)
RefreshToken(c) ==
  /\ InRequest(c, "exchange")
  /\ \/ /\ Refreshes
        /\ Exchange(c, calls[c].token) \/ StillValid(c, calls[c].token)
     \/ Http(c, "flag") /\ UNCHANGED grants
  /\ UNCHANGED <<provider, mode, stores, faults>>

(* Mutant: a refresh does not use up a round. *)
PersistTokenUncounted(c) ==
  /\ InRequest(c, "persist")
  /\ keychain' = calls[c].token
  /\ calls' = [calls EXCEPT ![c].http = "send"]
  /\ UNCHANGED <<provider, mode, row, known, selected, grants, faults>>

(* Store.Set, and the next round.  After the last one the request has       *)
(* failed, whatever the new token is worth.                                *)
PersistToken(c) ==
  /\ InRequest(c, "persist")
  /\ \/ /\ keychain' = calls[c].token
        /\ IF calls[c].round < MaxRateRetries
           THEN calls' = [calls EXCEPT ![c] = NextRound(@)]
           ELSE Fail(c)
        /\ UNCHANGED faults
     \/ /\ faults < MaxFaults /\ faults' = faults + 1
        /\ Http(c, "flag")
        /\ UNCHANGED keychain
  /\ UNCHANGED <<provider, mode, row, known, selected, grants>>

(* Registry.SetStatus: an UPDATE, of a row or of none. *)
MarkNeedsReauth(c) ==
  /\ InRequest(c, "flag")
  /\ row' = IF row = "none" THEN "none" ELSE "needs_reauth"
  /\ Fail(c)
  /\ UNCHANGED <<provider, mode, keychain, known, selected, grants, faults>>

-----------------------------------------------------------------------------
(* Fetching, and disconnecting. *)

(* filterUsableAccounts, and the first look at what is selected. *)
UsableAccount(c) ==
  /\ At(c, "usable")
  /\ IF row = "connected" /\ selected # {} THEN Done(c) ELSE GoOn(c, <<>>)
  /\ UNCHANGED <<provider, mode, stores, grants, faults>>

(* The selected calendars, repositories or channels. *)
PickSelected(c) ==
  /\ At(c, "pick")
  /\ IF selected \ {"workspace"} # {} THEN Done(c) ELSE GoOn(c, <<>>)
  /\ UNCHANGED <<provider, mode, stores, grants, faults>>

(* DeleteGitHubReposByAccount, DeleteSlackChannelsByAccount, ... *)
ClearResources(c) ==
  /\ At(c, "clear")
  /\ known' = known \ {Head(calls[c].todo).of} /\ selected' = selected \ {Head(calls[c].todo).of}
  /\ Done(c)
  /\ UNCHANGED <<provider, mode, keychain, row, grants, faults>>

ReadToken(c) ==
  /\ At(c, "read")
  /\ Holding(c, keychain)
  /\ UNCHANGED <<provider, mode, stores, grants, faults>>

(* Google's refresh token goes to the broker by the mode the application    *)
(* runs in, the access tokens of GitHub and Slack by where they came from. *)
Revocable(token) ==
  /\ token # NoToken
  /\ IF provider.name = "google" THEN mode = "broker" /\ token.refresh # 0 ELSE token.source = "broker"

Revoke(c) ==
  /\ At(c, "revoke")
  /\ Done(c)
  /\ \/ Revocable(calls[c].token) /\ grants' = [grants EXCEPT ![calls[c].token.grant].open = FALSE]
     \/ UNCHANGED grants
  /\ UNCHANGED <<provider, mode, stores, faults>>

DeleteToken(c) ==
  /\ At(c, "unstore")
  /\ keychain' = NoToken
  /\ Done(c)
  /\ UNCHANGED <<provider, mode, row, known, selected, grants, faults>>

DeleteRow(c) ==
  /\ At(c, "unrow")
  /\ row' = "none"
  /\ Done(c)
  /\ UNCHANGED <<provider, mode, keychain, known, selected, grants, faults>>

-----------------------------------------------------------------------------
(* The application, the user and the provider. *)

Quiet == \A c \in Calls : calls[c] = NoCall

NoAccountOp == \A c \in Calls : calls[c] # NoCall => calls[c].op \notin AccountOps

StartCall(c) ==
  /\ calls[c] = NoCall
  /\ \/ calls' = [calls EXCEPT ![c] = NewCall("fetch", Fetch)]
     \/ NoAccountOp /\ calls' = [calls EXCEPT ![c] = NewCall("connect", Connect)]
     \/ /\ NoAccountOp /\ row # "none"
        /\ \/ calls' = [calls EXCEPT ![c] = NewCall("disconnect", Disconnect)]
           \/ calls' = [calls EXCEPT ![c] = NewCall("refresh", Refresh)]
  /\ UNCHANGED <<provider, mode, stores, grants, faults>>

(* SetCalendarSelected, SetRepoSelected, SetChannelSelected, ... *)
SetSelected ==
  /\ \E kind \in known :
       selected' = IF kind \in selected THEN selected \ {kind} ELSE selected \cup {kind}
  /\ UNCHANGED <<provider, mode, keychain, row, known, grants, calls, faults>>

(* The application ends, in the middle of what it does or not, and starts   *)
(* again with the configuration it finds.                                  *)
Restart ==
  /\ \/ Quiet /\ UNCHANGED <<calls, faults>>
     \/ /\ ~Quiet
        /\ faults < MaxFaults /\ faults' = faults + 1
        /\ calls' = [c \in Calls |-> NoCall]
  /\ mode' \in {"broker", "local"}
  /\ UNCHANGED <<provider, stores, grants>>

(* An access token runs out; the user withdraws a grant at the provider. *)
Expire ==
  /\ Refreshes
  /\ \E g \in 1..MaxGrants : /\ grants[g].expired < grants[g].gen /\ grants[g].gen < MaxGens
                             /\ grants' = [grants EXCEPT ![g].expired = grants[g].gen]
  /\ UNCHANGED <<provider, mode, stores, calls, faults>>

Withdraw ==
  /\ \E g \in 1..MaxGrants : grants[g].open /\ grants' = [grants EXCEPT ![g].open = FALSE]
  /\ UNCHANGED <<provider, mode, stores, calls, faults>>

Advance(c) ==
  \/ Authorize(c) \/ Identify(c) \/ StoreToken(c) \/ UpsertRow(c)
  \/ LoadToken(c) \/ Send(c) \/ RefreshToken(c) \/ PersistToken(c) \/ MarkNeedsReauth(c)
  \/ UsableAccount(c) \/ PickSelected(c)
  \/ ClearResources(c) \/ ReadToken(c) \/ Revoke(c) \/ DeleteToken(c) \/ DeleteRow(c)

Next ==
  \/ \E c \in Calls : StartCall(c) \/ Advance(c)
  \/ \E c \in Calls, what \in {"store", "row", "clear", "unstore", "unrow"} : Fault(c, what)
  \/ SetSelected \/ Restart \/ Expire \/ Withdraw

Spec == Init /\ [][Next]_vars

-----------------------------------------------------------------------------
(* Properties. *)

(* Once every call has returned, and none was cut short, the three stores   *)
(* agree: a row has a token, an account without a row keeps no resources    *)
(* (Google's calendars stay), and only where tokens are refreshed can a     *)
(* request have stored one again while the account was disconnected.       *)
StoresAgree ==
  Quiet /\ faults = 0 =>
    /\ row # "none" => keychain # NoToken
    /\ row = "none" /\ provider.name # "google" => known = {}
    /\ row = "none" /\ keychain # NoToken => Refreshes

(* Whatever requests refresh the token at once, the refresh token that is   *)
(* left in the keychain is the last one the provider issued for its grant,  *)
(* the one it accepts while the grant stands: no call overwrites it with an *)
(* older one, or drops it.  Only an answer that was lost on its way can     *)
(* leave a spent one there, and only if the provider rotates them.          *)
RefreshTokenKept ==
  Quiet /\ faults = 0 /\ keychain # NoToken =>
    \/ keychain.refresh = grants[keychain.grant].refresh
    \/ provider.rotates /\ grants[keychain.grant].lost

(* Reconnecting, listing and fetching leave the user's selection alone:     *)
(* what was selected is deselected by the user or by a disconnect only.    *)
SelectionKept ==
  [][selected \subseteq selected' \/ calls' = calls \/ \E c \in Calls : At(c, "clear")]_vars

(* How far a call is from its return: a connect may still turn into a       *)
(* disconnect, a step may still need all its rounds, a round its phases.   *)
Distance(call) ==
  LET phase == CASE call.http = "load" -> 5 [] call.http = "send" -> 4 [] call.http = "exchange" -> 3
                 [] call.http = "persist" -> 2 [] call.http = "flag" -> 1
      stage == IF call.op = "connect" THEN Len(Connect) + Len(Disconnect) ELSE 0
  IN ((stage + Len(call.todo)) * (MaxRateRetries + 1) + MaxRateRetries - call.round) * 6 + phase

(* Every call returns, however refreshes, rate limits and failures          *)
(* alternate: each exchange that is answered brings it closer, and a step   *)
(* of a call never waits for another call.                                 *)
CallsEnd ==
  [][\A c \in Calls :
       (calls[c] \notin {NoCall, calls'[c]} /\ calls'[c] # NoCall) => Distance(calls'[c]) < Distance(calls[c])]_vars
=============================================================================
