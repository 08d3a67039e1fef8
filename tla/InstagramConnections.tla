----------------------- MODULE InstagramConnections -----------------------
(***************************************************************************)
(* Connecting an Instagram account to a tenant:                            *)
(* apps/api/src/integrations/instagram-connection.service.ts, with the     *)
(* calls of Meta it makes through packages/integrations.                   *)
(*                                                                         *)
(* connect asks Meta whether the token belongs to the account, asks it to  *)
(* deliver the account's messages, and then stores the row.  The two calls *)
(* are made outside any transaction: requests overlap, and each may fail   *)
(* with what it has done at Meta left behind.                              *)
(***************************************************************************)
CONSTANTS
  Tenants,   \* tenants
  Accounts,  \* Instagram professional accounts
  Tokens,    \* access tokens
  Requests,  \* connect requests in flight
  Nothing    \* no row

ASSUME ConnectionsAssumption == Nothing \notin [account : Accounts, token : Tokens]

VARIABLES
  row,         \* instagram_accounts by tenant: [account, token]
  request,     \* the requests
  accepted,    \* external: tokens Meta has confirmed, with the account
  subscribed,  \* external: accounts Meta delivers the messages of
  revoked      \* external: tokens that no longer work

connectionVars == <<row, request, accepted, subscribed, revoked>>

Credentials == [account : Accounts, token : Tokens]

Idle == [step |-> "idle", tenant |-> Nothing, key |-> Nothing]

ConnectionsInit ==
  /\ row = [t \in Tenants |-> Nothing]
  /\ request = [r \in Requests |-> Idle]
  /\ accepted = {}
  /\ subscribed = {}
  /\ revoked = {}

Moves(r, step) == request' = [request EXCEPT ![r].step = step]

Connect(r, t, key) ==
  /\ request[r].step = "idle"
  /\ request' = [request EXCEPT ![r] = [step |-> "validate", tenant |-> t, key |-> key]]
  /\ UNCHANGED <<row, accepted, subscribed, revoked>>

\* validateInstagramCredentials: Meta knows the account by the token.
Validate(r) ==
  /\ request[r].step = "validate"
  /\ request[r].key.token \notin revoked
  /\ accepted' = accepted \cup {request[r].key}
  /\ Moves(r, "subscribe")
  /\ UNCHANGED <<row, subscribed, revoked>>

\* subscribeInstagramAccountWebhooks; the answer may be lost after it took effect.
Subscribe(r) ==
  /\ request[r].step = "subscribe"
  /\ request[r].key.token \notin revoked
  /\ subscribed' = subscribed \cup {request[r].key.account}
  /\ \E step \in {"save", "idle"} : Moves(r, step)
  /\ UNCHANGED <<row, accepted, revoked>>

\* A call fails or times out, the vault has no key, or the process dies.
GiveUp(r) ==
  /\ request[r].step # "idle"
  /\ Moves(r, "idle")
  /\ UNCHANGED <<row, accepted, subscribed, revoked>>

Taken(t, a) == \E u \in Tenants \ {t} : row[u] # Nothing /\ row[u].account = a

Save_AnyTenant(r) ==
  /\ request[r].step = "save"
  /\ row' = [row EXCEPT ![request[r].tenant] = request[r].key]
  /\ Moves(r, "idle")
  /\ UNCHANGED <<accepted, subscribed, revoked>>

\* The insert, which replaces the tenant's row; the account's index is unique.
Save(r) ==
  LET t == request[r].tenant
  IN /\ request[r].step = "save"
     /\ row' = IF Taken(t, request[r].key.account) THEN row
               ELSE [row EXCEPT ![t] = request[r].key]
     /\ Moves(r, "idle")
     /\ UNCHANGED <<accepted, subscribed, revoked>>

\* The row is deleted; the account stays subscribed at Meta.
Disconnect(t) ==
  /\ row[t] # Nothing
  /\ row' = [row EXCEPT ![t] = Nothing]
  /\ UNCHANGED <<request, accepted, subscribed, revoked>>

Revoke(token) ==
  /\ revoked' = revoked \cup {token}
  /\ UNCHANGED <<row, request, accepted, subscribed>>

ConnectionsNext ==
  \/ \E r \in Requests :
       \/ \E t \in Tenants, key \in Credentials : Connect(r, t, key)
       \/ Validate(r) \/ Subscribe(r) \/ GiveUp(r) \/ Save(r)
  \/ \E t \in Tenants : Disconnect(t)
  \/ \E token \in Tokens : Revoke(token)

ConnectionsSpec == ConnectionsInit /\ [][ConnectionsNext]_connectionVars

-----------------------------------------------------------------------------

ConnectionsTypeOK ==
  /\ row \in [Tenants -> Credentials \cup {Nothing}]
  /\ request \in [Requests ->
       [step : {"idle", "validate", "subscribe", "save"}, tenant : Tenants \cup {Nothing},
        key : Credentials \cup {Nothing}]]
  /\ accepted \subseteq Credentials
  /\ subscribed \subseteq Accounts
  /\ revoked \subseteq Tokens

\* A stored connection is one Meta has confirmed and delivers for, and no account
\* delivers to two tenants, whatever requests overlapped or were cut short.
ConnectionsAreLive ==
  \A t \in Tenants : row[t] # Nothing =>
    /\ row[t] \in accepted
    /\ row[t].account \in subscribed
    /\ ~Taken(t, row[t].account)
=============================================================================
