-------------------------- MODULE CredentialsProofs --------------------------
(***************************************************************************)
(* Proofs about Credentials for every set of credentials and requests.     *)
(***************************************************************************)
EXTENDS Credentials, TLAPS

-----------------------------------------------------------------------------
\* A resolve past LoadJira is about a Jira connection that has its row: Jira rows are
\* never removed.
JiraRows ==
  \A r \in Resolves :
    pc[r] \in {"keys", "jiraRow", "stale", "refreshed"} =>
      /\ want[r].jira \in Jiras
      /\ pc[r] # "keys" => row[want[r].jira] # "absent"

-----------------------------------------------------------------------------
(* Type correctness.                                                       *)

LEMMA InitType == Init => TypeOK
  BY IdsAssumption
  DEF Init, TypeOK, Ids, Bundles, NoBundle, ResolvePCs

LEMMA InstallType ==
  ASSUME TypeOK, NEW c \in Ids, Install(c)
  PROVE  TypeOK'
  <1> USE IdsAssumption DEF TypeOK, Ids, deleting, resolving, atlassian
  <1>1. CASE c \in Jiras /\ ExchangeAuthorizationCode(c)
    BY <1>1 DEF ExchangeAuthorizationCode, Bundles
  <1>2. CASE SetSecret(c)
    BY <1>2 DEF SetSecret
  <1>3. CASE SkipSecret(c)
    BY <1>3 DEF SkipSecret
  <1>4. CASE SaveRow(c)
    BY <1>4 DEF SaveRow, NewRow
  <1>5. CASE AbortInstall(c)
    BY <1>5 DEF AbortInstall
  <1> QED
    BY <1>1, <1>2, <1>3, <1>4, <1>5 DEF Install

LEMMA DeleteType ==
  ASSUME TypeOK, NEW d \in Deletes, Delete(d)
  PROVE  TypeOK'
  <1> USE IdsAssumption DEF TypeOK, Ids, resolving, atlassian
  <1>1. CASE DeleteLoad(d)
    BY <1>1 DEF DeleteLoad
  <1>2. CASE DeleteSecret(d)
    BY <1>2 DEF DeleteSecret
  <1>3. CASE DeleteRow(d)
    BY <1>3 DEF DeleteRow
  <1>4. CASE AbortDelete(d)
    BY <1>4 DEF AbortDelete
  <1> QED
    BY <1>1, <1>2, <1>3, <1>4 DEF Delete

LEMMA GrantType ==
  ASSUME TypeOK, NEW r \in Resolves, GrantRefresh(r)
  PROVE  accepted' \in [Jiras -> Nat] /\ grants' \in Nat
  <1> DEFINE t == Refreshed(held[r].refresh).refresh
  <1>1. grants \in Nat /\ accepted \in [Jiras -> Nat] /\ held[r].refresh \in Nat
    BY DEF TypeOK, Bundles
  <1>2. t \in Nat
    BY <1>1 DEF Refreshed
  <1>3. accepted' = [accepted EXCEPT ![want[r].jira] = t] /\ grants' = grants + 1
    BY DEF GrantRefresh
  <1> HIDE DEF t
  <1>4. ASSUME NEW j \in Jiras
        PROVE  accepted'[j] \in Nat
    BY <1>1, <1>2, <1>3
  <1>5. accepted' \in [Jiras -> Nat]
    BY <1>1, <1>3, <1>4
  <1>6. grants' \in Nat
    BY <1>1, <1>3
  <1> QED
    BY <1>5, <1>6

LEMMA ResolveType ==
  ASSUME TypeOK, JiraRows, NEW r \in Resolves, Resolve(r)
  PROVE  TypeOK'
  <1> USE IdsAssumption DEF TypeOK, Ids, ResolveStep, ResolvePCs, Busy, deleting, atlassian
  <1>0. want[r] \in Wants /\ held[r] \in Bundles
    OBVIOUS
  <1>1. CASE LoadCursor(r) \/ LoadGitHub(r) \/ LoadJira(r)
    BY <1>1 DEF LoadCursor, LoadGitHub, LoadJira
  <1>7. CASE ReadCursorKey(r) \/ ReadGitHubKey(r)
    BY <1>7 DEF ReadCursorKey, ReadGitHubKey
  <1>2. CASE ReadBundle(r)
    <2>1. want[r].jira \in Jiras
      BY <1>2 DEF JiraRows, ReadBundle
    <2> QED
      BY <1>2, <2>1 DEF ReadBundle, Over
  <1>3. CASE Refresh(r)
    <2>1. want[r].jira \in Jiras
      BY <1>3 DEF JiraRows, Refresh
    <2>2. Refreshed(held[r].refresh) \in Bundles
      BY <1>0 DEF Refreshed, Bundles
    <2>3. accepted' \in [Jiras -> Nat] /\ grants' \in Nat
      BY <1>3, GrantType DEF Refresh
    <2>4. held' \in [Resolves \cup Jiras -> Bundles] /\ torn' \subseteq Jiras
      <3>1. held' = held \/ held' = [held EXCEPT ![r] = Refreshed(held[r].refresh)]
        BY <1>3 DEF Refresh
      <3>2. torn' = torn \/ torn' = torn \cup LostBy(r)
        BY <1>3 DEF Refresh
      <3>3. LostBy(r) \subseteq Jiras
        BY <2>1 DEF LostBy
      <3>4. torn \subseteq Jiras /\ held \in [Resolves \cup Jiras -> Bundles]
        OBVIOUS
      <3>5. torn' \subseteq Jiras
        BY ONLY <3>2, <3>3, <3>4
      <3>6. held' \in [Resolves \cup Jiras -> Bundles]
        BY ONLY <2>2, <3>1, <3>4
      <3> QED
        BY <3>5, <3>6
    <2> QED
      BY <1>3, <2>3, <2>4 DEF Refresh, GrantRefresh
  <1>4. CASE RefreshRefused(r) \/ RefreshUnavailable(r)
    BY <1>4 DEF RefreshRefused, RefreshUnavailable
  <1>5. CASE StoreBundle(r)
    BY <1>5, <1>0 DEF StoreBundle
  <1>6. CASE AbortResolve(r)
    <2>1. torn' \subseteq Jiras
      BY <1>6 DEF AbortResolve, LostBy, JiraRows
    <2> QED
      BY <1>6, <2>1 DEF AbortResolve
  <1> QED
    BY <1>1, <1>7, <1>2, <1>3, <1>4, <1>5, <1>6 DEF Resolve

LEMMA StepType == TypeOK /\ JiraRows /\ [Next]_vars => TypeOK'
  <1> SUFFICES ASSUME TypeOK, JiraRows, [Next]_vars
               PROVE  TypeOK'
    OBVIOUS
  <1>1. ASSUME NEW c \in Ids, Install(c)
        PROVE  TypeOK'
    BY <1>1, InstallType
  <1>2. ASSUME NEW d \in Deletes, Delete(d)
        PROVE  TypeOK'
    BY <1>2, DeleteType
  <1>3. ASSUME NEW r \in Resolves, Resolve(r)
        PROVE  TypeOK'
    BY <1>3, ResolveType
  <1>4. CASE TokensExpire
    BY <1>4 DEF TypeOK, TokensExpire, deleting, resolving
  <1>5. CASE UNCHANGED vars
    BY <1>5 DEF TypeOK, vars
  <1> QED
    BY <1>1, <1>2, <1>3, <1>4, <1>5 DEF Next

-----------------------------------------------------------------------------
(* Rows and secrets.  Between the two steps of an install the secret is    *)
(* there and the row is not, between the two steps of a delete likewise:   *)
(* both are needed to see that no step of another request gets between.    *)

RowsAndSecrets ==
  /\ \A c \in Ids :
       /\ install[c] = "stored" => secret[c] = "set"
       /\ row[c] # "absent" => install[c] = "done"
       /\ row[c] = "named" => secret[c] # "none"
       /\ secret[c] = "deleted" =>
            /\ install[c] = "done"
            /\ \E d \in Deletes : del[d] \in {"unlinked", "done"} /\ target[d] = c
  /\ \A d \in Deletes :
       /\ del[d] = "loaded" => install[target[d]] = "done" /\ secret[target[d]] # "none"
       /\ del[d] = "unlinked" => secret[target[d]] = "deleted"

SecretInv == TypeOK /\ JiraRows /\ RowsAndSecrets /\ GoneIsGone

LEMMA InitSecret == Init => SecretInv
  BY InitType, IdsAssumption DEF Init, SecretInv, JiraRows, RowsAndSecrets, GoneIsGone, Ids

LEMMA InstallSecret ==
  ASSUME SecretInv, NEW c \in Ids, Install(c)
  PROVE  JiraRows' /\ RowsAndSecrets' /\ GoneIsGone'
  <1> USE IdsAssumption DEF SecretInv, TypeOK, Ids, deleting, resolving
  <1>1. CASE c \in Jiras /\ ExchangeAuthorizationCode(c)
    BY <1>1 DEF ExchangeAuthorizationCode, JiraRows, RowsAndSecrets, GoneIsGone
  <1>2. CASE SetSecret(c)
    <2>1. JiraRows'
      BY <1>2 DEF SetSecret, JiraRows
    <2>2. install[c] # "done" /\ install[c] # "stored"
      BY <1>2 DEF SetSecret
    <2>3. RowsAndSecrets'
      BY <1>2, <2>2 DEF SetSecret, RowsAndSecrets
    <2>4. GoneIsGone'
      BY <1>2, <2>2 DEF SetSecret, GoneIsGone, RowsAndSecrets
    <2> QED
      BY <2>1, <2>3, <2>4
  <1>3. CASE SkipSecret(c)
    BY <1>3 DEF SkipSecret, JiraRows, RowsAndSecrets, GoneIsGone
  <1>4. CASE SaveRow(c)
    <2>1. JiraRows'
      BY <1>4 DEF SaveRow, NewRow, JiraRows
    <2>2. RowsAndSecrets'
      BY <1>4 DEF SaveRow, NewRow, RowsAndSecrets
    <2>3. GoneIsGone'
      BY <1>4 DEF SaveRow, GoneIsGone, RowsAndSecrets
    <2> QED
      BY <2>1, <2>2, <2>3
  <1>5. CASE AbortInstall(c)
    BY <1>5 DEF AbortInstall, JiraRows, RowsAndSecrets, GoneIsGone
  <1> QED
    BY <1>1, <1>2, <1>3, <1>4, <1>5 DEF Install

LEMMA DeleteSecretInv ==
  ASSUME SecretInv, NEW d \in Deletes, Delete(d)
  PROVE  JiraRows' /\ RowsAndSecrets' /\ GoneIsGone'
  <1> USE IdsAssumption DEF SecretInv, TypeOK, Ids, resolving
  <1>0. target[d] \in Cursors
    OBVIOUS
  <1>1. CASE DeleteLoad(d)
    BY <1>0, <1>1 DEF DeleteLoad, JiraRows, RowsAndSecrets, GoneIsGone
  <1>2. CASE DeleteSecret(d)
    <2>1. JiraRows' /\ GoneIsGone'
      BY <1>0, <1>2 DEF DeleteSecret, JiraRows, GoneIsGone
    <2>2. install[target[d]] = "done" /\ del'[d] \in {"unlinked", "done"}
      BY <1>2 DEF DeleteSecret, RowsAndSecrets
    <2>3. RowsAndSecrets'
      BY <1>0, <1>2, <2>2 DEF DeleteSecret, RowsAndSecrets
    <2> QED
      BY <2>1, <2>3
  <1>3. CASE DeleteRow(d)
    <2>1. JiraRows'
      <3> SUFFICES ASSUME NEW r \in Resolves, pc[r] \in {"keys", "jiraRow", "stale", "refreshed"}
                   PROVE  /\ want[r].jira \in Jiras
                          /\ pc[r] # "keys" => row'[want[r].jira] # "absent"
        BY <1>3 DEF DeleteRow, JiraRows
      <3> QED
        BY <1>0, <1>3 DEF DeleteRow, JiraRows
    <2>2. RowsAndSecrets'
      BY <1>0, <1>3 DEF DeleteRow, RowsAndSecrets
    <2>3. GoneIsGone'
      BY <1>0, <1>3 DEF DeleteRow, RowsAndSecrets, GoneIsGone
    <2> QED
      BY <2>1, <2>2, <2>3
  <1>4. CASE AbortDelete(d)
    BY <1>0, <1>4 DEF AbortDelete, JiraRows, RowsAndSecrets, GoneIsGone
  <1> QED
    BY <1>1, <1>2, <1>3, <1>4 DEF Delete

LEMMA ResolveSecret ==
  ASSUME SecretInv, NEW r \in Resolves, Resolve(r)
  PROVE  JiraRows' /\ RowsAndSecrets' /\ GoneIsGone'
  <1> USE DEF SecretInv, TypeOK, ResolveStep, deleting
  <1>1. UNCHANGED <<row, secret, install, del, target, gone>>
    BY DEF Resolve, LoadCursor, LoadGitHub, ReadCursorKey, ReadGitHubKey, LoadJira, ReadBundle,
           Refresh, RefreshRefused, RefreshUnavailable, StoreBundle, AbortResolve
  <1>2. RowsAndSecrets' /\ GoneIsGone'
    BY <1>1 DEF RowsAndSecrets, GoneIsGone
  <1>3. /\ UNCHANGED want
        /\ \E where \in ResolvePCs : pc' = [pc EXCEPT ![r] = where]
        /\ pc'[r] = "keys" => want[r].jira # None
        /\ pc'[r] = "jiraRow" => pc[r] = "keys" /\ row[want[r].jira] # "absent"
        /\ pc'[r] = "stale" => pc[r] = "jiraRow"
        /\ pc'[r] = "refreshed" => pc[r] = "stale"
    BY DEF Resolve, LoadCursor, LoadGitHub, ReadCursorKey, ReadGitHubKey, LoadJira, ReadBundle,
           Refresh, RefreshRefused, RefreshUnavailable, StoreBundle, AbortResolve, ResolvePCs, Busy
  <1>4. JiraRows'
    BY <1>1, <1>3 DEF JiraRows, Wants
  <1> QED
    BY <1>2, <1>4

LEMMA StepSecret == SecretInv /\ [Next]_vars => SecretInv'
  <1> SUFFICES ASSUME SecretInv, [Next]_vars
               PROVE  SecretInv'
    OBVIOUS
  <1>0. TypeOK'
    BY StepType DEF SecretInv
  <1> SUFFICES JiraRows' /\ RowsAndSecrets' /\ GoneIsGone'
    BY <1>0 DEF SecretInv
  <1>1. ASSUME NEW c \in Ids, Install(c)
        PROVE  JiraRows' /\ RowsAndSecrets' /\ GoneIsGone'
    BY <1>1, InstallSecret
  <1>2. ASSUME NEW d \in Deletes, Delete(d)
        PROVE  JiraRows' /\ RowsAndSecrets' /\ GoneIsGone'
    BY <1>2, DeleteSecretInv
  <1>3. ASSUME NEW r \in Resolves, Resolve(r)
        PROVE  JiraRows' /\ RowsAndSecrets' /\ GoneIsGone'
    BY <1>3, ResolveSecret
  <1>4. CASE TokensExpire
    BY <1>4 DEF SecretInv, JiraRows, RowsAndSecrets, GoneIsGone, TokensExpire, deleting, resolving
  <1>5. CASE UNCHANGED vars
    BY <1>5 DEF SecretInv, JiraRows, RowsAndSecrets, GoneIsGone, vars
  <1> QED
    BY <1>1, <1>2, <1>3, <1>4, <1>5 DEF Next

LEMMA SecretInvHolds == Spec => []SecretInv
  BY InitSecret, StepSecret, PTL DEF Spec

\* Type correctness of the credential services.
THEOREM TypeCorrect == Spec => []TypeOK
  <1>1. SecretInv => TypeOK
    BY DEF SecretInv
  <1> QED
    BY <1>1, SecretInvHolds, PTL

\* A row that names a secret has one, unless a delete request removed it: the order of the
\* two writes of an install, and of a delete, is right however the requests interleave.
THEOREM SecretsExist == Spec => []NamedSecretsExist
  <1>1. SecretInv => NamedSecretsExist
    BY DEF SecretInv, RowsAndSecrets, NamedSecretsExist, TypeOK
  <1> QED
    BY <1>1, SecretInvHolds, PTL

\* A deletion that was answered with 204 is final.
THEOREM DeletionIsFinal == Spec => []GoneIsGone
  <1>1. SecretInv => GoneIsGone
    BY DEF SecretInv
  <1> QED
    BY <1>1, SecretInvHolds, PTL

-----------------------------------------------------------------------------
(* The chain of refresh tokens.  What is accepted is never older than what *)
(* is stored or was read, and of the resolves of one connection at most    *)
(* one holds an answer of a rotating endpoint: the others hold tokens that *)
(* are no longer accepted, so they cannot get one of their own.            *)

ConnectionTokens(j) ==
  /\ install[j] = "granted" => held[j].refresh = accepted[j]
  /\ install[j] = "stored" => bundle[j].refresh = accepted[j]
  /\ install[j] \in {"idle", "granted"} => bundle[j].refresh = 0
  /\ row[j] # "absent" => bundle[j].refresh <= accepted[j]
  /\ ~rotating /\ row[j] # "absent" => bundle[j].refresh = accepted[j]
  /\ accepted[j] <= grants

ResolveTokens(r) ==
  /\ pc[r] = "refreshed" => held[r].refresh = accepted[want[r].jira]
  /\ pc[r] = "stale" => held[r].refresh <= accepted[want[r].jira]
  /\ ~rotating /\ pc[r] = "stale" => held[r].refresh = accepted[want[r].jira]

Sole(r) ==
  rotating /\ pc[r] = "refreshed" =>
    /\ bundle[want[r].jira].refresh < accepted[want[r].jira]
    /\ \A q \in Resolves \ {r} :
         want[q].jira = want[r].jira =>
           /\ pc[q] # "refreshed"
           /\ pc[q] = "stale" => held[q].refresh < accepted[want[r].jira]

Tokens ==
  /\ \A j \in Jiras : ConnectionTokens(j)
  /\ \A r \in Resolves : ResolveTokens(r) /\ Sole(r)

ChainInv == SecretInv /\ Tokens /\ ChainUnbroken

LEMMA InitChain == Init => ChainInv
  BY InitSecret, IdsAssumption
  DEF Init, ChainInv, Tokens, ConnectionTokens, ResolveTokens, Sole, ChainUnbroken, NoBundle, Ids

\* An install concerns a connection without a row, which no resolve has got to.
LEMMA InstallTokens ==
  ASSUME ChainInv, NEW c \in Ids, Install(c)
  PROVE  Tokens' /\ ChainUnbroken'
  <1> USE IdsAssumption DEF ChainInv, SecretInv, TypeOK, Tokens, Ids, deleting, resolving, atlassian
  <1>0. ASSUME NEW r \in Resolves, pc[r] \in {"stale", "refreshed"}
        PROVE  /\ want[r].jira \in Jiras
               /\ row[want[r].jira] # "absent"
               /\ install[want[r].jira] = "done"
    BY <1>0 DEF JiraRows, RowsAndSecrets
  <1>1. CASE c \in Jiras /\ ExchangeAuthorizationCode(c)
    <2>1. row[c] = "absent" /\ grants' = grants + 1 /\ grants \in Nat
      BY <1>1 DEF ExchangeAuthorizationCode, RowsAndSecrets
    <2>2. /\ \A j \in Jiras \ {c} : accepted'[j] = accepted[j] /\ held'[j] = held[j]
          /\ \A r \in Resolves : held'[r] = held[r]
          /\ held'[c].refresh = accepted'[c]
          /\ accepted'[c] <= grants'
      BY <1>1 DEF ExchangeAuthorizationCode
    <2>3. ASSUME NEW j \in Jiras
          PROVE  ConnectionTokens(j)'
      BY <1>1, <2>1, <2>2 DEF ExchangeAuthorizationCode, ConnectionTokens
    <2>4. ASSUME NEW r \in Resolves
          PROVE  ResolveTokens(r)' /\ Sole(r)'
      BY <1>0, <1>1, <2>1, <2>2 DEF ExchangeAuthorizationCode, ResolveTokens, Sole
    <2>5. ASSUME NEW j \in Jiras \ torn, row[j] # "absent"
          PROVE  \/ bundle'[j].refresh = accepted'[j]
                 \/ \E r \in Resolves :
                      pc'[r] = "refreshed" /\ want'[r].jira = j /\ held'[r].refresh = accepted'[j]
      <3>1. j # c /\ accepted'[j] = accepted[j]
        BY <2>1, <2>2, <2>5
      <3>2. UNCHANGED <<bundle, pc, want>>
        BY <1>1 DEF ExchangeAuthorizationCode
      <3> QED
        BY <2>2, <2>5, <3>1, <3>2 DEF ChainUnbroken
    <2>6. ChainUnbroken'
      BY <1>1, <2>5 DEF ExchangeAuthorizationCode, ChainUnbroken
    <2> QED
      BY <2>3, <2>4, <2>6
  <1>2. CASE SetSecret(c)
    <2>1. row[c] = "absent" /\ install[c] # "done"
      BY <1>2 DEF SetSecret, RowsAndSecrets
    <2>2. \A j \in Jiras \ {c} : bundle'[j] = bundle[j]
      BY <1>2 DEF SetSecret
    <2>3. c \in Jiras => bundle'[c].refresh = accepted[c]
      BY <1>2 DEF SetSecret, ConnectionTokens
    <2>4. ASSUME NEW j \in Jiras
          PROVE  ConnectionTokens(j)'
      BY <1>2, <2>1, <2>2, <2>3 DEF SetSecret, ConnectionTokens
    <2>5. ASSUME NEW r \in Resolves
          PROVE  ResolveTokens(r)' /\ Sole(r)'
      BY <1>0, <1>2, <2>1, <2>2 DEF SetSecret, ResolveTokens, Sole
    <2>6. ChainUnbroken'
      BY <1>2, <2>1, <2>2 DEF SetSecret, ChainUnbroken
    <2> QED
      BY <2>4, <2>5, <2>6
  <1>3. CASE SkipSecret(c) \/ AbortInstall(c)
    <2>1. ASSUME NEW j \in Jiras
          PROVE  ConnectionTokens(j)'
      BY <1>3 DEF SkipSecret, AbortInstall, ConnectionTokens
    <2>2. ASSUME NEW r \in Resolves
          PROVE  ResolveTokens(r)' /\ Sole(r)'
      BY <1>3 DEF SkipSecret, AbortInstall, ResolveTokens, Sole
    <2>3. ChainUnbroken'
      BY <1>3 DEF SkipSecret, AbortInstall, ChainUnbroken
    <2> QED
      BY <2>1, <2>2, <2>3
  <1>4. CASE SaveRow(c)
    <2>1. c \in Jiras => bundle[c].refresh = accepted[c]
      BY <1>4 DEF SaveRow, ConnectionTokens
    <2>2. ASSUME NEW j \in Jiras
          PROVE  ConnectionTokens(j)'
      BY <1>4, <2>1 DEF SaveRow, ConnectionTokens
    <2>3. ASSUME NEW r \in Resolves
          PROVE  ResolveTokens(r)' /\ Sole(r)'
      BY <1>4 DEF SaveRow, ResolveTokens, Sole
    <2>4. ChainUnbroken'
      BY <1>4, <2>1 DEF SaveRow, ChainUnbroken
    <2> QED
      BY <2>2, <2>3, <2>4
  <1> QED
    BY <1>1, <1>2, <1>3, <1>4 DEF Install

\* Only Cursor credentials are deleted.
LEMMA DeleteTokens ==
  ASSUME ChainInv, NEW d \in Deletes, Delete(d)
  PROVE  Tokens' /\ ChainUnbroken'
  <1> USE IdsAssumption DEF ChainInv, SecretInv, TypeOK, Tokens, Ids, resolving, atlassian
  <1>1. /\ \A j \in Jiras : row'[j] = row[j]
        /\ UNCHANGED <<bundle, install, resolving, held, atlassian, torn>>
    BY DEF Delete, DeleteLoad, DeleteSecret, DeleteRow, AbortDelete
  <1>2. ASSUME NEW j \in Jiras
        PROVE  ConnectionTokens(j)'
    BY <1>1 DEF ConnectionTokens
  <1>3. ASSUME NEW r \in Resolves
        PROVE  ResolveTokens(r)' /\ Sole(r)'
    BY <1>1 DEF ResolveTokens, Sole
  <1>4. ChainUnbroken'
    BY <1>1 DEF ChainUnbroken
  <1> QED
    BY <1>2, <1>3, <1>4

\* Steps of a resolve before it has a new bundle: nothing but its own state changes.
LEMMA ReadTokens ==
  ASSUME ChainInv, NEW r \in Resolves,
         \/ LoadCursor(r) \/ LoadGitHub(r) \/ ReadCursorKey(r) \/ ReadGitHubKey(r) \/ LoadJira(r)
         \/ ReadBundle(r) \/ RefreshRefused(r) \/ RefreshUnavailable(r)
  PROVE  Tokens' /\ ChainUnbroken'
  <1> USE IdsAssumption DEF ChainInv, SecretInv, TypeOK, Tokens, ResolveStep, deleting, atlassian
  <1> DEFINE j == want[r].jira
  <1>1. /\ UNCHANGED <<row, bundle, install, want, atlassian, torn>>
        /\ \A h \in (Resolves \cup Jiras) \ {r} : held'[h] = held[h]
        /\ \A q \in Resolves \ {r} : pc'[q] = pc[q]
        /\ pc[r] # "refreshed" /\ pc'[r] # "refreshed"
    BY DEF LoadCursor, LoadGitHub, ReadCursorKey, ReadGitHubKey, LoadJira, ReadBundle,
           RefreshRefused, RefreshUnavailable
  <1>2. pc'[r] = "stale" => /\ j \in Jiras
                            /\ row[j] # "absent"
                            /\ held'[r] = bundle[j]
    BY DEF LoadCursor, LoadGitHub, ReadCursorKey, ReadGitHubKey, LoadJira, ReadBundle,
           RefreshRefused, RefreshUnavailable, JiraRows
  <1>3. ASSUME NEW k \in Jiras
        PROVE  ConnectionTokens(k)'
    <2>1. held'[k] = held[k]
      BY <1>1
    <2> QED
      BY <1>1, <2>1 DEF ConnectionTokens
  <1>4. ASSUME NEW q \in Resolves
        PROVE  ResolveTokens(q)'
    BY <1>1, <1>2 DEF ResolveTokens, ConnectionTokens
  <1>5. ASSUME NEW q \in Resolves
        PROVE  Sole(q)'
    <2> SUFFICES ASSUME rotating, pc'[q] = "refreshed"
                 PROVE  /\ bundle[want[q].jira].refresh < accepted[want[q].jira]
                        /\ \A p \in Resolves \ {q} :
                             want[p].jira = want[q].jira =>
                               /\ pc'[p] # "refreshed"
                               /\ pc'[p] = "stale" => held'[p].refresh < accepted[want[q].jira]
      BY <1>1 DEF Sole
    <2>1. q # r /\ pc[q] = "refreshed"
      BY <1>1
    <2>2. bundle[want[q].jira].refresh < accepted[want[q].jira]
      BY <2>1 DEF Sole
    <2>3. ASSUME NEW p \in Resolves \ {q}, want[p].jira = want[q].jira
          PROVE  /\ pc'[p] # "refreshed"
                 /\ pc'[p] = "stale" => held'[p].refresh < accepted[want[q].jira]
      <3>1. CASE p = r
        BY <1>1, <1>2, <2>2, <2>3, <3>1
      <3>2. CASE p # r
        BY <1>1, <2>1, <2>3, <3>2 DEF Sole
      <3> QED
        BY <3>1, <3>2
    <2> QED
      BY <2>2, <2>3
  <1>6. ASSUME NEW k \in Jiras \ torn, row[k] # "absent"
        PROVE  \/ bundle[k].refresh = accepted[k]
               \/ \E q \in Resolves :
                    pc'[q] = "refreshed" /\ want[q].jira = k /\ held'[q].refresh = accepted[k]
    <2>1. CASE bundle[k].refresh = accepted[k]
      BY <2>1
    <2>2. ASSUME NEW q \in Resolves,
                 pc[q] = "refreshed" /\ want[q].jira = k /\ held[q].refresh = accepted[k]
          PROVE  pc'[q] = "refreshed" /\ held'[q].refresh = accepted[k]
      <3>1. q # r
        BY <1>1, <2>2
      <3> QED
        BY <1>1, <2>2, <3>1
    <2> QED
      BY <1>6, <2>1, <2>2 DEF ChainUnbroken
  <1>7. ChainUnbroken'
    BY <1>1, <1>6 DEF ChainUnbroken
  <1> QED
    BY <1>3, <1>4, <1>5, <1>7

\* A refresh that is granted: no other resolve holds an answer for the connection.
LEMMA RefreshTokens ==
  ASSUME ChainInv, NEW r \in Resolves, Refresh(r)
  PROVE  Tokens' /\ ChainUnbroken'
  <1> USE IdsAssumption DEF ChainInv, SecretInv, TypeOK, Tokens, ResolveStep, deleting, Bundles
  <1> DEFINE j == want[r].jira
             t == Refreshed(held[r].refresh)
  <1>1. /\ j \in Jiras /\ row[j] # "absent" /\ install[j] = "done"
        /\ pc[r] = "stale" /\ held[r].refresh = accepted[j]
    BY DEF Refresh, GrantRefresh, JiraRows, RowsAndSecrets, Ids
  <1>2. /\ UNCHANGED <<row, bundle, install, want, rotating>>
        /\ \A h \in (Resolves \cup Jiras) \ {r} : held'[h] = held[h]
        /\ \A q \in Resolves \ {r} : pc'[q] = pc[q]
        /\ \A k \in Jiras \ {j} : accepted'[k] = accepted[k]
    BY <1>1 DEF Refresh, GrantRefresh
  <1>3. /\ grants' = grants + 1 /\ grants \in Nat
        /\ accepted'[j] = t.refresh
        /\ t.refresh = IF rotating THEN grants + 1 ELSE accepted[j]
    BY <1>1 DEF Refresh, GrantRefresh, Refreshed
  <1>4. \/ pc'[r] = "refreshed" /\ held'[r] = t /\ torn' = torn
        \/ pc'[r] = "failed" /\ held'[r] = held[r] /\ torn' = torn \cup LostBy(r)
    BY DEF Refresh
  <1>5. accepted[j] <= grants /\ bundle[j].refresh <= accepted[j]
    BY <1>1 DEF ConnectionTokens
  <1>6. ASSUME NEW k \in Jiras
        PROVE  ConnectionTokens(k)'
    <2>1. held'[k] = held[k]
      BY <1>2
    <2>2. CASE k = j
      BY <1>1, <1>2, <1>3, <1>5, <2>1, <2>2 DEF ConnectionTokens
    <2>3. CASE k # j
      BY <1>2, <1>3, <2>1, <2>3 DEF ConnectionTokens
    <2> QED
      BY <2>2, <2>3
  <1>7. ASSUME NEW q \in Resolves \ {r}, want[q].jira = j
        PROVE  rotating => pc[q] # "refreshed"
    BY <1>1, <1>7 DEF Sole
  <1>8. ASSUME NEW q \in Resolves
        PROVE  ResolveTokens(q)' /\ Sole(q)'
    <2>0. pc[q] \in {"stale", "refreshed"} => want[q].jira \in Jiras
      BY DEF JiraRows
    <2>1. CASE q = r
      <3>1. ResolveTokens(r)'
        BY <1>2, <1>3, <1>4 DEF ResolveTokens
      <3>2. ASSUME rotating, NEW p \in Resolves \ {r}, want[p].jira = j, pc[p] = "stale"
            PROVE  held[p].refresh < accepted'[j]
        <4>1. held[p].refresh <= accepted[j]
          BY <3>2 DEF ResolveTokens
        <4>2. held[p].refresh \in Nat /\ accepted[j] \in Nat /\ accepted'[j] = grants + 1
          BY <1>1, <1>3, <3>2
        <4> QED
          BY <1>3, <1>5, <4>1, <4>2
      <3>3. rotating => bundle[j].refresh < accepted'[j]
        <4>1. bundle[j].refresh \in Nat /\ accepted[j] \in Nat
          BY <1>1
        <4> QED
          BY <1>3, <1>5, <4>1
      <3>4. Sole(r)'
        <4> SUFFICES ASSUME rotating, pc'[r] = "refreshed"
                     PROVE  /\ bundle'[j].refresh < accepted'[j]
                            /\ \A p \in Resolves \ {r} :
                                 want[p].jira = j =>
                                   /\ pc'[p] # "refreshed"
                                   /\ pc'[p] = "stale" => held'[p].refresh < accepted'[j]
          BY <1>2 DEF Sole
        <4> QED
          BY <1>2, <1>7, <3>2, <3>3
      <3> QED
        BY <2>1, <3>1, <3>4
    <2>2. CASE q # r /\ want[q].jira = j
      <3>0. /\ held[q].refresh \in Nat /\ accepted[j] \in Nat
            /\ accepted[j] <= accepted'[j]
            /\ ~rotating => accepted'[j] = accepted[j]
        BY <1>1, <1>3, <1>5
      <3>1. ResolveTokens(q)'
        <4>1. /\ pc'[q] = pc[q] /\ held'[q] = held[q] /\ want'[q].jira = j
              /\ rotating' = rotating
          BY <1>2, <2>2
        <4>2. pc[q] = "refreshed" => ~rotating
          BY <1>7, <2>2
        <4>3. pc[q] = "refreshed" => held[q].refresh = accepted'[j]
          BY <2>2, <3>0, <4>2 DEF ResolveTokens
        <4>4. pc[q] = "stale" => held[q].refresh <= accepted[j]
          BY <2>2 DEF ResolveTokens
        <4>5. accepted'[j] \in Nat
          BY <1>1, <1>3
        <4>6. pc[q] = "stale" => held[q].refresh <= accepted'[j]
          BY <3>0, <4>4, <4>5
        <4>7. ~rotating /\ pc[q] = "stale" => held[q].refresh = accepted'[j]
          BY <2>2, <3>0 DEF ResolveTokens
        <4> QED
          BY <4>1, <4>3, <4>6, <4>7 DEF ResolveTokens
      <3>2. Sole(q)'
        BY <1>2, <1>7, <2>2 DEF Sole
      <3> QED
        BY <3>1, <3>2
    <2>3. CASE q # r /\ want[q].jira # j
      <3>1. ResolveTokens(q)'
        BY <1>2, <2>0, <2>3 DEF ResolveTokens
      <3>2. Sole(q)'
        BY <1>2, <2>0, <2>3 DEF Sole
      <3> QED
        BY <3>1, <3>2
    <2> QED
      BY <2>1, <2>2, <2>3
  <1>9. ASSUME NEW k \in Jiras \ torn', row[k] # "absent"
        PROVE  \/ bundle[k].refresh = accepted'[k]
               \/ \E q \in Resolves :
                    pc'[q] = "refreshed" /\ want[q].jira = k /\ held'[q].refresh = accepted'[k]
    <2>1. CASE k = j
      <3>1. CASE pc'[r] = "refreshed"
        BY <1>3, <1>4, <2>1, <3>1
      <3>2. CASE pc'[r] # "refreshed"
        BY <1>1, <1>3, <1>4, <1>9, <2>1, <3>2 DEF ConnectionTokens, LostBy
      <3> QED
        BY <3>1, <3>2
    <2>2. CASE k # j
      <3>1. k \notin torn /\ accepted'[k] = accepted[k]
        BY <1>2, <1>4, <1>9, <2>2
      <3>2. \/ bundle[k].refresh = accepted[k]
            \/ \E q \in Resolves :
                 pc[q] = "refreshed" /\ want[q].jira = k /\ held[q].refresh = accepted[k]
        BY <1>9, <3>1 DEF ChainUnbroken
      <3> QED
        BY <1>1, <1>2, <3>1, <3>2
    <2> QED
      BY <2>1, <2>2
  <1>10. ChainUnbroken'
    BY <1>2, <1>9 DEF ChainUnbroken
  <1> QED
    BY <1>6, <1>8, <1>10

\* The end of a resolve that holds an answer: it is stored, or lost with the resolve.
LEMMA EndTokens ==
  ASSUME ChainInv, NEW r \in Resolves, StoreBundle(r) \/ AbortResolve(r)
  PROVE  Tokens' /\ ChainUnbroken'
  <1> USE IdsAssumption DEF ChainInv, SecretInv, TypeOK, Tokens, ResolveStep, deleting, atlassian
  <1> DEFINE j == want[r].jira
  <1>1. /\ UNCHANGED <<row, install, want, held, atlassian>>
        /\ \A q \in Resolves \ {r} : pc'[q] = pc[q]
        /\ pc'[r] \in {"answered", "failed"}
    BY DEF StoreBundle, AbortResolve
  <1>2. pc[r] = "refreshed" => /\ j \in Jiras /\ row[j] # "absent" /\ install[j] = "done"
                               /\ held[r].refresh = accepted[j]
    BY DEF JiraRows, RowsAndSecrets, ResolveTokens, Ids
  <1>3. \/ pc[r] = "refreshed" /\ bundle' = [bundle EXCEPT ![j] = held[r]] /\ torn' = torn
        \/ bundle' = bundle /\ torn' = IF pc[r] = "refreshed" THEN torn \cup LostBy(r) ELSE torn
    BY DEF StoreBundle, AbortResolve
  <1>4. /\ \A k \in Jiras \ {j} : bundle'[k] = bundle[k]
        /\ j \in Jiras => bundle'[j].refresh \in {bundle[j].refresh, accepted[j]}
        /\ pc[r] # "refreshed" => bundle' = bundle
    BY <1>2, <1>3
  <1>5. ASSUME NEW k \in Jiras
        PROVE  ConnectionTokens(k)'
    BY <1>1, <1>2, <1>4 DEF ConnectionTokens
  <1>6. ASSUME NEW q \in Resolves
        PROVE  ResolveTokens(q)' /\ Sole(q)'
    <2>1. ResolveTokens(q)'
      BY <1>1 DEF ResolveTokens
    <2>2. ASSUME rotating, pc'[q] = "refreshed"
          PROVE  bundle'[want[q].jira] = bundle[want[q].jira]
      <3>1. q # r /\ pc[q] = "refreshed" /\ want[q].jira \in Jiras
        BY <1>1, <2>2 DEF JiraRows
      <3>2. want[q].jira = j => pc[r] # "refreshed"
        BY <2>2, <3>1 DEF Sole
      <3> QED
        BY <1>4, <3>1, <3>2
    <2>3. Sole(q)'
      BY <1>1, <2>2 DEF Sole
    <2> QED
      BY <2>1, <2>3
  <1>7. ASSUME NEW k \in Jiras \ torn', row[k] # "absent"
        PROVE  \/ bundle'[k].refresh = accepted[k]
               \/ \E q \in Resolves :
                    pc'[q] = "refreshed" /\ want[q].jira = k /\ held[q].refresh = accepted[k]
    <2>0. k \notin torn
      BY <1>3, <1>7
    <2>1. PICK q \in Resolves \cup {None} :
            \/ bundle[k].refresh = accepted[k]
            \/ /\ q \in Resolves
               /\ pc[q] = "refreshed" /\ want[q].jira = k /\ held[q].refresh = accepted[k]
      BY <1>7, <2>0 DEF ChainUnbroken
    <2>2. CASE bundle[k].refresh = accepted[k]
      BY <1>4, <2>2
    <2>3. CASE q \in Resolves /\ q # r /\ pc[q] = "refreshed" /\ want[q].jira = k
                 /\ held[q].refresh = accepted[k]
      BY <1>1, <2>3
    <2>4. CASE pc[r] = "refreshed" /\ j = k
      <3>1. CASE bundle' = [bundle EXCEPT ![j] = held[r]]
        BY <1>2, <2>4, <3>1
      <3>2. CASE bundle' = bundle /\ torn' = torn \cup LostBy(r)
        BY <1>2, <1>7, <2>4, <3>2 DEF LostBy, ConnectionTokens
      <3> QED
        BY <1>3, <2>4, <3>1, <3>2
    <2> QED
      BY <2>1, <2>2, <2>3, <2>4
  <1>8. ChainUnbroken'
    BY <1>1, <1>7 DEF ChainUnbroken
  <1> QED
    BY <1>5, <1>6, <1>8

LEMMA StepChain == ChainInv /\ [Next]_vars => ChainInv'
  <1> SUFFICES ASSUME ChainInv, [Next]_vars
               PROVE  ChainInv'
    OBVIOUS
  <1>0. SecretInv'
    BY StepSecret DEF ChainInv
  <1> SUFFICES Tokens' /\ ChainUnbroken'
    BY <1>0 DEF ChainInv
  <1>1. ASSUME NEW c \in Ids, Install(c)
        PROVE  Tokens' /\ ChainUnbroken'
    BY <1>1, InstallTokens
  <1>2. ASSUME NEW d \in Deletes, Delete(d)
        PROVE  Tokens' /\ ChainUnbroken'
    BY <1>2, DeleteTokens
  <1>3. ASSUME NEW r \in Resolves, Resolve(r)
        PROVE  Tokens' /\ ChainUnbroken'
    BY <1>3, ReadTokens, RefreshTokens, EndTokens DEF Resolve
  <1>4. CASE TokensExpire
    BY <1>4 DEF ChainInv, Tokens, ConnectionTokens, ResolveTokens, Sole, ChainUnbroken,
                TokensExpire, resolving
  <1>5. CASE UNCHANGED vars
    BY <1>5 DEF ChainInv, Tokens, ConnectionTokens, ResolveTokens, Sole, ChainUnbroken, vars
  <1> QED
    BY <1>1, <1>2, <1>3, <1>4, <1>5 DEF Next

LEMMA ChainInvHolds == Spec => []ChainInv
  BY InitChain, StepChain, PTL DEF Spec

\* The chain of refresh tokens of a connection breaks only where a token is lost between
\* the token endpoint and Key Vault, whether or not the endpoint rotates.
THEOREM ChainHolds == Spec => []ChainUnbroken
  <1>1. ChainInv => ChainUnbroken
    BY DEF ChainInv
  <1> QED
    BY <1>1, ChainInvHolds, PTL

\* No order of resolves that refresh one connection puts an old refresh token back.
THEOREM TokensGoForward == Spec => RefreshTokensGoForward
  <1>1. ASSUME ChainInv, [Next]_vars
        PROVE  [\A j \in Jiras : bundle'[j].refresh >= bundle[j].refresh]_vars
    <2> USE <1>1, IdsAssumption DEF ChainInv, SecretInv, TypeOK, Tokens, Bundles
    <2>0. ASSUME bundle' = bundle
          PROVE  \A j \in Jiras : bundle'[j].refresh >= bundle[j].refresh
      BY <2>0
    <2>1. ASSUME NEW c \in Jiras, SetSecret(c)
          PROVE  \A j \in Jiras : bundle'[j].refresh >= bundle[j].refresh
      <3>1. bundle[c].refresh = 0 /\ bundle' = [bundle EXCEPT ![c] = held[c]]
        BY <2>1 DEF SetSecret, ConnectionTokens
      <3> QED
        BY <3>1
    <2>2. ASSUME NEW r \in Resolves, StoreBundle(r)
          PROVE  \A j \in Jiras : bundle'[j].refresh >= bundle[j].refresh
      <3>1. /\ bundle' = [bundle EXCEPT ![want[r].jira] = held[r]]
            /\ want[r].jira \in Jiras /\ row[want[r].jira] # "absent"
            /\ held[r].refresh = accepted[want[r].jira]
        BY <2>2 DEF StoreBundle, JiraRows, ResolveTokens
      <3>2. bundle[want[r].jira].refresh <= held[r].refresh
        BY <3>1 DEF ConnectionTokens
      <3> QED
        BY <3>1, <3>2
    <2>3. \/ UNCHANGED bundle
          \/ \E c \in Jiras : SetSecret(c)
          \/ \E r \in Resolves : StoreBundle(r)
      <3>1. ASSUME NEW c \in Ids, Install(c)
            PROVE  UNCHANGED bundle \/ (c \in Jiras /\ SetSecret(c))
        <4>1. SetSecret(c) /\ c \notin Jiras => bundle' = bundle
          BY DEF SetSecret
        <4>2. ExchangeAuthorizationCode(c) \/ SkipSecret(c) \/ SaveRow(c) \/ AbortInstall(c)
              => bundle' = bundle
          BY DEF ExchangeAuthorizationCode, SkipSecret, SaveRow, AbortInstall
        <4> QED
          BY <3>1, <4>1, <4>2 DEF Install
      <3>2. ASSUME NEW d \in Deletes, Delete(d)
            PROVE  UNCHANGED bundle
        BY <3>2 DEF Delete, DeleteLoad, DeleteSecret, DeleteRow, AbortDelete
      <3>3. ASSUME NEW r \in Resolves, Resolve(r)
            PROVE  UNCHANGED bundle \/ StoreBundle(r)
        BY <3>3 DEF Resolve, LoadCursor, LoadGitHub, ReadCursorKey, ReadGitHubKey, LoadJira,
                    ReadBundle, Refresh, RefreshRefused, RefreshUnavailable, AbortResolve
      <3>4. TokensExpire => UNCHANGED bundle
        BY DEF TokensExpire
      <3>5. UNCHANGED vars => UNCHANGED bundle
        BY DEF vars
      <3> QED
        BY <1>1, <3>1, <3>2, <3>3, <3>4, <3>5 DEF Next
    <2> QED
      BY <2>0, <2>1, <2>2, <2>3
  <1> QED
    BY <1>1, ChainInvHolds, PTL DEF Spec, RefreshTokensGoForward

-----------------------------------------------------------------------------
(* Fresh tokens: only a grant makes a token, and it is younger than every  *)
(* expiry so far.                                                          *)

FreshOf(r) ==
  /\ at[r].freshFrom <= freshFrom
  /\ \/ pc[r] = "refreshed"
     \/ pc[r] = "answered" /\ want[r].jira # None
     => held[r].access >= at[r].freshFrom

FreshInv == SecretInv /\ freshFrom <= grants + 1 /\ \A r \in Resolves : FreshOf(r)

LEMMA ResolveFresh ==
  ASSUME FreshInv, NEW r \in Resolves, Resolve(r)
  PROVE  freshFrom' <= grants' + 1 /\ \A q \in Resolves : FreshOf(q)'
  <1> USE IdsAssumption DEF FreshInv, SecretInv, TypeOK, ResolveStep, atlassian, Bundles
  <1>1. /\ UNCHANGED <<want, freshFrom>>
        /\ grants' = grants \/ grants' = grants + 1
        /\ \A q \in Resolves \ {r} : pc'[q] = pc[q] /\ held'[q] = held[q] /\ at'[q] = at[q]
    BY DEF Resolve, LoadCursor, LoadGitHub, ReadCursorKey, ReadGitHubKey, LoadJira, ReadBundle,
           Refresh, GrantRefresh, RefreshRefused, RefreshUnavailable, StoreBundle, AbortResolve
  <1>2. ASSUME NEW q \in Resolves \ {r}
        PROVE  FreshOf(q)'
    BY <1>1 DEF FreshOf
  <1>3. FreshOf(r)'
    <2>1. CASE LoadCursor(r) \/ LoadGitHub(r) \/ ReadCursorKey(r) \/ ReadGitHubKey(r) \/ LoadJira(r)
      BY <2>1 DEF LoadCursor, LoadGitHub, ReadCursorKey, ReadGitHubKey, LoadJira, FreshOf
    <2>2. CASE ReadBundle(r)
      <3>1. at'[r].freshFrom = freshFrom /\ pc'[r] # "refreshed"
        BY <2>2 DEF ReadBundle
      <3>2. pc'[r] = "answered" => held'[r].access >= freshFrom
        <4>1. want[r].jira \in Jiras
          BY <2>2 DEF ReadBundle, JiraRows
        <4> QED
          BY <2>2, <4>1 DEF ReadBundle, IsStale
      <3> QED
        BY <1>1, <3>1, <3>2 DEF FreshOf
    <2>3. CASE Refresh(r)
      <3>1. /\ at' = at /\ pc'[r] \in {"refreshed", "failed"}
            /\ pc'[r] = "refreshed" => held'[r].access = grants + 1
        BY <2>3 DEF Refresh, Refreshed
      <3>2. at[r].freshFrom <= grants + 1
        BY DEF FreshOf
      <3> QED
        BY <1>1, <3>1, <3>2 DEF FreshOf
    <2>4. CASE RefreshRefused(r) \/ RefreshUnavailable(r) \/ AbortResolve(r)
      BY <2>4 DEF RefreshRefused, RefreshUnavailable, AbortResolve, FreshOf
    <2>5. CASE StoreBundle(r)
      BY <2>5 DEF StoreBundle, FreshOf
    <2> QED
      BY <2>1, <2>2, <2>3, <2>4, <2>5 DEF Resolve
  <1>4. freshFrom' <= grants' + 1
    BY <1>1
  <1> QED
    BY <1>2, <1>3, <1>4

LEMMA StepFresh == FreshInv /\ [Next]_vars => FreshInv'
  <1> SUFFICES ASSUME FreshInv, [Next]_vars
               PROVE  FreshInv'
    OBVIOUS
  <1>0. SecretInv'
    BY StepSecret DEF FreshInv
  <1> SUFFICES freshFrom' <= grants' + 1 /\ \A r \in Resolves : FreshOf(r)'
    BY <1>0 DEF FreshInv
  <1> USE IdsAssumption DEF FreshInv, SecretInv, TypeOK, Ids, deleting, resolving, atlassian
  <1>1. ASSUME NEW c \in Ids, Install(c)
        PROVE  freshFrom' <= grants' + 1 /\ \A r \in Resolves : FreshOf(r)'
    <2>1. /\ UNCHANGED <<pc, want, at, freshFrom>>
          /\ grants' = grants \/ grants' = grants + 1
          /\ \A r \in Resolves : held'[r] = held[r]
      BY <1>1 DEF Install, ExchangeAuthorizationCode, SetSecret, SkipSecret, SaveRow, AbortInstall
    <2>2. freshFrom' <= grants' + 1
      BY <2>1
    <2>3. ASSUME NEW r \in Resolves
          PROVE  FreshOf(r)'
      BY <2>1 DEF FreshOf
    <2> QED
      BY <2>2, <2>3
  <1>2. ASSUME NEW d \in Deletes, Delete(d)
        PROVE  freshFrom' <= grants' + 1 /\ \A r \in Resolves : FreshOf(r)'
    BY <1>2 DEF Delete, DeleteLoad, DeleteSecret, DeleteRow, AbortDelete, FreshOf
  <1>3. ASSUME NEW r \in Resolves, Resolve(r)
        PROVE  freshFrom' <= grants' + 1 /\ \A q \in Resolves : FreshOf(q)'
    BY <1>3, ResolveFresh
  <1>4. CASE TokensExpire
    BY <1>4 DEF TokensExpire, FreshOf
  <1>5. CASE UNCHANGED vars
    BY <1>5 DEF vars, FreshOf
  <1> QED
    BY <1>1, <1>2, <1>3, <1>4, <1>5 DEF Next

\* The Jira token a worker is given was not about to expire when its resolve read it, or
\* was granted to that resolve.
THEOREM HandedOutFresh == Spec => []HandedOutTokensWereFresh
  <1>1. Init => FreshInv
    BY InitSecret DEF Init, FreshInv, FreshOf
  <1>2. FreshInv => HandedOutTokensWereFresh
    BY DEF FreshInv, FreshOf, HandedOutTokensWereFresh
  <1> QED
    BY <1>1, <1>2, StepFresh, PTL DEF Spec

-----------------------------------------------------------------------------
(* Refusals.  With a rotating endpoint a bundle has the number of its      *)
(* refresh token for its access token too, so a bundle whose refresh token *)
(* is accepted no longer is older than the one that replaced it; and the   *)
(* resolve that replaced it was not over when the older bundle was read.   *)

Unread == {"idle", "cursorRow", "rows", "cursorKey", "keys", "jiraRow"}

Paired(b) == b.access <= grants /\ (rotating => b.refresh \in {0, b.access})

Newer(r) ==
  \E q \in Resolves \ at[r].over :
    want[q].jira = want[r].jira /\ held[q].access > held[r].access

Cause(r) ==
  /\ at[r].over \subseteq Over
  /\ pc[r] \in Unread => held[r] = NoBundle
  /\ pc[r] \in {"stale", "refused"} =>
       \/ held[r].refresh = 0
       \/ pc[r] = "stale" /\ held[r].refresh = accepted[want[r].jira]
       \/ want[r].jira \in torn
       \/ Newer(r)

AllPaired ==
  /\ \A j \in Jiras : Paired(bundle[j])
  /\ \A h \in Resolves \cup Jiras : Paired(held[h])

CauseInv == ChainInv /\ AllPaired /\ \A r \in Resolves : Cause(r)

LEMMA InitCause == Init => CauseInv
  BY InitChain DEF Init, CauseInv, AllPaired, Paired, Cause, NoBundle, Over

LEMMA NewerStays ==
  ASSUME CauseInv, TypeOK', want' = want, NEW r \in Resolves, held'[r] = held[r], at'[r] = at[r],
         \A q \in Resolves : held'[q].access >= held[q].access,
         Newer(r)
  PROVE  Newer(r)'
  <1>1. PICK q \in Resolves \ at[r].over :
          want[q].jira = want[r].jira /\ held[q].access > held[r].access
    BY DEF Newer
  <1>2. held[q].access \in Nat /\ held[r].access \in Nat
    BY DEF CauseInv, ChainInv, SecretInv, TypeOK, Bundles
  <1>3. held'[q].access >= held[q].access
    OBVIOUS
  <1>4. CASE q = r
    BY <1>1, <1>2, <1>4
  <1>5. CASE q # r
    <2>1. held'[q].access > held'[r].access
      <3>1. held'[q].access \in Nat
        BY DEF TypeOK, Bundles
      <3>2. QED
        BY <1>1, <1>2, <1>3, <3>1
    <2>2. QED
      BY <1>1, <2>1 DEF Newer
  <1>6. QED
    BY <1>4, <1>5

\* A resolve that a step leaves alone still has a cause to be refused, unless what is
\* accepted changes under it.
LEMMA CauseStays ==
  ASSUME CauseInv, TypeOK', UNCHANGED <<want, rotating>>, torn \subseteq torn', Over \subseteq Over',
         NEW r \in Resolves, pc'[r] = pc[r], held'[r] = held[r], at'[r] = at[r],
         \A q \in Resolves : held'[q].access >= held[q].access,
         \/ pc[r] # "stale"
         \/ accepted'[want[r].jira] = accepted[want[r].jira]
         \/ held[r].refresh # accepted[want[r].jira]
         \/ want[r].jira \in torn'
         \/ Newer(r)'
  PROVE  Cause(r)'
  <1>1. Cause(r)
    BY DEF CauseInv
  <1>2. Newer(r) => Newer(r)'
    BY NewerStays
  <1>3. at'[r].over \subseteq Over'
    BY <1>1 DEF Cause
  <1>4. ASSUME pc[r] \in {"stale", "refused"}
        PROVE  \/ held'[r].refresh = 0
               \/ pc'[r] = "stale" /\ held'[r].refresh = accepted'[want'[r].jira]
               \/ want'[r].jira \in torn'
               \/ Newer(r)'
    BY <1>1, <1>2, <1>4 DEF Cause
  <1>5. QED
    BY <1>1, <1>3, <1>4 DEF Cause

LEMMA InstallCause ==
  ASSUME CauseInv, TypeOK', NEW c \in Ids, Install(c)
  PROVE  AllPaired' /\ \A r \in Resolves : Cause(r)'
  <1> USE IdsAssumption DEF CauseInv, ChainInv, SecretInv, TypeOK, Ids, deleting, resolving, atlassian
  <1>1. /\ UNCHANGED <<pc, want, at, torn, rotating>>
        /\ \A r \in Resolves : held'[r] = held[r]
    BY DEF Install, ExchangeAuthorizationCode, SetSecret, SkipSecret, SaveRow, AbortInstall
  <1>2. Over' = Over
    BY <1>1 DEF Over
  <1>3. ASSUME NEW r \in Resolves, pc[r] = "stale"
        PROVE  accepted'[want[r].jira] = accepted[want[r].jira]
    <2>1. want[r].jira \in Jiras /\ install[want[r].jira] = "done"
      BY <1>3 DEF JiraRows, RowsAndSecrets
    <2>2. QED
      BY <2>1 DEF Install, ExchangeAuthorizationCode, SetSecret, SkipSecret, SaveRow, AbortInstall
  <1>4. \A r \in Resolves : held'[r].access >= held[r].access
    BY <1>1 DEF Bundles
  <1>5. \A r \in Resolves : Cause(r)'
    BY <1>1, <1>2, <1>3, <1>4, CauseStays
  <1>6. AllPaired'
    <2>1. CASE c \in Jiras /\ ExchangeAuthorizationCode(c)
      <3>1. PICK refresh \in {0, grants + 1} :
              held' = [held EXCEPT ![c] = [access |-> grants + 1, refresh |-> refresh]]
        BY <2>1 DEF ExchangeAuthorizationCode
      <3>2. grants' = grants + 1 /\ bundle' = bundle
        BY <2>1 DEF ExchangeAuthorizationCode
      <3>3. \A h \in Resolves \cup Jiras : held[h].access <= grants'
        BY <3>2 DEF AllPaired, Paired, Bundles
      <3>4. \A j \in Jiras : Paired(bundle[j])'
        BY <1>1, <3>2 DEF AllPaired, Paired, Bundles
      <3>5. Paired(held[c])'
        BY <2>1, <3>1, <3>2 DEF Paired
      <3>6. \A h \in (Resolves \cup Jiras) \ {c} : Paired(held[h])'
        BY <1>1, <3>1, <3>3 DEF AllPaired, Paired
      <3>7. QED
        BY <3>4, <3>5, <3>6 DEF AllPaired
    <2>2. CASE SetSecret(c)
      BY <1>1, <2>2 DEF SetSecret, AllPaired, Paired
    <2>3. CASE SkipSecret(c) \/ SaveRow(c) \/ AbortInstall(c)
      BY <1>1, <2>3 DEF SkipSecret, SaveRow, AbortInstall, AllPaired, Paired
    <2>4. QED
      BY <2>1, <2>2, <2>3 DEF Install
  <1>7. QED
    BY <1>5, <1>6

\* What a resolve reads is accepted, or its token was lost, or a resolve under way has its
\* successor.
LEMMA ReadHasACause ==
  ASSUME CauseInv, NEW r \in Resolves, ReadBundle(r)
  PROVE  LET b == bundle[want[r].jira]
         IN \/ b.refresh = 0
            \/ b.refresh = accepted[want[r].jira]
            \/ want[r].jira \in torn
            \/ \E q \in Resolves \ (Over \cup {r}) :
                 want[q].jira = want[r].jira /\ held[q].access > b.access
  <1> DEFINE j == want[r].jira
             b == bundle[j]
  <1> SUFFICES ASSUME b.refresh # 0, b.refresh # accepted[j], j \notin torn
               PROVE  \E q \in Resolves \ (Over \cup {r}) :
                        want[q].jira = j /\ held[q].access > b.access
    OBVIOUS
  <1>1. j \in Jiras /\ row[j] # "absent"
    BY DEF ReadBundle, CauseInv, ChainInv, SecretInv, JiraRows
  <1>2. PICK q \in Resolves :
          pc[q] = "refreshed" /\ want[q].jira = j /\ held[q].refresh = accepted[j]
    BY <1>1 DEF CauseInv, ChainInv, ChainUnbroken
  <1>3. rotating /\ b.refresh <= accepted[j]
    BY <1>1 DEF CauseInv, ChainInv, SecretInv, TypeOK, Tokens, ConnectionTokens
  <1>4. b \in Bundles /\ held[q] \in Bundles /\ accepted[j] \in Nat
    BY <1>1 DEF CauseInv, ChainInv, SecretInv, TypeOK
  <1>5. b.refresh = b.access /\ held[q].refresh \in {0, held[q].access}
    BY <1>1, <1>3 DEF CauseInv, AllPaired, Paired
  <1>6. held[q].access > b.access
    BY <1>2, <1>3, <1>4, <1>5 DEF Bundles
  <1>7. q # r /\ q \notin Over
    BY <1>2 DEF ReadBundle, Over, Busy
  <1>8. QED
    BY <1>2, <1>6, <1>7

LEMMA ResolveCause ==
  ASSUME CauseInv, TypeOK', NEW r \in Resolves, Resolve(r)
  PROVE  AllPaired' /\ \A q \in Resolves : Cause(q)'
  <1> USE DEF CauseInv, ChainInv, SecretInv, TypeOK, ResolveStep, atlassian
  <1> DEFINE j == want[r].jira
  <1>1. /\ UNCHANGED <<want, rotating>> /\ torn \subseteq torn'
        /\ grants' = grants \/ grants' = grants + 1
        /\ \A q \in Resolves \ {r} : pc'[q] = pc[q] /\ held'[q] = held[q] /\ at'[q] = at[q]
        /\ \A k \in Jiras : k \notin Resolves => held'[k] = held[k]
        /\ pc[r] \in Busy \cup {"idle"}
    BY DEF Resolve, LoadCursor, LoadGitHub, ReadCursorKey, ReadGitHubKey, LoadJira, ReadBundle,
           Refresh, GrantRefresh, RefreshRefused, RefreshUnavailable, StoreBundle, AbortResolve, Busy
  <1>2. r \notin Over /\ Over \subseteq Over'
    BY <1>1 DEF Over
  <1>3. /\ \/ ReadBundle(r) /\ held'[r] = bundle[j] /\ j \in Jiras /\ held[r] = NoBundle
           \/ Refresh(r) /\ pc'[r] = "refreshed" /\ held'[r] = Refreshed(held[r].refresh)
              /\ grants' = grants + 1
           \/ held'[r] = held[r]
        /\ ReadBundle(r) \/ at'[r] = at[r]
    BY DEF Resolve, LoadCursor, LoadGitHub, ReadCursorKey, ReadGitHubKey, LoadJira, ReadBundle,
           Refresh, GrantRefresh, RefreshRefused, RefreshUnavailable, StoreBundle, AbortResolve,
           JiraRows, Cause, Unread
  <1>4. held[r] \in Bundles /\ grants \in Nat /\ \A k \in Jiras : bundle[k] \in Bundles
    OBVIOUS
  <1>5. Paired(held[r])'
    <2>1. ASSUME NEW b \in Bundles, Paired(b), held'[r] = b PROVE Paired(held[r])'
      BY <1>1, <1>4, <2>1 DEF Paired, Bundles
    <2>2. CASE held'[r] = Refreshed(held[r].refresh) /\ grants' = grants + 1
      BY <1>1, <1>4, <2>2 DEF Refreshed, Paired
    <2>3. QED
      BY <1>3, <1>4, <2>1, <2>2 DEF AllPaired
  <1>6. held'[r].access >= held[r].access
    BY <1>3, <1>4 DEF Bundles, NoBundle, Refreshed, AllPaired, Paired
  <1>7. \A q \in Resolves : held'[q].access >= held[q].access
    <2>1. \A q \in Resolves : held[q].access \in Nat
      BY DEF Bundles
    <2>2. ASSUME NEW q \in Resolves \ {r} PROVE held'[q].access >= held[q].access
      <3>1. held'[q] = held[q]
        BY <1>1
      <3>2. QED
        BY <2>1, <3>1
    <2>3. QED
      BY <1>6, <2>2
  <1>8. AllPaired'
    <2>1. ASSUME NEW b \in Bundles, Paired(b) PROVE Paired(b)'
      BY <1>1, <1>4, <2>1 DEF Paired, Bundles
    <2>2. \A h \in Resolves \cup Jiras : Paired(held[h])'
      <3>1. \A h \in (Resolves \cup Jiras) \ {r} : held'[h] = held[h] /\ held[h] \in Bundles
        BY <1>1
      <3>2. \A h \in (Resolves \cup Jiras) \ {r} : Paired(held[h])'
        BY <2>1, <3>1 DEF AllPaired, Paired
      <3>3. QED
        BY <1>5, <3>2
    <2>3. \A k \in Jiras : Paired(bundle[k])'
      <3>1. \A k \in Jiras : bundle'[k] = bundle[k] \/ (bundle'[k] = held[r])
        BY DEF Resolve, LoadCursor, LoadGitHub, ReadCursorKey, ReadGitHubKey, LoadJira, ReadBundle,
               Refresh, RefreshRefused, RefreshUnavailable, StoreBundle, AbortResolve
      <3>2. \A k \in Jiras : \E b \in Bundles : Paired(b) /\ bundle'[k] = b
        BY <1>4, <3>1 DEF AllPaired
      <3>3. QED
        BY <2>1, <3>2 DEF Paired
    <2>4. QED
      BY <2>2, <2>3 DEF AllPaired
  <1>9. ASSUME NEW q \in Resolves \ {r}
        PROVE  Cause(q)'
    <2>1. CASE /\ Refresh(r) /\ pc[q] = "stale" /\ want[q].jira = j
               /\ held[q].refresh = accepted[j] /\ accepted'[j] # accepted[j]
      <3>1. held[r].refresh = accepted[j] /\ j \in Jiras
            /\ accepted' = [accepted EXCEPT ![j] = Refreshed(held[r].refresh).refresh]
        BY <2>1 DEF Refresh, GrantRefresh, JiraRows
      <3>2. rotating
        BY <2>1, <3>1 DEF Refreshed
      <3>3. CASE j \in torn'
        BY <1>1, <1>2, <1>7, <2>1, <3>3, CauseStays
      <3>4. CASE held' = [held EXCEPT ![r] = Refreshed(held[r].refresh)]
        <4>1. held'[r].access = grants + 1 /\ held'[q] = held[q] /\ at'[q] = at[q]
          BY <1>1, <3>4 DEF Refreshed
        <4>2. held[q].access <= grants /\ held[q].access \in Nat
          BY DEF AllPaired, Paired, Bundles
        <4>3. r \notin at[q].over
          BY <1>2 DEF Cause
        <4>4. Newer(q)'
          BY <1>1, <2>1, <4>1, <4>2, <4>3 DEF Newer
        <4>5. QED
          BY <1>1, <1>2, <1>7, <4>4, CauseStays
      <3>5. QED
        BY <2>1, <3>2, <3>3, <3>4 DEF Refresh, LostBy
    <2>2. CASE ~(/\ Refresh(r) /\ pc[q] = "stale" /\ want[q].jira = j
                 /\ held[q].refresh = accepted[j] /\ accepted'[j] # accepted[j])
      <3>1. accepted' = accepted \/ (Refresh(r) /\ \A k \in Jiras \ {j} : accepted'[k] = accepted[k])
        BY DEF Resolve, LoadCursor, LoadGitHub, ReadCursorKey, ReadGitHubKey, LoadJira, ReadBundle,
               Refresh, GrantRefresh, RefreshRefused, RefreshUnavailable, StoreBundle, AbortResolve
      <3>2. pc[q] = "stale" => want[q].jira \in Jiras
        BY DEF JiraRows
      <3>3. \/ pc[q] # "stale"
            \/ accepted'[want[q].jira] = accepted[want[q].jira]
            \/ held[q].refresh # accepted[want[q].jira]
        BY <2>2, <3>1, <3>2
      <3>4. QED
        BY <1>1, <1>2, <1>7, <3>3, CauseStays
    <2>3. QED
      BY <2>1, <2>2
  <1>10. Cause(r)'
    <2>1. CASE ReadBundle(r)
      <3>1. /\ held'[r] = bundle[j] /\ at'[r].over = Over /\ UNCHANGED <<accepted, torn>>
            /\ pc'[r] \in {"failed", "stale", "answered"}
        BY <2>1, <1>3 DEF ReadBundle
      <3>2. \/ bundle[j].refresh = 0
            \/ bundle[j].refresh = accepted[j]
            \/ j \in torn
            \/ \E q \in Resolves \ (Over \cup {r}) :
                 want[q].jira = j /\ held[q].access > bundle[j].access
        BY <2>1, ReadHasACause
      <3>3. (\E q \in Resolves \ (Over \cup {r}) :
                 want[q].jira = j /\ held[q].access > bundle[j].access) => Newer(r)'
        BY <1>1, <3>1 DEF Newer
      <3>4. QED
        BY <1>1, <1>2, <3>1, <3>2, <3>3 DEF Cause, Unread
    <2>2. CASE RefreshRefused(r)
      <3>1. /\ pc[r] = "stale" /\ pc'[r] = "refused"
            /\ UNCHANGED <<want, held, torn, at>>
            /\ held[r].refresh = 0 \/ held[r].refresh # accepted[j]
        BY <2>2 DEF RefreshRefused
      <3>2. Newer(r) => Newer(r)'
        BY <3>1 DEF Newer
      <3>3. QED
        BY <1>2, <3>1, <3>2 DEF Cause, Unread
    <2>3. CASE ~ReadBundle(r) /\ ~RefreshRefused(r)
      <3>1. pc'[r] \notin {"stale", "refused"} /\ (pc'[r] \in Unread => pc[r] \in Unread /\ held' = held)
        BY <2>3 DEF Resolve, LoadCursor, LoadGitHub, ReadCursorKey, ReadGitHubKey, LoadJira,
             Refresh, RefreshUnavailable, StoreBundle, AbortResolve, Unread
      <3>2. at'[r] = at[r]
        BY <1>3, <2>3
      <3>3. QED
        BY <1>2, <3>1, <3>2 DEF Cause
    <2>4. QED
      BY <2>1, <2>2, <2>3
  <1>11. QED
    BY <1>8, <1>9, <1>10

LEMMA StepCause == CauseInv /\ [Next]_vars => CauseInv'
  <1> SUFFICES ASSUME CauseInv, [Next]_vars
               PROVE  CauseInv'
    OBVIOUS
  <1>0. ChainInv' /\ TypeOK'
    BY StepChain DEF CauseInv, ChainInv, SecretInv
  <1> SUFFICES AllPaired' /\ \A r \in Resolves : Cause(r)'
    BY <1>0 DEF CauseInv
  <1>1. ASSUME NEW c \in Ids, Install(c)
        PROVE  AllPaired' /\ \A r \in Resolves : Cause(r)'
    BY <1>0, <1>1, InstallCause
  <1>2. ASSUME NEW r \in Resolves, Resolve(r)
        PROVE  AllPaired' /\ \A q \in Resolves : Cause(q)'
    BY <1>0, <1>2, ResolveCause
  <1>3. ASSUME UNCHANGED <<pc, want, at, torn, rotating, held, bundle, grants, accepted>>
        PROVE  AllPaired' /\ \A r \in Resolves : Cause(r)'
    BY <1>3 DEF CauseInv, AllPaired, Paired, Cause, Newer, Over
  <1>4. ASSUME NEW d \in Deletes, Delete(d)
        PROVE  UNCHANGED <<pc, want, at, torn, rotating, held, bundle, grants, accepted>>
    BY <1>4 DEF Delete, DeleteLoad, DeleteSecret, DeleteRow, AbortDelete, resolving, atlassian
  <1>5. TokensExpire \/ UNCHANGED vars =>
          UNCHANGED <<pc, want, at, torn, rotating, held, bundle, grants, accepted>>
    BY DEF TokensExpire, vars, resolving
  <1> QED
    BY <1>1, <1>2, <1>3, <1>4, <1>5 DEF Next

\* A worker is told to reconnect only if the connection has no refresh token, if its token was
\* lost between the token endpoint and Key Vault, or if another resolve, not over when this one
\* read the bundle, used the token up (AtlassianOAuthService, GetValidAccessTokenAsync).
THEOREM RefusalsAreCaused == Spec => []RefusalHasACause
  <1>1. CauseInv => RefusalHasACause
    BY DEF CauseInv, Cause, Newer, RefusalHasACause
  <1> QED
    BY <1>1, InitCause, StepCause, PTL DEF Spec
============================================================================
