----------------------------- MODULE Credentials -----------------------------
(***************************************************************************)
(* The credentials of one organization: IntegrationsService stores and     *)
(* deletes them, WorkerCredentialService hands them to a worker, and       *)
(* AtlassianOAuthService refreshes the OAuth bundle of a Jira connection.  *)
(* A credential is a row in PostgreSQL and a secret in Key Vault.          *)
(*                                                                         *)
(* Key Vault and Atlassian's token endpoint are external.  The endpoint    *)
(* numbers its answers; it may rotate: a refresh then answers with a new   *)
(* refresh token and no longer accepts the old one.                        *)
(*                                                                         *)
(* An action is what a handler does up to the return of an await.  Abort   *)
(* is a call that throws, a request its client aborts, or the end of the   *)
(* API process: the handler stops where it is.  Requests are one-shot.     *)
(***************************************************************************)
EXTENDS Naturals

CONSTANTS
  Cursors,   \* ids of Cursor credentials: one PUT request each
  GitHubs,   \* ids of GitHub connections: one install request each
  Jiras,     \* ids of Jira connections: one connect request each
  Deletes,   \* requests to delete a Cursor credential
  Resolves,  \* requests of workers to resolve the credentials of a job
  None

Ids == Cursors \cup GitHubs \cup Jiras

ASSUME IdsAssumption ==
  /\ Cursors \cap GitHubs = {} /\ Cursors \cap Jiras = {} /\ GitHubs \cap Jiras = {}
  /\ Resolves \cap Jiras = {}
  /\ None \notin Ids

VARIABLES
  row,       \* row[c]: the row of c is absent, names a secret or (GitHub) names none
  secret,    \* secret[c]: the secret of c in Key Vault
  bundle,    \* bundle[j]: the tokens in the secret of j
  install,   \* install[c]: where the request that makes c stands
  del,       \* del[d]: where the delete request d stands
  target,    \* target[d]: the credential it deletes
  pc,        \* pc[r]: where the resolve request r stands
  want,      \* want[r]: the ids it is about
  held,      \* held[h]: the tokens in the memory of a resolve, or of a connect
  rotating,  \* whether the token endpoint rotates refresh tokens
  grants,    \* number of token answers so far
  accepted,  \* accepted[j]: the refresh token Atlassian accepts for j, 0 for none
  freshFrom, \* access tokens with smaller numbers expire within two minutes
  gone,      \* history: credentials whose deletion was answered with 204
  torn,      \* history: connections for which a rotated token was lost
  at         \* history: when r read its bundle, freshFrom and the resolves that were over

vars == <<row, secret, bundle, install, del, target, pc, want, held, rotating,
          grants, accepted, freshFrom, gone, torn, at>>

atlassian == <<rotating, grants, accepted, freshFrom>>

resolving == <<pc, want, at>>

deleting == <<del, target, gone>>

Bundles == [access : Nat, refresh : Nat]

NoBundle == [access |-> 0, refresh |-> 0]

Wants == [cursor : Cursors, github : GitHubs, jira : Jiras \cup {None}]

\* Where a resolve that has begun and not returned may stand.
Busy == {"cursorRow", "rows", "cursorKey", "keys", "jiraRow", "stale", "refreshed"}

ResolvePCs == {"idle", "answered", "notFound", "refused", "unavailable", "failed"} \cup Busy

-----------------------------------------------------------------------------
(* IntegrationsService: the secret first, then the row that names it.      *)

\* POST of the authorization code.  A grant without offline access has no refresh token.
ExchangeAuthorizationCode(j) ==
  /\ install[j] = "idle"
  /\ grants' = grants + 1
  /\ \E refresh \in {0, grants + 1} :
       /\ held' = [held EXCEPT ![j] = [access |-> grants + 1, refresh |-> refresh]]
       /\ accepted' = [accepted EXCEPT ![j] = refresh]
  /\ install' = [install EXCEPT ![j] = "granted"]
  /\ UNCHANGED <<row, secret, bundle, deleting, resolving, rotating, freshFrom, torn>>

\* Mutant: the row is saved although the secret is not.
SetSecretLater(c) ==
  /\ install[c] = IF c \in Jiras THEN "granted" ELSE "idle"
  /\ install' = [install EXCEPT ![c] = "stored"]
  /\ UNCHANGED <<row, secret, bundle, deleting, resolving, held, atlassian, torn>>

SetSecret(c) ==
  /\ install[c] = IF c \in Jiras THEN "granted" ELSE "idle"
  /\ install' = [install EXCEPT ![c] = "stored"]
  /\ secret' = [secret EXCEPT ![c] = "set"]
  /\ bundle' = IF c \in Jiras THEN [bundle EXCEPT ![c] = held[c]] ELSE bundle
  /\ UNCHANGED <<row, deleting, resolving, held, atlassian, torn>>

\* A GitHub connection may be installed without a token.
SkipSecret(c) ==
  /\ c \in GitHubs
  /\ install[c] = "idle"
  /\ install' = [install EXCEPT ![c] = "bare"]
  /\ UNCHANGED <<row, secret, bundle, deleting, resolving, held, atlassian, torn>>

\* Mutant: the secret name is never set on the row.
RowWithoutName(c) == "nameless"

NewRow(c) == IF install[c] = "stored" THEN "named" ELSE "nameless"

SaveRow(c) ==
  /\ install[c] \in {"stored", "bare"}
  /\ row' = [row EXCEPT ![c] = NewRow(c)]
  /\ install' = [install EXCEPT ![c] = "done"]
  /\ UNCHANGED <<secret, bundle, deleting, resolving, held, atlassian, torn>>

AbortInstall(c) ==
  /\ install[c] \in {"granted", "stored", "bare"}
  /\ install' = [install EXCEPT ![c] = "done"]
  /\ UNCHANGED <<row, secret, bundle, deleting, resolving, held, atlassian, torn>>

Install(c) ==
  \/ c \in Jiras /\ ExchangeAuthorizationCode(c)
  \/ SetSecret(c) \/ SkipSecret(c) \/ SaveRow(c) \/ AbortInstall(c)

-----------------------------------------------------------------------------
(* DeleteCursorCredentialAsync: the secret first, then the row.            *)

\* 404 without a row.
DeleteLoad(d) ==
  /\ del[d] = "idle"
  /\ del' = [del EXCEPT ![d] = IF row[target[d]] = "absent" THEN "done" ELSE "loaded"]
  /\ UNCHANGED <<row, secret, bundle, install, target, resolving, held, atlassian, gone, torn>>

\* Mutant: a secret that cannot be deleted does not keep the row.
DeleteSecretOrNot(d) ==
  /\ del[d] = "loaded"
  /\ del' = [del EXCEPT ![d] = "unlinked"]
  /\ secret' \in {secret, [secret EXCEPT ![target[d]] = "deleted"]}
  /\ UNCHANGED <<row, bundle, install, target, resolving, held, atlassian, gone, torn>>

\* StartDeleteSecretAsync throws for a secret that is deleted already.
DeleteSecret(d) ==
  /\ del[d] = "loaded"
  /\ secret' = [secret EXCEPT ![target[d]] = "deleted"]
  /\ del' = [del EXCEPT ![d] = IF secret[target[d]] = "set" THEN "unlinked" ELSE "done"]
  /\ UNCHANGED <<row, bundle, install, target, resolving, held, atlassian, gone, torn>>

\* The row is removed; the answer is 204 unless SaveChangesAsync throws, as it does when
\* the row is there no longer.
DeleteRow(d) ==
  /\ del[d] = "unlinked"
  /\ del' = [del EXCEPT ![d] = "done"]
  /\ row' = [row EXCEPT ![target[d]] = "absent"]
  /\ gone' \in {gone, IF row[target[d]] = "absent" THEN gone ELSE gone \cup {target[d]}}
  /\ UNCHANGED <<secret, bundle, install, target, resolving, held, atlassian, torn>>

AbortDelete(d) ==
  /\ del[d] \in {"loaded", "unlinked"}
  /\ del' = [del EXCEPT ![d] = "done"]
  /\ UNCHANGED <<row, secret, bundle, install, target, resolving, held, atlassian, gone, torn>>

Delete(d) == DeleteLoad(d) \/ DeleteSecret(d) \/ DeleteRow(d) \/ AbortDelete(d)

-----------------------------------------------------------------------------
(* WorkerCredentialService.ResolveAsync.                                   *)

ResolveStep(r, where) ==
  /\ pc' = [pc EXCEPT ![r] = where]
  /\ UNCHANGED <<row, secret, install, deleting>>

LoadCursor(r) ==
  /\ pc[r] = "idle"
  /\ ResolveStep(r, IF row[want[r].cursor] = "absent" THEN "notFound" ELSE "cursorRow")
  /\ UNCHANGED <<bundle, want, held, atlassian, torn, at>>

LoadGitHub(r) ==
  /\ pc[r] = "cursorRow"
  /\ ResolveStep(r, IF row[want[r].github] = "absent" THEN "notFound" ELSE "rows")
  /\ UNCHANGED <<bundle, want, held, atlassian, torn, at>>

\* GetSecretAsync throws for a secret that is not there.
ReadCursorKey(r) ==
  /\ pc[r] = "rows"
  /\ ResolveStep(r, IF secret[want[r].cursor] = "set" THEN "cursorKey" ELSE "failed")
  /\ UNCHANGED <<bundle, want, held, atlassian, torn, at>>

\* Only when the row, which nothing changes once it is there, names a secret.
ReadGitHubKey(r) ==
  /\ pc[r] = "cursorKey"
  /\ ResolveStep(r, IF row[want[r].github] = "named" /\ secret[want[r].github] # "set"
                    THEN "failed"
                    ELSE IF want[r].jira = None THEN "answered" ELSE "keys")
  /\ UNCHANGED <<bundle, want, held, atlassian, torn, at>>

LoadJira(r) ==
  /\ pc[r] = "keys"
  /\ ResolveStep(r, IF row[want[r].jira] = "absent" THEN "notFound" ELSE "jiraRow")
  /\ UNCHANGED <<bundle, want, held, atlassian, torn, at>>

-----------------------------------------------------------------------------
(* AtlassianOAuthService.GetValidAccessTokenAsync.                         *)

\* Mutant: expiry is never looked at.
NeverStale(b) == FALSE

IsStale(b) == b.access < freshFrom

Over == {q \in Resolves : pc[q] \notin Busy \cup {"idle"}}

ReadBundle(r) ==
  LET b == bundle[want[r].jira]
  IN /\ pc[r] = "jiraRow"
     /\ held' = [held EXCEPT ![r] = b]
     /\ at' = [at EXCEPT ![r] = [freshFrom |-> freshFrom, over |-> Over]]
     /\ ResolveStep(r, IF secret[want[r].jira] # "set" THEN "failed"
                       ELSE IF IsStale(b) THEN "stale" ELSE "answered")
     /\ UNCHANGED <<bundle, want, atlassian, torn>>

\* The answer of the endpoint, with the old refresh token when it has no new one.
Refreshed(t) ==
  [access |-> grants + 1, refresh |-> IF rotating THEN grants + 1 ELSE t]

\* The endpoint accepts the refresh token of r and answers.
GrantRefresh(r) ==
  /\ held[r].refresh # 0
  /\ held[r].refresh = accepted[want[r].jira]
  /\ grants' = grants + 1
  /\ accepted' = [accepted EXCEPT ![want[r].jira] = Refreshed(held[r].refresh).refresh]
  /\ UNCHANGED <<rotating, freshFrom>>

\* The connections whose token is lost with the answer that r has not stored.
LostBy(r) == IF rotating THEN {want[r].jira} ELSE {}

Refresh(r) ==
  /\ pc[r] = "stale"
  /\ GrantRefresh(r)
  /\ \/ /\ held' = [held EXCEPT ![r] = Refreshed(held[r].refresh)]
        /\ ResolveStep(r, "refreshed")
        /\ UNCHANGED torn
     \/ /\ ResolveStep(r, "failed")
        /\ torn' = torn \cup LostBy(r)
        /\ UNCHANGED held
  /\ UNCHANGED <<bundle, want, at>>

\* Mutant: a refresh that fails falls back on the bundle it read.
RefreshFallsBack(r) ==
  /\ pc[r] = "stale"
  /\ held[r].refresh = 0 \/ held[r].refresh # accepted[want[r].jira]
  /\ ResolveStep(r, "refreshed")
  /\ UNCHANGED <<bundle, want, held, atlassian, torn, at>>

\* No refresh token, or one that is no longer accepted: 503, reconnect Atlassian OAuth.
RefreshRefused(r) ==
  /\ pc[r] = "stale"
  /\ held[r].refresh = 0 \/ held[r].refresh # accepted[want[r].jira]
  /\ ResolveStep(r, "refused")
  /\ UNCHANGED <<bundle, want, held, atlassian, torn, at>>

\* The endpoint answers with an error: the same 503.
RefreshUnavailable(r) ==
  /\ pc[r] = "stale"
  /\ held[r].refresh # 0
  /\ ResolveStep(r, "unavailable")
  /\ UNCHANGED <<bundle, want, held, atlassian, torn, at>>

\* Mutant: the new bundle is used once and not kept.
StoreNothing(r) ==
  /\ pc[r] = "refreshed"
  /\ ResolveStep(r, "answered")
  /\ UNCHANGED <<bundle, want, held, atlassian, torn, at>>

StoreBundle(r) ==
  /\ pc[r] = "refreshed"
  /\ bundle' = [bundle EXCEPT ![want[r].jira] = held[r]]
  /\ ResolveStep(r, "answered")
  /\ UNCHANGED <<want, held, atlassian, torn, at>>

AbortResolve(r) ==
  /\ pc[r] \in Busy
  /\ ResolveStep(r, "failed")
  /\ torn' = IF pc[r] = "refreshed" THEN torn \cup LostBy(r) ELSE torn
  /\ UNCHANGED <<bundle, want, held, atlassian, at>>

Resolve(r) ==
  \/ LoadCursor(r) \/ LoadGitHub(r) \/ ReadCursorKey(r) \/ ReadGitHubKey(r) \/ LoadJira(r) \/ ReadBundle(r)
  \/ Refresh(r) \/ RefreshRefused(r) \/ RefreshUnavailable(r) \/ StoreBundle(r)
  \/ AbortResolve(r)

-----------------------------------------------------------------------------
\* Time passes: every access token granted so far is about to expire, or has.
TokensExpire ==
  /\ freshFrom <= grants
  /\ freshFrom' = grants + 1
  /\ UNCHANGED <<row, secret, bundle, install, deleting, resolving, held,
                 rotating, grants, accepted, torn>>

Init ==
  /\ row = [c \in Ids |-> "absent"]
  /\ secret = [c \in Ids |-> "none"]
  /\ bundle = [j \in Jiras |-> NoBundle]
  /\ install = [c \in Ids |-> "idle"]
  /\ del = [d \in Deletes |-> "idle"]
  /\ target \in [Deletes -> Cursors]
  /\ pc = [r \in Resolves |-> "idle"]
  /\ want \in [Resolves -> Wants]
  /\ held = [h \in Resolves \cup Jiras |-> NoBundle]
  /\ rotating \in BOOLEAN
  /\ grants = 0
  /\ accepted = [j \in Jiras |-> 0]
  /\ freshFrom = 1
  /\ gone = {}
  /\ torn = {}
  /\ at = [r \in Resolves |-> [freshFrom |-> 1, over |-> {}]]

Next ==
  \/ \E c \in Ids : Install(c)
  \/ \E d \in Deletes : Delete(d)
  \/ \E r \in Resolves : Resolve(r)
  \/ TokensExpire

Spec == Init /\ [][Next]_vars

-----------------------------------------------------------------------------
(* Properties.                                                             *)

\* Types of all variables; only a GitHub connection may have a row that names no secret.
TypeOK ==
  /\ row \in [Ids -> {"absent", "named", "nameless"}]
  /\ secret \in [Ids -> {"none", "set", "deleted"}]
  /\ bundle \in [Jiras -> Bundles]
  /\ install \in [Ids -> {"idle", "granted", "stored", "bare", "done"}]
  /\ \A c \in Ids \ GitHubs : row[c] # "nameless" /\ install[c] # "bare"
  /\ del \in [Deletes -> {"idle", "loaded", "unlinked", "done"}]
  /\ target \in [Deletes -> Cursors]
  /\ pc \in [Resolves -> ResolvePCs]
  /\ want \in [Resolves -> Wants]
  /\ held \in [Resolves \cup Jiras -> Bundles]
  /\ rotating \in BOOLEAN
  /\ grants \in Nat
  /\ accepted \in [Jiras -> Nat]
  /\ freshFrom \in Nat
  /\ gone \subseteq Cursors
  /\ torn \subseteq Jiras
  /\ at \in [Resolves -> [freshFrom : Nat, over : SUBSET Resolves]]

\* A row never names a secret that was not stored, and only a delete request removes the
\* secret of a row: what a failed install leaves behind is an unused secret.
NamedSecretsExist ==
  \A c \in Ids :
    row[c] = "named" =>
      \/ secret[c] = "set"
      \/ secret[c] = "deleted" /\ \E d \in Deletes : del[d] \in {"unlinked", "done"} /\ target[d] = c

\* A 204 is final: neither the row nor the secret of the credential is there, whatever
\* other requests delete or resolve it at the same time.
GoneIsGone == \A c \in gone : row[c] = "absent" /\ secret[c] = "deleted"

\* As long as no token was lost on its way, the refresh token that Atlassian accepts is
\* the stored one or in the hands of a resolve that will store it.
ChainUnbroken ==
  \A j \in Jiras \ torn :
    row[j] # "absent" =>
      \/ bundle[j].refresh = accepted[j]
      \/ \E r \in Resolves :
           pc[r] = "refreshed" /\ want[r].jira = j /\ held[r].refresh = accepted[j]

\* A resolve is told to reconnect only if the connection has no refresh token, its token
\* was lost, or another resolve, not over when this one read the bundle, refreshed it.
RefusalHasACause ==
  \A r \in Resolves :
    pc[r] = "refused" =>
      \/ held[r].refresh = 0
      \/ want[r].jira \in torn
      \/ \E q \in Resolves \ at[r].over :
           want[q].jira = want[r].jira /\ held[q].access > held[r].access

\* The token handed to a worker had more than two minutes to live when its resolve read
\* the bundle, or is newer.
HandedOutTokensWereFresh ==
  \A r \in Resolves :
    pc[r] = "answered" /\ want[r].jira # None => held[r].access >= at[r].freshFrom

\* A refresh token is never overwritten by an older one, in whatever order the resolves
\* that refreshed the connection store what they got.
RefreshTokensGoForward ==
  [][\A j \in Jiras : bundle'[j].refresh >= bundle[j].refresh]_vars
============================================================================
