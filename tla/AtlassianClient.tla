--------------------------- MODULE AtlassianClient --------------------------
(***************************************************************************)
(* A request of the Jira client or the Confluence client: both have the    *)
(* same requestWithRetry.  Atlassian is external and may answer anything.  *)
(***************************************************************************)
EXTENDS Naturals

CONSTANT RequestRetries  \* maxRetries (3)

ASSUME ClientAssumption == RequestRetries \in Nat

VARIABLES
  call,     \* "idle", "open", or how the request ended: "ok", "refused" or "threw"
  attempt   \* answers that asked to try again

clientVars == <<call, attempt>>

Calls == {"idle", "open", "ok", "refused", "threw"}

ClientInit == call = "idle" /\ attempt = 0

Ask ==
  /\ call = "idle"
  /\ call' = "open"
  /\ attempt' = 0

Answered == call \in {"ok", "refused", "threw"}

\* A page or an issue; or a body that is no JSON, which throws.
Succeed ==
  /\ call = "open"
  /\ call' \in {"ok", "threw"}
  /\ UNCHANGED attempt

\* A status that is neither a success nor worth a retry: JiraIssueNotFoundError or
\* ConfluencePageNotFoundError.
Refuse ==
  /\ call = "open"
  /\ call' = "refused"
  /\ UNCHANGED attempt

\* Mutant: the count of the answers is compared before it is raised.
TryOnceMore ==
  /\ call = "open"
  /\ attempt' = attempt + 1
  /\ call' = IF attempt > RequestRetries THEN "refused" ELSE "open"

\* 429 or 5xx: again after a while; when the retries are used up the last answer stands.
TryLater ==
  /\ call = "open"
  /\ attempt' = attempt + 1
  /\ call' = IF attempt' > RequestRetries THEN "refused" ELSE "open"

\* fetch throws: no retry.
Unreachable ==
  /\ call = "open"
  /\ call' = "threw"
  /\ UNCHANGED attempt

Reply == Succeed \/ Refuse \/ TryLater \/ Unreachable

HangUp == call' = "idle" /\ attempt' = 0

ClientTypeOK == call \in Calls /\ attempt \in 0..(RequestRetries + 1)
============================================================================
