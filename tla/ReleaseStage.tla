---------------------------- MODULE ReleaseStage -----------------------------
(***************************************************************************)
(* Builder.release and prepareReleaseEnvironment (pkg/builder/builder.go), *)
(* run by several `draft up` of one application against the same cluster:  *)
(* each is a chain of check-then-act requests to the Kubernetes API server *)
(* and to Tiller, with no lock between the check and the act.              *)
(*                                                                         *)
(* Kubernetes and Tiller are external.  Create fails if the object exists, *)
(* Update if the version read is no longer the stored one; a Secret is     *)
(* never returned with its write-only field StringData; the default        *)
(* service account is made by a controller some time after its namespace;  *)
(* Tiller keeps the newest HistoryMax revisions of a release.  A write     *)
(* whose answer does not come, comes too late or tells of a failure may be *)
(* carried out all the same, after the run has given up.                   *)
(***************************************************************************)
EXTENDS Naturals, FiniteSets

CONSTANTS
  Ups,          \* the runs of `draft up`; the auth token of u is u itself
  Registry,     \* TRUE iff a registry is configured
  HistoryMax,   \* revisions Tiller keeps
  MaxRevision,  \* bound on the revisions of the release
  MayFail       \* TRUE iff requests may fail for reasons of their own and answers be lost

ASSUME ReleaseAssumption ==
  /\ IsFiniteSet(Ups) /\ "none" \notin Ups
  /\ Registry \in BOOLEAN /\ MayFail \in BOOLEAN
  /\ HistoryMax \in Nat \ {0} /\ MaxRevision \in Nat \ {0}

VARIABLES
  ns,           \* the namespace exists
  secret,       \* what the pull secret holds: "none", "old" or a token
  account,      \* the default service account exists
  pulls,        \* its imagePullSecrets
  accountVer,   \* its resource version
  revs,         \* the revisions of the release that Tiller has
  rpc,          \* up |-> its next request, "ok" or "failed"
  copyPulls, copyVer,       \* up |-> the service account as it read it
  why           \* up |-> why it failed, "none" if it did not; "kube" and "helm" are a
                \* write to Kubernetes or Tiller that has not been answered

kubeVars == <<ns, secret, account, pulls, accountVer>>
releaseVars == <<kubeVars, revs, rpc, copyPulls, copyVer, why>>

Newest(R) == CHOOSE r \in R : \A q \in R : q <= r

InitRelease ==
  /\ ns \in BOOLEAN
  /\ secret \in IF ns THEN {"none", "old"} ELSE {"none"}
  /\ account = ns
  /\ pulls \in IF secret = "old" THEN {{}, {"draft"}} ELSE {{}}
  /\ accountVer = 0
  /\ \E newest \in 0 .. MaxRevision - Cardinality(Ups) :
       revs = {r \in 1 .. newest : r + HistoryMax > newest}
  /\ rpc = [u \in Ups |-> IF Registry THEN "get_namespace" ELSE "get_release"]
  /\ copyPulls = [u \in Ups |-> {}] /\ copyVer = [u \in Ups |-> 0]
  /\ why = [u \in Ups |-> "none"]

-----------------------------------------------------------------------------
At(u, l) == rpc[u] = l

\* The request of u is done, and u goes on to l unless it has given up.
GoesOn(u, l) ==
  /\ rpc' = [rpc EXCEPT ![u] = IF why[u] = "none" THEN l ELSE "failed"]
  /\ UNCHANGED why

Fail(u, reason) ==
  /\ rpc' = [rpc EXCEPT ![u] = "failed"]
  /\ why' = [why EXCEPT ![u] = reason]

NoCopy == UNCHANGED <<copyPulls, copyVer>>

\* A request of u is never carried out: the stage returns the error, except
\* that an error of ReleaseContent other than "not found" means upgrade.
Refused(u) ==
  /\ MayFail /\ rpc[u] \notin {"ok", "failed"}
  /\ IF At(u, "get_release") THEN GoesOn(u, "upgrade") ELSE Fail(u, "error")
  /\ NoCopy /\ UNCHANGED <<kubeVars, revs>>

ReleaseWrites == {"create_namespace", "create_secret", "update_account", "install", "upgrade"}

\* u gives up on a write that is under way: its answer is lost, the wait of
\* --wait times out, or Tiller records a revision that FAILED.  The request is
\* carried out or refused after that.
Unanswered(u) ==
  /\ MayFail /\ rpc[u] \in ReleaseWrites /\ why[u] = "none"
  /\ why' = [why EXCEPT ![u] = IF rpc[u] \in {"install", "upgrade"} THEN "helm" ELSE "kube"]
  /\ UNCHANGED rpc
  /\ NoCopy /\ UNCHANGED <<kubeVars, revs>>

\* A mutant of GetNamespace: the test of the error is inverted.
NamespaceTestInverted(u) ==
  /\ At(u, "get_namespace")
  /\ GoesOn(u, IF ns THEN "create_namespace" ELSE "get_secret")
  /\ NoCopy /\ UNCHANGED <<kubeVars, revs>>

\* Namespaces().Get; a namespace that is there leads on to AuthToken, whose
\* failure is one of Refused, and then to the secret.
GetNamespace(u) ==
  /\ At(u, "get_namespace")
  /\ GoesOn(u, IF ns THEN "get_secret" ELSE "create_namespace")
  /\ NoCopy /\ UNCHANGED <<kubeVars, revs>>

\* Namespaces().Create
CreateNamespace(u) ==
  /\ At(u, "create_namespace")
  /\ IF ns THEN Fail(u, "exists") ELSE GoesOn(u, "get_secret")
  /\ ns' = TRUE
  /\ NoCopy /\ UNCHANGED <<secret, account, pulls, accountVer, revs>>

\* Secrets().Get: a secret that exists is left as it is, since its
\* StringData reads back empty and so has no entry to compare.
GetSecret(u) ==
  /\ At(u, "get_secret")
  /\ GoesOn(u, IF secret = "none" THEN "create_secret" ELSE "get_account")
  /\ NoCopy /\ UNCHANGED <<kubeVars, revs>>

\* Secrets().Create
CreateSecret(u) ==
  /\ At(u, "create_secret")
  /\ IF secret = "none"
     THEN GoesOn(u, "get_account") /\ secret' = u
     ELSE Fail(u, "exists") /\ UNCHANGED secret
  /\ NoCopy /\ UNCHANGED <<ns, account, pulls, accountVer, revs>>

\* A mutant of GetAccount: the pull secret is taken to be there.
AccountTakenAsIs(u) ==
  /\ At(u, "get_account")
  /\ IF ~account THEN Fail(u, "no_account") ELSE GoesOn(u, "get_release")
  /\ copyPulls' = [copyPulls EXCEPT ![u] = pulls]
  /\ copyVer' = [copyVer EXCEPT ![u] = accountVer]
  /\ UNCHANGED <<kubeVars, revs>>

\* Another: the copy is given the next version.
AccountReadAsNext(u) ==
  /\ At(u, "get_account")
  /\ IF ~account THEN Fail(u, "no_account")
     ELSE GoesOn(u, IF "draft" \in pulls THEN "get_release" ELSE "update_account")
  /\ copyPulls' = [copyPulls EXCEPT ![u] = pulls]
  /\ copyVer' = [copyVer EXCEPT ![u] = accountVer + 1]
  /\ UNCHANGED <<kubeVars, revs>>

\* ServiceAccounts().Get
GetAccount(u) ==
  /\ At(u, "get_account")
  /\ IF ~account THEN Fail(u, "no_account")
     ELSE GoesOn(u, IF "draft" \in pulls THEN "get_release" ELSE "update_account")
  /\ copyPulls' = [copyPulls EXCEPT ![u] = pulls]
  /\ copyVer' = [copyVer EXCEPT ![u] = accountVer]
  /\ UNCHANGED <<kubeVars, revs>>

\* A mutant of UpdateAccount: the copy is written over whatever is there.
AccountOverwritten(u) ==
  /\ At(u, "update_account")
  /\ GoesOn(u, "get_release")
  /\ pulls' = copyPulls[u] \union {"draft"} /\ accountVer' = accountVer + 1
  /\ NoCopy /\ UNCHANGED <<ns, secret, account, revs>>

\* ServiceAccounts().Update, with the pull secret appended to the copy.
UpdateAccount(u) ==
  /\ At(u, "update_account")
  /\ IF copyVer[u] = accountVer
     THEN /\ GoesOn(u, "get_release")
          /\ pulls' = copyPulls[u] \union {"draft"} /\ accountVer' = accountVer + 1
     ELSE Fail(u, "conflict") /\ UNCHANGED <<pulls, accountVer>>
  /\ NoCopy /\ UNCHANGED <<ns, secret, account, revs>>

\* Helm.ReleaseContent(name, ContentReleaseVersion(1))
GetRelease(u) ==
  /\ At(u, "get_release")
  /\ GoesOn(u, IF 1 \in revs THEN "upgrade" ELSE "install")
  /\ NoCopy /\ UNCHANGED <<kubeVars, revs>>

\* Helm.InstallReleaseFromChart
Install(u) ==
  /\ At(u, "install")
  /\ IF revs = {} THEN GoesOn(u, "ok") /\ revs' = {1}
                  ELSE Fail(u, "release_exists") /\ UNCHANGED revs
  /\ NoCopy /\ UNCHANGED kubeVars

\* Helm.UpdateReleaseFromChart
Upgrade(u) ==
  /\ At(u, "upgrade")
  /\ IF revs = {} THEN Fail(u, "no_release") /\ UNCHANGED revs
     ELSE LET next == Newest(revs) + 1 IN
       /\ next <= MaxRevision
       /\ GoesOn(u, "ok")
       /\ revs' = {r \in revs \union {next} : r + HistoryMax > next}
  /\ NoCopy /\ UNCHANGED kubeVars

\* The controller manager gives every namespace its default account.
AccountController ==
  /\ ns /\ ~account
  /\ account' = TRUE
  /\ UNCHANGED <<ns, secret, pulls, accountVer, revs, rpc, copyPulls, copyVer, why>>

\* Somebody else adds a pull secret of theirs to the account.
OtherPullSecret ==
  /\ account /\ "other" \notin pulls
  /\ pulls' = pulls \union {"other"} /\ accountVer' = accountVer + 1
  /\ UNCHANGED <<ns, secret, account, revs, rpc, copyPulls, copyVer, why>>

UpStep(u) ==
  \/ Refused(u) \/ Unanswered(u)
  \/ GetNamespace(u) \/ CreateNamespace(u) \/ GetSecret(u) \/ CreateSecret(u)
  \/ GetAccount(u) \/ UpdateAccount(u)
  \/ GetRelease(u) \/ Install(u) \/ Upgrade(u)

NextRelease == (\E u \in Ups : UpStep(u)) \/ AccountController \/ OtherPullSecret

SpecRelease == InitRelease /\ [][NextRelease]_releaseVars

-----------------------------------------------------------------------------
(* Properties.                                                             *)

Reasons ==
  {"none", "kube", "helm", "error", "exists", "conflict", "no_account", "release_exists", "no_release"}

\* The type invariant: every variable stays in its range.
ReleaseTypeOK ==
  /\ ns \in BOOLEAN /\ account \in BOOLEAN
  /\ secret \in {"none", "old"} \union Ups
  /\ pulls \subseteq {"draft", "other"} /\ accountVer \in Nat
  /\ revs \subseteq 1 .. MaxRevision
  /\ rpc \in [Ups -> {"get_namespace", "create_namespace", "get_secret", "create_secret",
                     "get_account", "update_account", "get_release", "install", "upgrade",
                     "ok", "failed"}]
  /\ copyPulls \in [Ups -> SUBSET {"draft", "other"}] /\ copyVer \in [Ups -> 0 .. accountVer]
  /\ why \in [Ups -> Reasons]

\* When a run gets to Tiller with a registry configured, the pods it deploys
\* can pull: the namespace has the pull secret and its default account names
\* it, whatever the other runs and the other users of the account did.
PodsCanPull ==
  Registry =>
    \A u \in Ups : rpc[u] \in {"get_release", "install", "upgrade", "ok"} =>
      ns /\ account /\ secret # "none" /\ "draft" \in pulls

\* A pull secret, draft's or another's, is never taken off the account.
PullSecretsKept == [][pulls \subseteq pulls']_releaseVars

\* Tiller has carried out the install or upgrade of u.
CarriedOut(u) == rpc[u] = "ok" \/ (rpc[u] = "failed" /\ why[u] = "helm")

\* A run fails on what it finds only for a cause outside itself: an object
\* that "exists" was made since it looked by another run, a version conflict
\* is another writer of the account, and a release that exists although its
\* revision 1 was not found has lost revision 1 to HistoryMax, or Tiller has
\* carried out a request of another run, whether or not that run was told so.
\* One run alone never trips over its own requests.
FailsForCause ==
  \A u \in Ups :
    LET Other(states) == \E v \in Ups \ {u} : rpc[v] \in states
        Later == {"get_release", "install", "upgrade", "ok", "failed"}
    IN  CASE why[u] = "exists" ->
               Other(Later \union {"get_secret", "create_secret", "get_account", "update_account"})
          [] why[u] = "conflict"       -> "other" \in pulls \/ Other(Later)
          [] why[u] = "release_exists" ->
               1 \notin revs \/ \E v \in Ups \ {u} : CarriedOut(v)
          [] OTHER -> TRUE
=============================================================================
