------------------------- MODULE ReleaseStageProofs --------------------------
(***************************************************************************)
(* Proofs about the release stage, for any number of runs of draft up and  *)
(* any history of the release.                                             *)
(***************************************************************************)
EXTENDS ReleaseStage, FiniteSetTheorems, WellFoundedInduction, TLAPS

\* How far a run has come: none of these sets is ever left.
Later     == {"get_release", "install", "upgrade", "ok", "failed"}
HasSecret == Later \union {"get_account", "update_account"}
HasNs     == HasSecret \union {"get_secret", "create_secret"}

Other(u, states) == \E v \in Ups \ {u} : rpc[v] \in states

\* Tiller has carried out a request of another run.
OtherCarried(u) == \E v \in Ups \ {u} : CarriedOut(v)

\* What a run has found or made by then is there; its copy of the account, if
\* it is current, has all the pull secrets.
Found ==
  \A u \in Ups :
    /\ rpc[u] \in {"get_secret", "create_secret", "get_account", "update_account"} => ns
    /\ rpc[u] \in {"get_account", "update_account"} => secret # "none"
    /\ rpc[u] = "update_account" => account
    /\ rpc[u] = "update_account" /\ copyVer[u] = accountVer => copyPulls[u] = pulls

\* What a run has not found, and is there now, another has made since.
Overtaken ==
  \A u \in Ups :
    /\ rpc[u] = "create_namespace" /\ ns => Other(u, HasNs)
    /\ rpc[u] = "create_secret" /\ secret # "none" => Other(u, HasSecret)
    /\ rpc[u] = "update_account" /\ copyVer[u] # accountVer => "other" \in pulls \/ Other(u, Later)
    /\ rpc[u] = "install" => 1 \notin revs \/ OtherCarried(u)

\* FailsForCause, with its abbreviations; and a run that has given up is over,
\* or at the write that it was given no answer to.
Caused ==
  \A u \in Ups :
    /\ why[u] \notin {"none", "kube", "helm"} => rpc[u] = "failed"
    /\ why[u] = "kube" => rpc[u] \in {"create_namespace", "create_secret", "update_account", "failed"}
    /\ why[u] = "helm" => rpc[u] \in {"install", "upgrade", "failed"}
    /\ why[u] = "exists" => Other(u, HasNs)
    /\ why[u] = "conflict" => "other" \in pulls \/ Other(u, Later)
    /\ why[u] = "release_exists" => 1 \notin revs \/ OtherCarried(u)

IInv == ReleaseTypeOK /\ PodsCanPull /\ Found /\ Overtaken /\ Caused


-----------------------------------------------------------------------------
\* A set of revisions that is not empty has a newest one.
LEMMA NewestExists ==
  ASSUME NEW R \in SUBSET (1 .. MaxRevision), R # {}
  PROVE  Newest(R) \in R
<1> DEFINE T == {MaxRevision - r : r \in R}
<1>1. MaxRevision \in Nat
  BY ReleaseAssumption
<1>2. T \subseteq Nat /\ T # {}
  <2>1. \A r \in R : MaxRevision - r \in Nat
    BY <1>1
  <2>2. PICK r \in R : TRUE
    OBVIOUS
  <2> QED
    BY <2>1, <2>2
<1>3. PICK x \in T : \A y \in T : ~(<<y, x>> \in OpToRel(<, Nat))
  <2> HIDE DEF T
  <2> QED
    BY <1>2, NatLessThanWellFounded, WFMin
<1>4. \A y \in T : x <= y
  <2> SUFFICES ASSUME NEW y \in T PROVE x <= y
    OBVIOUS
  <2>1. x \in Nat /\ y \in Nat
    BY <1>2
  <2>2. ~(y < x)
    BY <1>3, <2>1 DEF OpToRel
  <2> QED
    BY <2>1, <2>2
<1>5. PICK r \in R : x = MaxRevision - r
  OBVIOUS
<1>6. \A q \in R : q <= r
  <2> SUFFICES ASSUME NEW q \in R PROVE q <= r
    OBVIOUS
  <2>1. MaxRevision - r <= MaxRevision - q
    BY <1>4, <1>5
  <2>2. r \in Nat /\ q \in Nat
    BY <1>1
  <2> HIDE DEF T
  <2> QED
    BY <1>1, <2>1, <2>2
<1> QED
  BY <1>6 DEF Newest

\* What a step of a run does to the program counters.
LEMMA RunMoves ==
  ASSUME ReleaseTypeOK, NEW u \in Ups, UpStep(u)
  PROVE  \A v \in Ups \ {u} :
           rpc'[v] = rpc[v] /\ why'[v] = why[v] /\ copyPulls'[v] = copyPulls[v] /\ copyVer'[v] = copyVer[v]
<1> USE DEF ReleaseTypeOK, GoesOn, Fail, NoCopy
<1>1. CASE Refused(u) \/ Unanswered(u)
  BY <1>1 DEF Refused, Unanswered
<1>2. CASE GetNamespace(u) \/ CreateNamespace(u) \/ GetSecret(u) \/ CreateSecret(u)
  BY <1>2 DEF GetNamespace, CreateNamespace, GetSecret, CreateSecret
<1>3. CASE GetAccount(u)
  BY <1>3 DEF GetAccount
<1>4. CASE UpdateAccount(u)
  BY <1>4 DEF UpdateAccount
<1>5. CASE GetRelease(u) \/ Install(u) \/ Upgrade(u)
  BY <1>5 DEF GetRelease, Install, Upgrade
<1> QED
  BY <1>1, <1>2, <1>3, <1>4, <1>5 DEF UpStep

\* No set of Sets is left by a step of its run.
Sets == {Later, HasSecret, HasNs}

\* A run that has come to one of these points stays beyond it.
LEMMA RunAdvances ==
  ASSUME ReleaseTypeOK, NEW u \in Ups, UpStep(u), NEW S \in Sets, rpc[u] \in S
  PROVE  rpc'[u] \in S
<1> USE DEF ReleaseTypeOK, GoesOn, Fail, At, Sets, Later, HasSecret, HasNs
<1>1. CASE Refused(u) \/ Unanswered(u)
  BY <1>1 DEF Refused, Unanswered
<1>2. CASE GetNamespace(u) \/ CreateNamespace(u)
  BY <1>2 DEF GetNamespace, CreateNamespace
<1>3. CASE GetSecret(u) \/ CreateSecret(u)
  BY <1>3 DEF GetSecret, CreateSecret
<1>4. CASE GetAccount(u) \/ UpdateAccount(u)
  BY <1>4 DEF GetAccount, UpdateAccount
<1>5. CASE GetRelease(u) \/ Install(u) \/ Upgrade(u)
  BY <1>5 DEF GetRelease, Install, Upgrade
<1> QED
  BY <1>1, <1>2, <1>3, <1>4, <1>5 DEF UpStep

\* Another that has got so far, has got so far after any step.
LEMMA OthersStay ==
  ASSUME ReleaseTypeOK, [NextRelease]_releaseVars, NEW w \in Ups, NEW S \in Sets, Other(w, S)
  PROVE  Other(w, S)'
<1>1. PICK v \in Ups \ {w} : rpc[v] \in S
  BY DEF Other
<1>2. rpc'[v] \in S
  <2>1. ASSUME NEW u \in Ups, UpStep(u) PROVE rpc'[v] \in S
    BY <1>1, <2>1, RunMoves, RunAdvances
  <2>2. CASE AccountController \/ OtherPullSecret \/ UNCHANGED releaseVars
    BY <1>1, <2>2 DEF AccountController, OtherPullSecret, releaseVars
  <2> QED
    BY <2>1, <2>2 DEF NextRelease
<1> QED
  BY <1>1, <1>2 DEF Other

\* What Tiller has carried out for another stays so.
LEMMA CarriedStays ==
  ASSUME ReleaseTypeOK, [NextRelease]_releaseVars, NEW w \in Ups, OtherCarried(w)
  PROVE  OtherCarried(w)'
<1>1. PICK v \in Ups \ {w} : CarriedOut(v)
  BY DEF OtherCarried
<1>2. ~UpStep(v)
  BY <1>1 DEF CarriedOut, UpStep, Refused, Unanswered, ReleaseWrites, GetNamespace, CreateNamespace,
              GetSecret, CreateSecret, GetAccount, UpdateAccount, GetRelease, Install, Upgrade, At
<1>3. CarriedOut(v)'
  <2>1. ASSUME NEW u \in Ups, UpStep(u) PROVE CarriedOut(v)'
    BY <1>1, <1>2, <2>1, RunMoves DEF CarriedOut
  <2>2. CASE AccountController \/ OtherPullSecret \/ UNCHANGED releaseVars
    BY <1>1, <2>2 DEF AccountController, OtherPullSecret, releaseVars, CarriedOut
  <2> QED
    BY <2>1, <2>2 DEF NextRelease
<1> QED
  BY <1>1, <1>3 DEF OtherCarried

-----------------------------------------------------------------------------
\* The types.
LEMMA InitIInv == InitRelease => IInv
<1> SUFFICES ASSUME InitRelease PROVE IInv
  OBVIOUS
<1>1. ReleaseTypeOK
  <2>1. Cardinality(Ups) \in Nat
    BY ReleaseAssumption, FS_CardinalityType
  <2>2. revs \subseteq 1 .. MaxRevision
    BY <2>1, ReleaseAssumption DEF InitRelease
  <2> QED
    BY <2>2, ReleaseAssumption DEF InitRelease, ReleaseTypeOK, Reasons
<1>2. PodsCanPull /\ Found /\ Overtaken /\ Caused
  BY DEF InitRelease, PodsCanPull, Found, Overtaken, Caused
<1> QED
  BY <1>1, <1>2 DEF IInv

\* A copy of a version stays one of a version there has been.
LEMMA VersionTypes ==
  ASSUME ReleaseTypeOK, accountVer' \in {accountVer, accountVer + 1},
         copyVer' = copyVer \/ \E u \in Ups : copyVer' = [copyVer EXCEPT ![u] = accountVer]
  PROVE  accountVer' \in Nat /\ copyVer' \in [Ups -> 0 .. accountVer']
<1>1. accountVer \in Nat /\ copyVer \in [Ups -> 0 .. accountVer]
  BY DEF ReleaseTypeOK
<1>2. accountVer' \in Nat /\ 0 .. accountVer \subseteq 0 .. accountVer'
  BY <1>1
<1>3. copyVer' \in [Ups -> 0 .. accountVer]
  BY <1>1
<1> QED
  BY <1>2, <1>3

\* Every step keeps the types.
LEMMA TypeStep == ReleaseTypeOK /\ [NextRelease]_releaseVars => ReleaseTypeOK'
<1> SUFFICES ASSUME ReleaseTypeOK, [NextRelease]_releaseVars PROVE ReleaseTypeOK'
  OBVIOUS
<1> USE DEF Reasons, GoesOn, Fail, NoCopy, kubeVars
<1>1. ASSUME NEW u \in Ups, Refused(u) \/ Unanswered(u) PROVE ReleaseTypeOK'
  BY <1>1 DEF Refused, Unanswered, ReleaseTypeOK
<1>2. ASSUME NEW u \in Ups, GetNamespace(u) \/ CreateNamespace(u) PROVE ReleaseTypeOK'
  BY <1>2 DEF GetNamespace, CreateNamespace, ReleaseTypeOK
<1>3. ASSUME NEW u \in Ups, GetSecret(u) \/ CreateSecret(u) PROVE ReleaseTypeOK'
  BY <1>3 DEF GetSecret, CreateSecret, ReleaseTypeOK
<1>4. ASSUME NEW u \in Ups, GetAccount(u) PROVE ReleaseTypeOK'
  <2>1. accountVer' \in Nat /\ copyVer' \in [Ups -> 0 .. accountVer']
    BY <1>4, VersionTypes DEF GetAccount
  <2>2. copyPulls' \in [Ups -> SUBSET {"draft", "other"}]
    BY <1>4 DEF GetAccount, ReleaseTypeOK
  <2> QED
    BY <1>4, <2>1, <2>2 DEF GetAccount, ReleaseTypeOK
<1>5. ASSUME NEW u \in Ups, UpdateAccount(u) PROVE ReleaseTypeOK'
  <2>1. accountVer' \in Nat /\ copyVer' \in [Ups -> 0 .. accountVer']
    BY <1>5, VersionTypes DEF UpdateAccount
  <2>2. pulls' \subseteq {"draft", "other"}
    BY <1>5 DEF UpdateAccount, ReleaseTypeOK
  <2>3. rpc' \in [Ups -> {"get_namespace", "create_namespace", "get_secret", "create_secret",
                         "get_account", "update_account", "get_release", "install", "upgrade",
                         "ok", "failed"}]
        /\ why' \in [Ups -> Reasons]
    BY <1>5 DEF UpdateAccount, ReleaseTypeOK
  <2>4. UNCHANGED <<ns, secret, account, revs, copyPulls>>
    BY <1>5 DEF UpdateAccount
  <2> QED
    BY <2>1, <2>2, <2>3, <2>4 DEF ReleaseTypeOK
<1>6. ASSUME NEW u \in Ups, GetRelease(u) \/ Install(u) PROVE ReleaseTypeOK'
  <2>1. revs' \subseteq 1 .. MaxRevision
    <3>1. 1 \in 1 .. MaxRevision
      BY ReleaseAssumption
    <3> QED
      BY <1>6, <3>1 DEF GetRelease, Install, ReleaseTypeOK
  <2>2. rpc' \in [Ups -> {"get_namespace", "create_namespace", "get_secret", "create_secret",
                         "get_account", "update_account", "get_release", "install", "upgrade",
                         "ok", "failed"}]
        /\ why' \in [Ups -> Reasons]
    BY <1>6 DEF GetRelease, Install, ReleaseTypeOK
  <2>3. UNCHANGED <<ns, secret, account, pulls, accountVer, copyPulls, copyVer>>
    BY <1>6 DEF GetRelease, Install
  <2> QED
    BY <2>1, <2>2, <2>3 DEF ReleaseTypeOK
<1>7. ASSUME NEW u \in Ups, Upgrade(u) PROVE ReleaseTypeOK'
  <2>1. revs' \subseteq 1 .. MaxRevision
    <3>1. CASE revs = {}
      BY <1>7, <3>1 DEF Upgrade, ReleaseTypeOK
    <3>2. CASE revs # {}
      <4>1. Newest(revs) \in 1 .. MaxRevision
        BY <3>2, NewestExists DEF ReleaseTypeOK
      <4>2. Newest(revs) + 1 \in 1 .. MaxRevision
        BY <1>7, <3>2, <4>1, ReleaseAssumption DEF Upgrade
      <4> QED
        BY <1>7, <3>2, <4>2 DEF Upgrade, ReleaseTypeOK
    <3> QED
      BY <3>1, <3>2
  <2>2. rpc' \in [Ups -> {"get_namespace", "create_namespace", "get_secret", "create_secret",
                         "get_account", "update_account", "get_release", "install", "upgrade",
                         "ok", "failed"}]
        /\ why' \in [Ups -> Reasons]
    BY <1>7 DEF Upgrade, ReleaseTypeOK
  <2> QED
    BY <1>7, <2>1, <2>2 DEF Upgrade, ReleaseTypeOK
<1>8. CASE AccountController
  BY <1>8 DEF AccountController, ReleaseTypeOK
<1>9. CASE OtherPullSecret
  <2>1. accountVer' \in Nat /\ copyVer' \in [Ups -> 0 .. accountVer']
    BY <1>9, VersionTypes DEF OtherPullSecret
  <2> QED
    BY <1>9, <2>1 DEF OtherPullSecret, ReleaseTypeOK
<1>10. CASE UNCHANGED releaseVars
  BY <1>10 DEF releaseVars, ReleaseTypeOK
<1> QED
  BY <1>1, <1>2, <1>3, <1>4, <1>5, <1>6, <1>7, <1>8, <1>9, <1>10 DEF NextRelease, UpStep

-----------------------------------------------------------------------------
\* What the API server has is kept, whoever takes a step.
LEMMA Kept ==
  ASSUME ReleaseTypeOK, Found, [NextRelease]_releaseVars
  PROVE  /\ ns => ns'
         /\ account => account'
         /\ secret # "none" => secret' # "none"
         /\ pulls \subseteq pulls'
<1> USE DEF ReleaseTypeOK, GoesOn, Fail, NoCopy, kubeVars
<1>1. ASSUME NEW u \in Ups, Refused(u) \/ Unanswered(u) \/ GetNamespace(u) \/ CreateNamespace(u) \/ GetSecret(u)
      PROVE  (ns => ns') /\ UNCHANGED <<account, secret, pulls>>
  BY <1>1 DEF Refused, Unanswered, GetNamespace, CreateNamespace, GetSecret
<1>2. ASSUME NEW u \in Ups, CreateSecret(u)
      PROVE  (secret # "none" => secret' # "none") /\ UNCHANGED <<ns, account, pulls>>
  BY <1>2, ReleaseAssumption DEF CreateSecret
<1>3. ASSUME NEW u \in Ups, UpdateAccount(u)
      PROVE  pulls \subseteq pulls' /\ UNCHANGED <<ns, account, secret>>
  BY <1>3 DEF UpdateAccount, Found, At
<1>4. ASSUME NEW u \in Ups, GetAccount(u) \/ GetRelease(u) \/ Install(u) \/ Upgrade(u)
      PROVE  UNCHANGED <<ns, account, secret, pulls>>
  BY <1>4 DEF GetAccount, GetRelease, Install, Upgrade
<1>5. CASE AccountController \/ OtherPullSecret \/ UNCHANGED releaseVars
  BY <1>5 DEF AccountController, OtherPullSecret, releaseVars
<1> QED
  BY <1>1, <1>2, <1>3, <1>4, <1>5 DEF NextRelease, UpStep

\* The account's version says whether its pull secrets have changed.
LEMMA VersionTells ==
  ASSUME ReleaseTypeOK, Found, [NextRelease]_releaseVars
  PROVE  \/ UNCHANGED <<pulls, accountVer>>
         \/ accountVer' = accountVer + 1
<1> USE DEF GoesOn, Fail, NoCopy, kubeVars
<1>1. ASSUME NEW u \in Ups, UpStep(u)
      PROVE  UNCHANGED <<pulls, accountVer>> \/ accountVer' = accountVer + 1
  BY <1>1 DEF UpStep, Refused, Unanswered, GetNamespace, CreateNamespace, GetSecret, CreateSecret,
              GetAccount, UpdateAccount, GetRelease, Install, Upgrade
<1>2. CASE AccountController \/ OtherPullSecret \/ UNCHANGED releaseVars
  BY <1>2 DEF AccountController, OtherPullSecret, releaseVars
<1> QED
  BY <1>1, <1>2 DEF NextRelease

\* Only an installation brings revision 1 back.
LEMMA FirstRevision ==
  ASSUME ReleaseTypeOK, Caused, [NextRelease]_releaseVars, 1 \notin revs, 1 \in revs'
  PROVE  \E u \in Ups : rpc'[u] # rpc[u] /\ CarriedOut(u)'
<1> USE DEF GoesOn, Fail, NoCopy, kubeVars
<1>1. ASSUME NEW u \in Ups, Upgrade(u) PROVE FALSE
  <2>1. revs # {}
    BY <1>1 DEF Upgrade
  <2>2. Newest(revs) \in 1 .. MaxRevision
    BY <2>1, NewestExists DEF ReleaseTypeOK
  <2>3. Newest(revs) + 1 # 1
    BY <2>2
  <2> QED
    BY <1>1, <2>1, <2>3 DEF Upgrade
<1>2. ASSUME NEW u \in Ups, Install(u) PROVE rpc'[u] # rpc[u] /\ CarriedOut(u)'
  <2>1. rpc[u] = "install" /\ GoesOn(u, "ok")
    BY <1>2 DEF Install, At
  <2>2. why[u] \in {"none", "helm"}
    BY <2>1 DEF Caused
  <2> QED
    BY <2>1, <2>2 DEF ReleaseTypeOK, CarriedOut
<1>3. ASSUME NEW u \in Ups, UpStep(u), ~Install(u), ~Upgrade(u) PROVE UNCHANGED revs
  BY <1>3 DEF UpStep, Refused, Unanswered, GetNamespace, CreateNamespace, GetSecret, CreateSecret,
              GetAccount, UpdateAccount, GetRelease
<1>4. CASE AccountController \/ OtherPullSecret \/ UNCHANGED releaseVars
  BY <1>4 DEF AccountController, OtherPullSecret, releaseVars
<1> QED
  BY <1>1, <1>2, <1>3, <1>4 DEF NextRelease

-----------------------------------------------------------------------------
\* A run that moves on has found or made what Found and PodsCanPull say.
LEMMA MoverFinds ==
  ASSUME ReleaseTypeOK, Found, PodsCanPull, NEW u \in Ups, UpStep(u)
  PROVE  /\ rpc'[u] \in {"get_secret", "create_secret", "get_account", "update_account"} => ns'
         /\ rpc'[u] \in {"get_account", "update_account"} => secret' # "none"
         /\ rpc'[u] = "update_account" => account'
         /\ rpc'[u] = "update_account" /\ copyVer'[u] = accountVer' => copyPulls'[u] = pulls'
         /\ Registry /\ rpc'[u] \in {"get_release", "install", "upgrade", "ok"} =>
               ns' /\ account' /\ secret' # "none" /\ "draft" \in pulls'
<1> USE DEF ReleaseTypeOK, Found, PodsCanPull, GoesOn, Fail, NoCopy, kubeVars, At
<1>1. CASE Refused(u) \/ Unanswered(u)
  BY <1>1 DEF Refused, Unanswered
<1>2. CASE GetNamespace(u) \/ CreateNamespace(u)
  BY <1>2 DEF GetNamespace, CreateNamespace
<1>3. CASE GetSecret(u) \/ CreateSecret(u)
  BY <1>3, ReleaseAssumption DEF GetSecret, CreateSecret
<1>4. CASE GetAccount(u)
  BY <1>4 DEF GetAccount
<1>5. CASE UpdateAccount(u)
  BY <1>5 DEF UpdateAccount
<1>6. CASE GetRelease(u)
  BY <1>6 DEF GetRelease
<1>7. CASE Install(u) \/ Upgrade(u)
  BY <1>7 DEF Install, Upgrade
<1> QED
  BY <1>1, <1>2, <1>3, <1>4, <1>5, <1>6, <1>7 DEF UpStep

\* The others keep what they have found; a copy that was not of the last
\* version is not of the next one either.
LEMMA FoundStep ==
  ASSUME ReleaseTypeOK, PodsCanPull, Found, [NextRelease]_releaseVars
  PROVE  PodsCanPull' /\ Found'
<1> DEFINE FoundBy(w) ==
             /\ rpc[w] \in {"get_secret", "create_secret", "get_account", "update_account"} => ns
             /\ rpc[w] \in {"get_account", "update_account"} => secret # "none"
             /\ rpc[w] = "update_account" => account
             /\ rpc[w] = "update_account" /\ copyVer[w] = accountVer => copyPulls[w] = pulls
             /\ Registry /\ rpc[w] \in {"get_release", "install", "upgrade", "ok"} =>
                   ns /\ account /\ secret # "none" /\ "draft" \in pulls
<1>1. ASSUME NEW w \in Ups, UNCHANGED <<rpc[w], copyPulls[w], copyVer[w]>> PROVE FoundBy(w)'
  <2>1. FoundBy(w)
    BY DEF Found, PodsCanPull
  <2>2. copyVer'[w] = accountVer' => UNCHANGED <<pulls, accountVer>>
    <3>1. accountVer \in Nat /\ copyVer[w] \in 0 .. accountVer
      BY DEF ReleaseTypeOK
    <3>2. copyVer[w] # accountVer + 1
      BY <3>1
    <3> QED
      BY <1>1, <3>2, VersionTells
  <2> QED
    BY <1>1, <2>1, <2>2, Kept
<1>2. ASSUME NEW w \in Ups PROVE FoundBy(w)'
  <2>1. ASSUME NEW u \in Ups, UpStep(u) PROVE FoundBy(w)'
    <3>1. CASE w = u
      BY <2>1, <3>1, MoverFinds
    <3>2. CASE w # u
      BY <1>1, <2>1, <3>2, RunMoves
    <3> QED
      BY <3>1, <3>2
  <2>2. CASE AccountController \/ OtherPullSecret \/ UNCHANGED releaseVars
    BY <1>1, <2>2 DEF AccountController, OtherPullSecret, releaseVars
  <2> QED
    BY <2>1, <2>2 DEF NextRelease
<1> QED
  BY <1>2 DEF Found, PodsCanPull

-----------------------------------------------------------------------------
\* The run that makes what another has not found is further on.
LEMMA MakerIsOther ==
  ASSUME ReleaseTypeOK, Found, Caused, [NextRelease]_releaseVars, NEW w \in Ups, UNCHANGED rpc[w]
  PROVE  /\ ~ns /\ ns' => Other(w, HasNs)'
         /\ secret = "none" /\ secret' # "none" => Other(w, HasSecret)'
         /\ accountVer' # accountVer => "other" \in pulls' \/ Other(w, Later)'
         /\ 1 \notin revs /\ 1 \in revs' => OtherCarried(w)'
<1> USE DEF ReleaseTypeOK, GoesOn, Fail, NoCopy, kubeVars, At
<1>1. ASSUME NEW u \in Ups, UpStep(u), ~ns, ns' PROVE rpc[u] = "create_namespace" /\ rpc'[u] \in {"get_secret", "failed"}
  BY <1>1 DEF UpStep, Refused, Unanswered, GetNamespace, CreateNamespace, GetSecret, CreateSecret,
              GetAccount, UpdateAccount, GetRelease, Install, Upgrade
<1>2. ASSUME NEW u \in Ups, UpStep(u), secret = "none", secret' # "none"
      PROVE  rpc[u] = "create_secret" /\ rpc'[u] \in {"get_account", "failed"}
  BY <1>2 DEF UpStep, Refused, Unanswered, GetNamespace, CreateNamespace, GetSecret, CreateSecret,
              GetAccount, UpdateAccount, GetRelease, Install, Upgrade
<1>3. ASSUME NEW u \in Ups, UpStep(u), accountVer' # accountVer
      PROVE  rpc[u] = "update_account" /\ rpc'[u] \in {"get_release", "failed"}
  BY <1>3 DEF UpStep, Refused, Unanswered, GetNamespace, CreateNamespace, GetSecret, CreateSecret,
              GetAccount, UpdateAccount, GetRelease, Install, Upgrade
<1>4. 1 \notin revs /\ 1 \in revs' => OtherCarried(w)'
  BY FirstRevision DEF OtherCarried
<1>5. CASE AccountController \/ UNCHANGED releaseVars
  BY <1>4, <1>5 DEF AccountController, releaseVars
<1>6. CASE OtherPullSecret
  BY <1>4, <1>6 DEF OtherPullSecret
<1>7. ASSUME NEW u \in Ups, UpStep(u), rpc'[u] # rpc[u] PROVE u \in Ups \ {w}
  BY <1>7
<1>8. ASSUME NEW u \in Ups, UpStep(u)
      PROVE  /\ ~ns /\ ns' => Other(w, HasNs)'
             /\ secret = "none" /\ secret' # "none" => Other(w, HasSecret)'
             /\ accountVer' # accountVer => Other(w, Later)'
  BY <1>1, <1>2, <1>3, <1>7, <1>8 DEF Other, HasNs, HasSecret, Later
<1> QED
  BY <1>4, <1>5, <1>6, <1>8 DEF NextRelease

\* What a run that stays where it is has been overtaken in, it stays so.
LEMMA OvertakenStays ==
  ASSUME ReleaseTypeOK, Found, Overtaken, Caused, [NextRelease]_releaseVars,
         NEW w \in Ups, UNCHANGED <<rpc[w], copyVer[w]>>
  PROVE  /\ rpc'[w] = "create_namespace" /\ ns' => Other(w, HasNs)'
         /\ rpc'[w] = "create_secret" /\ secret' # "none" => Other(w, HasSecret)'
         /\ rpc'[w] = "update_account" /\ copyVer'[w] # accountVer' =>
               "other" \in pulls' \/ Other(w, Later)'
         /\ rpc'[w] = "install" => 1 \notin revs' \/ OtherCarried(w)'
<1>1. \A S \in Sets : Other(w, S) => Other(w, S)'
  BY OthersStay
<1>2. Later \in Sets /\ HasSecret \in Sets /\ HasNs \in Sets
  BY DEF Sets
<1>3. CASE rpc[w] = "create_namespace"
  BY <1>1, <1>2, <1>3, MakerIsOther DEF Overtaken, ReleaseTypeOK
<1>4. CASE rpc[w] = "create_secret"
  BY <1>1, <1>2, <1>4, MakerIsOther DEF Overtaken
<1>5. CASE rpc[w] = "update_account"
  <2>1. pulls \subseteq pulls'
    BY Kept
  <2>2. CASE copyVer[w] # accountVer
    BY <1>1, <1>2, <1>5, <2>1, <2>2 DEF Overtaken
  <2>3. CASE copyVer[w] = accountVer
    BY <1>5, <2>3, MakerIsOther
  <2> QED
    BY <1>5, <2>2, <2>3
<1>6. CASE rpc[w] = "install"
  BY <1>6, MakerIsOther, CarriedStays DEF Overtaken
<1> QED
  BY <1>3, <1>4, <1>5, <1>6

\* A run that moves on has just looked, and has not been overtaken yet; one
\* that fails on what it finds has been.
LEMMA MoverOvertaken ==
  ASSUME ReleaseTypeOK, Overtaken, Caused, NEW u \in Ups, UpStep(u), ~Unanswered(u)
  PROVE  /\ rpc'[u] = "create_namespace" => ~ns'
         /\ rpc'[u] = "create_secret" => secret' = "none"
         /\ rpc'[u] = "update_account" => copyVer'[u] = accountVer'
         /\ rpc'[u] = "install" => 1 \notin revs'
         /\ why'[u] \notin {"none", "kube", "helm"} => rpc'[u] = "failed"
         /\ why'[u] = "kube" =>
               rpc'[u] \in {"create_namespace", "create_secret", "update_account", "failed"}
         /\ why'[u] = "helm" => rpc'[u] \in {"install", "upgrade", "failed"}
         /\ why'[u] = "exists" => Other(u, HasNs) \/ Other(u, HasSecret)
         /\ why'[u] = "conflict" => ("other" \in pulls /\ pulls' = pulls) \/ Other(u, Later)
         /\ why'[u] = "release_exists" => (1 \notin revs /\ revs' = revs) \/ OtherCarried(u)
<1> USE DEF ReleaseTypeOK, Overtaken, Caused, GoesOn, Fail, NoCopy, kubeVars, At
<1>1. CASE Refused(u)
  BY <1>1 DEF Refused
<1>2. CASE GetNamespace(u) \/ CreateNamespace(u)
  BY <1>2 DEF GetNamespace, CreateNamespace
<1>3. CASE GetSecret(u) \/ CreateSecret(u)
  BY <1>3 DEF GetSecret, CreateSecret
<1>4. CASE GetAccount(u)
  BY <1>4 DEF GetAccount
<1>5. CASE UpdateAccount(u)
  BY <1>5 DEF UpdateAccount
<1>6. CASE GetRelease(u)
  BY <1>6 DEF GetRelease
<1>7. CASE Install(u) \/ Upgrade(u)
  BY <1>7 DEF Install, Upgrade
<1> QED
  BY <1>1, <1>2, <1>3, <1>4, <1>5, <1>6, <1>7 DEF UpStep

\* Being overtaken, and having failed of it, is preserved.
LEMMA CausedStep ==
  ASSUME ReleaseTypeOK, Found, Overtaken, Caused, [NextRelease]_releaseVars
  PROVE  Overtaken' /\ Caused'
<1> DEFINE Behind(w) ==
             /\ rpc[w] = "create_namespace" /\ ns => Other(w, HasNs)
             /\ rpc[w] = "create_secret" /\ secret # "none" => Other(w, HasSecret)
             /\ rpc[w] = "update_account" /\ copyVer[w] # accountVer =>
                   "other" \in pulls \/ Other(w, Later)
             /\ rpc[w] = "install" => 1 \notin revs \/ OtherCarried(w)
           CausedFor(w) ==
             /\ why[w] \notin {"none", "kube", "helm"} => rpc[w] = "failed"
             /\ why[w] = "kube" =>
                   rpc[w] \in {"create_namespace", "create_secret", "update_account", "failed"}
             /\ why[w] = "helm" => rpc[w] \in {"install", "upgrade", "failed"}
             /\ why[w] = "exists" => Other(w, HasNs)
             /\ why[w] = "conflict" => "other" \in pulls \/ Other(w, Later)
             /\ why[w] = "release_exists" => 1 \notin revs \/ OtherCarried(w)
<1>1. ASSUME NEW w \in Ups, NEW S \in Sets, Other(w, S) PROVE Other(w, S)'
  BY <1>1, OthersStay
<1>2. Later \in Sets /\ HasSecret \in Sets /\ HasNs \in Sets
  BY DEF Sets
<1>3. HasSecret \subseteq HasNs
  BY DEF HasNs
<1>4. ASSUME NEW w \in Ups, UNCHANGED <<rpc[w], copyVer[w], why[w]>> PROVE Behind(w)' /\ CausedFor(w)'
  <2>1. Behind(w)'
    BY <1>4, OvertakenStays
  <2>2. CausedFor(w)
    BY DEF Caused
  <2>3. why[w] = "release_exists" /\ 1 \in revs' => OtherCarried(w)'
    BY <1>4, <2>2, MakerIsOther, CarriedStays
  <2>4. CausedFor(w)'
    BY <1>1, <1>2, <1>4, <2>2, <2>3, Kept
  <2> QED
    BY <2>1, <2>4
<1>7. ASSUME NEW u \in Ups, Unanswered(u) PROVE Behind(u)' /\ CausedFor(u)'
  <2>1. /\ UNCHANGED <<rpc[u], copyVer[u]>> /\ why'[u] \in {"kube", "helm"}
        /\ why'[u] = "kube" =>
             rpc[u] \in {"create_namespace", "create_secret", "update_account", "failed"}
        /\ why'[u] = "helm" => rpc[u] \in {"install", "upgrade", "failed"}
    BY <1>7 DEF Unanswered, NoCopy, ReleaseTypeOK, ReleaseWrites
  <2>2. Behind(u)'
    BY <2>1, OvertakenStays
  <2> QED
    BY <2>1, <2>2
<1>5. ASSUME NEW u \in Ups, UpStep(u), ~Unanswered(u) PROVE Behind(u)' /\ CausedFor(u)'
  <2>1. Behind(u)'
    BY <1>5, MoverOvertaken
  <2>2. why'[u] = "exists" => Other(u, HasNs)'
    <3>1. Other(u, HasSecret)' => Other(u, HasNs)'
      BY <1>3 DEF Other
    <3> QED
      BY <1>1, <1>2, <1>5, <3>1, MoverOvertaken
  <2>3. CausedFor(u)'
    BY <1>1, <1>2, <1>5, <2>2, MoverOvertaken, CarriedStays
  <2> QED
    BY <2>1, <2>3
<1>6. ASSUME NEW w \in Ups PROVE Behind(w)' /\ CausedFor(w)'
  <2>1. ASSUME NEW u \in Ups, UpStep(u) PROVE Behind(w)' /\ CausedFor(w)'
    <3>1. CASE w = u
      BY <1>5, <1>7, <2>1, <3>1
    <3>2. CASE w # u
      BY <1>4, <2>1, <3>2, RunMoves
    <3> QED
      BY <3>1, <3>2
  <2>2. CASE AccountController \/ OtherPullSecret \/ UNCHANGED releaseVars
    BY <1>4, <2>2 DEF AccountController, OtherPullSecret, releaseVars
  <2> QED
    BY <2>1, <2>2 DEF NextRelease
<1> QED
  BY <1>6 DEF Overtaken, Caused

-----------------------------------------------------------------------------
\* IInv is an invariant of any number of runs of draft up against one cluster,
\* whatever requests fail and whoever else writes the account: what a run has
\* found stays, and what it finds made since, another run has made.
THEOREM ReleaseInvariant == SpecRelease => []IInv
<1>1. IInv /\ [NextRelease]_releaseVars => IInv'
  BY TypeStep, FoundStep, CausedStep DEF IInv
<1> QED
  BY InitIInv, <1>1, PTL DEF SpecRelease

\* Every variable of the release stage stays in its range: the copy of the
\* account a run holds is of a version the account has had, and Tiller's
\* revisions stay within the bound.
THEOREM ReleaseTyped == SpecRelease => []ReleaseTypeOK
<1>1. IInv => ReleaseTypeOK
  BY DEF IInv
<1> QED
  BY <1>1, ReleaseInvariant, PTL

\* A run of draft up that gets to Tiller with a registry configured leaves
\* pods that can pull: namespace, pull secret and default account are there
\* and the account names the secret.
THEOREM ReleasePodsCanPull == SpecRelease => []PodsCanPull
<1>1. IInv => PodsCanPull
  BY DEF IInv
<1> QED
  BY <1>1, ReleaseInvariant, PTL

\* A run that fails on "already exists", on a version conflict or on a release
\* that exists does so for what another run, another writer of the account or
\* Tiller's limit on the history did: never for its own requests.
THEOREM ReleaseFailsForCause == SpecRelease => []FailsForCause
<1>1. IInv => FailsForCause
  <2> SUFFICES ASSUME Caused PROVE FailsForCause
    BY DEF IInv
  <2> QED
    BY DEF Caused, FailsForCause, Other, OtherCarried, HasNs, HasSecret, Later
<1> QED
  BY <1>1, ReleaseInvariant, PTL

\* No step of any run, of the controller or of another writer takes a pull
\* secret off the default account, although each run writes the account
\* from a copy it read before.
THEOREM ReleasePullSecretsKept == SpecRelease => PullSecretsKept
<1>1. IInv /\ [NextRelease]_releaseVars => [pulls \subseteq pulls']_releaseVars
  BY Kept DEF IInv
<1> QED
  BY <1>1, ReleaseInvariant, PTL DEF SpecRelease, PullSecretsKept
=============================================================================
