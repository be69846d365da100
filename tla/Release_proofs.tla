--------------------------- MODULE Release_proofs ---------------------------
(***************************************************************************)
(* Notarize for every timeout, interval and number of failures, then       *)
(* Release for any runs of the workflow that call it.                      *)
(***************************************************************************)
EXTENDS Release, TLAPS

(***************************************************************************)
(* notarize.sh.  What bounds the time: while the script goes on, each turn *)
(* past the timeout is paid for by a failure.                              *)
(***************************************************************************)

GoingOn == pc \in {"submit", "poll", "sleep"}

\* The time that failed polls account for.
Spent == failures * Turn

IInv ==
  /\ TypeOK
  /\ GoingOn => failures < MaxPollFailures /\ status \notin Terminal
  /\ pc = "submit" => elapsed = 0 /\ failures = 0
  /\ pc = "poll" => elapsed < PollTimeout + Spent + PollInterval
  /\ pc = "sleep" => elapsed < PollTimeout + Spent
  /\ InTime /\ OkIsAccepted /\ DecisionIsHeard

LEMMA TurnPositive == Turn \in Nat \ {0} /\ PollInterval <= Turn
BY TimeAssumption DEF Turn

\* Multiplication, where the solver needs it.
LEMMA SpentGrows ==
  ASSUME NEW n \in 0..MaxPollFailures
  PROVE  /\ n * Turn \in Nat /\ MaxPollFailures * Turn \in Nat
         /\ (n + 1) * Turn = n * Turn + Turn
         /\ n * Turn <= MaxPollFailures * Turn
         /\ n < MaxPollFailures => n * Turn + Turn <= MaxPollFailures * Turn
<1> DEFINE T == Turn
           D == MaxPollFailures - n
<1>1. T \in Nat /\ n \in Nat /\ MaxPollFailures \in Nat /\ D \in Nat
  BY TurnPositive, TimeAssumption
<1>2. MaxPollFailures * T = n * T + D * T  BY <1>1
<1>3. n * T \in Nat /\ D * T \in Nat /\ MaxPollFailures * T \in Nat  BY <1>1
<1>4. (n + 1) * T = n * T + T  BY <1>1
<1>5. D # 0 => D * T >= T
  <2>1. D # 0 => D - 1 \in Nat /\ (D - 1) * T \in Nat /\ D * T = (D - 1) * T + T
    BY <1>1
  <2>. QED BY <2>1, <1>1, <1>3
<1>6. n < MaxPollFailures => D # 0  BY <1>1
<1>. HIDE DEF D
<1>. QED BY <1>1, <1>2, <1>3, <1>4, <1>5, <1>6

LEMMA InitEstablishes == Init => IInv
<1>. SUFFICES ASSUME Init PROVE IInv
  OBVIOUS
<1>1. InTime
  <2>1. 0 \in 0..MaxPollFailures /\ 0 < MaxPollFailures  BY TimeAssumption
  <2>2. MaxPollFailures * Turn \in Nat /\ 0 * Turn + Turn <= MaxPollFailures * Turn
        /\ 0 * Turn \in Nat
    BY <2>1, SpentGrows
  <2>3. 0 < PollTimeout + MaxPollFailures * Turn  BY <2>2, TurnPositive, TimeAssumption
  <2>. QED BY <2>3 DEF Init, InTime
<1>2. TypeOK /\ failures < MaxPollFailures  BY TimeAssumption DEF Init, TypeOK
<1>. QED
  BY <1>1, <1>2 DEF Init, IInv, GoingOn, OkIsAccepted, DecisionIsHeard, Terminal

\* What the step of an action has to show about time.
TimeKept ==
  /\ pc = "poll" => elapsed < PollTimeout + Spent + PollInterval
  /\ pc = "sleep" => elapsed < PollTimeout + Spent
  /\ InTime

\* The rest.
RestKept ==
  /\ TypeOK
  /\ GoingOn => failures < MaxPollFailures /\ status \notin Terminal
  /\ pc = "submit" => elapsed = 0 /\ failures = 0
  /\ OkIsAccepted /\ DecisionIsHeard

\* A step preserves the invariant.
LEMMA StepPreserves == IInv /\ [Next]_vars => IInv'
<1>. SUFFICES ASSUME IInv, [Next]_vars PROVE TimeKept' /\ RestKept'
  BY DEF TimeKept, RestKept, IInv
<1>1. /\ elapsed \in Nat /\ failures \in 0..MaxPollFailures
      /\ MaxPollFailures \in Nat \ {0} /\ PollTimeout \in Nat
      /\ PollInterval \in Nat \ {0} /\ MaxAsking \in Nat
  BY TimeAssumption DEF IInv, TypeOK
<1>2. /\ failures * Turn \in Nat /\ MaxPollFailures * Turn \in Nat
      /\ (failures + 1) * Turn = failures * Turn + Turn
      /\ failures * Turn <= MaxPollFailures * Turn
      /\ failures < MaxPollFailures => failures * Turn + Turn <= MaxPollFailures * Turn
  BY <1>1, SpentGrows
<1>3. Turn = PollInterval + MaxAsking /\ Turn \in Nat /\ Turn' = Turn /\ 0 * Turn = 0
  BY TurnPositive DEF Turn
<1>4. CASE Submit
  <2>1. /\ elapsed = 0 /\ failures = 0 /\ UNCHANGED <<service, elapsed, status, failures>>
        /\ pc' \in {"poll", "error"} /\ InTime
    BY <1>4 DEF Submit, IInv
  <2>2. InTime'  BY <2>1, <1>3 DEF InTime
  <2>3. Spent' = 0  BY <2>1, <1>3 DEF Spent
  <2>4. elapsed' < PollTimeout + Spent' + PollInterval  BY <2>1, <2>3, <1>1
  <2>. QED
    BY <1>4, <2>1, <2>2, <2>4
    DEF Submit, IInv, TimeKept, RestKept, GoingOn, TypeOK, OkIsAccepted, DecisionIsHeard, Terminal
<1>5. CASE PollFails
  <2>1. PICK s \in 0..MaxAsking : elapsed' = elapsed + s
    BY <1>5 DEF PollFails, Asking
  <2>2. failures' = failures + 1 /\ failures < MaxPollFailures
        /\ elapsed < PollTimeout + failures * Turn + PollInterval
    BY <1>5 DEF PollFails, IInv, GoingOn, Spent
  <2>3. elapsed' \in Nat /\ elapsed' < PollTimeout + (failures + 1) * Turn
        /\ elapsed' < PollTimeout + MaxPollFailures * Turn
    BY <2>1, <2>2, <1>1, <1>2, <1>3
  <2>4. \/ pc' = "error" /\ failures' = MaxPollFailures
        \/ pc' = "sleep" /\ failures' < MaxPollFailures
    BY <1>5, <2>2, <1>1 DEF PollFails, GivesUp
  <2>5. TimeKept'
    <3>1. InTime'  BY <2>3, <1>3 DEF InTime
    <3>2. elapsed' < PollTimeout + Spent'  BY <2>2, <2>3, <1>3 DEF Spent
    <3>. QED BY <3>1, <3>2, <2>4 DEF TimeKept
  <2>6. failures' \in 0..MaxPollFailures  BY <2>2, <1>1
  <2>7. RestKept'
    BY <1>5, <2>3, <2>4, <2>6
    DEF PollFails, IInv, RestKept, GoingOn, TypeOK, OkIsAccepted, DecisionIsHeard, Terminal
  <2>. QED BY <2>5, <2>7
<1>6. CASE PollAnswers
  <2>1. PICK s \in 0..MaxAsking : elapsed' = elapsed + s
    BY <1>6 DEF PollAnswers, Asking
  <2>2. failures' = 0 /\ failures < MaxPollFailures
        /\ elapsed < PollTimeout + failures * Turn + PollInterval
    BY <1>6 DEF PollAnswers, IInv, GoingOn, Spent
  <2>3. elapsed' \in Nat /\ elapsed' < PollTimeout + MaxPollFailures * Turn
    BY <2>1, <2>2, <1>1, <1>2, <1>3
  <2>4. /\ status' \in {service, "other"} /\ UNCHANGED service
        /\ service \in Terminal \cup {"InProgress"}
    BY <1>6 DEF PollAnswers, IInv, TypeOK
  <2>5. \/ pc' = "error" /\ status' # "Accepted"
        \/ pc' = "ok" /\ status' = "Accepted"
        \/ pc' = "sleep" /\ status' \notin Terminal /\ elapsed' < PollTimeout
    BY <1>6, <2>3, <1>1 DEF PollAnswers, Expired, Verdict, Terminal
  <2>6. TimeKept'
    <3>1. InTime'  BY <2>3, <1>3 DEF InTime
    <3>2. Spent' = 0  BY <2>2, <1>3 DEF Spent
    <3>. QED BY <3>1, <3>2, <2>5, <2>3, <1>1 DEF TimeKept
  <2>7. failures' < MaxPollFailures /\ failures' \in 0..MaxPollFailures
    BY <2>2, <1>1
  <2>8. RestKept'
    BY <2>3, <2>4, <2>5, <2>7
    DEF RestKept, GoingOn, TypeOK, OkIsAccepted, DecisionIsHeard, Terminal
  <2>. QED BY <2>6, <2>8
<1>7. CASE Sleep
  <2>1. /\ elapsed' = elapsed + PollInterval /\ failures < MaxPollFailures
        /\ elapsed < PollTimeout + failures * Turn
        /\ pc' = "poll" /\ UNCHANGED <<service, status, failures>>
        /\ status \notin Terminal
    BY <1>7 DEF Sleep, Slept, IInv, GoingOn, Spent
  <2>2. /\ elapsed' \in Nat /\ elapsed' < PollTimeout + failures * Turn + PollInterval
        /\ elapsed' < PollTimeout + MaxPollFailures * Turn
    BY <2>1, <1>1, <1>2, <1>3
  <2>3. TimeKept'
    <3>1. InTime'  BY <2>2, <1>3 DEF InTime
    <3>2. Spent' = failures * Turn  BY <2>1, <1>3 DEF Spent
    <3>. QED BY <3>1, <3>2, <2>1, <2>2 DEF TimeKept
  <2>4. RestKept'
    BY <2>1, <2>2 DEF IInv, RestKept, GoingOn, TypeOK, OkIsAccepted, DecisionIsHeard, Terminal
  <2>. QED BY <2>3, <2>4
<1>8. CASE ServiceDecides \/ Ended \/ UNCHANGED vars
  <2>1. UNCHANGED <<elapsed, status, failures, pc>>
        /\ ((service = "InProgress" /\ service' \in Terminal) \/ UNCHANGED service)
    BY <1>8 DEF ServiceDecides, Ended, vars
  <2>2. InTime' /\ Spent' = Spent  BY <2>1, <1>3 DEF InTime, Spent, IInv
  <2>. QED
    BY <2>1, <2>2
    DEF IInv, TimeKept, RestKept, GoingOn, TypeOK, OkIsAccepted, DecisionIsHeard, Terminal
<1>. QED BY <1>4, <1>5, <1>6, <1>7, <1>8 DEF Next, Script

THEOREM Invariance == Spec => []IInv
BY InitEstablishes, StepPreserves, PTL DEF Spec

\* The type invariant, for every value of the constants.
THEOREM TypeCorrect == Spec => []TypeOK
<1>1. IInv => TypeOK  BY DEF IInv
<1>. QED BY <1>1, Invariance, PTL

\* Only an accepted file leaves the script with exit code 0.
THEOREM OkMeansAccepted == Spec => []OkIsAccepted
<1>1. IInv => OkIsAccepted  BY DEF IInv
<1>. QED BY <1>1, Invariance, PTL

\* An acceptance that was read is never reported as an error.
THEOREM AcceptanceIsHeard == Spec => []DecisionIsHeard
<1>1. IInv => DecisionIsHeard  BY DEF IInv
<1>. QED BY <1>1, Invariance, PTL

\* The bound on the time the script takes.
THEOREM EndsInTime == Spec => []InTime
<1>1. IInv => InTime  BY DEF IInv
<1>. QED BY <1>1, Invariance, PTL

(***************************************************************************)
(* release.yml.                                                            *)
(***************************************************************************)

Step == {"build", "app", "package", "dmg", "upload", "publish", "put", "done"}

ReleaseTypeOK ==
  /\ publish \in [Run -> BOOLEAN] /\ onTag \in [Run -> BOOLEAN]
  /\ at \in [Run -> Step] /\ going \in [Run -> BOOLEAN]
  /\ made \in 0..MaxMade
  /\ app \in [Run -> BOOLEAN] /\ image \in [Run -> 0..made]
  /\ contains \in [1..MaxMade -> BOOLEAN] /\ accepted \subseteq 0..made
  /\ assets \in [Asset -> 0..made]
  /\ client \in Run \cup {Nobody}

\* What a run has handed over when it is at a step, however it got there.
HandedOver ==
  \A r \in Run :
    /\ at[r] = "package" => app[r]
    /\ at[r] \in {"dmg", "upload", "publish", "put"} => image[r] # 0 /\ contains[image[r]]
    /\ at[r] \in {"upload", "publish", "put"} => image[r] \in accepted
    /\ at[r] \in {"publish", "put"} => publish[r] /\ onTag[r]
    /\ at[r] = "done" => going[r]
    /\ client = r => at[r] \in {"app", "dmg"} /\ going[r]

Putting(r) == at[r] = "put" /\ going[r]

\* Unless two runs were, one run at a time puts its image and the checksum of
\* it into a release that had neither.
OneAtATime ==
  /\ \A a \in Asset : assets[a] # 0 => exists
  /\ \A r \in Run : Putting(r) => exists
  /\ ~raced =>
       /\ \A r, q \in Run : Putting(r) /\ Putting(q) => r = q
       /\ \A r \in Run : Putting(r) => \A a \in Asset : assets[a] \in {0, image[r]}

JobInv == ReleaseTypeOK /\ HandedOver /\ OneAtATime /\ AssetsBelongTogether

\* notarize.sh is the same, whoever calls it, and starts afresh each time.
LEMMA ScriptInv ==
  ASSUME IInv, [ReleaseNext]_releaseVars
  PROVE  IInv'
<1>1. CASE UNCHANGED vars  BY <1>1, StepPreserves
<1>2. CASE RunNotarize  BY <1>2, StepPreserves DEF RunNotarize, Next
<1>3. CASE Reset
  <2>1. Init'  BY <1>3 DEF Reset, Init
  <2>. QED BY <2>1, InitEstablishes, PTL
<1>4. ASSUME NEW r \in Run,
             \/ BuildJob(r) \/ Notarizing(r) \/ Notarized(r) \/ Package(r) \/ Upload(r)
             \/ CreateRelease(r) \/ (\E a \in Asset : PutAsset(r, a)) \/ Fail(r) \/ Rerun(r)
      PROVE  UNCHANGED vars \/ Reset
  BY <1>4 DEF BuildJob, Notarizing, Notarized, Package, Upload, CreateRelease, PutAsset, Fail, Rerun
<1>. QED BY <1>1, <1>2, <1>3, <1>4 DEF ReleaseNext, releaseVars

LEMMA InitJobs == ReleaseInit => JobInv
<1>. SUFFICES ASSUME ReleaseInit PROVE JobInv  OBVIOUS
<1>1. /\ publish \in [Run -> BOOLEAN] /\ onTag \in [Run -> BOOLEAN]
      /\ at = [r \in Run |-> "build"] /\ going = [r \in Run |-> TRUE]
      /\ app = [r \in Run |-> FALSE] /\ image = [r \in Run |-> 0]
      /\ made = 0 /\ contains = [n \in 1..MaxMade |-> FALSE] /\ accepted = {}
      /\ assets = [a \in Asset |-> 0] /\ client = Nobody
  BY DEF ReleaseInit
<1>2. ReleaseTypeOK
  BY <1>1, RunAssumption DEF ReleaseTypeOK, Step
<1>. QED
  BY <1>1, <1>2, RunAssumption
  DEF JobInv, HandedOver, OneAtATime, AssetsBelongTogether, Putting, Asset

\* A run moves from step to step, or ends, and hands nothing over and puts
\* nothing into the release.
LEMMA MoveStep ==
  ASSUME JobInv, NEW r \in Run, NEW to \in Step, NEW g \in BOOLEAN,
         at' = [at EXCEPT ![r] = to], going' = [going EXCEPT ![r] = g],
         UNCHANGED <<publish, onTag, app, image, made, contains, accepted, assets, exists, raced>>,
         \/ client' = client /\ client # r
         \/ client' = Nobody
         \/ client' = r /\ client = Nobody /\ to \in {"app", "dmg"} /\ g,
         to \in {"build", "app", at[r]} \/ (to = "done" /\ g)
           \/ (to = "publish" /\ at[r] \in {"publish", "put"}),
         to = "put" => ~g,
         to = "done" => g
  PROVE  JobInv'
<1>1. /\ publish' = publish /\ onTag' = onTag /\ app' = app /\ image' = image /\ made' = made
      /\ contains' = contains /\ accepted' = accepted /\ assets' = assets
      /\ (exists' <=> exists) /\ (raced' <=> raced)
  OBVIOUS
<1>2. ReleaseTypeOK  BY DEF JobInv
<1>3. /\ at'[r] = to /\ (going'[r] <=> g)
      /\ \A q \in Run \ {r} : at'[q] = at[q] /\ (going'[q] <=> going[q])
  BY <1>2 DEF ReleaseTypeOK
<1>4. ReleaseTypeOK'
  <2>1. at' \in [Run -> Step] /\ client' \in Run \cup {Nobody}
    BY <1>2 DEF ReleaseTypeOK
  <2>2. going' \in [Run -> BOOLEAN]
    BY <1>2 DEF ReleaseTypeOK
  <2>. QED BY <1>1, <1>2, <2>1, <2>2 DEF ReleaseTypeOK
<1>5. HandedOver'
  <2>. SUFFICES ASSUME NEW q \in Run
       PROVE  /\ at'[q] = "package" => app[q]
              /\ at'[q] \in {"dmg", "upload", "publish", "put"} => image[q] # 0 /\ contains[image[q]]
              /\ at'[q] \in {"upload", "publish", "put"} => image[q] \in accepted
              /\ at'[q] \in {"publish", "put"} => publish[q] /\ onTag[q]
              /\ at'[q] = "done" => going'[q]
              /\ client' = q => at'[q] \in {"app", "dmg"} /\ going'[q]
    BY <1>1 DEF HandedOver
  <2>1. CASE q = r  BY <2>1, <1>3, RunAssumption DEF JobInv, HandedOver
  <2>2. CASE q # r  BY <2>2, <1>3, RunAssumption DEF JobInv, HandedOver
  <2>. QED BY <2>1, <2>2
<1>6. \A q \in Run : Putting(q)' => Putting(q)
  BY <1>3 DEF Putting
<1>7. OneAtATime'  BY <1>1, <1>6 DEF JobInv, OneAtATime
<1>8. AssetsBelongTogether'  BY <1>1 DEF JobInv, AssetsBelongTogether
<1>. QED BY <1>4, <1>5, <1>7, <1>8 DEF JobInv

\* A run hands something over: what the others have is not touched.  What is
\* in the release stays there.
LEMMA HandStep ==
  ASSUME JobInv, ReleaseTypeOK', NEW r \in Run, NEW to \in Step, NEW g \in BOOLEAN,
         at' = [at EXCEPT ![r] = to], going' = [going EXCEPT ![r] = g],
         UNCHANGED <<publish, onTag>>,
         \A q \in Run \ {r} : (app'[q] <=> app[q]) /\ image'[q] = image[q],
         \A n \in 1..made : contains'[n] <=> contains[n],
         accepted \subseteq accepted',
         client' \in {client, Nobody} /\ client' # r,
         to = "package" => app'[r],
         to \in {"dmg", "upload", "publish", "put"} => image'[r] # 0 /\ contains'[image'[r]],
         to \in {"upload", "publish", "put"} => image'[r] \in accepted',
         to \in {"publish", "put"} => publish[r] /\ onTag[r],
         to = "done" => g
  PROVE  HandedOver'
<1>1. publish' = publish /\ onTag' = onTag  OBVIOUS
<1>2. ReleaseTypeOK /\ HandedOver  BY DEF JobInv
<1>3. /\ at'[r] = to /\ (going'[r] <=> g)
      /\ \A q \in Run \ {r} : at'[q] = at[q] /\ (going'[q] <=> going[q])
  BY <1>2 DEF ReleaseTypeOK
<1>4. ASSUME NEW q \in Run
      PROVE  /\ at'[q] = "package" => app'[q]
             /\ at'[q] \in {"dmg", "upload", "publish", "put"} => image'[q] # 0 /\ contains'[image'[q]]
             /\ at'[q] \in {"upload", "publish", "put"} => image'[q] \in accepted'
             /\ at'[q] \in {"publish", "put"} => publish[q] /\ onTag[q]
             /\ at'[q] = "done" => going'[q]
             /\ client' = q => at'[q] \in {"app", "dmg"} /\ going'[q]
  <2>1. CASE q = r  BY <2>1, <1>3
  <2>2. CASE q # r
    <3>1. image[q] # 0 => image[q] \in 1..made
      BY <1>2 DEF ReleaseTypeOK
    <3>2. client' = q => client = q  BY RunAssumption
    <3>. QED BY <2>2, <3>1, <3>2, <1>2, <1>3 DEF HandedOver
  <2>. QED BY <2>1, <2>2
<1>. QED BY <1>1, <1>4 DEF HandedOver

\* As long as nothing is put into the release, what is there belongs together.
LEMMA AssetsKept ==
  ASSUME JobInv, assets' = assets,
         publish' = publish, onTag' = onTag,
         \A n \in 1..made : contains'[n] <=> contains[n],
         accepted \subseteq accepted',
         raced => raced'
  PROVE  AssetsBelongTogether'
<1>1. ASSUME NEW a \in Asset, assets[a] # 0
      PROVE  /\ assets[a] \in accepted' /\ contains'[assets[a]]
             /\ \E r \in Run : publish[r] /\ onTag[r]
  <2>1. assets[a] \in 1..made  BY <1>1 DEF JobInv, ReleaseTypeOK
  <2>. QED BY <1>1, <2>1 DEF JobInv, AssetsBelongTogether
<1>2. 0 \notin {assets[a] : a \in Asset} /\ ~raced' => assets["dmg"] = assets["sha256"]
  BY DEF JobInv, AssetsBelongTogether
<1>. QED BY <1>1, <1>2 DEF AssetsBelongTogether

\* The steps before the release.
LEMMA BuildStep ==
  ASSUME JobInv, NEW r \in Run, BuildJob(r)
  PROVE  JobInv'
<1>1. /\ at[r] = "build" /\ client # r
      /\ at' = [at EXCEPT ![r] = "app"] /\ app' = [app EXCEPT ![r] = FALSE]
      /\ going' = going /\ publish' = publish /\ onTag' = onTag /\ image' = image /\ made' = made
      /\ contains' = contains /\ accepted' = accepted /\ assets' = assets /\ client' = client
      /\ (exists' <=> exists) /\ (raced' <=> raced)
  BY DEF BuildJob, At, Go, worldVars
<1>2. ReleaseTypeOK  BY DEF JobInv
<1>3. ReleaseTypeOK'
  <2>1. at' \in [Run -> Step] /\ app' \in [Run -> BOOLEAN]
    BY <1>1, <1>2 DEF ReleaseTypeOK, Step
  <2>. QED BY <1>1, <1>2, <2>1 DEF ReleaseTypeOK
<1>4. at'[r] = "app" /\ \A q \in Run \ {r} : at'[q] = at[q] /\ (app'[q] <=> app[q])
  BY <1>1, <1>2 DEF ReleaseTypeOK
<1>5. HandedOver'
  <2>. SUFFICES ASSUME NEW q \in Run
       PROVE  /\ at'[q] = "package" => app'[q]
              /\ at'[q] \in {"dmg", "upload", "publish", "put"} => image[q] # 0 /\ contains[image[q]]
              /\ at'[q] \in {"upload", "publish", "put"} => image[q] \in accepted
              /\ at'[q] \in {"publish", "put"} => publish[q] /\ onTag[q]
              /\ at'[q] = "done" => going[q]
              /\ client = q => at'[q] \in {"app", "dmg"} /\ going[q]
    BY <1>1 DEF HandedOver
  <2>1. CASE q = r  BY <2>1, <1>1, <1>4
  <2>2. CASE q # r  BY <2>2, <1>4 DEF JobInv, HandedOver
  <2>. QED BY <2>1, <2>2
<1>6. \A q \in Run : Putting(q)' => Putting(q)  BY <1>1, <1>4 DEF Putting
<1>7. OneAtATime'  BY <1>1, <1>6 DEF JobInv, OneAtATime
<1>8. AssetsBelongTogether'  BY <1>1, AssetsKept
<1>. QED BY <1>3, <1>5, <1>7, <1>8 DEF JobInv

\* notarize.sh said 0 for what the service has accepted.
LEMMA NotarizedStep ==
  ASSUME IInv, JobInv, NEW r \in Run, Notarized(r)
  PROVE  JobInv'
<1>1. /\ client = r /\ client' = Nobody /\ pc \in {"ok", "error"}
      /\ publish' = publish /\ onTag' = onTag /\ image' = image /\ made' = made
      /\ contains' = contains /\ assets' = assets
      /\ (exists' <=> exists) /\ (raced' <=> raced)
  BY DEF Notarized, Go, Stop
<1>2. ReleaseTypeOK /\ at[r] \in {"app", "dmg"} /\ going[r] /\ Nobody # r
  BY <1>1, RunAssumption DEF JobInv, HandedOver
<1>3. pc = "ok" => service = "Accepted"  BY DEF IInv, OkIsAccepted
<1>4. /\ \A q \in Run \ {r} : app'[q] <=> app[q]
      /\ app' \in [Run -> BOOLEAN]
      /\ at[r] = "app" /\ pc = "ok" => app'[r]
  <2>1. CASE at[r] = "app"
    <3>1. app' = [app EXCEPT ![r] = app[r] \/ service = "Accepted"]  BY <2>1 DEF Notarized
    <3>. QED BY <3>1, <1>2, <1>3 DEF ReleaseTypeOK
  <2>2. CASE at[r] # "app"
    <3>1. app' = app  BY <2>2 DEF Notarized
    <3>. QED BY <2>2, <3>1, <1>2 DEF ReleaseTypeOK
  <2>. QED BY <2>1, <2>2
<1>5. /\ accepted \subseteq accepted' /\ accepted' \subseteq 0..made
      /\ at[r] = "dmg" /\ pc = "ok" => image[r] \in accepted'
  <2>1. CASE at[r] = "app"
    <3>1. accepted' = accepted  BY <2>1 DEF Notarized
    <3>. QED BY <2>1, <3>1, <1>2 DEF ReleaseTypeOK
  <2>2. CASE at[r] = "dmg"
    <3>1. accepted' = accepted \cup {n \in {image[r]} : service = "Accepted"}
      BY <2>2 DEF Notarized
    <3>. QED BY <2>2, <3>1, <1>2, <1>3 DEF ReleaseTypeOK
  <2>. QED BY <1>2, <2>1, <2>2
<1>6. \E to \in Step, g \in BOOLEAN :
        /\ at' = [at EXCEPT ![r] = to] /\ going' = [going EXCEPT ![r] = g]
        /\ \/ pc = "ok" /\ to = (IF at[r] = "app" THEN "package" ELSE "upload")
           \/ to = at[r] /\ ~g
  <2>1. CASE pc = "ok"
    <3> DEFINE to == IF at[r] = "app" THEN "package" ELSE "upload"
    <3>1. at' = [at EXCEPT ![r] = to] /\ going' = going  BY <2>1 DEF Notarized, Go
    <3>2. going' = [going EXCEPT ![r] = TRUE]
      <4>1. going[r] = TRUE  BY <1>2 DEF ReleaseTypeOK
      <4>. QED BY <3>1, <4>1, <1>2 DEF ReleaseTypeOK
    <3>3. to \in Step  BY DEF Step
    <3>. QED BY <2>1, <3>1, <3>2, <3>3
  <2>2. CASE pc # "ok"
    <3>1. at' = at /\ going' = [going EXCEPT ![r] = FALSE]  BY <2>2 DEF Notarized, Stop
    <3>2. at' = [at EXCEPT ![r] = at[r]] /\ at[r] \in Step  BY <3>1, <1>2 DEF ReleaseTypeOK
    <3>. QED BY <3>1, <3>2
  <2>. QED BY <2>1, <2>2
<1>7. PICK to \in Step, g \in BOOLEAN :
        /\ at' = [at EXCEPT ![r] = to] /\ going' = [going EXCEPT ![r] = g]
        /\ \/ pc = "ok" /\ to = (IF at[r] = "app" THEN "package" ELSE "upload")
           \/ to = at[r] /\ ~g
  BY <1>6
<1>8. ReleaseTypeOK'
  <2>1. at' \in [Run -> Step] /\ going' \in [Run -> BOOLEAN]
    BY <1>2, <1>7 DEF ReleaseTypeOK
  <2>. QED BY <1>1, <1>2, <1>4, <1>5, <2>1 DEF ReleaseTypeOK
<1>9. HandedOver'
  <2>1. to \in {"app", "dmg", "package", "upload"}  BY <1>2, <1>7
  <2>2. to \in {"dmg", "upload"} => image[r] # 0 /\ contains[image[r]]
    BY <1>2, <1>7 DEF JobInv, HandedOver
  <2>3. to = "upload" => image[r] \in accepted'  BY <1>2, <1>5, <1>7
  <2>4. to = "package" => app'[r]  BY <1>2, <1>4, <1>7
  <2>. QED BY <1>1, <1>2, <1>4, <1>5, <1>7, <1>8, <2>1, <2>2, <2>3, <2>4, HandStep
<1>10. \A q \in Run : Putting(q)' => Putting(q)  BY <1>2, <1>7 DEF Putting, ReleaseTypeOK
<1>11. OneAtATime'  BY <1>1, <1>10 DEF JobInv, OneAtATime
<1>12. AssetsBelongTogether'  BY <1>1, <1>5, AssetsKept
<1>. QED BY <1>8, <1>9, <1>11, <1>12 DEF JobInv

LEMMA PackageStep ==
  ASSUME JobInv, NEW r \in Run, Package(r)
  PROVE  JobInv'
<1>1. /\ at[r] = "package" /\ client # r /\ made < MaxMade /\ made' = made + 1
      /\ image' = [image EXCEPT ![r] = made + 1]
      /\ contains' = [contains EXCEPT ![made + 1] = app[r]]
      /\ at' = [at EXCEPT ![r] = "dmg"]
      /\ going' = going /\ publish' = publish /\ onTag' = onTag /\ app' = app
      /\ accepted' = accepted /\ assets' = assets /\ client' = client
      /\ (exists' <=> exists) /\ (raced' <=> raced)
  BY DEF Package, At, Go
<1>2. ReleaseTypeOK /\ app[r] /\ going[r]
  BY <1>1 DEF JobInv, HandedOver, Package, At
<1>3. /\ made \in Nat /\ made + 1 \in 1..MaxMade /\ made + 1 # 0 /\ MaxMade \in Nat
      /\ \A n \in 0..made : n \in 0..made + 1 /\ n # made + 1
  BY <1>1, <1>2, RunAssumption DEF ReleaseTypeOK
<1>4. /\ \A n \in 1..made : contains'[n] <=> contains[n]
      /\ contains'[made + 1] /\ contains' \in [1..MaxMade -> BOOLEAN]
  <2>1. contains \in [1..MaxMade -> BOOLEAN] /\ app[r] \in BOOLEAN
    BY <1>2 DEF ReleaseTypeOK
  <2>2. \A n \in 1..made : n \in 1..MaxMade /\ n # made + 1  BY <1>1, <1>3
  <2>. QED BY <1>1, <1>2, <1>3, <2>1, <2>2
<1>5. ReleaseTypeOK'
  <2>1. /\ image' \in [Run -> 0..made'] /\ assets' \in [Asset -> 0..made']
        /\ accepted' \subseteq 0..made' /\ made' \in 0..MaxMade
    BY <1>1, <1>2, <1>3 DEF ReleaseTypeOK
  <2>2. at' \in [Run -> Step]  BY <1>1, <1>2 DEF ReleaseTypeOK, Step
  <2>. QED BY <1>1, <1>2, <1>4, <2>1, <2>2 DEF ReleaseTypeOK
<1>6. going' = [going EXCEPT ![r] = TRUE]
  <2>1. going[r] = TRUE  BY <1>2 DEF ReleaseTypeOK
  <2>. QED BY <1>1, <2>1, <1>2 DEF ReleaseTypeOK
<1>7. image'[r] = made + 1 /\ \A q \in Run \ {r} : image'[q] = image[q]
  BY <1>1, <1>2 DEF ReleaseTypeOK
<1>8. HandedOver'
  BY <1>1, <1>3, <1>4, <1>5, <1>6, <1>7, HandStep, ZenonT(60) DEF Step
<1>9. \A q \in Run : Putting(q)' => Putting(q) /\ q # r
  BY <1>1, <1>2 DEF Putting, ReleaseTypeOK
<1>10. OneAtATime'
  <2>1. \A a \in Asset : assets'[a] # 0 => exists'  BY <1>1 DEF JobInv, OneAtATime
  <2>2. ASSUME ~raced' PROVE \A p, q \in Run : Putting(p)' /\ Putting(q)' => p = q
    BY <1>1, <1>9, <2>2 DEF JobInv, OneAtATime
  <2>3. ASSUME ~raced'
        PROVE  \A q \in Run : Putting(q)' => \A a \in Asset : assets'[a] \in {0, image'[q]}
    BY <1>1, <1>7, <1>9, <2>3 DEF JobInv, OneAtATime
  <2>4. \A q \in Run : Putting(q)' => exists'  BY <1>1, <1>9 DEF JobInv, OneAtATime
  <2>. QED BY <2>1, <2>2, <2>3, <2>4 DEF OneAtATime
<1>11. AssetsBelongTogether'  BY <1>1, <1>4, AssetsKept
<1>. QED BY <1>5, <1>8, <1>10, <1>11 DEF JobInv

LEMMA UploadStep ==
  ASSUME JobInv, NEW r \in Run, Upload(r)
  PROVE  JobInv'
<1> DEFINE to == IF publish[r] /\ onTag[r] THEN "publish" ELSE "done"
<1>1. /\ at[r] = "upload" /\ client # r /\ going[r] /\ at' = [at EXCEPT ![r] = to]
      /\ going' = going /\ publish' = publish /\ onTag' = onTag /\ app' = app /\ image' = image
      /\ made' = made /\ contains' = contains /\ accepted' = accepted /\ assets' = assets
      /\ client' = client
      /\ (exists' <=> exists) /\ (raced' <=> raced)
  BY DEF Upload, At, Go, worldVars
<1>2. ReleaseTypeOK /\ to \in Step /\ (to = "publish" => publish[r] /\ onTag[r])
      /\ to \in {"publish", "done"}
  BY DEF JobInv, Step
<1>. HIDE DEF to
<1>3. going' = [going EXCEPT ![r] = TRUE]
  <2>1. going[r] = TRUE  BY <1>1, <1>2 DEF ReleaseTypeOK
  <2>. QED BY <1>1, <2>1, <1>2 DEF ReleaseTypeOK
<1>4. ReleaseTypeOK'
  <2>1. at' \in [Run -> Step]  BY <1>1, <1>2 DEF ReleaseTypeOK
  <2>. QED BY <1>1, <1>2, <2>1 DEF ReleaseTypeOK
<1>5. image[r] # 0 /\ contains[image[r]] /\ image[r] \in accepted
  BY <1>1 DEF JobInv, HandedOver
<1>6. HandedOver'
  BY <1>1, <1>2, <1>3, <1>4, <1>5, HandStep
<1>7. \A q \in Run : Putting(q)' => Putting(q)  BY <1>1, <1>2 DEF Putting, ReleaseTypeOK
<1>8. OneAtATime'  BY <1>1, <1>7 DEF JobInv, OneAtATime
<1>9. AssetsBelongTogether'  BY <1>1, AssetsKept
<1>. QED BY <1>4, <1>6, <1>8, <1>9 DEF JobInv

\* A run comes to putting its assets only if none is there.
LEMMA CreateStep ==
  ASSUME JobInv, NEW r \in Run, CreateRelease(r)
  PROVE  JobInv'
<1>1. /\ at[r] = "publish" /\ client # r /\ going[r] /\ exists'
      /\ publish' = publish /\ onTag' = onTag /\ app' = app /\ image' = image
      /\ made' = made /\ contains' = contains /\ accepted' = accepted /\ assets' = assets
      /\ client' = client
  BY DEF CreateRelease, At, Go, Stop
<1>2. raced' = (raced \/ (at'[r] = "put" /\ \E q \in Run \ {r} : at[q] = "put" /\ going[q]))
  BY DEF CreateRelease
<1>3. ReleaseTypeOK  BY DEF JobInv
<1>4. \/ at' = at /\ going' = [going EXCEPT ![r] = FALSE]
      \/ /\ at' = [at EXCEPT ![r] = "put"] /\ going' = going
         /\ \A a \in Asset : assets[a] = 0
  <2>1. CASE exists /\ \E a \in Asset : Taken(a)
    BY <2>1 DEF CreateRelease, Stop
  <2>2. CASE ~(exists /\ \E a \in Asset : Taken(a))
    <3>1. \A a \in Asset : assets[a] = 0
      BY <2>2 DEF Taken, JobInv, OneAtATime
    <3>. QED BY <2>2, <3>1 DEF CreateRelease, Go
  <2>. QED BY <2>1, <2>2
<1>5. \E to \in Step, g \in BOOLEAN :
        /\ at' = [at EXCEPT ![r] = to] /\ going' = [going EXCEPT ![r] = g]
        /\ to \in {"publish", "put"}
  <2>1. CASE at' = at /\ going' = [going EXCEPT ![r] = FALSE]
    <3>1. at' = [at EXCEPT ![r] = "publish"]  BY <2>1, <1>1, <1>3 DEF ReleaseTypeOK
    <3>. QED BY <2>1, <3>1 DEF Step
  <2>2. CASE at' = [at EXCEPT ![r] = "put"] /\ going' = going
    <3>1. going[r] = TRUE  BY <1>1, <1>3 DEF ReleaseTypeOK
    <3>2. going' = [going EXCEPT ![r] = TRUE]  BY <2>2, <3>1, <1>3 DEF ReleaseTypeOK
    <3>. QED BY <2>2, <3>2 DEF Step
  <2>. QED BY <1>4, <2>1, <2>2
<1>6. PICK to \in Step, g \in BOOLEAN :
        /\ at' = [at EXCEPT ![r] = to] /\ going' = [going EXCEPT ![r] = g]
        /\ to \in {"publish", "put"}
  BY <1>5
<1>7. ReleaseTypeOK'
  <2>1. at' \in [Run -> Step] /\ going' \in [Run -> BOOLEAN]
    BY <1>3, <1>6 DEF ReleaseTypeOK
  <2>. QED BY <1>1, <1>3, <2>1 DEF ReleaseTypeOK
<1>8. HandedOver'
  <2>1. /\ image[r] # 0 /\ contains[image[r]] /\ image[r] \in accepted
        /\ publish[r] /\ onTag[r]
    BY <1>1 DEF JobInv, HandedOver
  <2>. QED BY <1>1, <1>6, <1>7, <2>1, HandStep
<1>9. \A q \in Run \ {r} : Putting(q)' <=> Putting(q)
  BY <1>3, <1>6 DEF Putting, ReleaseTypeOK
<1>10. ASSUME Putting(r)'
       PROVE  /\ \A a \in Asset : assets[a] = 0
              /\ ~raced' => \A q \in Run \ {r} : ~Putting(q)
  <2>1. at'[r] = "put"  BY <1>10 DEF Putting
  <2>2. \A a \in Asset : assets[a] = 0  BY <1>1, <1>4, <2>1
  <2>3. ~raced' => \A q \in Run \ {r} : ~Putting(q)  BY <1>2, <2>1 DEF Putting
  <2>. QED BY <2>2, <2>3
<1>11. raced => raced'  BY <1>2
<1>12. OneAtATime'
  <2>1. ASSUME ~raced', NEW p \in Run, NEW q \in Run, Putting(p)', Putting(q)' PROVE p = q
    <3>1. CASE p = r \/ q = r  BY <2>1, <3>1, <1>9, <1>10
    <3>2. CASE p # r /\ q # r
      <4>1. Putting(p) /\ Putting(q) /\ ~raced  BY <2>1, <3>2, <1>9, <1>11
      <4>. QED BY <4>1 DEF JobInv, OneAtATime
    <3>. QED BY <3>1, <3>2
  <2>2. ASSUME ~raced', NEW q \in Run, Putting(q)', NEW a \in Asset
        PROVE  assets'[a] \in {0, image'[q]}
    <3>1. CASE q = r  BY <2>2, <3>1, <1>1, <1>10
    <3>2. CASE q # r
      <4>1. Putting(q) /\ ~raced  BY <2>2, <3>2, <1>9, <1>11
      <4>. QED BY <4>1, <1>1 DEF JobInv, OneAtATime
    <3>. QED BY <3>1, <3>2
  <2>. QED BY <1>1, <2>1, <2>2 DEF OneAtATime
<1>13. AssetsBelongTogether'  BY <1>1, <1>11, AssetsKept
<1>. QED BY <1>7, <1>8, <1>12, <1>13 DEF JobInv

\* An asset arrives beside the other one of the same run, or finds its place
\* taken.
LEMMA PutStep ==
  ASSUME JobInv, NEW r \in Run, NEW a \in Asset, PutAsset(r, a)
  PROVE  JobInv'
<1>1. /\ at[r] = "put" /\ client # r /\ going[r]
      /\ publish' = publish /\ onTag' = onTag /\ app' = app /\ image' = image
      /\ made' = made /\ contains' = contains /\ accepted' = accepted
      /\ client' = client
      /\ (exists' <=> exists) /\ (raced' <=> raced)
  BY DEF PutAsset, At, Go, Stop
<1>2. ReleaseTypeOK  BY DEF JobInv
<1>3. /\ image[r] # 0 /\ contains[image[r]] /\ image[r] \in accepted
      /\ publish[r] /\ onTag[r]
  BY <1>1 DEF JobInv, HandedOver
<1>4. CASE Taken(a)
  <2>1. at' = at /\ going' = [going EXCEPT ![r] = FALSE] /\ assets' = assets
    BY <1>4 DEF PutAsset, Stop
  <2>2. at' = [at EXCEPT ![r] = "put"]  BY <1>1, <1>2, <2>1 DEF ReleaseTypeOK
  <2>3. exists' = exists /\ raced' = raced  BY Zenon DEF PutAsset
  <2>4. "put" \in Step /\ FALSE \in BOOLEAN  BY DEF Step
  <2>. QED BY <1>1, <2>1, <2>2, <2>3, <2>4, MoveStep
<1>5. CASE ~Taken(a)
  <2>1. /\ assets[a] = 0 /\ assets' = [assets EXCEPT ![a] = image[r]] /\ going' = going
        /\ \/ at' = [at EXCEPT ![r] = "done"]
           \/ at' = [at EXCEPT ![r] = "put"]
    BY <1>5 DEF PutAsset, Taken, Go
  <2>2. PICK to \in {"put", "done"} : at' = [at EXCEPT ![r] = to]  BY <2>1
  <2>3. going' = [going EXCEPT ![r] = TRUE]
    <3>1. going[r] = TRUE  BY <1>1, <1>2 DEF ReleaseTypeOK
    <3>. QED BY <2>1, <3>1, <1>2 DEF ReleaseTypeOK
  <2>4. assets' \in [Asset -> 0..made] /\ assets'[a] = image[r]
        /\ \A b \in Asset \ {a} : assets'[b] = assets[b]
    BY <2>1, <1>2 DEF ReleaseTypeOK
  <2>5. ReleaseTypeOK'
    <3>1. at' \in [Run -> Step]  BY <2>2, <1>2 DEF ReleaseTypeOK, Step
    <3>. QED BY <1>1, <1>2, <2>1, <2>4, <3>1 DEF ReleaseTypeOK
  <2>6. HandedOver'
    <3>1. to \in Step  BY DEF Step
    <3>. QED BY <1>1, <1>3, <2>2, <2>3, <2>5, <3>1, HandStep
  <2>7. Putting(r) /\ \A q \in Run : Putting(q)' => Putting(q)
    BY <1>1, <1>2, <2>1, <2>2 DEF Putting, ReleaseTypeOK
  <2>8. exists
    BY <2>7 DEF JobInv, OneAtATime
  <2>9. ASSUME ~raced
        PROVE  /\ \A q \in Run : Putting(q) => q = r
               /\ \A b \in Asset : assets'[b] \in {0, image[r]}
    BY <2>4, <2>7, <2>9 DEF JobInv, OneAtATime
  <2>10. OneAtATime'
    <3>1. ASSUME ~raced', NEW p \in Run, NEW q \in Run, Putting(p)', Putting(q)' PROVE p = q
      BY <3>1, <1>1, <2>7, <2>9
    <3>2. ASSUME ~raced', NEW q \in Run, Putting(q)', NEW b \in Asset
          PROVE  assets'[b] \in {0, image'[q]}
      BY <3>2, <1>1, <2>7, <2>9
    <3>. QED BY <1>1, <2>8, <3>1, <3>2 DEF OneAtATime
  <2>11. AssetsBelongTogether'
    <3>1. ASSUME NEW b \in Asset, assets'[b] # 0
          PROVE  /\ assets'[b] \in accepted /\ contains[assets'[b]]
                 /\ \E q \in Run : publish[q] /\ onTag[q]
      <4>1. CASE b = a  BY <4>1, <2>4, <1>3
      <4>2. CASE b # a  BY <4>2, <3>1, <2>4 DEF JobInv, AssetsBelongTogether
      <4>. QED BY <4>1, <4>2
    <3>2. ASSUME 0 \notin {assets'[b] : b \in Asset}, ~raced
          PROVE  assets'["dmg"] = assets'["sha256"]
      <4>1. "dmg" \in Asset /\ "sha256" \in Asset  BY DEF Asset
      <4>. QED BY <3>2, <4>1, <2>9
    <3>. QED BY <1>1, <3>1, <3>2 DEF AssetsBelongTogether
  <2>. QED BY <2>5, <2>6, <2>10, <2>11 DEF JobInv
<1>. QED BY <1>4, <1>5

\* A notarization begins, a step fails, something is run again.
LEMMA OtherStep ==
  ASSUME JobInv, NEW r \in Run, Notarizing(r) \/ Fail(r) \/ Rerun(r)
  PROVE  JobInv'
<1>1. ReleaseTypeOK /\ HandedOver  BY DEF JobInv
<1>2. UNCHANGED <<publish, onTag, app, image, made, contains, accepted, assets, exists, raced>>
  <2>1. publish' = publish /\ onTag' = onTag /\ app' = app /\ image' = image /\ made' = made
        /\ contains' = contains /\ accepted' = accepted /\ assets' = assets
    BY DEF Notarizing, Fail, Rerun, Stop, jobVars, worldVars
  <2>2. exists' = exists /\ raced' = raced
    BY Zenon DEF Notarizing, Fail, Rerun, jobVars, worldVars
  <2>. QED BY <2>1, <2>2
<1>3. CASE Notarizing(r)
  <2>1. /\ at[r] \in {"app", "dmg"} /\ going[r] /\ client = Nobody /\ client' = r
        /\ at' = at /\ going' = going
    BY <1>3 DEF Notarizing, At, jobVars
  <2>2. at' = [at EXCEPT ![r] = at[r]] /\ at[r] \in Step
    BY <1>1, <2>1 DEF ReleaseTypeOK
  <2>3. going' = [going EXCEPT ![r] = TRUE]
    <3>1. going[r] = TRUE  BY <1>1, <2>1 DEF ReleaseTypeOK
    <3>. QED BY <2>1, <3>1, <1>1 DEF ReleaseTypeOK
  <2>. QED BY <1>2, <2>1, <2>2, <2>3, MoveStep
<1>4. CASE Fail(r)
  <2>1. /\ at[r] # "done" /\ at' = at /\ going' = [going EXCEPT ![r] = FALSE]
        /\ \/ client' = client /\ client # r
           \/ client' = Nobody
    BY <1>4 DEF Fail, Stop
  <2>2. at' = [at EXCEPT ![r] = at[r]] /\ at[r] \in Step
    BY <1>1, <2>1 DEF ReleaseTypeOK
  <2>. QED BY <1>2, <2>1, <2>2, MoveStep
<1>5. CASE Rerun(r)
  <2>1. PICK to \in {"build"} \cup IF going[r] THEN {} ELSE {JobStart(at[r])} :
          at' = [at EXCEPT ![r] = to]
    BY <1>5 DEF Rerun
  <2>2. /\ ~going[r] \/ at[r] = "done"
        /\ going' = [going EXCEPT ![r] = TRUE] /\ client' = client
    BY <1>5 DEF Rerun
  <2>3. at[r] = "done" => going[r]  BY <1>1 DEF HandedOver
  <2>4. client # r  BY <1>1, <2>2 DEF HandedOver
  <2>5. \/ to \in {"build", "app"}
        \/ to = "publish" /\ at[r] \in {"publish", "put"}
    <3>1. CASE to = "build"  BY <3>1
    <3>2. CASE to = JobStart(at[r]) /\ ~going[r]
      <4>1. at[r] \in Step \ {"done"}  BY <1>1, <2>3, <3>2 DEF ReleaseTypeOK
      <4>. QED BY <3>2, <4>1 DEF JobStart, Step
    <3>. QED BY <2>1, <3>1, <3>2
  <2>6. to \in Step /\ to # "put" /\ to # "done"  BY <2>5 DEF Step
  <2>. QED BY <1>2, <2>1, <2>2, <2>4, <2>5, <2>6, MoveStep
<1>. QED BY <1>3, <1>4, <1>5

LEMMA JobStep == IInv /\ JobInv /\ [ReleaseNext]_releaseVars => JobInv'
<1>. SUFFICES ASSUME IInv, JobInv, [ReleaseNext]_releaseVars PROVE JobInv'
  OBVIOUS
<1>1. CASE RunNotarize \/ UNCHANGED releaseVars
  <2>1. /\ publish' = publish /\ onTag' = onTag /\ at' = at /\ going' = going /\ app' = app
        /\ image' = image /\ made' = made /\ contains' = contains /\ accepted' = accepted
        /\ assets' = assets /\ client' = client
        /\ (exists' <=> exists) /\ (raced' <=> raced)
    BY <1>1 DEF RunNotarize, releaseVars, jobVars, worldVars
  <2>2. ReleaseTypeOK' /\ HandedOver'
    BY <2>1 DEF JobInv, ReleaseTypeOK, HandedOver
  <2>3. OneAtATime' /\ AssetsBelongTogether'
    BY <2>1 DEF JobInv, OneAtATime, AssetsBelongTogether, Putting
  <2>. QED BY <2>2, <2>3 DEF JobInv
<1>2. ASSUME NEW r \in Run,
             \/ BuildJob(r) \/ Notarizing(r) \/ Notarized(r) \/ Package(r) \/ Upload(r)
             \/ CreateRelease(r) \/ (\E a \in Asset : PutAsset(r, a)) \/ Fail(r) \/ Rerun(r)
      PROVE  JobInv'
  BY <1>2, BuildStep, NotarizedStep, PackageStep, UploadStep, CreateStep, PutStep, OtherStep
<1>. QED BY <1>1, <1>2 DEF ReleaseNext

THEOREM ReleaseInvariance == ReleaseSpec => [](IInv /\ JobInv)
<1>1. ReleaseInit => IInv /\ JobInv
  BY InitEstablishes, InitJobs DEF ReleaseInit
<1>. QED BY <1>1, ScriptInv, JobStep, PTL DEF ReleaseSpec

\* What is published was accepted, app and image, and belongs together, for any
\* number of workflow runs, failures and repetitions.
THEOREM PublishedIsAccepted == ReleaseSpec => []AssetsBelongTogether
<1>1. JobInv => AssetsBelongTogether  BY DEF JobInv
<1>. QED BY <1>1, ReleaseInvariance, PTL

\* What is proved of notarize.sh holds of it when release.yml calls it.
THEOREM ScriptKeepsItsWord == ReleaseSpec => [](OkIsAccepted /\ DecisionIsHeard /\ InTime)
<1>1. IInv => OkIsAccepted /\ DecisionIsHeard /\ InTime  BY DEF IInv
<1>. QED BY <1>1, ReleaseInvariance, PTL

=============================================================================
