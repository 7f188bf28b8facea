-------------------------- MODULE PodAnalysisProofs --------------------------
(***************************************************************************)
(* Theorems about PodAnalysis for every set of Pods, names, owners,        *)
(* volatile objects and failures.                                          *)
(***************************************************************************)
EXTENDS PodAnalysis, Engine, Events, FindingsProofs

-----------------------------------------------------------------------------
(* Facts about the helpers *)

\* What existence makes of an answer: only a NotFound is an absence.
LEMMA ExistenceFacts ==
  ASSUME NEW answer
  PROVE  /\ existence(answer) \in {"found", "missing", "unknown"}
         /\ existence(answer) = "missing" => answer = "NotFound"
         /\ existence(answer) = "unknown" => answer # "NotFound" /\ answer # "ok"
BY DEF existence

\* Answers are among the known ones, and a NotFound means the object is not there.
LEMMA AnswersFacts ==
  ASSUME TypeOK, NEW o \in Objects
  PROVE  /\ Answers(o) \subseteq Reasons \cup {"ok"}
         /\ "NotFound" \in Answers(o) => o \notin present
         /\ ListAnswers \subseteq (Reasons \ {"NotFound"}) \cup {"ok"}
BY AnalysisAssumption DEF Answers, ListAnswers, Reasons, TypeOK

\* An answer that is neither ok nor, for an existence, NotFound leaves a degradation.
LEMMA DegradeFacts ==
  ASSUME NEW resource \in Resources, NEW answer \in Reasons \cup {"ok"}
  PROVE  /\ degrade(resource, answer) \subseteq Degradation
         /\ existenceDegradation(resource, answer) \subseteq Degradation
         /\ answer # "ok" => degrade(resource, answer) # {}
         /\ existence(answer) = "unknown" => existenceDegradation(resource, answer) # {}
<1>1. /\ degrade(resource, answer) \subseteq Degradation
      /\ answer # "ok" => degrade(resource, answer) # {}
  <2>1. CASE answer = "ok"
    BY <2>1 DEF degrade
  <2>2. CASE answer # "ok"
    <3>1. degrade(resource, answer) = {[resource |-> resource, reason |-> answer]}
      BY <2>2 DEF degrade
    <3>2. [resource |-> resource, reason |-> answer] \in Degradation
      BY <2>2 DEF Degradation
    <3> QED BY <3>1, <3>2
  <2> QED BY <2>1, <2>2
<1>2. existence(answer) = "unknown" => answer # "NotFound" /\ answer # "ok"
  BY ExistenceFacts
<1> QED BY <1>1, <1>2 DEF existenceDegradation

\* The exit codes reportError gives to the classes of errors.
LEMMA ReportErrorFacts ==
  ASSUME NEW answer
  PROVE  /\ reportError(answer) \in {2, 3, 4}
         /\ reportError(answer) = 3 => answer = "NotFound"
BY DEF reportError

\* What the rules are given is a snapshot.
LEMMA SnapType ==
  ASSUME TypeOK
  PROVE  snap \in Snapshot
<1>1. scenario \in Scenario
  BY AnalysisAssumption DEF TypeOK
<1>2. scenario.pod \in Pod /\ events \in SUBSET Event
  BY <1>1 DEF TypeOK, Scenario
<1> QED BY <1>2 DEF TypeOK, snap, Snapshot

-----------------------------------------------------------------------------
(* Type correctness *)

\* A run starts well formed.
LEMMA InitType == Init => TypeOK
<1> SUFFICES ASSUME Init PROVE TypeOK
  OBVIOUS
<1>1. scenario \in Scenario
  BY AnalysisAssumption DEF Init
<1>2. present \subseteq Objects /\ everAbsent \subseteq Objects
  BY <1>1 DEF Init, Scenario
<1>3. pvcs \in [ClaimNames -> ClaimRef]
  BY DEF Init, UnreadClaim, ClaimRef, Existences, ClaimPhases
<1>4. chain \in Seq(Owners) /\ Len(chain) <= MaxOwnerDepth
  BY AnalysisAssumption DEF Init
<1>5. next \in 1..(Len(RuleNames) + 1)
  BY ElevenRules DEF Init
<1> QED BY <1>1, <1>2, <1>3, <1>4, <1>5 DEF Init, TypeOK, Existences, Statuses, NoClaim

\* Every step keeps the state well formed.
LEMMA NextType == TypeOK /\ [Next]_vars => TypeOK'
<1> SUFFICES ASSUME TypeOK, [Next]_vars PROVE TypeOK'
  OBVIOUS
<1> USE DEF world, walk, snapshot, verdict
<1>s. scenario \in Scenario
  BY AnalysisAssumption DEF TypeOK
<1>1. CASE RejectArguments
  BY <1>1 DEF RejectArguments, TypeOK
<1>2. CASE Start
  BY <1>2 DEF Start, TypeOK
<1>3. CASE GetPod
  <2>1. scenario.owner \in Owners \cup {NoOwner}
    BY <1>s DEF Scenario
  <2>2. owner' \in Owners \cup {NoOwner} /\ exit' \in {-1, 0, 1, 2, 3, 4}
    BY <1>3, <2>1, ReportErrorFacts DEF GetPod, TypeOK
  <2> QED BY <1>3, <2>2 DEF GetPod, TypeOK
<1>4. CASE eventsFor
  <2>1. ListAnswers \subseteq Reasons \cup {"ok"}
    BY AnalysisAssumption DEF ListAnswers, Reasons, TypeOK
  <2>2. evs' \subseteq scenario.events /\ evErr' \in {"none"} \cup Reasons
    BY <1>4, <2>1 DEF eventsFor, TypeOK
  <2> QED BY <1>4, <2>2 DEF eventsFor, TypeOK
<1>5. CASE ownerChain
  <2>1. CASE WalkEnds
    BY <1>5, <2>1 DEF ownerChain, TypeOK
  <2>2. CASE ~WalkEnds
    <3>1. owner \in Owners /\ Len(chain) < MaxOwnerDepth
      BY <2>2, AnalysisAssumption DEF WalkEnds, TypeOK
    <3>2. chain' \in Seq(Owners) /\ Len(chain') <= MaxOwnerDepth
      <4>1. chain' = Append(chain, owner)
        BY <1>5, <2>2 DEF ownerChain
      <4>2. chain \in Seq(Owners) /\ Len(chain) \in Nat /\ MaxOwnerDepth \in Nat
        BY AnalysisAssumption DEF TypeOK
      <4>3. Append(chain, owner) \in Seq(Owners) /\ Len(Append(chain, owner)) = Len(chain) + 1
        BY <3>1, <4>2
      <4> QED BY <3>1, <4>1, <4>2, <4>3
    <3>3. <<"owner", owner>> \in Objects
      BY <3>1 DEF Objects
    <3>4. /\ owner' \in Owners \cup {NoOwner} /\ calls' \in Nat
          /\ ownPc' \in {"idle", "running", "done"}
      BY <1>5, <2>2, <3>1, AnalysisAssumption DEF ownerChain, TypeOK
    <3>5. ownColl' \subseteq Degradation
      <4>1. \A answer \in Answers(<<"owner", owner>>) :
              degrade(kindResource(OwnerKind[owner]), answer) \subseteq Degradation
        BY <3>3, AnswersFacts, DegradeFacts DEF kindResource, Resources
      <4> QED BY <1>5, <2>2, <4>1 DEF ownerChain, TypeOK
    <3> QED BY <1>5, <3>2, <3>4, <3>5 DEF ownerChain, TypeOK
  <2> QED BY <2>1, <2>2
<1>6. CASE Join
  <2>1. degradations' \subseteq Degradation
    BY <1>6, DegradeFacts DEF Join, eventsDegradation, TypeOK, Resources
  <2> QED BY <1>6, <2>1 DEF Join, TypeOK
<1>7. CASE collectPodNode
  <2>1. CASE needsNode(scenario.pod)
    <3>1. PICK answer \in Answers(<<"node", "its">>) :
            /\ degradations' = degradations \cup degrade("nodes", answer)
            /\ node' = IF answer = "ok" THEN scenario.node ELSE node
      BY <1>7, <2>1 DEF collectPodNode
    <3>2. degrade("nodes", answer) \subseteq Degradation
      BY <3>1, AnswersFacts, DegradeFacts DEF Objects, Resources
    <3>3. node' \in {"nil", "ready", "notReady"}
      BY <1>s, <3>1 DEF TypeOK, Scenario
    <3> QED BY <1>7, <2>1, <3>1, <3>2, <3>3 DEF collectPodNode, TypeOK
  <2>2. CASE ~needsNode(scenario.pod)
    BY <1>7, <2>2 DEF collectPodNode, TypeOK
  <2> QED BY <2>1, <2>2
<1>8. CASE ReadConfigMap
  <2>1. PICK n \in configMapsToRead, answer \in Reasons \cup {"ok"} :
          /\ configMaps' = [configMaps EXCEPT ![n] = existence(answer)]
          /\ degradations' = degradations \cup existenceDegradation("configmaps", answer)
    BY <1>8 DEF ReadConfigMap
  <2>2. existenceDegradation("configmaps", answer) \subseteq Degradation
    BY DegradeFacts DEF Resources
  <2>3. configMaps' \in [ConfigMapNames -> Existences]
    BY <2>1, ExistenceFacts DEF TypeOK, Existences
  <2> QED BY <1>8, <2>1, <2>2, <2>3 DEF ReadConfigMap, TypeOK
<1>9. CASE ReadSecret
  <2>1. PICK n \in secretsToRead, answer \in Reasons \cup {"ok"} :
          /\ secrets' = [secrets EXCEPT ![n] = existence(answer)]
          /\ degradations' = degradations \cup existenceDegradation("secrets", answer)
    BY <1>9 DEF ReadSecret
  <2>2. existenceDegradation("secrets", answer) \subseteq Degradation
    BY DegradeFacts DEF Resources
  <2>3. secrets' \in [SecretNames -> Existences]
    BY <2>1, ExistenceFacts DEF TypeOK, Existences
  <2> QED BY <1>9, <2>1, <2>2, <2>3 DEF ReadSecret, TypeOK
<1>10. CASE ConfigRefsRead
  BY <1>10 DEF ConfigRefsRead, TypeOK
<1>11. CASE ReadClaim
  <2>1. PICK n \in claimsToRead, answer \in Reasons \cup {"ok"} :
          /\ pvcs' = [pvcs EXCEPT ![n] =
                     [exists |-> existence(answer), waits |-> FALSE,
                      phase |-> IF answer = "ok" THEN scenario.claims[n].phase ELSE "none"]]
          /\ degradations' = degradations
                               \cup existenceDegradation("persistentvolumeclaims", answer)
          /\ IF answer = "ok" /\ scenario.claims[n].phase # "Bound"
               THEN pc' = "class" /\ claim' = n
               ELSE UNCHANGED <<pc, claim>>
    BY <1>11 DEF ReadClaim
  <2>2. n \in ClaimNames
    BY <1>s DEF claimsToRead, Scenario, Pod
  <2>3. existenceDegradation("persistentvolumeclaims", answer) \subseteq Degradation
    BY DegradeFacts DEF Resources
  <2>4. scenario.claims[n].phase \in ClaimPhases
    BY <1>s, <2>2 DEF Scenario, ClaimTruth
  <2>5. pvcs' \in [ClaimNames -> ClaimRef]
    BY <2>1, <2>4, ExistenceFacts DEF TypeOK, Existences, ClaimRef, ClaimPhases
  <2>6. claim' \in ClaimNames \cup {NoClaim} /\ pc' \in {"claims", "class"}
    BY <1>11, <2>1, <2>2 DEF ReadClaim, TypeOK
  <2> QED BY <1>11, <2>1, <2>3, <2>5, <2>6 DEF ReadClaim, TypeOK
<1>12. CASE storageClassInfo
  <2>1. PICK answer \in Reasons \cup {"ok"}, waits \in BOOLEAN :
          /\ degradations' = degradations \cup existenceDegradation("storageclasses", answer)
          /\ pvcs' = [pvcs EXCEPT ![claim].waits = waits]
    BY <1>12 DEF storageClassInfo
  <2>2. existenceDegradation("storageclasses", answer) \subseteq Degradation
    BY DegradeFacts DEF Resources
  <2>3. pvcs' \in [ClaimNames -> ClaimRef]
    BY <2>1 DEF TypeOK, ClaimRef
  <2> QED BY <1>12, <2>1, <2>2, <2>3 DEF storageClassInfo, TypeOK
<1>13. CASE ClaimsRead
  BY <1>13 DEF ClaimsRead, TypeOK
<1>14. CASE RunRule
  <2>1. PICK F \in Outcomes(next, snap) : found' = found \cup F
    BY <1>14 DEF RunRule
  <2>2. F \subseteq Finding
    BY <1>14, SnapType, RulesGrounded DEF RunRule, Rules, Grounded
  <2>3. next' \in 1..(Len(RuleNames) + 1)
    BY <1>14, ElevenRules DEF RunRule, Rules
  <2> QED BY <1>14, <2>1, <2>2, <2>3 DEF RunRule, TypeOK
<1>15. CASE PodReport
  <2>1. Fallback(snap) \subseteq Finding
    BY FallbackGrounded DEF Grounded
  <2>2. status' \in Statuses
    BY <1>15 DEF PodReport, DeriveStatus, Statuses
  <2> QED BY <1>15, <2>1, <2>2 DEF PodReport, TypeOK
<1>16. CASE Render
  BY <1>16 DEF Render, TypeOK
<1>17. CASE Expire
  BY <1>17 DEF Expire, TypeOK
<1>18. CASE Drift
  BY <1>18, AnalysisAssumption DEF Drift, TypeOK
<1>19. CASE UNCHANGED vars
  BY <1>19 DEF vars, TypeOK
<1> QED
  BY <1>1, <1>2, <1>3, <1>4, <1>5, <1>6, <1>7, <1>8, <1>9, <1>10, <1>11, <1>12, <1>13,
     <1>14, <1>15, <1>16, <1>17, <1>18, <1>19
  DEF Next, Step, Terminated

\* Every state of a run is well formed, whatever the cluster answers; in particular
\* the walk up the owners stops at maxOwnerDepth even if their references form a
\* cycle.
THEOREM TypeCorrect == Spec => []TypeOK
BY InitType, NextType, PTL DEF Spec

-----------------------------------------------------------------------------
(* A read that was denied is never told as an absence *)

\* Every "missing" in the snapshot was absent at some time, because what does not
\* exist now is on record.
AbsenceOnRecord ==
  /\ Objects \ present \subseteq everAbsent
  /\ \A n \in ConfigMapNames : configMaps[n] = "missing" => <<"configmap", n>> \in everAbsent
  /\ \A n \in SecretNames : secrets[n] = "missing" => <<"secret", n>> \in everAbsent
  /\ \A n \in ClaimNames : pvcs[n].exists = "missing" => <<"claim", n>> \in everAbsent

AbsenceInv == AbsenceOnRecord /\ NoFalseAbsence

\* A finding whose absence claim, if it makes one, is on record.
Backed(f) == f.id \in DOMAIN Absence => <<Absence[f.id], f.about>> \in everAbsent

\* A finding grounded in the snapshot is backed by an absence on record.
LEMMA GroundedBacked ==
  ASSUME AbsenceOnRecord, NEW f, Grounded(f, snap)
  PROVE  Backed(f)
<1>1. f.id \in DOMAIN Absence =>
        f.id \in {"POD_MISSING_CONFIGMAP", "POD_MISSING_SECRET", "POD_PVC_NOT_FOUND"}
  BY DEF Absence
<1>2. CASE f.id = "POD_MISSING_CONFIGMAP"
  BY <1>2 DEF Backed, Absence, Grounded, AbsenceOnRecord, snap
<1>3. CASE f.id = "POD_MISSING_SECRET"
  BY <1>3 DEF Backed, Absence, Grounded, AbsenceOnRecord, snap
<1>4. CASE f.id = "POD_PVC_NOT_FOUND"
  BY <1>4 DEF Backed, Absence, Grounded, AbsenceOnRecord, snap
<1> QED BY <1>1, <1>2, <1>3, <1>4 DEF Backed

\* Nothing is told missing before anything is read.
LEMMA InitAbsence == Init => AbsenceInv
<1> SUFFICES ASSUME Init PROVE AbsenceInv
  OBVIOUS
<1>1. scenario.absent \subseteq Objects
  BY AnalysisAssumption DEF Init, Scenario
<1> QED BY <1>1 DEF Init, AbsenceInv, AbsenceOnRecord, NoFalseAbsence, UnreadClaim

\* No step puts an absence into the snapshot or the report that is not on record.
LEMMA NextAbsence == TypeOK /\ AbsenceInv /\ [Next]_vars => AbsenceInv'
<1> SUFFICES ASSUME TypeOK, AbsenceInv, [Next]_vars PROVE AbsenceInv'
  OBVIOUS
<1> USE DEF world, walk, snapshot, verdict
<1>s. scenario \in Scenario
  BY AnalysisAssumption DEF TypeOK
\* Most steps leave the record, the reads, the findings and the exit code alone.
<1>a. CASE UNCHANGED <<present, everAbsent, configMaps, secrets, pvcs, found, exit>>
  BY <1>a DEF AbsenceInv, AbsenceOnRecord, NoFalseAbsence
<1>1. CASE RejectArguments
  BY <1>1 DEF RejectArguments, AbsenceInv, AbsenceOnRecord, NoFalseAbsence
<1>2. CASE GetPod
  <2>1. CASE exit' = 3
    <3>1. PICK answer \in Answers(<<"pod", "it">>) : answer # "ok" => exit' = reportError(answer)
      BY <1>2 DEF GetPod
    <3>2. exit # 3 => "NotFound" \in Answers(<<"pod", "it">>)
      BY <1>2, <2>1, ReportErrorFacts DEF GetPod
    <3>3. exit # 3 => <<"pod", "it">> \in everAbsent
      BY <3>2, AnswersFacts DEF Objects, AbsenceInv, AbsenceOnRecord
    <3>4. <<"pod", "it">> \in everAbsent
      BY <3>3 DEF AbsenceInv, NoFalseAbsence
    <3> QED BY <1>2, <3>4 DEF GetPod, AbsenceInv, AbsenceOnRecord, NoFalseAbsence
  <2>2. CASE exit' # 3
    BY <1>2, <2>2 DEF GetPod, AbsenceInv, AbsenceOnRecord, NoFalseAbsence
  <2> QED BY <2>1, <2>2
<1>3. CASE ReadConfigMap
  <2>1. PICK n \in configMapsToRead, answer \in Reasons \cup {"ok"} :
          /\ answer \in Answers(<<"configmap", n>>)
          /\ configMaps' = [configMaps EXCEPT ![n] = existence(answer)]
    BY <1>3 DEF ReadConfigMap
  <2>2. n \in ConfigMapNames /\ <<"configmap", n>> \in Objects
    BY <1>s DEF configMapsToRead, Scenario, Pod, Objects
  <2>3. existence(answer) = "missing" => <<"configmap", n>> \in everAbsent
    BY <2>1, <2>2, ExistenceFacts, AnswersFacts DEF AbsenceInv, AbsenceOnRecord
  <2>4. \A m \in ConfigMapNames : configMaps'[m] = "missing" => <<"configmap", m>> \in everAbsent
    BY <2>1, <2>2, <2>3 DEF TypeOK, AbsenceInv, AbsenceOnRecord
  <2> QED BY <1>3, <2>4 DEF ReadConfigMap, AbsenceInv, AbsenceOnRecord, NoFalseAbsence
<1>4. CASE ReadSecret
  <2>1. PICK n \in secretsToRead, answer \in Reasons \cup {"ok"} :
          /\ answer \in Answers(<<"secret", n>>)
          /\ secrets' = [secrets EXCEPT ![n] = existence(answer)]
    BY <1>4 DEF ReadSecret
  <2>2. n \in SecretNames /\ <<"secret", n>> \in Objects
    BY <1>s DEF secretsToRead, Scenario, Pod, Objects
  <2>3. existence(answer) = "missing" => <<"secret", n>> \in everAbsent
    BY <2>1, <2>2, ExistenceFacts, AnswersFacts DEF AbsenceInv, AbsenceOnRecord
  <2>4. \A m \in SecretNames : secrets'[m] = "missing" => <<"secret", m>> \in everAbsent
    BY <2>1, <2>2, <2>3 DEF TypeOK, AbsenceInv, AbsenceOnRecord
  <2> QED BY <1>4, <2>4 DEF ReadSecret, AbsenceInv, AbsenceOnRecord, NoFalseAbsence
<1>5. CASE ReadClaim
  <2>1. PICK n, answer, phase :
          /\ n \in claimsToRead /\ answer \in Reasons \cup {"ok"}
          /\ answer \in Answers(<<"claim", n>>)
          /\ pvcs' = [pvcs EXCEPT ![n] =
                        [exists |-> existence(answer), waits |-> FALSE, phase |-> phase]]
    BY <1>5 DEF ReadClaim
  <2>2. n \in ClaimNames /\ <<"claim", n>> \in Objects
    BY <1>s, <2>1 DEF claimsToRead, Scenario, Pod, Objects
  <2>3. existence(answer) = "missing" => <<"claim", n>> \in everAbsent
    BY <2>1, <2>2, ExistenceFacts, AnswersFacts DEF AbsenceInv, AbsenceOnRecord
  <2>4. \A m \in ClaimNames : pvcs'[m].exists = "missing" => <<"claim", m>> \in everAbsent
    BY <2>1, <2>2, <2>3 DEF TypeOK, AbsenceInv, AbsenceOnRecord
  <2> QED BY <1>5, <2>4 DEF ReadClaim, AbsenceInv, AbsenceOnRecord, NoFalseAbsence
<1>6. CASE storageClassInfo
  <2>1. PICK waits : pvcs' = [pvcs EXCEPT ![claim].waits = waits]
    BY <1>6 DEF storageClassInfo
  <2>2. \A m \in ClaimNames : pvcs'[m].exists = pvcs[m].exists
    BY <2>1 DEF TypeOK, ClaimRef
  <2> QED BY <1>6, <2>2 DEF storageClassInfo, AbsenceInv, AbsenceOnRecord, NoFalseAbsence
<1>7. CASE RunRule
  <2>1. PICK F \in Outcomes(next, snap) : found' = found \cup F
    BY <1>7 DEF RunRule
  <2>2. \A f \in F : Backed(f)
    BY <1>7, SnapType, RulesGrounded, GroundedBacked DEF RunRule, Rules, AbsenceInv
  <2> QED BY <1>7, <2>1, <2>2 DEF RunRule, AbsenceInv, AbsenceOnRecord, NoFalseAbsence, Backed
<1>8. CASE PodReport
  <2>1. \A f \in Fallback(snap) : Backed(f)
    BY FallbackGrounded, GroundedBacked DEF AbsenceInv
  <2> QED BY <1>8, <2>1 DEF PodReport, AbsenceInv, AbsenceOnRecord, NoFalseAbsence, Backed
<1>9. CASE Render
  BY <1>9 DEF Render, AbsenceInv, AbsenceOnRecord, NoFalseAbsence
<1>10. CASE Drift
  <2>1. everAbsent \subseteq everAbsent' /\ Objects \ present' \subseteq everAbsent'
    BY <1>10 DEF Drift, AbsenceInv, AbsenceOnRecord
  <2> QED BY <1>10, <2>1 DEF Drift, AbsenceInv, AbsenceOnRecord, NoFalseAbsence
<1> QED
  BY <1>a, <1>1, <1>2, <1>3, <1>4, <1>5, <1>6, <1>7, <1>8, <1>9, <1>10
  DEF Next, Step, Terminated, vars, Start, eventsFor, ownerChain, Join, collectPodNode,
      ConfigRefsRead, ClaimsRead, Expire

\* Whatever the API server refuses, fails or answers late, and whatever is created
\* and deleted meanwhile, a finding that calls a ConfigMap, a Secret or a claim
\* missing, and exit code 3, name an object that did not exist at some moment of the
\* run.
THEOREM AbsenceIsReal == Spec => []NoFalseAbsence
<1>1. Init => TypeOK /\ AbsenceInv
  BY InitType, InitAbsence
<1>2. TypeOK /\ AbsenceInv /\ [Next]_vars => (TypeOK /\ AbsenceInv)'
  BY NextType, NextAbsence
<1>3. AbsenceInv => NoFalseAbsence
  BY DEF AbsenceInv
<1> QED BY <1>1, <1>2, <1>3, PTL DEF Spec

-----------------------------------------------------------------------------
(* A healthy verdict rests on complete evidence *)

\* How far the collection has come; a report exists only after all of it.
AfterJoin == pc \in {"node", "config", "claims", "class", "rules", "render"} \/ Reported
AfterNode == pc \in {"config", "claims", "class", "rules", "render"} \/ Reported
AfterConfig == pc \in {"claims", "class", "rules", "render"} \/ Reported
AfterClaims == pc \in {"rules", "render"} \/ Reported

\* The goroutines either got their answer or hold a failure.
GoroutinesInv ==
  /\ evPc = "done" /\ evErr = "none" => evs = scenario.events
  /\ ownPc = "done" /\ ownColl = {} => owner = NoOwner \/ Len(chain) = MaxOwnerDepth

\* Every failure so far is among the degradations.
BookedInv ==
  /\ AfterJoin => /\ evPc = "done" /\ ownPc = "done" /\ events = evs
                  /\ ownColl \subseteq degradations
                  /\ evErr # "none" => degradations # {}
  /\ AfterNode => degradations # {} \/ ~needsNode(scenario.pod) \/ node # "nil"
  /\ degradations = {} =>
       /\ \A n \in ConfigMapNames : configMaps[n] # "unknown"
       /\ \A n \in SecretNames : secrets[n] # "unknown"
       /\ \A n \in ClaimNames : pvcs[n].exists # "unknown"

\* No collector is left before its work is done.
DoneInv ==
  /\ AfterConfig => configMapsToRead = {} /\ secretsToRead = {}
  /\ AfterClaims => claimsToRead = {}

ReportInv ==
  /\ Reported => pc \in {"render", "done"}
  /\ status = "healthy" => degradations = {}

LookedInv == GoroutinesInv /\ BookedInv /\ DoneInv /\ ReportInv

\* The bookkeeping of the collectors is what a healthy verdict rests on.
LEMMA LookedSuffices == TypeOK /\ LookedInv => HealthyMeansLooked
<1> SUFFICES ASSUME TypeOK, LookedInv, status = "healthy"
             PROVE  HealthyMeansLooked
  BY DEF HealthyMeansLooked
<1>s. scenario.pod \in Pod
  BY AnalysisAssumption DEF TypeOK, Scenario
<1>1. Reported /\ degradations = {}
  BY DEF LookedInv, ReportInv, Reported
<1>2. AfterJoin /\ AfterNode /\ AfterConfig /\ AfterClaims
  BY <1>1 DEF AfterJoin, AfterNode, AfterConfig, AfterClaims
<1>3. evErr = "none" /\ events = scenario.events
  BY <1>1, <1>2 DEF LookedInv, BookedInv, GoroutinesInv
<1>4. owner = NoOwner \/ Len(chain) = MaxOwnerDepth
  BY <1>1, <1>2 DEF LookedInv, BookedInv, GoroutinesInv
<1>5. needsNode(scenario.pod) => node # "nil"
  BY <1>1, <1>2 DEF LookedInv, BookedInv
<1>6. needsConfigRefs(scenario.pod, scenario.events) =>
        /\ \A n \in scenario.pod.configMaps : configMaps[n] \in {"found", "missing"}
        /\ \A n \in scenario.pod.secrets : secrets[n] \in {"found", "missing"}
  <2> SUFFICES ASSUME needsConfigRefs(scenario.pod, scenario.events)
               PROVE  /\ \A n \in scenario.pod.configMaps : configMaps[n] \in {"found", "missing"}
                      /\ \A n \in scenario.pod.secrets : secrets[n] \in {"found", "missing"}
    OBVIOUS
  <2>1. /\ \A n \in scenario.pod.configMaps : configMaps[n] # "unread"
        /\ \A n \in scenario.pod.secrets : secrets[n] # "unread"
    BY <1>2, <1>3 DEF LookedInv, DoneInv, configMapsToRead, secretsToRead
  <2>2. /\ \A n \in scenario.pod.configMaps :
             configMaps[n] \in Existences /\ configMaps[n] # "unknown"
        /\ \A n \in scenario.pod.secrets : secrets[n] \in Existences /\ secrets[n] # "unknown"
    BY <1>1, <1>s DEF LookedInv, BookedInv, TypeOK, Pod
  <2> QED BY <2>1, <2>2 DEF Existences
<1>7. needsClaims(scenario.pod, scenario.events) =>
        \A n \in scenario.pod.claims : pvcs[n].exists \in {"found", "missing"}
  <2> SUFFICES ASSUME needsClaims(scenario.pod, scenario.events)
               PROVE  \A n \in scenario.pod.claims : pvcs[n].exists \in {"found", "missing"}
    OBVIOUS
  <2>1. \A n \in scenario.pod.claims : pvcs[n].exists # "unread"
    BY <1>2, <1>3 DEF LookedInv, DoneInv, claimsToRead
  <2>2. \A n \in scenario.pod.claims : pvcs[n].exists \in Existences /\ pvcs[n].exists # "unknown"
    BY <1>1, <1>s DEF LookedInv, BookedInv, TypeOK, Pod, ClaimRef
  <2> QED BY <2>1, <2>2 DEF Existences
<1> QED BY <1>3, <1>4, <1>5, <1>6, <1>7 DEF HealthyMeansLooked

\* Before the collection there is nothing to book.
LEMMA InitLooked == Init => LookedInv
BY DEF Init, LookedInv, GoroutinesInv, BookedInv, DoneInv, ReportInv, AfterJoin, AfterNode,
       AfterConfig, AfterClaims, Reported, UnreadClaim

\* Every collector either reads what it has to or books the failure.
LEMMA NextLooked == TypeOK /\ LookedInv /\ [Next]_vars => LookedInv'
<1> SUFFICES ASSUME TypeOK, LookedInv, [Next]_vars PROVE LookedInv'
  OBVIOUS
<1> USE DEF world, walk, snapshot, verdict
<1>s. scenario \in Scenario
  BY AnalysisAssumption DEF TypeOK
\* Steps that read nothing and come before any report.
<1>1. CASE RejectArguments \/ Start
  BY <1>1 DEF RejectArguments, Start, LookedInv, GoroutinesInv, BookedInv, DoneInv, ReportInv,
     AfterJoin, AfterNode, AfterConfig, AfterClaims, Reported, configMapsToRead, secretsToRead,
     claimsToRead
<1>2. CASE GetPod
  BY <1>2 DEF GetPod, LookedInv, GoroutinesInv, BookedInv, DoneInv, ReportInv,
     AfterJoin, AfterNode, AfterConfig, AfterClaims, Reported
<1>3. CASE eventsFor
  <2>1. GoroutinesInv'
    <3>1. ListAnswers \subseteq Reasons \cup {"ok"}
      BY AnalysisAssumption DEF ListAnswers, Reasons, TypeOK
    <3>2. evErr' = "none" => evs' = scenario.events
      BY <1>3, <3>1 DEF eventsFor, Reasons
    <3> QED BY <1>3, <3>2 DEF eventsFor, LookedInv, GoroutinesInv
  <2>2. ~AfterJoin /\ ~AfterJoin'
    BY <1>3 DEF eventsFor, LookedInv, ReportInv, AfterJoin, Reported
  <2> QED BY <1>3, <2>1, <2>2 DEF eventsFor, LookedInv, BookedInv, DoneInv, ReportInv,
     AfterJoin, AfterNode, AfterConfig, AfterClaims, Reported
<1>4. CASE ownerChain
  <2>1. GoroutinesInv'
    <3>1. CASE WalkEnds
      BY <1>4, <3>1 DEF ownerChain, WalkEnds, LookedInv, GoroutinesInv
    <3>2. CASE ~WalkEnds
      <4>1. owner \in Owners
        BY <3>2 DEF WalkEnds, TypeOK
      <4>2. \A answer \in Answers(<<"owner", owner>>) :
              answer # "ok" => degrade(kindResource(OwnerKind[owner]), answer) # {}
        BY <4>1, AnswersFacts, DegradeFacts DEF kindResource, Resources, Objects
      <4>3. ownPc' = "done" => ownColl' # {}
        BY <1>4, <3>2, <4>2 DEF ownerChain
      <4> QED BY <1>4, <4>3 DEF ownerChain, LookedInv, GoroutinesInv
    <3> QED BY <3>1, <3>2
  <2>2. ~AfterJoin /\ ~AfterJoin'
    BY <1>4 DEF ownerChain, LookedInv, ReportInv, AfterJoin, Reported
  <2> QED BY <1>4, <2>1, <2>2 DEF ownerChain, LookedInv, BookedInv, DoneInv, ReportInv,
     AfterJoin, AfterNode, AfterConfig, AfterClaims, Reported
<1>5. CASE Join
  <2>1. ~Reported /\ ~Reported' /\ pc' = "node"
    BY <1>5 DEF Join, LookedInv, ReportInv, Reported
  <2>2. evErr # "none" => eventsDegradation # {}
    BY DegradeFacts DEF TypeOK, Resources, Reasons, eventsDegradation
  <2> QED BY <1>5, <2>1, <2>2 DEF Join, LookedInv, GoroutinesInv, BookedInv, DoneInv, ReportInv,
     AfterJoin, AfterNode, AfterConfig, AfterClaims, Reported
<1>6. CASE collectPodNode
  <2>1. ~Reported /\ ~Reported' /\ pc' = "config" /\ AfterJoin
    BY <1>6 DEF collectPodNode, LookedInv, ReportInv, Reported, AfterJoin
  <2>2. degradations \subseteq degradations'
    BY <1>6 DEF collectPodNode
  <2>3. degradations' # {} \/ ~needsNode(scenario.pod) \/ node' # "nil"
    <3> SUFFICES ASSUME needsNode(scenario.pod) PROVE degradations' # {} \/ node' # "nil"
      OBVIOUS
    <3>1. PICK answer \in Answers(<<"node", "its">>) :
            /\ degradations' = degradations \cup degrade("nodes", answer)
            /\ node' = IF answer = "ok" THEN scenario.node ELSE node
      BY <1>6 DEF collectPodNode
    <3>2. answer # "ok" => degrade("nodes", answer) # {}
      BY <3>1, AnswersFacts, DegradeFacts DEF Objects, Resources
    <3> QED BY <1>s, <3>1, <3>2 DEF Scenario
  <2> QED BY <1>6, <2>1, <2>2, <2>3 DEF collectPodNode, LookedInv, GoroutinesInv, BookedInv,
     DoneInv, ReportInv, AfterJoin, AfterNode, AfterConfig, AfterClaims, Reported
\* A read of one object: what it does not answer degrades, what is booked stays.
<1>7. CASE ReadConfigMap
  <2>1. PICK n \in configMapsToRead, answer \in Reasons \cup {"ok"} :
          /\ configMaps' = [configMaps EXCEPT ![n] = existence(answer)]
          /\ degradations' = degradations \cup existenceDegradation("configmaps", answer)
    BY <1>7 DEF ReadConfigMap
  <2>2. degradations' = {} =>
          degradations = {} /\ \A m \in ConfigMapNames : configMaps'[m] # "unknown"
    BY <2>1, DegradeFacts DEF Resources, TypeOK, LookedInv, BookedInv
  <2>3. AfterJoin /\ AfterNode /\ AfterNode' /\ ~Reported /\ ~Reported' /\ pc' = "config"
    BY <1>7 DEF ReadConfigMap, LookedInv, ReportInv, Reported, AfterJoin, AfterNode
  <2> QED BY <1>7, <2>1, <2>2, <2>3 DEF ReadConfigMap, LookedInv, GoroutinesInv, BookedInv,
     DoneInv, ReportInv, AfterJoin, AfterConfig, AfterClaims, Reported
<1>8. CASE ReadSecret
  <2>1. PICK n \in secretsToRead, answer \in Reasons \cup {"ok"} :
          /\ secrets' = [secrets EXCEPT ![n] = existence(answer)]
          /\ degradations' = degradations \cup existenceDegradation("secrets", answer)
    BY <1>8 DEF ReadSecret
  <2>2. degradations' = {} =>
          degradations = {} /\ \A m \in SecretNames : secrets'[m] # "unknown"
    BY <2>1, DegradeFacts DEF Resources, TypeOK, LookedInv, BookedInv
  <2>3. AfterJoin /\ AfterNode /\ AfterNode' /\ ~Reported /\ ~Reported' /\ pc' = "config"
    BY <1>8 DEF ReadSecret, LookedInv, ReportInv, Reported, AfterJoin, AfterNode
  <2> QED BY <1>8, <2>1, <2>2, <2>3 DEF ReadSecret, LookedInv, GoroutinesInv, BookedInv,
     DoneInv, ReportInv, AfterJoin, AfterConfig, AfterClaims, Reported
<1>9. CASE ConfigRefsRead
  BY <1>9 DEF ConfigRefsRead, LookedInv, GoroutinesInv, BookedInv, DoneInv, ReportInv,
     AfterJoin, AfterNode, AfterConfig, AfterClaims, Reported, configMapsToRead, secretsToRead
<1>10. CASE ReadClaim
  <2>1. PICK n, answer, phase :
          /\ n \in claimsToRead /\ answer \in Reasons \cup {"ok"}
          /\ pvcs' = [pvcs EXCEPT ![n] =
                        [exists |-> existence(answer), waits |-> FALSE, phase |-> phase]]
          /\ degradations' = degradations
                               \cup existenceDegradation("persistentvolumeclaims", answer)
    BY <1>10 DEF ReadClaim
  <2>2. degradations' = {} =>
          degradations = {} /\ \A m \in ClaimNames : pvcs'[m].exists # "unknown"
    BY <2>1, DegradeFacts DEF Resources, TypeOK, LookedInv, BookedInv
  <2>3. /\ AfterJoin /\ AfterNode /\ AfterConfig /\ ~Reported /\ ~Reported'
        /\ pc' \in {"claims", "class"}
    BY <1>10 DEF ReadClaim, LookedInv, ReportInv, Reported, AfterJoin, AfterNode, AfterConfig
  <2> QED BY <1>10, <2>1, <2>2, <2>3 DEF ReadClaim, LookedInv, GoroutinesInv, BookedInv,
     DoneInv, ReportInv, AfterClaims, Reported, configMapsToRead, secretsToRead
<1>11. CASE storageClassInfo
  <2>1. PICK answer, waits :
          /\ answer \in Reasons \cup {"ok"}
          /\ degradations' = degradations \cup existenceDegradation("storageclasses", answer)
          /\ pvcs' = [pvcs EXCEPT ![claim].waits = waits]
    BY <1>11 DEF storageClassInfo
  <2>2. \A m \in ClaimNames : pvcs'[m].exists = pvcs[m].exists
    BY <2>1 DEF TypeOK, ClaimRef
  <2>3. AfterJoin /\ AfterNode /\ AfterConfig /\ ~Reported /\ ~Reported' /\ pc' = "claims"
    BY <1>11 DEF storageClassInfo, LookedInv, ReportInv, Reported, AfterJoin, AfterNode, AfterConfig
  <2> QED BY <1>11, <2>1, <2>2, <2>3 DEF storageClassInfo, LookedInv, GoroutinesInv, BookedInv,
     DoneInv, ReportInv, AfterClaims, Reported, configMapsToRead, secretsToRead
<1>12. CASE ClaimsRead
  BY <1>12 DEF ClaimsRead, LookedInv, GoroutinesInv, BookedInv, DoneInv, ReportInv,
     AfterJoin, AfterNode, AfterConfig, AfterClaims, Reported, configMapsToRead, secretsToRead,
     claimsToRead
<1>13. CASE RunRule
  BY <1>13 DEF RunRule, LookedInv, GoroutinesInv, BookedInv, DoneInv, ReportInv,
     AfterJoin, AfterNode, AfterConfig, AfterClaims, Reported, configMapsToRead, secretsToRead,
     claimsToRead
<1>14. CASE PodReport
  <2>1. status' = "healthy" => degradations = {}
    BY <1>14 DEF PodReport, DeriveStatus
  <2>2. AfterJoin /\ AfterNode /\ AfterConfig /\ AfterClaims /\ pc' = "render"
    BY <1>14 DEF PodReport, AfterJoin, AfterNode, AfterConfig, AfterClaims
  <2> QED BY <1>14, <2>1, <2>2 DEF PodReport, LookedInv, GoroutinesInv, BookedInv, DoneInv,
     ReportInv, configMapsToRead, secretsToRead, claimsToRead
<1>15. CASE Render
  <2>1. AfterJoin /\ AfterNode /\ AfterConfig /\ AfterClaims /\ pc' = "done"
    BY <1>15 DEF Render, AfterJoin, AfterNode, AfterConfig, AfterClaims
  <2> QED BY <1>15, <2>1 DEF Render, LookedInv, GoroutinesInv, BookedInv, DoneInv,
     ReportInv, configMapsToRead, secretsToRead, claimsToRead
<1>16. CASE Expire \/ Drift \/ UNCHANGED vars
  BY <1>16 DEF Expire, Drift, vars, LookedInv, GoroutinesInv, BookedInv, DoneInv, ReportInv,
     AfterJoin, AfterNode, AfterConfig, AfterClaims, Reported, configMapsToRead, secretsToRead,
     claimsToRead
<1> QED
  BY <1>1, <1>2, <1>3, <1>4, <1>5, <1>6, <1>7, <1>8, <1>9, <1>10, <1>11, <1>12, <1>13,
     <1>14, <1>15, <1>16
  DEF Next, Step, Terminated

\* A run that ends in "healthy" had an answer to every request that the Pod's
\* symptoms call for, whichever of them failed, in whatever order the goroutines
\* finished and whenever the context ended.
THEOREM HealthIsComplete == Spec => []HealthyMeansLooked
<1>1. Init => TypeOK /\ LookedInv
  BY InitType, InitLooked
<1>2. TypeOK /\ LookedInv /\ [Next]_vars => (TypeOK /\ LookedInv)'
  BY NextType, NextLooked
<1>3. TypeOK /\ LookedInv => HealthyMeansLooked
  BY LookedSuffices
<1> QED BY <1>1, <1>2, <1>3, PTL DEF Spec

-----------------------------------------------------------------------------
(* The verdict and the exit code *)

\* What the runs before their report, with it and after it have in common; the
\* verdict is the one DeriveStatus gives to what is reported.
VerdictInv ==
  /\ pc \in {"start", "pod"} => calls = 0
  /\ pc # "done" => exit = -1
  /\ pc = "render" => Reported
  /\ Reported => /\ pc \in {"render", "done"}
                 /\ status = DeriveStatus(found, degradations # {})
                 /\ found # {} \/ IsTerminal(scenario.pod) \/ podIsReady(scenario.pod)
  /\ ExitContract

\* The verdict of DeriveStatus and the severities behind it.
LEMMA StatusFacts ==
  ASSUME NEW F \in SUBSET Finding, NEW degraded \in BOOLEAN
  PROVE  /\ DeriveStatus(F, degraded) \in Statuses
         /\ DeriveStatus(F, degraded) \in {"unhealthy", "degraded"}
              <=> \E f \in F : f.severity # "info"
<1>1. \A f \in F : f.severity \in {"critical", "warning", "info"}
  BY DEF Finding, Severities
<1> QED BY <1>1 DEF DeriveStatus, Statuses

\* A run starts without a verdict.
LEMMA InitVerdict == Init => VerdictInv
BY DEF Init, VerdictInv, ExitContract, Reported

\* Every step keeps the verdict in agreement with the findings.
LEMMA NextVerdict == TypeOK /\ VerdictInv /\ [Next]_vars => VerdictInv'
<1> SUFFICES ASSUME TypeOK, VerdictInv, [Next]_vars PROVE VerdictInv'
  OBVIOUS
<1> USE DEF world, walk, snapshot, verdict
<1>1. CASE RejectArguments \/ Start
  BY <1>1 DEF RejectArguments, Start, VerdictInv, ExitContract, Reported
<1>2. CASE GetPod
  <2>1. ~Reported /\ ~Reported' /\ calls' = 1
    BY <1>2 DEF GetPod, VerdictInv, Reported
  <2>2. pc' \in {"related", "done"} /\ exit' \in {-1, 2, 3, 4} /\ (pc' # "done" => exit' = -1)
    BY <1>2, ReportErrorFacts DEF GetPod, VerdictInv
  <2> QED BY <2>1, <2>2 DEF VerdictInv, ExitContract
\* The collectors: before any report, no exit code.
<1>3. CASE eventsFor \/ ownerChain \/ Join \/ collectPodNode \/ ReadConfigMap \/ ReadSecret
            \/ ConfigRefsRead \/ ReadClaim \/ storageClassInfo \/ ClaimsRead \/ RunRule
  <2>1. /\ pc \in {"related", "node", "config", "claims", "class", "rules"}
        /\ pc' \in {"related", "node", "config", "claims", "class", "rules"}
        /\ status' = status /\ exit' = exit
    BY <1>3 DEF eventsFor, ownerChain, Join, collectPodNode, ReadConfigMap, ReadSecret,
       ConfigRefsRead, ReadClaim, storageClassInfo, ClaimsRead, RunRule
  <2> QED BY <2>1 DEF VerdictInv, ExitContract, Reported
<1>4. CASE PodReport
  <2>1. found' \subseteq Finding
    BY NextType DEF TypeOK
  <2>2. status' = DeriveStatus(found', degradations' # {}) /\ status' \in Statuses
    BY <1>4, <2>1, StatusFacts DEF PodReport
  <2>3. found' # {} \/ IsTerminal(scenario.pod) \/ podIsReady(scenario.pod)
    BY <1>4 DEF PodReport, Fallback, snap
  <2>4. pc' = "render" /\ exit' = -1 /\ scenario' = scenario
    BY <1>4 DEF PodReport, VerdictInv
  <2> QED BY <2>2, <2>3, <2>4 DEF VerdictInv, ExitContract, Reported, Statuses
<1>5. CASE Render
  <2>1. /\ Reported /\ Reported' /\ pc' = "done" /\ found' = found /\ scenario' = scenario
        /\ status' = DeriveStatus(found', degradations' # {})
    BY <1>5 DEF Render, VerdictInv, Reported
  <2>2. exit' = 2 \/ exit' = IF \E f \in found : f.severity # "info" THEN 1 ELSE 0
    <3>1. IssueFound <=> \E f \in found : f.severity # "info"
      BY <1>5, StatusFacts DEF Render, VerdictInv, IssueFound, TypeOK
    <3> QED BY <1>5, <3>1 DEF Render
  <2>3. ExitContract'
    BY <2>1, <2>2 DEF ExitContract
  <2> QED BY <2>1, <2>3, <1>5 DEF VerdictInv, Render
<1>6. CASE Expire \/ Drift \/ UNCHANGED vars
  BY <1>6 DEF Expire, Drift, vars, VerdictInv, ExitContract, Reported
<1> QED BY <1>1, <1>2, <1>3, <1>4, <1>5, <1>6 DEF Next, Step, Terminated

\* The verdict agrees with the findings in every state of a run.
LEMMA VerdictAlways == Spec => []VerdictInv
<1>1. Init => TypeOK /\ VerdictInv
  BY InitType, InitVerdict
<1>2. TypeOK /\ VerdictInv /\ [Next]_vars => (TypeOK /\ VerdictInv)'
  BY NextType, NextVerdict
<1> QED BY <1>1, <1>2, PTL DEF Spec

\* The exit code tells a script the truth about the report and about the requested
\* Pod: 0 and 1 whether a finding is graver than an observation, 3 and 4 only what
\* the very first request was answered, whatever related reads were refused.
THEOREM ExitCodesKept == Spec => []ExitContract
<1>1. VerdictInv => ExitContract
  BY DEF VerdictInv
<1> QED BY <1>1, VerdictAlways, PTL

\* No report about a Pod that is neither ready nor finished is empty, at whichever
\* rule the context cut the evaluation off.
THEOREM SilenceMeansReady == Spec => []NeverQuiet
<1>1. VerdictInv => NeverQuiet
  BY DEF VerdictInv, NeverQuiet
<1> QED BY <1>1, VerdictAlways, PTL

-----------------------------------------------------------------------------
(* What the rules were given and what they made of it *)

\* Nothing is read that no symptom calls for, and nothing is known of a claim that
\* was not found.
SymptomInv ==
  /\ PhaseIsRead(snap)
  /\ node # "nil" => needsNode(scenario.pod)
  /\ pc \in {"start", "pod", "related"} =>
       /\ \A n \in ConfigMapNames : configMaps[n] = "unread"
       /\ \A n \in SecretNames : secrets[n] = "unread"
       /\ \A n \in ClaimNames : pvcs[n].exists = "unread"
  /\ needsConfigRefs(scenario.pod, events)
       \/ /\ \A n \in ConfigMapNames : configMaps[n] = "unread"
          /\ \A n \in SecretNames : secrets[n] = "unread"
  /\ needsClaims(scenario.pod, events) \/ \A n \in ClaimNames : pvcs[n].exists = "unread"
  /\ pc = "class" => needsClaims(scenario.pod, events)

\* The findings are those of the rules before next, plus the fallback of a report.
FoundInv ==
  /\ pc \notin {"rules", "render", "done"} => next = 1 /\ found = {}
  /\ \A k \in 1..(next - 1) : \E F \in Outcomes(k, snap) : F \subseteq found
  /\ \A f \in found : Made(f, snap) \/ (Reported /\ f \in Fallback(snap))

\* A Pod that gives no reason to read more than itself, its events and its owners.
Unremarkable == podIsReady(scenario.pod) /\ Warnings(scenario.events) = {}

\* The requests made so far, by where the run is.
CostInv ==
  /\ pc \in {"start", "pod"} => calls = 0
  /\ pc = "related" => calls <= 1 + (IF evPc = "done" THEN 1 ELSE 0) + Len(chain)
  /\ Unremarkable => calls <= 2 + Len(chain)

\* The scenario is one of those allowed, and its Pod is what a Pod can be.
LEMMA ScenarioFacts ==
  ASSUME TypeOK
  PROVE  /\ scenario \in Scenario /\ scenario.pod \in Pod /\ Lawful(scenario.pod)
         /\ \A n \in ContainerNames : scenario.pod.containers[n] \in Container
<1>1. scenario \in Scenario /\ Lawful(scenario.pod)
  BY AnalysisAssumption, LawfulAssumption DEF TypeOK
<1>2. scenario.pod \in Pod
  BY <1>1 DEF Scenario
<1> QED BY <1>1, <1>2 DEF Pod

\* Nothing about such a Pod calls for another read.
LEMMA UnremarkableFacts ==
  ASSUME TypeOK, Unremarkable
  PROVE  /\ ~needsNode(scenario.pod)
         /\ ~needsConfigRefs(scenario.pod, events)
         /\ ~needsClaims(scenario.pod, events)
<1>1. Warnings(events) = {}
  BY DEF TypeOK, Unremarkable, Warnings
<1>2. \A n \in ContainerNames : ~Waiting(scenario.pod.containers[n])
  BY ScenarioFacts DEF Unremarkable, Lawful
<1> QED BY <1>1, <1>2 DEF Unremarkable, podIsReady, needsNode, podLooksHealthy, needsConfigRefs,
     needsClaims, Waiting, WaitReasons, ImageWaitReasons, ConfigErrors

\* Nothing is read at the start.
LEMMA InitSymptom == Init => SymptomInv
BY DEF Init, SymptomInv, PhaseIsRead, UnreadClaim, snap

\* Every read is called for.
LEMMA NextSymptom == TypeOK /\ SymptomInv /\ [Next]_vars => SymptomInv'
<1> SUFFICES ASSUME TypeOK, SymptomInv, [Next]_vars PROVE SymptomInv'
  OBVIOUS
<1> USE DEF world, walk, snapshot, verdict, PhaseIsRead, snap
\* Most steps read nothing of what the Pod refers to.
<1>a. CASE /\ UNCHANGED <<scenario, snapshot>>
           /\ pc' \in {"start", "pod", "related"} => pc \in {"start", "pod", "related"}
           /\ pc' = "class" => pc = "class"
  BY <1>a DEF SymptomInv
<1>1. CASE Join
  BY <1>1 DEF Join, SymptomInv
<1>2. CASE collectPodNode
  BY <1>2 DEF collectPodNode, SymptomInv
<1>3. CASE ReadConfigMap
  <2>1. needsConfigRefs(scenario.pod, events)
    BY <1>3 DEF ReadConfigMap, configMapsToRead
  <2> QED BY <1>3, <2>1 DEF ReadConfigMap, SymptomInv
<1>4. CASE ReadSecret
  <2>1. needsConfigRefs(scenario.pod, events)
    BY <1>4 DEF ReadSecret, secretsToRead
  <2> QED BY <1>4, <2>1 DEF ReadSecret, SymptomInv
<1>5. CASE ReadClaim
  <2>1. needsClaims(scenario.pod, events)
    BY <1>5 DEF ReadClaim, claimsToRead
  <2>2. PICK n, answer, phase :
          /\ pvcs' = [pvcs EXCEPT ![n] =
                        [exists |-> existence(answer), waits |-> FALSE, phase |-> phase]]
          /\ phase # "none" => answer = "ok"
    BY <1>5 DEF ReadClaim
  <2>3. PhaseIsRead(snap)'
    BY <2>2 DEF SymptomInv, TypeOK, existence
  <2>4. pc \in {"claims"} /\ pc' \in {"claims", "class"}
    BY <1>5 DEF ReadClaim
  <2> QED BY <1>5, <2>1, <2>3, <2>4 DEF ReadClaim, SymptomInv
<1>6. CASE storageClassInfo
  <2>1. PICK waits : pvcs' = [pvcs EXCEPT ![claim].waits = waits]
    BY <1>6 DEF storageClassInfo
  <2>2. \A m \in ClaimNames : pvcs'[m].exists = pvcs[m].exists /\ pvcs'[m].phase = pvcs[m].phase
    BY <2>1 DEF TypeOK, ClaimRef
  <2> QED BY <1>6, <2>2 DEF storageClassInfo, SymptomInv
<1> QED
  BY <1>a, <1>1, <1>2, <1>3, <1>4, <1>5, <1>6
  DEF Next, Step, Terminated, vars, RejectArguments, Start, GetPod, eventsFor, ownerChain,
      ConfigRefsRead, ClaimsRead, RunRule, PodReport, Render, Expire, Drift

\* Nothing has been found at the start.
LEMMA InitFound == Init => FoundInv
BY DEF Init, FoundInv

\* The rules run one after the other on a snapshot that no longer changes.
LEMMA NextFound == TypeOK /\ FoundInv /\ [Next]_vars => FoundInv'
<1> SUFFICES ASSUME TypeOK, FoundInv, [Next]_vars PROVE FoundInv'
  OBVIOUS
<1> USE DEF world, walk, snapshot, verdict
<1>1. ASSUME pc \notin {"rules", "render", "done"}, UNCHANGED <<next, found>>
      PROVE  FoundInv'
  <2>1. next' = 1 /\ found' = {}
    BY <1>1 DEF FoundInv
  <2> QED BY <2>1 DEF FoundInv
<1>2. CASE \/ RejectArguments \/ Start \/ GetPod \/ eventsFor \/ ownerChain \/ Join
           \/ collectPodNode \/ ReadConfigMap \/ ReadSecret \/ ConfigRefsRead \/ ReadClaim
           \/ storageClassInfo \/ ClaimsRead
  BY <1>1, <1>2 DEF RejectArguments, Start, GetPod, eventsFor, ownerChain, Join, collectPodNode,
     ReadConfigMap, ReadSecret, ConfigRefsRead, ReadClaim, storageClassInfo, ClaimsRead
<1>3. CASE RunRule
  <2>1. PICK F \in Outcomes(next, snap) : found' = found \cup F
    BY <1>3 DEF RunRule
  <2>2. snap' = snap /\ next' = next + 1 /\ next \in 1..Len(RuleNames) /\ pc' = "rules"
    BY <1>3 DEF RunRule, snap, Rules
  <2>3. \A f \in F : Made(f, snap)
    BY <2>1, <2>2 DEF Made
  <2>4. \A k \in 1..(next' - 1) : k = next \/ k \in 1..(next - 1)
    BY <2>2, ElevenRules
  <2>5. \A k \in 1..(next' - 1) : \E G \in Outcomes(k, snap) : G \subseteq found'
    BY <2>1, <2>4 DEF FoundInv
  <2>6. \A f \in found' : Made(f, snap) \/ (Reported' /\ f \in Fallback(snap))
    BY <1>3, <2>1, <2>3 DEF FoundInv, RunRule, Reported
  <2> QED BY <2>2, <2>5, <2>6 DEF FoundInv
<1>4. CASE PodReport
  <2>1. snap' = snap /\ next' = next /\ pc' = "render" /\ Reported'
    BY <1>4 DEF PodReport, snap, Reported, DeriveStatus
  <2>2. found \subseteq found' /\ \A f \in found' : f \in found \/ f \in Fallback(snap)
    BY <1>4 DEF PodReport
  <2>3. \A f \in found' : Made(f, snap) \/ f \in Fallback(snap)
    BY <2>2 DEF FoundInv
  <2>4. \A k \in 1..(next - 1) : \E G \in Outcomes(k, snap) : G \subseteq found'
    BY <2>2 DEF FoundInv
  <2> QED BY <2>1, <2>3, <2>4 DEF FoundInv
<1>5. CASE Render \/ Expire \/ Drift \/ UNCHANGED vars
  <2>1. snap' = snap /\ UNCHANGED <<next, found, status>>
    BY <1>5 DEF Render, Expire, Drift, vars, snap
  <2>2. CASE pc \notin {"rules", "render", "done"}
    BY <1>1, <2>1, <2>2
  <2>3. CASE pc \in {"rules", "render", "done"}
    <3>1. \A k \in 1..(next - 1) : \E G \in Outcomes(k, snap) : G \subseteq found'
      BY <2>1 DEF FoundInv
    <3>2. \A f \in found' : Made(f, snap) \/ (Reported' /\ f \in Fallback(snap))
      BY <2>1 DEF FoundInv, Reported
    <3>3. pc' \in {"rules", "render", "done"}
      BY <1>5, <2>3 DEF Render, Expire, Drift, vars
    <3> QED BY <2>1, <3>1, <3>2, <3>3 DEF FoundInv
  <2> QED BY <2>2, <2>3
<1> QED BY <1>2, <1>3, <1>4, <1>5 DEF Next, Step, Terminated

\* No request has been made at the start.
LEMMA InitCost == Init => CostInv
BY AnalysisAssumption DEF Init, CostInv

\* Every step makes at most the request it stands for.
LEMMA NextCost == TypeOK /\ SymptomInv /\ CostInv /\ [Next]_vars => CostInv'
<1> SUFFICES ASSUME TypeOK, SymptomInv, CostInv, [Next]_vars PROVE CostInv'
  OBVIOUS
<1> USE DEF world, walk, snapshot, verdict
<1>l. Len(chain) \in Nat /\ calls \in Nat
  BY DEF TypeOK
<1>u. scenario' = scenario => (Unremarkable' <=> Unremarkable)
  BY DEF Unremarkable
<1>a. CASE /\ UNCHANGED <<scenario, chain, calls, evPc>>
           /\ pc' \in {"start", "pod"} => pc \in {"start", "pod"}
           /\ pc' = "related" => pc = "related"
  BY <1>a, <1>u DEF CostInv
<1>1. CASE GetPod
  <2>1. calls' = 1 /\ chain' = chain /\ pc' \notin {"start", "pod"}
    BY <1>1 DEF GetPod, CostInv
  <2> QED BY <1>l, <2>1 DEF CostInv
<1>2. CASE eventsFor
  BY <1>2, <1>l, <1>u DEF eventsFor, CostInv
<1>3. CASE ownerChain
  <2>1. CASE WalkEnds
    BY <1>3, <2>1, <1>u DEF ownerChain, CostInv
  <2>2. CASE ~WalkEnds
    <3>1. calls' <= calls + 1 /\ calls' \in Nat /\ Len(chain') = Len(chain) + 1
      <4>1. chain' = Append(chain, owner) /\ owner \in Owners
        BY <1>3, <2>2 DEF ownerChain, WalkEnds, TypeOK
      <4>2. Len(chain') = Len(chain) + 1
        BY <4>1 DEF TypeOK
      <4> QED BY <1>3, <1>l, <2>2, <4>2 DEF ownerChain
    <3> QED BY <1>3, <1>l, <1>u, <3>1 DEF ownerChain, CostInv
  <2> QED BY <2>1, <2>2
\* The reads that only a symptom calls for.
<1>4. CASE Unremarkable
  <2>1. ~ReadConfigMap /\ ~ReadSecret /\ ~ReadClaim /\ ~storageClassInfo
    BY <1>4, UnremarkableFacts
    DEF ReadConfigMap, ReadSecret, ReadClaim, storageClassInfo, configMapsToRead, secretsToRead,
        claimsToRead, SymptomInv
  <2>2. CASE collectPodNode
    BY <1>4, <1>a, <2>2, UnremarkableFacts DEF collectPodNode
  <2> QED
    BY <1>a, <1>1, <1>2, <1>3, <2>1, <2>2
    DEF Next, Step, Terminated, vars, RejectArguments, Start, Join, ConfigRefsRead, ClaimsRead,
        RunRule, PodReport, Render, Expire, Drift
<1>5. CASE ~Unremarkable
  <2>1. CASE collectPodNode \/ ReadConfigMap \/ ReadSecret \/ ReadClaim \/ storageClassInfo
    <3>1. ~Unremarkable' /\ pc' \notin {"start", "pod", "related"}
      BY <1>5, <1>u, <2>1 DEF collectPodNode, ReadConfigMap, ReadSecret, ReadClaim,
         storageClassInfo
    <3> QED BY <3>1 DEF CostInv
  <2> QED
    BY <1>a, <1>1, <1>2, <1>3, <2>1
    DEF Next, Step, Terminated, vars, RejectArguments, Start, Join, ConfigRefsRead, ClaimsRead,
        RunRule, PodReport, Render, Expire, Drift
<1> QED BY <1>4, <1>5

\* All of it, throughout a run.
PodInv == TypeOK /\ AbsenceInv /\ VerdictInv /\ SymptomInv /\ FoundInv /\ CostInv

\* It holds throughout.
LEMMA PodInductive == Spec => []PodInv
<1>1. Init => PodInv
  BY InitType, InitAbsence, InitVerdict, InitSymptom, InitFound, InitCost DEF PodInv
<1>2. PodInv /\ [Next]_vars => PodInv'
  BY NextType, NextAbsence, NextVerdict, NextSymptom, NextFound, NextCost DEF PodInv
<1> QED BY <1>1, <1>2, PTL DEF Spec

-----------------------------------------------------------------------------
(* The findings of a report *)

\* When every rule ran, the findings of each are in the report.
LEMMA EvaluatedFindings ==
  ASSUME TypeOK, FoundInv, Evaluated
  PROVE  /\ evaluateOOM(snap) \subseteq found /\ evaluateCrashLoop(snap) \subseteq found
         /\ evaluateTerminated(snap) \subseteq found /\ evaluateImagePull(snap) \subseteq found
         /\ evaluateConfigRefs(snap) \subseteq found /\ evaluateClaims(snap) \subseteq found
<1>1. next = 12
  BY ElevenRules DEF Evaluated, TypeOK
<1>2. \A k \in 1..11 : \E F \in Outcomes(k, snap) : F \subseteq found
  BY <1>1 DEF FoundInv
<1> QED BY <1>2, OutcomesByNumber

\* A finding of a report has its symptom, unless it is the fallback's.
LEMMA FoundSymptom ==
  ASSUME TypeOK, FoundInv, NEW f \in found
  PROVE  \/ Symptom(f, snap)
         \/ f = Certain("POD_NOT_READY", "pod", "warning", NoCause) /\ ~podIsReady(scenario.pod)
<1>1. CASE Made(f, snap)
  BY <1>1, SnapType, RulesHaveSymptoms
<1>2. CASE f \in Fallback(snap)
  BY <1>2 DEF Fallback, snap
<1> QED BY <1>1, <1>2 DEF FoundInv

\* When all rules have run, what a finding names as its cause is in the report too,
\* whichever reads failed and whichever claim the scheduling rule looked at last.
THEOREM CausesAreTold == Spec => []NoDanglingCause
<1>1. PodInv => NoDanglingCause
  <2> SUFFICES ASSUME PodInv, Evaluated, NEW f \in found, f.causedBy # NoCause
               PROVE  \E g \in found : g.id = f.causedBy
    BY DEF NoDanglingCause
  <2>1. Made(f, snap)
    BY DEF PodInv, FoundInv, Fallback, Certain
  <2>2. \E g \in CauseFindings(snap) : g.id = f.causedBy
    BY <2>1, RulesKnowCauses DEF PodInv, SymptomInv
  <2> QED BY <2>2, EvaluatedFindings DEF PodInv, CauseFindings
<1> QED BY <1>1, PodInductive, PTL

\* Container n of the Pod is the subject of a finding graver than an observation.
Claimed(n) == \E f \in found : f.about = n /\ f.severity # "info"

\* The hand-offs between the rules that watch containers have no gap: when all rules
\* have run, every failing container of a Pod that has not finished is the subject of
\* a warning or of something worse, in any state and after any history of restarts.
THEOREM NoFailureUnclaimed == Spec => []FailuresClaimed
<1>1. PodInv => FailuresClaimed
  <2> SUFFICES ASSUME PodInv, Evaluated, ~IsTerminal(scenario.pod), NEW n \in ContainerNames,
                      Failing(scenario.pod.containers[n])
               PROVE  Claimed(n)
    BY DEF FailuresClaimed, Claimed
  <2> DEFINE c == scenario.pod.containers[n]
  <2> USE DEF Certain
  <2>1. snap.pod = scenario.pod /\ TypeOK /\ FoundInv
    BY DEF snap, PodInv
  <2>2. CASE oomTermination(c)
    <3> DEFINE f == Certain("POD_OOM_KILLED", n,
                            severityFor(c.state = "running" /\ ~isFlapping(c)), NoCause)
    <3>1. f \in evaluateOOM(snap)
      BY <2>1, <2>2 DEF evaluateOOM
    <3>2. f.about = n /\ f.severity # "info"
      BY DEF severityFor
    <3> QED BY <2>1, <3>1, <3>2, EvaluatedFindings DEF Claimed
  <2>3. CASE CrashLooping(c)
    <3> DEFINE f == Certain(FailureID(c, "POD_CRASH_LOOP"), n, CrashLoopSeverity(c), NoCause)
    <3>1. f \in evaluateCrashLoop(snap)
      BY <2>1, <2>3 DEF evaluateCrashLoop
    <3>2. f.about = n /\ f.severity # "info"
      BY DEF CrashLoopSeverity
    <3> QED BY <2>1, <3>1, <3>2, EvaluatedFindings DEF Claimed
  <2>4. CASE EndedInError(scenario.pod, c)
    <3> DEFINE f == Certain(FailureID(c, "POD_CONTAINER_TERMINATED_ERROR"), n,
                            severityFor(AwaitingRestart(scenario.pod)), NoCause)
    <3>1. f \in evaluateTerminated(snap)
      BY <2>1, <2>4 DEF evaluateTerminated, IsTerminal
    <3>2. f.about = n /\ f.severity # "info"
      BY DEF severityFor
    <3> QED BY <2>1, <3>1, <3>2, EvaluatedFindings DEF Claimed
  <2>5. CASE c.state \in ImageWaitReasons
    <3> DEFINE f == [Certain("POD_IMAGE_PULL_FAILED", n, "critical", NoCause) EXCEPT !.confidence =
                       classifyImageFailure(c.state, PullDetail(snap, n))]
    <3>1. f \in evaluateImagePull(snap)
      BY <2>1, <2>5 DEF evaluateImagePull
    <3>2. f.about = n /\ f.severity # "info"
      OBVIOUS
    <3> QED BY <2>1, <3>1, <3>2, EvaluatedFindings DEF Claimed
  <2>6. CASE c.state \in ConfigErrors
    <3> DEFINE f == Certain("POD_CREATE_CONTAINER_CONFIG_ERROR", n, "critical",
                            ConfigErrorCause(snap, c))
    <3>1. f \in evaluateConfigRefs(snap)
      BY <2>1, <2>6 DEF evaluateConfigRefs
    <3>2. f.about = n /\ f.severity # "info"
      OBVIOUS
    <3> QED BY <2>1, <3>1, <3>2, EvaluatedFindings DEF Claimed
  <2> QED BY <2>2, <2>3, <2>4, <2>5, <2>6
       DEF Failing, CrashLooping, EndedInError, isFlapping, oomTermination
<1> QED BY <1>1, PodInductive, PTL

\* The hand-offs do not overlap either: no container, apart from the sidecars of a Pod
\* that never restarts, is told twice in the words of two rules about one stop.
THEOREM StopsToldOnce == Spec => []OneRulePerStop
<1>1. PodInv => OneRulePerStop
  <2> SUFFICES ASSUME PodInv, NEW n \in ContainerNames, ~SidecarOfFinalPod(n),
                      NEW f \in found, NEW g \in found, NEW ids \in Exclusive,
                      f.about = n, g.about = n, {f.id, g.id} \subseteq ids
               PROVE  f.id = g.id
    BY DEF OneRulePerStop, ToldOnce
  <2> DEFINE c == scenario.pod.containers[n]
             p == scenario.pod
  <2>1. f.id \in ContainerIDs /\ g.id \in ContainerIDs
    BY DEF Exclusive, ContainerIDs
  <2>2. ContainerSymptom(f.id, p, c) /\ ContainerSymptom(g.id, p, c)
    <3>1. ASSUME NEW h \in found, h.id \in ContainerIDs, h.about = n
          PROVE  ContainerSymptom(h.id, p, c)
      <4>1. Symptom(h, snap)
        BY <3>1, FoundSymptom DEF PodInv, ContainerIDs, Certain
      <4> QED BY <3>1, <4>1 DEF Symptom, ContainerIDs, SchedulingIDs, ProbeFailureIDs, snap
    <3> QED BY <2>1, <3>1
  <2>3. c \in Container /\ (p.restartPolicy = "Never" => c.role = "sidecar" \/ c.restarts = 0)
    BY ScenarioFacts DEF PodInv, Lawful
  <2>4. ~(CrashLooping(c) /\ ~IsTerminal(p) /\ EndedInError(p, c))
    BY <2>3 DEF CrashLooping, EndedInError, AwaitingRestart, isFlapping, IsTerminal,
       SidecarOfFinalPod
  <2>5. ~(CrashLooping(c) /\ oomTermination(c))
    BY DEF CrashLooping
  <2>6. ~(EndedInError(p, c) /\ c.state = "running")
    BY DEF EndedInError
  <2>7. ~(CrashLooping(c) /\ c.state = "running" /\ ~isFlapping(c))
    BY DEF CrashLooping
  <2> HIDE DEF c, p
  <2>8. ASSUME NEW id, ContainerSymptom(id, p, c)
        PROVE  /\ id = "POD_CRASH_LOOP" => CrashLooping(c) /\ ~IsTerminal(p)
               /\ id = "POD_CONTAINER_TERMINATED_ERROR" => EndedInError(p, c)
               /\ id = "POD_OOM_KILLED" => oomTermination(c)
               /\ id = "POD_RESTARTED" =>
                    c.state = "running" /\ ~isFlapping(c) /\ ~oomTermination(c)
    BY <2>8 DEF ContainerSymptom
  <2>9. CASE ids = {"POD_CRASH_LOOP", "POD_CONTAINER_TERMINATED_ERROR", "POD_RESTARTED"}
    BY <2>2, <2>4, <2>6, <2>7, <2>8, <2>9
  <2>10. CASE ids = {"POD_CRASH_LOOP", "POD_OOM_KILLED", "POD_RESTARTED"}
    BY <2>2, <2>5, <2>7, <2>8, <2>10
  <2> QED BY <2>9, <2>10 DEF Exclusive
<1> QED BY <1>1, PodInductive, PTL

\* A ready Pod whose failures all lie before the window is no issue, at whatever age,
\* with however many restarts and events, and whichever rules the context cut off.
THEOREM HistoryExcused == Spec => []HistoryIsNoVerdict
<1>1. PodInv => HistoryIsNoVerdict
  <2> SUFFICES ASSUME PodInv, Reported, podIsReady(scenario.pod),
                      \A n \in ContainerNames : /\ Settled(scenario.pod.containers[n])
                                                /\ scenario.pod.containers[n].last # "OOMKilled",
                      \A e \in scenario.events : e.reason = "Unhealthy" /\ e.age > Window
               PROVE  ~IssueFound
    BY DEF HistoryIsNoVerdict
  <2>1. TypeOK /\ FoundInv /\ SymptomInv /\ snap.pod = scenario.pod
    BY DEF PodInv, snap
  <2>2. /\ ~needsNode(scenario.pod) /\ ~needsConfigRefs(scenario.pod, events)
        /\ ~needsClaims(scenario.pod, events)
    <3>1. \A e \in events : e.reason = "Unhealthy"
      BY <2>1 DEF TypeOK
    <3> QED BY <3>1 DEF podIsReady, needsNode, podLooksHealthy, needsConfigRefs, needsClaims,
       Warnings, Settled, ConfigErrors
  <2>3. /\ node = "nil" /\ \A n \in ClaimNames : pvcs[n].exists = "unread"
        /\ missingNames(configMaps) = {} /\ missingNames(secrets) = {}
    BY <2>1, <2>2 DEF SymptomInv, missingNames, TypeOK
  <2>4. scenario.pod.bound /\ ~scenario.pod.evicted /\ ~IsTerminal(scenario.pod)
    BY <2>1, ScenarioFacts DEF Lawful, podIsReady, IsTerminal
  <2>5. ASSUME NEW f \in found PROVE f.severity = "info"
    <3>1. Symptom(f, snap)
      BY <2>1, FoundSymptom
    <3>2. CASE f.id \in ContainerIDs
      <4>1. /\ f.about \in ContainerNames
            /\ ContainerSymptom(f.id, scenario.pod, scenario.pod.containers[f.about])
            /\ f.id = "POD_RESTARTED" => f.severity = "info"
        BY <2>1, <3>1, <3>2 DEF Symptom, ContainerIDs, SchedulingIDs, ProbeFailureIDs
      <4> DEFINE c == scenario.pod.containers[f.about]
      <4>2. c.state = "running" /\ ~isFlapping(c) /\ ~oomTermination(c)
        <5>1. c \in Container /\ Settled(c) /\ c.last # "OOMKilled"
          BY <2>1, <4>1, ScenarioFacts
        <5> QED BY <5>1, WindowAssumption DEF Container, Settled, isFlapping, oomTermination
      <4> HIDE DEF c
      <4>3. ContainerSymptom(f.id, scenario.pod, c)
        BY <4>1 DEF c
      <4>4. f.id = "POD_RESTARTED"
        BY <3>2, <4>2, <4>3 DEF ContainerSymptom, ContainerIDs, CrashLooping, EndedInError,
           ImageWaitReasons, ConfigErrors
      <4> QED BY <4>1, <4>4
    <3>3. CASE f.id \in ProbeFailureIDs
      <4>1. PICK e \in WithReason(events, {"Unhealthy"}), kind \in ProbeKinds :
              f.severity = ProbeSeverity(snap, e, kind)
        BY <3>1, <3>3 DEF Symptom, ContainerIDs, SchedulingIDs, ProbeFailureIDs, snap
      <4>2. e \in scenario.events /\ e.age > Window /\ e.age \in Nat
        <5>1. e \in scenario.events
          BY <2>1, <4>1 DEF TypeOK, WithReason
        <5>2. scenario.events \subseteq Event
          BY <2>1, ScenarioFacts DEF Scenario
        <5> QED BY <5>1, <5>2 DEF Event
      <4>3. e.container \in ContainerNames => scenario.pod.containers[e.container].ready
        BY DEF Settled
      <4>4. ~(e.age <= Window)
        BY <4>2, WindowAssumption
      <4> QED BY <2>1, <4>1, <4>3, <4>4 DEF ProbeSeverity
    <3>4. CASE f.id \notin ContainerIDs \cup ProbeFailureIDs
      <4>1. WithReason(events, {"FailedMount", "FailedAttachVolume"}) = {}
        BY <2>1 DEF WithReason, TypeOK
      <4> QED BY <2>3, <2>4, <3>1, <3>4, <4>1 DEF Symptom, snap
    <3> QED BY <3>2, <3>3, <3>4
  <2>6. status \in {"healthy", "unknown"}
    BY <2>5 DEF PodInv, VerdictInv, DeriveStatus
  <2> QED BY <2>6 DEF IssueFound
<1> QED BY <1>1, PodInductive, PTL

-----------------------------------------------------------------------------
(* A Pod analysis implements the safety part of Analysis *)

\* No analysis of a Pod makes more requests than it may.
LEMMA NeverOverspent == PodInv => Overspent = FALSE
<1> SUFFICES ASSUME PodInv PROVE Overspent = FALSE
  OBVIOUS
<1>1. Len(chain) \in Nat /\ calls \in Nat
  BY DEF PodInv, TypeOK
<1>2. ~Overspent
  BY <1>1 DEF Overspent, PodInv, CostInv, Unremarkable
<1> QED BY <1>2 DEF Overspent

\* What a report calls missing was missing, and counts as an issue.
LEMMA MissingFacts ==
  ASSUME PodInv, NEW m \in Missing
  PROVE  m \in everAbsent /\ status \in {"degraded", "unhealthy"}
<1>1. PICK f \in found : Reported /\ f.id \in DOMAIN Absence /\ m = <<Absence[f.id], f.about>>
  BY DEF Missing
<1>2. m \in everAbsent
  BY <1>1 DEF PodInv, AbsenceInv, NoFalseAbsence
<1>3. f.id \in {"POD_MISSING_CONFIGMAP", "POD_MISSING_SECRET", "POD_PVC_NOT_FOUND"}
  BY <1>1 DEF Absence
<1>4. Symptom(f, snap)
  BY <1>3, FoundSymptom DEF PodInv, Certain
<1>5. f.severity = "critical"
  BY <1>3, <1>4 DEF Symptom, ContainerIDs, SchedulingIDs, ProbeFailureIDs
<1> QED BY <1>1, <1>2, <1>5 DEF PodInv, VerdictInv, DeriveStatus

\* The verdict of a report that stands.
JudgedInv ==
  Reported =>
    /\ status \in {"healthy", "degraded", "unhealthy", "unknown"}
    /\ status = "healthy" => ~Incomplete
    /\ status = "unknown" => Incomplete
    /\ Missing \subseteq everAbsent
    /\ Missing # {} => status \in {"degraded", "unhealthy"}

\* It follows from the reads and the rules.
LEMMA Judged == PodInv => JudgedInv
BY MissingFacts DEF JudgedInv, Incomplete, PodInv, VerdictInv, DeriveStatus

\* Every step of the analysis is a step of Analysis, or none.
LEMMA ContractStep ==
  ASSUME PodInv, PodInv', JudgedInv', Overspent = FALSE, Overspent' = FALSE, [Next]_vars
  PROVE  [Contract!Next]_Contract!vars
<1> USE DEF world, walk, snapshot, verdict, Contract!vars
\* Before the report stands it says nothing.
<1>1. ASSUME pc \notin {"render", "done"}, pc' \notin {"render", "done"},
             UNCHANGED <<everAbsent, status, exit>>
      PROVE  UNCHANGED Contract!vars
  <2>1. ~Reported /\ ~Reported'
    BY <1>1 DEF PodInv, VerdictInv, Reported
  <2>2. /\ Stage = "open" /\ Stage' = "open" /\ Incomplete = FALSE /\ Incomplete' = FALSE
        /\ Missing = {} /\ Missing' = {}
    BY <1>1, <2>1 DEF Stage, Incomplete, Missing
  <2> QED BY <1>1, <2>2
\* The run ends without a report.
<1>2. ASSUME pc \in {"start", "pod"}, pc' = "done", UNCHANGED <<everAbsent, status>>,
             exit' \in {2, 3, 4}, exit' = 3 => <<"pod", "it">> \in everAbsent
      PROVE  Contract!Next
  <2>1. ~Reported /\ ~Reported'
    BY <1>2 DEF PodInv, VerdictInv, Reported
  <2>2. /\ Stage = "open" /\ Stage' = "done" /\ Incomplete = FALSE /\ Incomplete' = FALSE
        /\ Missing = {} /\ Missing' = {}
    BY <1>2, <2>1 DEF Stage, Incomplete, Missing
  <2> QED BY <1>2, <2>2 DEF Contract!Next, Contract!Refuse
<1>3. CASE RejectArguments
  BY <1>2, <1>3 DEF RejectArguments
<1>4. CASE GetPod
  <2>1. CASE pc' = "done"
    <3>1. exit' \in {2, 3, 4}
      BY <1>4, <2>1, ReportErrorFacts DEF GetPod
    <3>2. exit' = 3 => <<"pod", "it">> \in everAbsent
      BY <1>4 DEF GetPod, PodInv, AbsenceInv, NoFalseAbsence
    <3> QED BY <1>2, <1>4, <2>1, <3>1, <3>2 DEF GetPod
  <2>2. CASE pc' # "done"
    BY <1>1, <1>4, <2>2 DEF GetPod
  <2> QED BY <2>1, <2>2
<1>5. CASE \/ Start \/ eventsFor \/ ownerChain \/ Join \/ collectPodNode \/ ReadConfigMap
           \/ ReadSecret \/ ConfigRefsRead \/ ReadClaim \/ storageClassInfo \/ ClaimsRead
           \/ RunRule
  <2>1. pc \notin {"render", "done"} /\ pc' \notin {"render", "done"}
    BY <1>5 DEF Start, eventsFor, ownerChain, Join, collectPodNode, ReadConfigMap, ReadSecret,
       ConfigRefsRead, ReadClaim, storageClassInfo, ClaimsRead, RunRule
  <2>2. UNCHANGED <<everAbsent, status, exit>>
    BY <1>5 DEF Start, eventsFor, ownerChain, Join, collectPodNode, ReadConfigMap, ReadSecret,
       ConfigRefsRead, ReadClaim, storageClassInfo, ClaimsRead, RunRule
  <2> QED BY <1>1, <2>1, <2>2
<1>6. CASE PodReport
  <2>1. Reported' /\ everAbsent' = everAbsent /\ exit' = exit
    BY <1>6 DEF PodReport, Reported, DeriveStatus
  <2>2. Stage = "open" /\ Stage' = "judged" /\ Incomplete' \in BOOLEAN
    BY <1>6 DEF PodReport, Stage, Incomplete, Reported
  <2> QED BY <2>1, <2>2 DEF JudgedInv, Contract!Next, Contract!Judge
<1>7. CASE Render
  <2>1. Incomplete' = Incomplete /\ Missing' = Missing
    BY <1>7 DEF Render, Incomplete, Missing, Reported
  <2>2. Stage = "judged" /\ Stage' = "done"
    BY <1>7 DEF Render, Stage
  <2>3. exit' \in {2, IF status \in {"degraded", "unhealthy"} THEN 1 ELSE 0}
    BY <1>7 DEF Render, IssueFound
  <2> QED BY <1>7, <2>1, <2>2, <2>3 DEF Render, Contract!Next, Contract!Exit
<1>8. CASE Drift
  <2>1. everAbsent \subseteq everAbsent' /\ pc # "done"
    BY <1>8 DEF Drift
  <2>2. Incomplete' = Incomplete /\ Missing' = Missing /\ Stage' = Stage /\ Stage # "done"
    BY <1>8 DEF Drift, Incomplete, Missing, Reported, Stage
  <2> QED BY <1>8, <2>1, <2>2 DEF Drift, Contract!Next, Contract!Vanish
<1>9. CASE Expire \/ UNCHANGED vars
  <2>1. UNCHANGED <<everAbsent, pc, degradations, found, status, exit>>
    BY <1>9 DEF Expire, vars
  <2>2. Incomplete' = Incomplete /\ Missing' = Missing /\ Stage' = Stage
    BY <2>1 DEF Incomplete, Missing, Reported, Stage
  <2> QED BY <2>1, <2>2
<1> QED BY <1>3, <1>4, <1>5, <1>6, <1>7, <1>8, <1>9 DEF Next, Step, Terminated

\* For any Pod, any chain or cycle of owners and any failures, an analysis keeps the
\* safety part of the contract all analyses share: it judges once, calls nothing
\* missing that was not, is healthy only without a degradation, exits as its verdict
\* says and makes no request that no symptom calls for.
THEOREM ContractSafe == Spec => Contract!Safety
<1>1. Init => Contract!Init
  <2> SUFFICES ASSUME Init PROVE Contract!Init
    OBVIOUS
  <2>1. ~Reported /\ Stage = "open"
    BY DEF Init, Reported, Stage
  <2>2. Incomplete = FALSE /\ Missing = {}
    BY <2>1 DEF Incomplete, Missing
  <2>3. Overspent = FALSE
    BY DEF Init, Overspent
  <2> QED BY <2>1, <2>2, <2>3 DEF Init, Contract!Init
<1>2. PodInv => (Overspent = FALSE)
  BY NeverOverspent
<1>3. /\ PodInv /\ PodInv' /\ JudgedInv' /\ Overspent = FALSE /\ (Overspent = FALSE)'
      /\ [Next]_vars
      => [Contract!Next]_Contract!vars
  BY ContractStep
<1> QED BY <1>1, <1>2, <1>3, PodInductive, Judged, PTL DEF Spec, Contract!Safety

-----------------------------------------------------------------------------
(* The engine on its own: diagnosis.Evaluate, which every analysis calls, with any
   rules and findings and with the context ending at any moment *)

\* The sum of the sizes of two sets that share nothing.
LEMMA DisjointSizes ==
  ASSUME NEW A, NEW B, IsFiniteSet(A), IsFiniteSet(B), \A x \in A : x \notin B
  PROVE  IsFiniteSet(A \cup B) /\ Cardinality(A \cup B) = Cardinality(A) + Cardinality(B)
<1>1. A \cap B = {}
  OBVIOUS
<1>2. /\ IsFiniteSet(A \cup B)
      /\ Cardinality(A \cup B) = Cardinality(A) + Cardinality(B) - Cardinality(A \cap B)
  BY FS_Union
<1>3. Cardinality(A \cap B) = 0
  BY <1>1, FS_EmptySet
<1>4. Cardinality(A) \in Nat /\ Cardinality(B) \in Nat
  BY FS_CardinalityType
<1> QED BY <1>2, <1>3, <1>4

\* Sets that a one-to-one map relates have the same size.
LEMMA SameSize ==
  ASSUME NEW A, NEW B, IsFiniteSet(A), NEW f \in [A -> B],
         \A x, y \in A : f[x] = f[y] => x = y,
         \A b \in B : \E x \in A : f[x] = b
  PROVE  IsFiniteSet(B) /\ Cardinality(B) = Cardinality(A)
<1>1. f \in Bijection(A, B)
  BY DEF Bijection, Injection, IsInjective, Surjection
<1> QED BY <1>1, FS_Bijection DEF ExistsBijection

\* A finding occurs in two lists put together as often as in both.
LEMMA OccurrencesConcat ==
  ASSUME NEW S, NEW s \in Seq(S), NEW t \in Seq(S), NEW d
  PROVE  Occurrences(s \o t, d) = Occurrences(s, d) + Occurrences(t, d)
<1> DEFINE A == {i \in DOMAIN s : s[i] = d}
           T == {i \in DOMAIN t : t[i] = d}
           B == {i \in DOMAIN (s \o t) : (s \o t)[i] = d /\ i > Len(s)}
           f == [i \in T |-> i + Len(s)]
<1>1. IsFiniteSet(A) /\ IsFiniteSet(T)
  BY PositionsFinite, FS_Subset
<1>2. /\ Len(s) \in Nat /\ Len(t) \in Nat /\ s \o t \in Seq(S)
      /\ DOMAIN s = 1..Len(s) /\ DOMAIN t = 1..Len(t)
      /\ DOMAIN (s \o t) = 1..(Len(s) + Len(t))
      /\ \A i \in 1..Len(s) : (s \o t)[i] = s[i]
      /\ \A i \in 1..Len(t) : (s \o t)[i + Len(s)] = t[i]
  OBVIOUS
<1>3. f \in [T -> B]
  BY <1>2
<1>4. \A x, y \in T : f[x] = f[y] => x = y
  BY <1>2
<1>5. ASSUME NEW b \in B PROVE \E x \in T : f[x] = b
  <2>1. b - Len(s) \in 1..Len(t) /\ (b - Len(s)) + Len(s) = b
    BY <1>2
  <2>2. b - Len(s) \in T
    BY <1>2, <2>1
  <2> QED BY <2>1, <2>2
<1>6. IsFiniteSet(B) /\ Cardinality(B) = Cardinality(T)
  <2> HIDE DEF f, B, T
  <2> QED BY <1>1, <1>3, <1>4, <1>5, SameSize
<1>7. \A x \in A : x \notin B
  BY <1>2
<1>8. {i \in DOMAIN (s \o t) : (s \o t)[i] = d} = A \cup B
  BY <1>2
<1> HIDE DEF A, B, T
<1>9. Cardinality(A \cup B) = Cardinality(A) + Cardinality(T)
  BY <1>1, <1>6, <1>7, DisjointSizes
<1> QED BY <1>8, <1>9 DEF Occurrences, A, T

\* What the rules before rule n + 1 found is what those before rule n found and what
\* rule n found.
LEMMA FoundByNextRule ==
  ASSUME outputs \in [1..RuleCount -> RuleOutputs],
         NEW n \in 1..RuleCount, NEW d
  PROVE  FoundBefore(n + 1, d) = FoundBefore(n, d) + Occurrences(outputs[n], d)
<1> DEFINE Found(p) == p[2] \in DOMAIN outputs[p[1]] /\ outputs[p[1]][p[2]] = d
           A == {p \in (1..(n - 1)) \X (1..MaxPerRule) : Found(p)}
           B == {p \in {n} \X (1..MaxPerRule) : Found(p)}
           T == {i \in DOMAIN outputs[n] : outputs[n][i] = d}
           f == [i \in T |-> <<n, i>>]
<1>1. RuleCount \in Nat /\ MaxPerRule \in Nat /\ n \in Nat
  BY EngineAssumption
<1>2. PICK m \in 0..MaxPerRule : outputs[n] \in [1..m -> Findings]
  BY DEF RuleOutputs
<1>3. DOMAIN outputs[n] = 1..m /\ 1..m \subseteq 1..MaxPerRule
  BY <1>1, <1>2
<1>4. IsFiniteSet(T)
  <2>1. IsFiniteSet(1..m) /\ T \in SUBSET (1..m)
    BY <1>1, <1>3, FS_Interval
  <2> QED BY <2>1, FS_Subset
<1>5. IsFiniteSet(A)
  <2>1. IsFiniteSet(1..(n - 1)) /\ IsFiniteSet(1..MaxPerRule)
    BY <1>1, FS_Interval
  <2>2. IsFiniteSet((1..(n - 1)) \X (1..MaxPerRule))
    BY <2>1, FS_Product
  <2> QED BY <2>2, FS_Subset
<1>6. f \in [T -> B]
  BY <1>3
<1>7. \A x, y \in T : f[x] = f[y] => x = y
  OBVIOUS
<1>8. ASSUME NEW b \in B PROVE \E x \in T : f[x] = b
  <2>1. b[1] = n /\ b = <<n, b[2]>> /\ b[2] \in T
    BY <1>3
  <2> QED BY <2>1
<1>9. IsFiniteSet(B) /\ Cardinality(B) = Cardinality(T)
  <2> HIDE DEF f, B, T
  <2> QED BY <1>4, <1>6, <1>7, <1>8, SameSize
<1>10. \A x \in A : x \notin B
  BY <1>1
<1>11. {p \in (1..((n + 1) - 1)) \X (1..MaxPerRule) : Found(p)} = A \cup B
  <2>1. 1..((n + 1) - 1) = (1..(n - 1)) \cup {n}
    BY <1>1
  <2> QED BY <2>1
<1>12. Cardinality(A \cup B) = Cardinality(A) + Cardinality(T)
  <2> HIDE DEF A, B, T
  <2> QED BY <1>5, <1>9, <1>10, DisjointSizes
<1> QED BY <1>11, <1>12 DEF FoundBefore, Occurrences

-----------------------------------------------------------------------------
(* The loop *)

\* The list the loop builds holds each finding as often as the rules that have run
\* found it, which is what makes NothingLost inductive; the report is that list, sorted.
EngineInv ==
  /\ outputs \in [1..RuleCount -> RuleOutputs]
  /\ rule \in 1..(RuleCount + 1)
  /\ out \in Seq(Findings)
  /\ \A d \in Findings : Occurrences(out, d) = FoundBefore(rule, d)
  /\ loop = "done" => sorted = Prioritize(out) /\ (rule > RuleCount \/ cancelled)

\* Nothing has been found before the first rule runs.
LEMMA FoundInitially == EngineInit => EngineInv
<1> SUFFICES ASSUME EngineInit PROVE EngineInv
  OBVIOUS
<1>1. out \in Seq(Findings) /\ DOMAIN out = {}
  BY DEF EngineInit
<1>2. rule \in 1..(RuleCount + 1)
  BY EngineAssumption DEF EngineInit
<1>3. ASSUME NEW d \in Findings PROVE Occurrences(out, d) = FoundBefore(rule, d)
  <2>1. {i \in DOMAIN out : out[i] = d} = {}
    BY <1>1
  <2>2. {p \in (1..(rule - 1)) \X (1..MaxPerRule) :
           p[2] \in DOMAIN outputs[p[1]] /\ outputs[p[1]][p[2]] = d} = {}
    BY DEF EngineInit
  <2> QED BY <2>1, <2>2 DEF Occurrences, FoundBefore
<1> QED BY <1>1, <1>2, <1>3 DEF EngineInit, EngineInv

\* One more rule, the end of the loop and the end of the context keep the count.
LEMMA FoundPreserved == EngineInv /\ [EngineNext]_engineVars => EngineInv'
<1> SUFFICES ASSUME EngineInv, [EngineNext]_engineVars PROVE EngineInv'
  OBVIOUS
<1> USE DEF EngineInv
<1>1. CASE EvaluateRule
  <2>1. rule \in 1..RuleCount /\ rule' = rule + 1 /\ out' = out \o outputs[rule]
        /\ outputs' = outputs /\ loop' # "done"
    BY <1>1, EngineAssumption DEF EvaluateRule
  <2>2. outputs[rule] \in Seq(Findings)
    <3>1. outputs[rule] \in UNION {[1..n -> Findings] : n \in 0..MaxPerRule}
      BY <2>1 DEF RuleOutputs
    <3>2. PICK m \in 0..MaxPerRule : outputs[rule] \in [1..m -> Findings]
      BY <3>1
    <3>3. m \in Nat
      BY <3>2, EngineAssumption
    <3> QED BY <3>2, <3>3
  <2>3. ASSUME NEW d \in Findings PROVE Occurrences(out, d)' = FoundBefore(rule, d)'
    <3>1. Occurrences(out \o outputs[rule], d)
            = Occurrences(out, d) + Occurrences(outputs[rule], d)
      BY <2>2, OccurrencesConcat
    <3>2. FoundBefore(rule + 1, d)
            = FoundBefore(rule, d) + Occurrences(outputs[rule], d)
      BY <2>1, FoundByNextRule
    <3>3. Occurrences(out, d)' = Occurrences(out \o outputs[rule], d)
      BY <2>1 DEF Occurrences
    <3>4. FoundBefore(rule, d)' = FoundBefore(rule + 1, d)
      BY <2>1 DEF FoundBefore
    <3> QED BY <3>1, <3>2, <3>3, <3>4
  <2>4. rule' \in 1..(RuleCount + 1) /\ out' \in Seq(Findings)
    BY <2>1, <2>2, EngineAssumption
  <2> QED BY <2>1, <2>3, <2>4
<1>2. ASSUME UNCHANGED <<outputs, rule, out>>, NEW d \in Findings
      PROVE  Occurrences(out, d)' = FoundBefore(rule, d)'
  BY <1>2 DEF Occurrences, FoundBefore
<1>3. CASE Cancel
  BY <1>2, <1>3 DEF Cancel
<1>4. CASE ReturnReport
  <2>1. UNCHANGED <<outputs, cancelled, rule, out>> /\ sorted' = Prioritize(out)'
        /\ (rule > RuleCount \/ cancelled)
    <3>1. UNCHANGED <<outputs, cancelled, rule, out>> /\ sorted' = Prioritize(out)
          /\ (rule > RuleCount \/ cancelled)
      BY <1>4 DEF ReturnReport
    <3> QED BY <3>1 DEF Prioritize, Place, Precedes, Less, Causes
  <2> QED BY <1>2, <2>1
<1>5. CASE UNCHANGED engineVars
  <2>1. UNCHANGED <<outputs, cancelled, rule, out, sorted, loop>> /\ Prioritize(out)' = Prioritize(out)
    BY <1>5 DEF engineVars, Prioritize, Place, Precedes, Less, Causes
  <2> QED BY <1>2, <2>1
<1> QED BY <1>1, <1>3, <1>4, <1>5 DEF EngineNext, Returned

\* A sorted list holds what the list holds, as often.
LEMMA SortedCounts ==
  ASSUME NEW S, NEW in \in Seq(S), Rankable(in), NEW d
  PROVE  Occurrences(Prioritize(in), d) = Occurrences(in, d)
<1>1. DOMAIN Prioritize(in) = DOMAIN in
  BY PrioritizeAt
<1>2. Cardinality({k \in DOMAIN in : Prioritize(in)[k] = d})
        = Cardinality({i \in DOMAIN in : in[i] = d})
  BY PrioritizeCounts
<1> QED BY <1>1, <1>2 DEF Occurrences

\* What a rule finds can be ranked.
LEMMA FindingsRankable ==
  ASSUME NEW in \in Seq(Findings)
  PROVE  Rankable(in) /\ \A i \in DOMAIN in : in[i] \in Findings /\ in[i].id # NoCause
<1>1. \A i \in DOMAIN in : in[i] \in Findings
  OBVIOUS
<1> QED BY <1>1, EngineAssumption DEF Rankable

\* The report lists every finding exactly as often as the rules that ran made it, and
\* only the context keeps a rule from running: engine.go:8-10 for any rules.
THEOREM ReportComplete == EngineSpec => []NothingLost
<1>1. EngineInv => NothingLost
  <2> SUFFICES ASSUME EngineInv, loop = "done", NEW d \in Findings
               PROVE  Occurrences(sorted, d) = FoundBefore(rule, d)
    BY DEF NothingLost, EngineInv
  <2>1. out \in Seq(Findings) /\ Rankable(out) /\ sorted = Prioritize(out)
    BY FindingsRankable DEF EngineInv
  <2>2. Occurrences(sorted, d) = Occurrences(out, d)
    BY <2>1, SortedCounts
  <2> QED BY <2>2 DEF EngineInv
<1> QED BY <1>1, FoundInitially, FoundPreserved, PTL DEF EngineSpec

\* The weight of a finding is its role in the list: explanation, explained, neither.
LEMMA WeightIsRole ==
  ASSUME NEW list \in Seq(Findings), NEW i \in DOMAIN list
  PROVE  Weight(list[i], Causes(list))
           = IF Explaining(list, i) THEN 0 ELSE IF Explained(list, i) THEN 2 ELSE 1
<1>1. list[i].id # NoCause
  BY FindingsRankable
<1>2. list[i].id \in Causes(list) <=> Explaining(list, i)
  BY <1>1 DEF Causes, Explaining
<1> QED BY <1>2 DEF Weight, Explained

\* A finding that explains nothing comes out after every explanation, and after
\* everything unexplained if it is explained itself, whatever explains what.
LEMMA ExplanationsFirst ==
  ASSUME EngineInv
  PROVE  CauseFirstInTier
<1> SUFFICES ASSUME loop = "done", NEW i \in DOMAIN sorted, NEW j \in DOMAIN sorted,
                    sorted[i].severity = sorted[j].severity, ~Explaining(sorted, j)
             PROVE  /\ Explaining(sorted, i) => i < j
                    /\ Explained(sorted, j) /\ ~Explained(sorted, i) => i < j
                    /\ sorted[j].causedBy = sorted[i].id
                         => Heading(sorted, j) = "CONSEQUENCE"
  BY DEF CauseFirstInTier
<1>1. out \in Seq(Findings) /\ Rankable(out) /\ sorted = Prioritize(out)
  BY FindingsRankable DEF EngineInv
<1>2. sorted \in Seq(Findings) /\ DOMAIN sorted = DOMAIN out /\ Causes(sorted) = Causes(out)
  BY <1>1, PrioritizeAt, PrioritizeKeeps
<1>3. /\ Weight(sorted[i], Causes(out))
           = IF Explaining(sorted, i) THEN 0 ELSE IF Explained(sorted, i) THEN 2 ELSE 1
      /\ Weight(sorted[j], Causes(out)) = IF Explained(sorted, j) THEN 2 ELSE 1
  BY <1>2, WeightIsRole
<1>4. ASSUME Weight(sorted[i], Causes(out)) < Weight(sorted[j], Causes(out)) PROVE i < j
  <2>1. Less(sorted[i], sorted[j], Causes(out))
    BY <1>4 DEF Less
  <2> QED BY <1>1, <1>2, <2>1, PrioritizeSorted
<1>5. Explaining(sorted, i) => i < j
  BY <1>3, <1>4
<1>6. Explained(sorted, j) /\ ~Explained(sorted, i) => i < j
  BY <1>3, <1>4
<1>7. ASSUME sorted[j].causedBy = sorted[i].id PROVE Heading(sorted, j) = "CONSEQUENCE"
  <2>1. i < j
    BY <1>5, <1>7 DEF Explaining
  <2>2. i \in 1..(j - 1)
    BY <1>2, <2>1
  <2> QED BY <1>7, <2>2 DEF Heading
<1> QED BY <1>5, <1>6, <1>7

\* Findings of one severity and one role come out the more confident first.
LEMMA ConfidentFirst ==
  ASSUME EngineInv
  PROVE  ConfidentFirstInRole
<1> SUFFICES ASSUME loop = "done", NEW i \in DOMAIN sorted, NEW j \in DOMAIN sorted,
                    sorted[i].severity = sorted[j].severity, SameRole(sorted, i, j),
                    ConfidenceRank[sorted[i].confidence]
                      < ConfidenceRank[sorted[j].confidence]
             PROVE  i < j
  BY DEF ConfidentFirstInRole
<1>1. out \in Seq(Findings) /\ Rankable(out) /\ sorted = Prioritize(out)
  BY FindingsRankable DEF EngineInv
<1>2. sorted \in Seq(Findings) /\ DOMAIN sorted = DOMAIN out /\ Causes(sorted) = Causes(out)
  BY <1>1, PrioritizeAt, PrioritizeKeeps
<1>3. Weight(sorted[i], Causes(out)) = Weight(sorted[j], Causes(out))
  BY <1>2, WeightIsRole DEF SameRole
<1>4. Less(sorted[i], sorted[j], Causes(out))
  BY <1>3 DEF Less
<1> QED BY <1>1, <1>2, <1>4, PrioritizeSorted

\* A finding that occurs once comes out where its position does.
LEMMA OnceIsAt ==
  ASSUME NEW S, NEW in \in Seq(S), Rankable(in), NEW i \in DOMAIN in, NEW k \in DOMAIN in,
         Occurrences(in, in[i]) = 1, Prioritize(in)[k] = in[i]
  PROVE  At(in, k) = i
<1>1. At(in, k) \in DOMAIN in /\ in[At(in, k)] = in[i]
  BY AtPlace, PrioritizeAt
<1> DEFINE A == {m \in DOMAIN in : in[m] = in[i]}
<1>2. IsFiniteSet(A) /\ Cardinality(A) = 1
  BY PositionsFinite, FS_Subset DEF Occurrences
<1>3. \E x : A = {x}
  BY <1>2, FS_Singleton
<1>4. i \in A /\ At(in, k) \in A
  BY <1>1
<1> QED BY <1>3, <1>4

\* Findings that agree in severity, role and confidence come out in the order their
\* rules ran.
LEMMA EqualsInOrder ==
  ASSUME EngineInv
  PROVE  RegistrationOrderInRole
<1> SUFFICES ASSUME loop = "done", NEW i \in DOMAIN out, NEW j \in DOMAIN out,
                    NEW k \in DOMAIN sorted, NEW m \in DOMAIN sorted,
                    i < j, out[i] = sorted[k], out[j] = sorted[m],
                    Occurrences(out, out[i]) = 1, Occurrences(out, out[j]) = 1,
                    out[i].severity = out[j].severity, SameRole(out, i, j),
                    out[i].confidence = out[j].confidence
             PROVE  k < m
  BY DEF RegistrationOrderInRole
<1>1. out \in Seq(Findings) /\ Rankable(out) /\ sorted = Prioritize(out)
  BY FindingsRankable DEF EngineInv
<1>2. DOMAIN sorted = DOMAIN out
  BY <1>1, PrioritizeAt
<1>3. At(out, k) = i /\ At(out, m) = j
  BY <1>1, <1>2, OnceIsAt
<1>4. Weight(out[i], Causes(out)) = Weight(out[j], Causes(out))
  BY <1>1, WeightIsRole DEF SameRole
<1>5. Rank(out[i], Causes(out)) = Rank(out[j], Causes(out))
  BY <1>4 DEF Rank
<1>6. Precedes(out, i, j)
  BY <1>1, <1>5, PrecedesIsRank
<1> QED BY <1>1, <1>2, <1>3, <1>6, AtPlace

\* Within a severity the report puts explanations first and what is only explained
\* last, the more confident first within a role, and keeps the rules' order among
\* equals: engine.go:22-35 for any rules, findings and graph of causes.
THEOREM TierOrdered == EngineSpec => []OrderInTier
<1>1. EngineInv => OrderInTier
  BY ExplanationsFirst, ConfidentFirst, EqualsInOrder DEF OrderInTier
<1> QED BY <1>1, FoundInitially, FoundPreserved, PTL DEF EngineSpec

-----------------------------------------------------------------------------
(* The events on their own: what eventsFor and Dedup leave of any list that the API
   server may hold, whatever the limit of a page *)

\* The larger and the smaller of two numbers.
LEMMA MaxMinOfTwo ==
  ASSUME NEW a \in Nat, NEW b \in Nat
  PROVE  /\ Max({a, b}) \in Nat
         /\ Min({a, b}) \in {a, b} /\ Min({a, b}) <= a /\ Min({a, b}) <= b
<1>1. \E x \in {a, b} : \A y \in {a, b} : x >= y
  <2>1. CASE a >= b
    BY <2>1
  <2>2. CASE b >= a
    BY <2>2
  <2> QED BY <2>1, <2>2
<1>2. Max({a, b}) \in {a, b}
  BY <1>1 DEF Max
<1>3. \E x \in {a, b} : \A y \in {a, b} : x =< y
  <2>1. CASE a <= b
    BY <2>1
  <2>2. CASE b <= a
    BY <2>2
  <2> QED BY <2>1, <2>2
<1>4. Min({a, b}) \in {a, b} /\ \A y \in {a, b} : Min({a, b}) =< y
  BY <1>3 DEF Min
<1> QED BY <1>2, <1>4

\* The largest and the smallest number of a set.
LEMMA MaxMinOfSet ==
  ASSUME NEW T \in SUBSET Nat, NEW x \in T
  PROVE  /\ (\A y \in T : y <= x) => x = Max(T)
         /\ (\A y \in T : x <= y) => x = Min(T)
<1>1. ASSUME \A y \in T : y <= x PROVE x = Max(T)
  <2>1. \A y \in T : x >= y
    BY <1>1
  <2>2. Max(T) \in T /\ \A y \in T : Max(T) >= y
    BY <2>1 DEF Max
  <2>3. ASSUME NEW y \in T, \A z \in T : y >= z PROVE x = y
    BY <2>1, <2>3
  <2> QED BY <2>2, <2>3
<1>2. ASSUME \A y \in T : x <= y PROVE x = Min(T)
  <2>1. Min(T) \in T /\ \A y \in T : Min(T) =< y
    BY <1>2 DEF Min
  <2>2. ASSUME NEW y \in T, \A z \in T : y =< z PROVE x = y
    BY <1>2, <2>2
  <2> QED BY <2>1, <2>2
<1> QED BY <1>1, <1>2

\* What a sort puts at each place is an element, each element has a place, and the places
\* are along the order.
LEMMA InOrderPlaces ==
  ASSUME NEW S, IsFiniteSet(S), NEW R, OrderOn(S, R)
  PROVE  /\ DOMAIN InOrder(S, R) = 1..Cardinality(S) /\ Cardinality(S) \in Nat
         /\ \A k \in 1..Cardinality(S) : InOrder(S, R)[k] \in S
         /\ \A x \in S : \E k \in 1..Cardinality(S) : InOrder(S, R)[k] = x
         /\ \A k, m \in 1..Cardinality(S) :
              k < m => <<InOrder(S, R)[k], InOrder(S, R)[m]>> \in R
<1>1. ASSUME NEW k \in 1..Cardinality(S) PROVE InOrder(S, R)[k] = Nth(S, R, k)
  BY DEF InOrder, Nth, Before
<1>2. DOMAIN InOrder(S, R) = 1..Cardinality(S)
  BY DEF InOrder
<1> HIDE DEF InOrder
<1> QED BY <1>1, <1>2, Numbering, FS_CardinalityType

\* The recorded events that the request is for.
Picked == {stored[i] : i \in {j \in DOMAIN stored : Selected(stored[j])}}

\* The first page holds such events, and all of them unless there are more than a page.
LEMMA PageIsRecorded ==
  ASSUME stored \in Recorded
  PROVE  /\ FirstPage \in Seq(Picked)
         /\ Len(Matched) <= EventLimit =>
              \A e \in Picked : \E p \in DOMAIN FirstPage : FirstPage[p] = e
<1> DEFINE P == {i \in DOMAIN stored : Selected(stored[i])}
           R == {p \in P \X P : p[1] < p[2]}
           places == InOrder(P, R)
<1>1. stored \in Seq(ToSet(stored)) /\ EventLimit \in Nat
  BY EventsAssumption
<1>2. IsFiniteSet(DOMAIN stored) /\ DOMAIN stored = 1..Len(stored) /\ Len(stored) \in Nat
  BY <1>1, PositionsFinite
<1>3. P \in SUBSET (DOMAIN stored) /\ IsFiniteSet(P) /\ P \in SUBSET Nat
  BY <1>2, FS_Subset
<1>4. OrderOn(P, R)
  <2> HIDE DEF P
  <2> QED BY <1>3 DEF OrderOn
<1>5. /\ DOMAIN places = 1..Cardinality(P) /\ Cardinality(P) \in Nat
      /\ \A k \in 1..Cardinality(P) : places[k] \in P
      /\ \A i \in P : \E k \in 1..Cardinality(P) : places[k] = i
  <2> HIDE DEF P, R
  <2> QED BY <1>3, <1>4, InOrderPlaces
<1>6. Matched = [k \in DOMAIN places |-> stored[places[k]]]
  BY DEF Matched, Ascending
<1>7. Picked = {stored[i] : i \in P}
  BY DEF Picked
<1> HIDE DEF P, R, places
<1>8. \A k \in 1..Cardinality(P) : stored[places[k]] \in Picked
  BY <1>5, <1>7
<1>9. \A e \in Picked : \E k \in 1..Cardinality(P) : stored[places[k]] = e
  BY <1>5, <1>7
<1>10. /\ Matched \in Seq(Picked) /\ Len(Matched) = Cardinality(P) /\ Len(Matched) \in Nat
       /\ \A k \in 1..Cardinality(P) : Matched[k] = stored[places[k]]
  BY <1>5, <1>6, <1>8
<1>11. PICK n \in Nat : /\ n = Min({EventLimit, Len(Matched)}) /\ n <= Len(Matched)
                        /\ n = EventLimit \/ n = Len(Matched)
  BY <1>1, <1>10, MaxMinOfTwo
<1>12. /\ FirstPage \in Seq(Picked) /\ Len(FirstPage) = n
       /\ \A k \in 1..n : FirstPage[k] = Matched[k]
  <2>1. FirstPage = SubSeq(Matched, 1, n)
    BY <1>11 DEF FirstPage
  <2>2. PICK M \in Seq(Picked) : M = Matched
    BY <1>10
  <2>3. n \in 0..Len(M)
    BY <1>11, <2>2
  <2>4. /\ SubSeq(M, 1, n) \in Seq(Picked) /\ Len(SubSeq(M, 1, n)) = n
        /\ \A k \in 1..n : SubSeq(M, 1, n)[k] = M[k]
    BY <2>3
  <2> QED BY <2>1, <2>2, <2>4
<1>13. ASSUME Len(Matched) <= EventLimit, NEW e \in Picked
       PROVE  \E p \in DOMAIN FirstPage : FirstPage[p] = e
  <2>1. n = Cardinality(P)
    BY <1>1, <1>10, <1>11, <1>13
  <2> QED BY <1>9, <1>10, <1>12, <2>1
<1> QED BY <1>12, <1>13

\* The events as the rules see them, of what stored says.
Shape ==
  [reason : {stored[i].reason : i \in DOMAIN stored},
   message : {TrimSpace(stored[i].message) : i \in DOMAIN stored},
   field : {stored[i].field : i \in DOMAIN stored},
   count : Nat, first : Nat, last : Nat]

\* Its numbers.
LEMMA ShapeNumbers ==
  ASSUME NEW x \in Shape
  PROVE  x.count \in Nat /\ x.first \in Nat /\ x.last \in Nat
BY DEF Shape

\* Whichever API recorded an event, it is told with what it says and at a time it has.
LEMMA NormalIsRecorded ==
  ASSUME stored \in Recorded, NEW i \in DOMAIN stored
  PROVE  /\ normalizeEvent(stored[i]) \in Shape
         /\ EventKey(normalizeEvent(stored[i])) = Says(i)
         /\ normalizeEvent(stored[i]).last \in Times(stored[i]) \cup {NoTime}
<1> DEFINE e == stored[i]
<1>1. /\ e.count \in Nat /\ e.first \in Nat /\ e.last \in Nat /\ e.time \in Nat
      /\ e.series # <<>> => e.series.count \in Nat /\ e.series.last \in Nat
  BY EventsAssumption
<1>2. PICK first \in Nat : first = IF e.first = NoTime THEN e.time ELSE e.first
  BY <1>1
<1>3. PICK last \in Nat : last = IF e.series # <<>> THEN e.series.last ELSE e.last
  BY <1>1
<1>4. PICK count \in Nat : count = IF e.series # <<>> THEN e.series.count
                                   ELSE IF e.count = 0 THEN 1 ELSE e.count
  BY <1>1
<1>5. PICK at \in Nat : at = IF last = NoTime THEN first ELSE last
  OBVIOUS
<1>6. normalizeEvent(e) = [reason |-> e.reason, message |-> TrimSpace(e.message),
                           field |-> e.field, count |-> count, first |-> first, last |-> at]
  BY <1>2, <1>3, <1>4, <1>5 DEF normalizeEvent
<1>7. at \in Times(e) \cup {NoTime}
  BY <1>2, <1>3, <1>5 DEF Times
<1> QED BY <1>6, <1>7 DEF Shape, EventKey, Says

\* When the times are those of one of the three shapes, it is told from the earliest of
\* them to the latest.
LEMMA NormalIsDated ==
  ASSUME stored \in Recorded, NEW i \in DOMAIN stored
  PROVE  /\ Times(stored[i]) \in SUBSET Nat
         /\ normalizeEvent(stored[i]).last \in Times(stored[i])
         /\ normalizeEvent(stored[i]).first \in Times(stored[i])
         /\ \A t \in Times(stored[i]) : /\ t <= normalizeEvent(stored[i]).last
                                        /\ normalizeEvent(stored[i]).first <= t
<1> DEFINE e == stored[i]
<1>1. /\ e.first \in Nat /\ e.last \in Nat /\ e.time \in Nat
      /\ e.series # <<>> => e.series.last \in Nat
  BY EventsAssumption
<1>2. PICK first \in Nat : first = IF e.first = NoTime THEN e.time ELSE e.first
  BY <1>1
<1>3. PICK last \in Nat : last = IF e.series # <<>> THEN e.series.last ELSE e.last
  BY <1>1
<1>4. PICK at \in Nat : at = IF last = NoTime THEN first ELSE last
  OBVIOUS
<1>5. normalizeEvent(e).first = first /\ normalizeEvent(e).last = at
  BY <1>2, <1>3, <1>4 DEF normalizeEvent
<1>6. \/ e.time = NoTime /\ e.series = <<>> /\ e.first # NoTime /\ e.first <= e.last
      \/ /\ e.time # NoTime /\ e.first = NoTime /\ e.last = NoTime
         /\ e.series # <<>> => e.time <= e.series.last
  BY ShapesAssumption
<1>7. /\ Times(e) \in SUBSET Nat /\ at \in Times(e) /\ first \in Times(e)
      /\ \A t \in Times(e) : t <= at /\ first <= t
  <2>1. CASE e.series = <<>>
    <3>1. Times(e) = {e.first, e.last, e.time} \ {0}
      BY <2>1 DEF Times, NoTime
    <3> QED BY <1>1, <1>2, <1>3, <1>4, <1>6, <2>1, <3>1 DEF NoTime
  <2>2. CASE e.series # <<>>
    <3>1. Times(e) = {e.first, e.last, e.time, e.series.last} \ {0}
      BY <2>2 DEF Times, NoTime
    <3> QED BY <1>1, <1>2, <1>3, <1>4, <1>6, <2>2, <3>1 DEF NoTime
  <2> QED BY <2>1, <2>2
<1> QED BY <1>5, <1>7

\* The events that pass matchesObject are the ones about the object.
LEMMA MatchesIsAbout ==
  ASSUME stored \in Recorded, hasUID \in BOOLEAN, NEW i \in DOMAIN stored
  PROVE  matchesObject(stored[i]) <=> About(stored[i])
<1>1. stored[i].uid \in {"same", "other", "none"}
  BY EventsAssumption
<1> QED BY <1>1 DEF matchesObject, About

\* The stable order by recency is one, and the sort leaves the events in it.
LEMMA SortRecent ==
  ASSUME NEW S, NEW es \in Seq(S), \A x \in S : x.last \in Nat
  PROVE  /\ Sort(es) \in Seq(S) /\ Len(Sort(es)) = Len(es)
         /\ \A k \in DOMAIN es : \E m \in DOMAIN es : Sort(es)[m] = es[k]
         /\ \A k, m \in DOMAIN es : k <= m => Sort(es)[k].last >= Sort(es)[m].last
<1> DEFINE D == DOMAIN es
           R == Recency(es)
           order == InOrder(D, R)
           last == [i \in D |-> es[i].last]
<1>1. D = 1..Len(es) /\ Len(es) \in Nat /\ IsFiniteSet(D) /\ Cardinality(D) = Len(es)
  BY PositionsFinite
<1>2. \A i \in D : last[i] \in Nat /\ i \in Nat /\ last[i] = es[i].last /\ es[i] \in S
  OBVIOUS
<1>3. \A i, j \in D : <<i, j>> \in R <=> last[i] > last[j] \/ (last[i] = last[j] /\ i < j)
  BY DEF Recency
<1>4. OrderOn(D, R)
  <2> HIDE DEF D, R, last
  <2> QED BY <1>2, <1>3 DEF OrderOn
<1>5. /\ DOMAIN order = D
      /\ \A k \in D : order[k] \in D
      /\ \A k \in D : \E m \in D : order[m] = k
      /\ \A k, m \in D : k < m => <<order[k], order[m]>> \in R
  <2> HIDE DEF D, R
  <2>1. /\ DOMAIN order = 1..Cardinality(D)
        /\ \A k \in 1..Cardinality(D) : order[k] \in D
        /\ \A x \in D : \E k \in 1..Cardinality(D) : order[k] = x
        /\ \A k, m \in 1..Cardinality(D) : k < m => <<order[k], order[m]>> \in R
    BY <1>1, <1>4, InOrderPlaces
  <2>2. 1..Cardinality(D) = D
    BY <1>1
  <2> HIDE DEF order
  <2> QED BY <2>1, <2>2
<1>6. Sort(es) = [k \in D |-> es[order[k]]]
  BY DEF Sort
<1> HIDE DEF D, R, order, last
<1>7. \A k \in D : Sort(es)[k] \in S /\ Sort(es)[k].last = last[order[k]]
  BY <1>2, <1>5, <1>6
<1>8. Sort(es) \in Seq(S) /\ Len(Sort(es)) = Len(es)
  BY <1>1, <1>6, <1>7
<1>9. ASSUME NEW k \in D, NEW m \in D, k <= m
      PROVE  Sort(es)[k].last >= Sort(es)[m].last
  <2>1. CASE k = m
    BY <1>2, <1>5, <1>7, <2>1
  <2>2. CASE k < m
    <3>1. PICK i \in D, j \in D : i = order[k] /\ j = order[m]
      BY <1>5
    <3>2. <<i, j>> \in R
      BY <1>5, <2>2, <3>1
    <3>3. last[i] > last[j] \/ last[i] = last[j]
      BY <1>3, <3>2
    <3>4. last[i] >= last[j]
      BY <1>2, <3>3
    <3> QED BY <1>7, <3>1, <3>4
  <2> QED BY <1>1, <1>9, <2>1, <2>2
<1>10. \A k \in D : \E m \in D : Sort(es)[m] = es[k]
  BY <1>5, <1>6
<1> QED BY <1>8, <1>9, <1>10 DEF D

\* A repetition changes the count and the first time of what is told, and no more.
LEMMA MergeKeeps ==
  ASSUME told \in Seq(Shape), NEW e \in Shape, NEW j \in DOMAIN told
  PROVE  /\ MergeEvent(e, j) \in Seq(Shape) /\ DOMAIN MergeEvent(e, j) = DOMAIN told
         /\ \A k \in DOMAIN told : /\ MergeEvent(e, j)[k].last = told[k].last
                                   /\ EventKey(MergeEvent(e, j)[k]) = EventKey(told[k])
                                   /\ k # j => MergeEvent(e, j)[k] = told[k]
         /\ MergeEvent(e, j)[j].first \in {told[j].first, e.first}
         /\ MergeEvent(e, j)[j].first <= told[j].first /\ MergeEvent(e, j)[j].first <= e.first
<1>1. PICK count \in Nat : count = told[j].count + Max({e.count, 1})
  <2>1. told[j].count \in Nat /\ e.count \in Nat
    BY ShapeNumbers
  <2>2. Max({e.count, 1}) \in Nat
    BY <2>1, MaxMinOfTwo
  <2> QED BY <2>1, <2>2
<1>2. PICK first \in Nat : /\ first = Min({told[j].first, e.first})
                           /\ first \in {told[j].first, e.first}
                           /\ first <= told[j].first /\ first <= e.first
  <2>1. told[j].first \in Nat /\ e.first \in Nat
    BY ShapeNumbers
  <2> QED BY <2>1, MaxMinOfTwo
<1>3. PICK x : x = [told[j] EXCEPT !.count = count, !.first = first]
  OBVIOUS
<1>4. MergeEvent(e, j) = [told EXCEPT ![j] = x]
  BY <1>1, <1>2, <1>3 DEF MergeEvent, Shape
<1>5. /\ x \in Shape /\ x.last = told[j].last /\ EventKey(x) = EventKey(told[j])
      /\ x.first = first
  <2>1. PICK y \in Shape : y = told[j]
    OBVIOUS
  <2>2. x = [y EXCEPT !.count = count, !.first = first]
    BY <1>3, <2>1
  <2> QED BY <2>1, <2>2 DEF Shape, EventKey
<1> QED BY <1>2, <1>4, <1>5

\* The events about the object, as eventsFor lists them.
Normal == {normalizeEvent(stored[i]) : i \in Known}

\* What is told of a listed event is as recent and reaches as far back.
Covered(x, t) ==
  \E k \in DOMAIN t : /\ EventKey(t[k]) = EventKey(x)
                      /\ t[k].last >= x.last /\ t[k].first <= x.first

\* What is told was listed, at both its times, and in one finding each.
Sourced(t, N) ==
  /\ \A k \in DOMAIN t : \E x, y \in N :
       /\ EventKey(x) = EventKey(t[k]) /\ t[k].last = x.last
       /\ EventKey(y) = EventKey(t[k]) /\ t[k].first = y.first
  /\ \A j, k \in DOMAIN t : EventKey(t[j]) = EventKey(t[k]) => j = k
  /\ \A j, k \in DOMAIN t : j < k => t[j].last >= t[k].last

\* What is listed is about the object, what is told was listed, what Dedup has looked at
\* is told, and what is told is at least as recent as all it has still to look at.
EventsInv ==
  /\ stored \in Recorded /\ hasUID \in BOOLEAN /\ place \in Nat \ {0}
  /\ page \in Seq(Picked) /\ listed \in Seq(Normal) /\ told \in Seq(Shape)
  /\ Sourced(told, Normal)
  /\ step \in {"list", "filter"} => told = <<>>
  /\ step = "list" => place = 1
  /\ step \in {"filter", "dedup", "done"} => page = FirstPage
  /\ step = "filter" => \A p \in DOMAIN page :
       p < place /\ matchesObject(page[p]) =>
         \E k \in DOMAIN listed : listed[k] = normalizeEvent(page[p])
  /\ step \in {"dedup", "done"} => \A p \in DOMAIN page :
       matchesObject(page[p]) => \E k \in DOMAIN listed : listed[k] = normalizeEvent(page[p])
  /\ step = "dedup" => \A m \in DOMAIN listed :
       /\ m < place => Covered(Sort(listed)[m], told)
       /\ place <= m => \A k \in DOMAIN told : told[k].last >= Sort(listed)[m].last
  /\ step = "done" => \A m \in DOMAIN listed : Covered(listed[m], told)

\* The listed events have the shape.
LEMMA NormalFacts ==
  ASSUME stored \in Recorded, NEW e \in Normal
  PROVE  e \in Shape /\ e.first \in Nat /\ e.last \in Nat
<1>1. PICK i \in DOMAIN stored : e = normalizeEvent(stored[i])
  BY DEF Normal, Known
<1>2. e \in Shape
  BY <1>1, NormalIsRecorded
<1> QED BY <1>2, ShapeNumbers

\* An event of the page that passes matchesObject is listed.
LEMMA PickedIsNormal ==
  ASSUME stored \in Recorded, hasUID \in BOOLEAN, NEW e \in Picked
  PROVE  matchesObject(e) => normalizeEvent(e) \in Normal
<1>1. PICK i \in DOMAIN stored : Selected(stored[i]) /\ e = stored[i]
  BY DEF Picked
<1>2. matchesObject(stored[i]) => About(stored[i])
  BY MatchesIsAbout
<1> QED BY <1>1, <1>2 DEF Normal, Known

\* Nothing of this depends on how far the run is.
LEMMA RecordedStays ==
  ASSUME UNCHANGED <<stored, selective, hasUID>>
  PROVE  /\ Shape' = Shape /\ Normal' = Normal /\ Picked' = Picked /\ FirstPage' = FirstPage
         /\ \A e : matchesObject(e)' <=> matchesObject(e)
<1>1. ASSUME NEW e PROVE /\ (Selected(e)' <=> Selected(e)) /\ (About(e)' <=> About(e))
                         /\ matchesObject(e)' <=> matchesObject(e)
  BY DEF Selected, About, matchesObject
<1>2. Shape' = Shape
  BY DEF Shape
<1>3. Picked' = Picked
  BY DEF Picked, Selected
<1>4. Known' = Known
  BY DEF Known, Selected, About
<1>5. Normal' = Normal
  BY <1>4 DEF Normal
<1>6. FirstPage' = FirstPage
  BY DEF FirstPage, Matched, Selected
<1> QED BY <1>1, <1>2, <1>3, <1>5, <1>6

\* One event more is told: it is the oldest, and new.
LEMMA AppendSourced ==
  ASSUME NEW N, NEW T, \A x \in N \cup T : x.last \in Nat /\ x.first \in Nat,
         NEW t \in Seq(T), Sourced(t, N), NEW e \in N,
         NEW x \in T, x.last = e.last, x.first = e.first, EventKey(x) = EventKey(e),
         \A k \in DOMAIN t : t[k].last >= e.last /\ EventKey(t[k]) # EventKey(e)
  PROVE  /\ Sourced(Append(t, x), N) /\ Covered(e, Append(t, x))
         /\ \A y : Covered(y, t) => Covered(y, Append(t, x))
         /\ \A b \in Nat : b <= e.last /\ (\A k \in DOMAIN t : t[k].last >= b) =>
              \A k \in DOMAIN Append(t, x) : Append(t, x)[k].last >= b
<1>1. PICK u \in {Append(t, x)}, n \in Nat :
                          /\ u = Append(t, x) /\ DOMAIN u = DOMAIN t \cup {n} /\ u[n] = x
                          /\ \A k \in DOMAIN t : u[k] = t[k] /\ k < n /\ k \in Nat
  <2>1. Len(t) + 1 \in Nat
    OBVIOUS
  <2>2. /\ DOMAIN Append(t, x) = DOMAIN t \cup {Len(t) + 1} /\ Append(t, x)[Len(t) + 1] = x
        /\ \A k \in DOMAIN t : Append(t, x)[k] = t[k] /\ k < Len(t) + 1 /\ k \in Nat
    OBVIOUS
  <2> QED BY <2>1, <2>2
<1>2. \A k \in DOMAIN u : \E y, z \in N :
        /\ EventKey(y) = EventKey(u[k]) /\ u[k].last = y.last
        /\ EventKey(z) = EventKey(u[k]) /\ u[k].first = z.first
  <2>1. ASSUME NEW k \in DOMAIN t
        PROVE  \E y, z \in N : /\ EventKey(y) = EventKey(u[k]) /\ u[k].last = y.last
                               /\ EventKey(z) = EventKey(u[k]) /\ u[k].first = z.first
    BY <1>1 DEF Sourced
  <2> QED BY <1>1, <2>1
<1>3. \A j, k \in DOMAIN u : EventKey(u[j]) = EventKey(u[k]) => j = k
  <2>1. \A j, k \in DOMAIN t : EventKey(t[j]) = EventKey(t[k]) => j = k
    BY DEF Sourced
  <2> QED BY <1>1, <2>1
<1>4. \A j, k \in DOMAIN u : j < k => u[j].last >= u[k].last
  <2>1. \A j, k \in DOMAIN t : j < k => t[j].last >= t[k].last
    BY DEF Sourced
  <2> QED BY <1>1, <2>1
<1>5. Covered(e, u)
  BY <1>1 DEF Covered
<1>6. \A y : Covered(y, t) => Covered(y, u)
  BY <1>1 DEF Covered
<1>7. \A b \in Nat : b <= e.last /\ (\A k \in DOMAIN t : t[k].last >= b) =>
        \A k \in DOMAIN u : u[k].last >= b
  BY <1>1
<1>8. Sourced(u, N)
  BY <1>2, <1>3, <1>4 DEF Sourced
<1>9. u = Append(t, x)
  BY <1>1
<1> QED BY <1>5, <1>6, <1>7, <1>8, <1>9

\* A repetition is told where it was told before.
LEMMA MergeSourced ==
  ASSUME NEW N, NEW T, \A x \in N \cup T : x.last \in Nat /\ x.first \in Nat,
         NEW t \in Seq(T), Sourced(t, N), NEW e \in N, NEW j \in DOMAIN t,
         EventKey(t[j]) = EventKey(e), t[j].last >= e.last,
         NEW u \in Seq(T), DOMAIN u = DOMAIN t,
         \A k \in DOMAIN t : /\ u[k].last = t[k].last /\ EventKey(u[k]) = EventKey(t[k])
                             /\ k # j => u[k] = t[k],
         u[j].first \in {t[j].first, e.first}, u[j].first <= t[j].first, u[j].first <= e.first
  PROVE  /\ Sourced(u, N) /\ Covered(e, u)
         /\ \A y \in N : Covered(y, t) => Covered(y, u)
<1>1. \A k \in DOMAIN t : /\ t[k].last \in Nat /\ t[k].first \in Nat
                          /\ u[k].last \in Nat /\ u[k].first \in Nat
  OBVIOUS
<1>2. \A k \in DOMAIN u : \E y, z \in N :
        /\ EventKey(y) = EventKey(u[k]) /\ u[k].last = y.last
        /\ EventKey(z) = EventKey(u[k]) /\ u[k].first = z.first
  <2> SUFFICES ASSUME NEW k \in DOMAIN t
               PROVE  \E y, z \in N : /\ EventKey(y) = EventKey(u[k]) /\ u[k].last = y.last
                                      /\ EventKey(z) = EventKey(u[k]) /\ u[k].first = z.first
    OBVIOUS
  <2>1. PICK y \in N, z \in N : /\ EventKey(y) = EventKey(t[k]) /\ t[k].last = y.last
                                /\ EventKey(z) = EventKey(t[k]) /\ t[k].first = z.first
    BY DEF Sourced
  <2>2. CASE u[k].first = t[k].first
    BY <2>1, <2>2
  <2>3. CASE u[k].first # t[k].first
    BY <2>1, <2>3
  <2> QED BY <2>2, <2>3
<1>3. /\ \A i, k \in DOMAIN u : EventKey(u[i]) = EventKey(u[k]) => i = k
      /\ \A i, k \in DOMAIN u : i < k => u[i].last >= u[k].last
  BY DEF Sourced
<1>4. Covered(e, u)
  BY DEF Covered
<1>5. ASSUME NEW y \in N, Covered(y, t) PROVE Covered(y, u)
  <2>1. PICK k \in DOMAIN t : /\ EventKey(t[k]) = EventKey(y)
                              /\ t[k].last >= y.last /\ t[k].first <= y.first
    BY <1>5 DEF Covered
  <2>2. u[k].first <= t[k].first
    <3>1. CASE k = j
      BY <3>1
    <3>2. CASE k # j
      BY <1>1, <3>2
    <3> QED BY <3>1, <3>2
  <2>3. u[k].first <= y.first
    BY <1>1, <2>1, <2>2
  <2> QED BY <2>1, <2>3 DEF Covered
<1> QED BY <1>2, <1>3, <1>4, <1>5 DEF Sourced

\* One event more, or one repetition more, is told as it should be.
LEMMA DedupKeeps ==
  ASSUME EventsInv, Dedup
  PROVE  EventsInv'
<1> DEFINE S == Sort(listed)
           e == S[place]
           seen == {j \in DOMAIN told : EventKey(told[j]) = EventKey(e)}
<1>1. \A x \in Normal : x \in Shape /\ x.last \in Nat /\ x.first \in Nat
  BY NormalFacts DEF EventsInv
<1>2. /\ S \in Seq(Normal) /\ Len(S) = Len(listed)
      /\ \A k, m \in DOMAIN listed : k <= m => S[k].last >= S[m].last
  BY <1>1, SortRecent DEF EventsInv
<1>3. /\ place \in DOMAIN listed /\ place \in DOMAIN S /\ place' = place + 1
      /\ DOMAIN listed \in SUBSET Nat /\ listed \in Seq(Normal) /\ DOMAIN S = DOMAIN listed
  BY <1>2 DEF Dedup, EventsInv
<1>4. e \in Normal /\ e \in Shape /\ e.last \in Nat
  BY <1>1, <1>2, <1>3
<1>5. UNCHANGED <<stored, selective, hasUID, step, page, listed>> /\ step = "dedup"
  BY DEF Dedup
<1>6. told' = IF seen = {} THEN Append(told, [e EXCEPT !.count = Max({@, 1})])
              ELSE MergeEvent(e, CHOOSE j \in seen : TRUE)
  BY DEF Dedup
<1>7. \A m \in DOMAIN listed : /\ S[m] \in Normal /\ S[m].last \in Nat
                               /\ place <= m => e.last >= S[m].last
  BY <1>1, <1>2, <1>3
<1>8. \A m \in DOMAIN listed :
        /\ m < place => Covered(S[m], told)
        /\ place <= m => \A k \in DOMAIN told : told[k].last >= S[m].last
  BY <1>5 DEF EventsInv
<1>9. \A k \in DOMAIN told : told[k].last >= e.last
  BY <1>3, <1>8
<1>10. /\ told \in Seq(Shape) /\ Sourced(told, Normal)
       /\ \A x \in Normal \cup Shape : x.last \in Nat /\ x.first \in Nat
  BY <1>1, ShapeNumbers DEF EventsInv
<1> DEFINE Sound(t) ==
      /\ t \in Seq(Shape) /\ Sourced(t, Normal) /\ Covered(e, t)
      /\ \A m \in DOMAIN listed :
           /\ Covered(S[m], told) => Covered(S[m], t)
           /\ place <= m => \A k \in DOMAIN t : t[k].last >= S[m].last
<1>11. ASSUME seen = {} PROVE \E t : t = told' /\ Sound(t)
  <2>1. PICK count \in Nat : count = Max({e.count, 1})
    BY <1>4, ShapeNumbers, MaxMinOfTwo
  <2>2. PICK x : x = [e EXCEPT !.count = count]
    OBVIOUS
  <2>3. told' = Append(told, x)
    BY <1>4, <1>6, <1>11, <2>1, <2>2 DEF Shape
  <2>4. x \in Shape /\ x.last = e.last /\ x.first = e.first /\ EventKey(x) = EventKey(e)
    BY <1>4, <2>2 DEF Shape, EventKey
  <2>5. \A k \in DOMAIN told : told[k].last >= e.last /\ EventKey(told[k]) # EventKey(e)
    BY <1>9, <1>11
  <2> HIDE DEF S, e, seen
  <2>6. /\ Sourced(Append(told, x), Normal) /\ Covered(e, Append(told, x))
        /\ \A y : Covered(y, told) => Covered(y, Append(told, x))
        /\ \A b \in Nat : b <= e.last /\ (\A k \in DOMAIN told : told[k].last >= b) =>
             \A k \in DOMAIN Append(told, x) : Append(told, x)[k].last >= b
    BY <1>4, <1>10, <2>4, <2>5, AppendSourced
  <2>7. \A m \in DOMAIN listed : place <= m =>
          \A k \in DOMAIN Append(told, x) : Append(told, x)[k].last >= S[m].last
    BY <1>4, <1>7, <1>8, <2>6
  <2>8. Append(told, x) \in Seq(Shape)
    BY <1>10, <2>4
  <2> QED BY <2>3, <2>6, <2>7, <2>8
<1>12. ASSUME seen # {} PROVE \E t : t = told' /\ Sound(t)
  <2>1. PICK j \in DOMAIN told : told' = MergeEvent(e, j) /\ EventKey(told[j]) = EventKey(e)
    BY <1>6, <1>12
  <2>2. PICK u : u = MergeEvent(e, j)
    OBVIOUS
  <2>3. /\ u \in Seq(Shape) /\ DOMAIN u = DOMAIN told
        /\ \A k \in DOMAIN told : /\ u[k].last = told[k].last
                                  /\ EventKey(u[k]) = EventKey(told[k])
                                  /\ k # j => u[k] = told[k]
        /\ u[j].first \in {told[j].first, e.first}
        /\ u[j].first <= told[j].first /\ u[j].first <= e.first
    BY <1>4, <1>10, <2>2, MergeKeeps
  <2> HIDE DEF S, e, seen
  <2>4. told[j].last >= e.last
    BY <1>9
  <2>5. /\ Sourced(u, Normal) /\ Covered(e, u)
        /\ \A y \in Normal : Covered(y, told) => Covered(y, u)
    <3>1. e \in Normal /\ j \in DOMAIN told /\ EventKey(told[j]) = EventKey(e)
      BY <1>4, <2>1
    <3> QED BY <1>10, <2>3, <2>4, <3>1, MergeSourced, ZenonT(60)
  <2>6. \A m \in DOMAIN listed : place <= m => \A k \in DOMAIN u : u[k].last >= S[m].last
    BY <1>8, <2>3
  <2>7. u = told'
    BY <2>1, <2>2
  <2> QED BY <1>7, <2>3, <2>5, <2>6, <2>7
<1>13. PICK t : t = told' /\ Sound(t)
  BY <1>11, <1>12
<1>14. /\ Shape' = Shape /\ Normal' = Normal /\ Picked' = Picked /\ FirstPage' = FirstPage
       /\ \A x : matchesObject(x)' <=> matchesObject(x)
  BY <1>5, RecordedStays
<1>15. Sort(listed)' = S
  BY <1>5 DEF Sort, Recency, InOrder
<1> HIDE DEF S, seen
<1>16. \A m \in DOMAIN listed : /\ m < place + 1 => Covered(S[m], t)
                                /\ place + 1 <= m => \A k \in DOMAIN t : t[k].last >= S[m].last
  <2>1. ASSUME NEW m \in DOMAIN listed
        PROVE  /\ m < place + 1 => m < place \/ m = place
               /\ place + 1 <= m => place <= m
    BY <1>3
  <2> QED BY <1>8, <1>13, <2>1
<1>17. place' \in Nat \ {0}
  BY <1>3 DEF EventsInv
<1>18. /\ stored' \in Recorded /\ hasUID' \in BOOLEAN
       /\ page' \in Seq(Picked') /\ listed' \in Seq(Normal') /\ told' \in Seq(Shape')
       /\ Sourced(told, Normal)' /\ step' = "dedup" /\ page' = FirstPage'
  <2>1. Sourced(told, Normal)' <=> Sourced(t, Normal)
    BY <1>13, <1>14 DEF Sourced
  <2> QED BY <1>5, <1>13, <1>14, <2>1 DEF EventsInv
<1>19. (\A p \in DOMAIN page : matchesObject(page[p]) =>
          \E k \in DOMAIN listed : listed[k] = normalizeEvent(page[p]))'
  BY <1>5 DEF EventsInv, matchesObject
<1>20. (\A m \in DOMAIN listed :
         /\ m < place => Covered(Sort(listed)[m], told)
         /\ place <= m => \A k \in DOMAIN told : told[k].last >= Sort(listed)[m].last)'
  BY <1>3, <1>5, <1>13, <1>15, <1>16 DEF Covered
<1> QED BY <1>17, <1>18, <1>19, <1>20 DEF EventsInv

\* The invariant of the events is one.
LEMMA EventsInductive == EventsSpec => []EventsInv
<1>1. EventsInit => EventsInv
  BY DEF EventsInit, EventsInv, Sourced
<1>2. EventsInv /\ [EventsNext]_eventsVars => EventsInv'
  <2> SUFFICES ASSUME EventsInv, [EventsNext]_eventsVars
               PROVE  EventsInv'
    OBVIOUS
  <2>1. UNCHANGED <<stored, selective, hasUID>>
    BY DEF EventsNext, ListEvents, FilterEvent, ReturnEvents, Dedup, FinishDedup, EventsTold,
           eventsVars
  <2>2. /\ Shape' = Shape /\ Normal' = Normal /\ Picked' = Picked /\ FirstPage' = FirstPage
        /\ \A x : matchesObject(x)' <=> matchesObject(x)
    BY <2>1, RecordedStays
  <2>3. ASSUME UNCHANGED told PROVE Sourced(told, Normal)'
    BY <2>2, <2>3 DEF Sourced, EventsInv
  <2>4. CASE ListEvents
    <3>1. /\ UNCHANGED <<place, listed, told>> /\ told = <<>> /\ place = 1
          /\ \/ step' = "filter" /\ page' = FirstPage
             \/ step' = "failed" /\ page' = page
      BY <2>4 DEF ListEvents, EventsInv
    <3>2. page' \in Seq(Picked)
      BY <3>1, PageIsRecorded DEF EventsInv
    <3>3. \A p \in DOMAIN page' : ~(p < 1)
      BY <3>2
    <3> QED BY <2>1, <2>2, <2>3, <3>1, <3>2, <3>3 DEF EventsInv
  <2>5. CASE FilterEvent
    <3>1. /\ UNCHANGED <<step, page, told>> /\ step = "filter" /\ place' = place + 1
          /\ place \in Nat \ {0} /\ place \in DOMAIN page /\ page[place] \in Picked
          /\ DOMAIN page \in SUBSET Nat
      BY <2>5 DEF FilterEvent, EventsInv
    <3>2. listed' = IF matchesObject(page[place])
                    THEN Append(listed, normalizeEvent(page[place])) ELSE listed
      BY <2>5 DEF FilterEvent
    <3>3. matchesObject(page[place]) => normalizeEvent(page[place]) \in Normal
      BY <3>1, PickedIsNormal DEF EventsInv
    <3>4. listed \in Seq(Normal)
      BY DEF EventsInv
    <3>5. PICK l \in Seq(Normal) :
            /\ l = listed' /\ \A k \in DOMAIN listed : k \in DOMAIN l /\ l[k] = listed[k]
            /\ matchesObject(page[place]) =>
                 \E k \in DOMAIN l : l[k] = normalizeEvent(page[place])
      <4>1. CASE matchesObject(page[place])
        <5>1. PICK x \in Normal : x = normalizeEvent(page[place])
          BY <3>3, <4>1
        <5>2. /\ Append(listed, x) \in Seq(Normal)
              /\ \A k \in DOMAIN listed : /\ k \in DOMAIN Append(listed, x)
                                          /\ Append(listed, x)[k] = listed[k]
              /\ Len(listed) + 1 \in DOMAIN Append(listed, x)
              /\ Append(listed, x)[Len(listed) + 1] = x
          BY <3>4
        <5> QED BY <3>2, <4>1, <5>1, <5>2
      <4>2. CASE ~matchesObject(page[place])
        BY <3>2, <3>4, <4>2
      <4> QED BY <4>1, <4>2
    <3>6. \A p \in DOMAIN page : p < place + 1 /\ matchesObject(page[p]) =>
            \E k \in DOMAIN l : l[k] = normalizeEvent(page[p])
      <4>1. \A p \in DOMAIN page : p < place /\ matchesObject(page[p]) =>
              \E k \in DOMAIN listed : listed[k] = normalizeEvent(page[p])
        BY <3>1 DEF EventsInv
      <4>2. \A p \in DOMAIN page : p < place + 1 => p < place \/ p = place
        BY <3>1
      <4> QED BY <3>5, <4>1, <4>2
    <3>7. (\A p \in DOMAIN page : p < place /\ matchesObject(page[p]) =>
             \E k \in DOMAIN listed : listed[k] = normalizeEvent(page[p]))'
      BY <2>1, <3>1, <3>5, <3>6 DEF matchesObject
    <3> QED BY <2>1, <2>2, <2>3, <3>1, <3>5, <3>7 DEF EventsInv
  <2>6. CASE ReturnEvents
    <3>1. /\ UNCHANGED <<page, told>> /\ told = <<>> /\ step = "filter"
          /\ place' = 1 /\ step' = "dedup" /\ listed' = Sort(listed)
      BY <2>6 DEF ReturnEvents, EventsInv
    <3>2. /\ listed \in Seq(Normal) /\ \A x \in Normal : x.last \in Nat
      BY NormalFacts DEF EventsInv
    <3>3. PICK l \in Seq(Normal) :
            l = listed' /\ \A k \in DOMAIN listed : \E m \in DOMAIN l : l[m] = listed[k]
      <4>1. /\ Sort(listed) \in Seq(Normal) /\ Len(Sort(listed)) = Len(listed)
            /\ \A k \in DOMAIN listed : \E m \in DOMAIN listed : Sort(listed)[m] = listed[k]
        BY <3>2, SortRecent
      <4>2. DOMAIN Sort(listed) = DOMAIN listed
        BY <3>2, <4>1
      <4> QED BY <3>1, <4>1, <4>2
    <3>4. \A p \in DOMAIN page : p < place
      BY <2>6 DEF ReturnEvents, EventsInv
    <3>5. \A p \in DOMAIN page : matchesObject(page[p]) =>
            \E k \in DOMAIN l : l[k] = normalizeEvent(page[p])
      BY <3>1, <3>3, <3>4 DEF EventsInv
    <3>6. (\A p \in DOMAIN page : matchesObject(page[p]) =>
             \E k \in DOMAIN listed : listed[k] = normalizeEvent(page[p]))'
      BY <2>1, <3>1, <3>3, <3>5 DEF matchesObject
    <3>7. \A m \in DOMAIN listed' : ~(m < 1)
      BY <3>3
    <3> QED BY <2>1, <2>2, <2>3, <3>1, <3>3, <3>6, <3>7 DEF EventsInv
  <2>7. CASE Dedup
    BY <2>7, DedupKeeps
  <2>8. CASE FinishDedup
    <3>1. /\ UNCHANGED <<page, place, listed, told>> /\ step = "dedup" /\ step' = "done"
          /\ \A m \in DOMAIN listed : m < place
      BY <2>8 DEF FinishDedup, EventsInv
    <3>2. listed \in Seq(Normal) /\ \A x \in Normal : x.last \in Nat
      BY NormalFacts DEF EventsInv
    <3>3. \A m \in DOMAIN listed : Covered(Sort(listed)[m], told)
      BY <3>1 DEF EventsInv
    <3>4. \A k \in DOMAIN listed : \E m \in DOMAIN listed : Sort(listed)[m] = listed[k]
      BY <3>2, SortRecent
    <3>5. \A k \in DOMAIN listed : Covered(listed[k], told)
      BY <3>3, <3>4
    <3>6. (\A k \in DOMAIN listed : Covered(listed[k], told))'
      BY <3>1, <3>5 DEF Covered
    <3>7. (\A p \in DOMAIN page : matchesObject(page[p]) =>
             \E k \in DOMAIN listed : listed[k] = normalizeEvent(page[p]))'
      BY <2>1, <3>1 DEF EventsInv, matchesObject
    <3> QED BY <2>1, <2>2, <2>3, <3>1, <3>6, <3>7 DEF EventsInv
  <2>9. CASE UNCHANGED eventsVars
    <3>1. UNCHANGED <<step, page, place, listed, told>>
      BY <2>9 DEF eventsVars
    <3>2. Sort(listed)' = Sort(listed)
      BY <3>1 DEF Sort, Recency, InOrder
    <3>3. PICK S : S = Sort(listed)
      OBVIOUS
    <3>4. (step = "dedup" => \A m \in DOMAIN listed :
            /\ m < place => Covered(Sort(listed)[m], told)
            /\ place <= m => \A k \in DOMAIN told : told[k].last >= Sort(listed)[m].last)'
      BY <3>1, <3>2, <3>3 DEF EventsInv, Covered
    <3>5. (step = "done" => \A m \in DOMAIN listed : Covered(listed[m], told))'
      BY <3>1 DEF EventsInv, Covered
    <3>6. /\ (step = "filter" => \A p \in DOMAIN page :
                p < place /\ matchesObject(page[p]) =>
                  \E k \in DOMAIN listed : listed[k] = normalizeEvent(page[p]))'
          /\ (step \in {"dedup", "done"} => \A p \in DOMAIN page : matchesObject(page[p]) =>
                \E k \in DOMAIN listed : listed[k] = normalizeEvent(page[p]))'
      BY <2>1, <3>1 DEF EventsInv, matchesObject
    <3> QED BY <2>1, <2>2, <2>3, <3>1, <3>4, <3>5, <3>6 DEF EventsInv
  <2> QED BY <2>4, <2>5, <2>6, <2>7, <2>8, <2>9 DEF EventsNext, EventsTold
<1> QED BY <1>1, <1>2, PTL DEF EventsSpec

\* No event of another object, nor of a predecessor with the object's name, reaches the
\* rules, and none is told with words or at a time that no event about the object has,
\* whatever the server lists (collect/events.go:24-26).
THEOREM NoForeignEvents == EventsSpec => []NoneForeign
<1>1. ASSUME EventsInv PROVE NoneForeign
  <2> SUFFICES ASSUME NEW k \in DOMAIN told
               PROVE  \E i \in DOMAIN stored :
                        /\ About(stored[i]) /\ Says(i) = EventKey(told[k])
                        /\ told[k].last \in Times(stored[i]) \cup {NoTime}
    BY DEF NoneForeign
  <2>1. PICK x \in Normal : EventKey(x) = EventKey(told[k]) /\ told[k].last = x.last
    BY <1>1 DEF EventsInv, Sourced
  <2>2. PICK i \in DOMAIN stored : About(stored[i]) /\ x = normalizeEvent(stored[i])
    BY DEF Normal, Known
  <2>3. EventKey(x) = Says(i) /\ x.last \in Times(stored[i]) \cup {NoTime}
    BY <1>1, <2>2, NormalIsRecorded DEF EventsInv
  <2> QED BY <2>1, <2>2, <2>3
<1> QED BY <1>1, EventsInductive, PTL

\* The rules see the events from the most to the least recent, also when repetitions are
\* merged, for lists of any length (snapshot/snapshot.go:61).
THEOREM RecentEventsFirst == EventsSpec => []RecentFirst
<1>1. EventsInv => RecentFirst
  BY DEF EventsInv, Sourced, RecentFirst
<1> QED BY <1>1, EventsInductive, PTL

\* Unless the list exceeds a page, each thing recorded about the object is told once, as
\* of its latest and since its earliest time, however many events repeat it and whichever
\* API recorded each (snapshot/snapshot.go:112-113).
THEOREM EventsToldOnce == EventsSpec => []EachToldOnce
<1>1. ASSUME EventsInv PROVE EachToldOnce
  <2> SUFFICES ASSUME step = "done", Len(Matched) <= EventLimit
               PROVE  /\ {EventKey(told[k]) : k \in DOMAIN told} = {Says(i) : i \in Known}
                      /\ \A j, k \in DOMAIN told : EventKey(told[j]) = EventKey(told[k]) => j = k
                      /\ \A k \in DOMAIN told :
                           LET times == UNION {Times(stored[i]) : i \in Same(k)}
                           IN  told[k].last = Max(times) /\ told[k].first = Min(times)
    BY DEF EachToldOnce
  <2>1. \A j, k \in DOMAIN told : EventKey(told[j]) = EventKey(told[k]) => j = k
    BY <1>1 DEF EventsInv, Sourced
  <2>2. ASSUME NEW i \in Known
        PROVE  /\ i \in DOMAIN stored /\ Covered(normalizeEvent(stored[i]), told)
               /\ EventKey(normalizeEvent(stored[i])) = Says(i)
    <3>1. i \in DOMAIN stored /\ stored[i] \in Picked /\ About(stored[i])
      BY DEF Known, Picked
    <3>2. PICK p \in DOMAIN page : page[p] = stored[i]
      BY <1>1, <3>1, PageIsRecorded DEF EventsInv
    <3>3. matchesObject(page[p])
      BY <1>1, <3>1, <3>2, MatchesIsAbout DEF EventsInv
    <3>4. PICK k \in DOMAIN listed : listed[k] = normalizeEvent(page[p])
      BY <1>1, <3>3 DEF EventsInv
    <3>5. Covered(listed[k], told)
      BY <1>1 DEF EventsInv
    <3> QED BY <1>1, <3>1, <3>2, <3>4, <3>5, NormalIsRecorded DEF EventsInv
  <2>3. ASSUME NEW x \in Normal
        PROVE  \E i \in Known : x = normalizeEvent(stored[i]) /\ Says(i) = EventKey(x)
    <3>1. PICK i \in Known : x = normalizeEvent(stored[i])
      BY DEF Normal
    <3> QED BY <2>2, <3>1
  <2>4. {EventKey(told[k]) : k \in DOMAIN told} = {Says(i) : i \in Known}
    <3>1. ASSUME NEW k \in DOMAIN told PROVE \E i \in Known : EventKey(told[k]) = Says(i)
      <4>1. PICK x \in Normal : EventKey(x) = EventKey(told[k])
        BY <1>1 DEF EventsInv, Sourced
      <4> QED BY <2>3, <4>1
    <3>2. ASSUME NEW i \in Known PROVE \E k \in DOMAIN told : EventKey(told[k]) = Says(i)
      BY <2>2 DEF Covered
    <3> QED BY <3>1, <3>2
  <2>5. ASSUME NEW k \in DOMAIN told
        PROVE  LET times == UNION {Times(stored[i]) : i \in Same(k)}
               IN  told[k].last = Max(times) /\ told[k].first = Min(times)
    <3> DEFINE T == UNION {Times(stored[i]) : i \in Same(k)}
    <3>1. ASSUME NEW i \in Same(k)
          PROVE  /\ i \in DOMAIN stored
                 /\ normalizeEvent(stored[i]).last <= told[k].last
                 /\ told[k].first <= normalizeEvent(stored[i]).first
      <4>1. i \in Known /\ Says(i) = EventKey(told[k])
        BY DEF Same
      <4>2. PICK m \in DOMAIN told : /\ EventKey(told[m]) = EventKey(normalizeEvent(stored[i]))
                                     /\ told[m].last >= normalizeEvent(stored[i]).last
                                     /\ told[m].first <= normalizeEvent(stored[i]).first
        BY <2>2, <4>1 DEF Covered
      <4>3. m = k
        BY <2>1, <2>2, <4>1, <4>2
      <4>4. i \in DOMAIN stored
        BY <2>2, <4>1
      <4>5. normalizeEvent(stored[i]).last \in Nat /\ told[k].last \in Nat
        <5>1. normalizeEvent(stored[i]) \in Shape /\ told[k] \in Shape
          BY <1>1, <4>4, NormalIsRecorded DEF EventsInv
        <5> QED BY <5>1, ShapeNumbers
      <4> QED BY <4>2, <4>3, <4>4, <4>5
    <3>2. /\ told[k].last \in Nat /\ told[k].first \in Nat
      <4>1. told[k] \in Shape
        BY <1>1 DEF EventsInv
      <4> QED BY <4>1, ShapeNumbers
    <3>3. ASSUME NEW t \in T PROVE t \in Nat /\ t <= told[k].last /\ told[k].first <= t
      <4>1. PICK i \in Same(k) : t \in Times(stored[i])
        OBVIOUS
      <4>2. i \in DOMAIN stored
        BY <3>1
      <4>3. PICK x \in Shape : x = normalizeEvent(stored[i])
        BY <1>1, <4>2, NormalIsRecorded DEF EventsInv
      <4>4. t \in Nat /\ t <= x.last /\ x.first <= t
        BY <1>1, <4>1, <4>2, <4>3, NormalIsDated DEF EventsInv
      <4>5. x.last <= told[k].last /\ told[k].first <= x.first
        BY <3>1, <4>3
      <4>6. x.last \in Nat /\ x.first \in Nat
        BY ShapeNumbers
      <4> QED BY <3>2, <4>4, <4>5, <4>6
    <3>4. told[k].last \in T /\ told[k].first \in T
      <4>1. PICK x \in Normal, y \in Normal :
              /\ EventKey(x) = EventKey(told[k]) /\ told[k].last = x.last
              /\ EventKey(y) = EventKey(told[k]) /\ told[k].first = y.first
        BY <1>1 DEF EventsInv, Sourced
      <4>2. PICK i \in Known : x = normalizeEvent(stored[i]) /\ Says(i) = EventKey(x)
        BY <2>3
      <4>3. PICK j \in Known : y = normalizeEvent(stored[j]) /\ Says(j) = EventKey(y)
        BY <2>3
      <4>4. i \in Same(k) /\ j \in Same(k)
        BY <4>1, <4>2, <4>3 DEF Same
      <4>5. x.last \in Times(stored[i]) /\ y.first \in Times(stored[j])
        BY <1>1, <2>2, <4>2, <4>3, NormalIsDated DEF EventsInv
      <4> QED BY <4>1, <4>4, <4>5
    <3> HIDE DEF T
    <3>5. T \in SUBSET Nat
      BY <3>3
    <3>6. told[k].last = Max(T) /\ told[k].first = Min(T)
      BY <3>3, <3>4, <3>5, MaxMinOfSet
    <3> QED BY <3>6 DEF T
  <2> QED BY <2>1, <2>4, <2>5
<1> QED BY <1>1, EventsInductive, PTL

\* What the rules see of the events of an object is what was recorded about it: nothing
\* foreign, each thing once, rightly dated, the most recent first.
THEOREM EventsAsRecorded == EventsSpec => []ToldAsRecorded
<1>1. NoneForeign /\ EachToldOnce /\ RecentFirst => ToldAsRecorded
  BY DEF ToldAsRecorded
<1> QED BY <1>1, NoForeignEvents, EventsToldOnce, RecentEventsFirst, PTL

=============================================================================
