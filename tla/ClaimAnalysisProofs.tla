------------------------- MODULE ClaimAnalysisProofs -------------------------
(***************************************************************************)
(* Theorems about ClaimAnalysis for any number of Pods, any limit on the   *)
(* event reads and any set of failures.                                    *)
(***************************************************************************)
EXTENDS ClaimAnalysis, FiniteSetTheorems, TLAPS

-----------------------------------------------------------------------------
(* Facts about the helpers *)

\* Answers are among the known ones.
LEMMA AnswersFacts ==
  ASSUME NEW outcome \in {"ok", "NotFound"}
  PROVE  Answers(outcome) \subseteq Reasons \cup {"ok"}
BY ClaimAssumption DEF Answers, Reasons

\* The same of a request that may find nothing.
LEMMA LookupFacts ==
  ASSUME NEW o
  PROVE  Lookup(o) \subseteq Reasons \cup {"ok"}
BY AnswersFacts DEF Lookup

\* A failed answer leaves its degradation.
LEMMA DegradeFacts ==
  ASSUME NEW resource \in {"events", "storageclasses", "pods"}, NEW a \in Reasons \cup {"ok"}
  PROVE  /\ degrade(resource, a) \subseteq Degradation
         /\ existenceDegradation(resource, a) \subseteq Degradation
         /\ a # "ok" => [resource |-> resource, reason |-> a] \in degrade(resource, a)
<1>1. a # "ok" => [resource |-> resource, reason |-> a] \in Degradation
  BY DEF Degradation
<1> QED BY <1>1 DEF degrade, existenceDegradation

\* The values existence and reportError can take.
LEMMA CodeFacts ==
  ASSUME NEW a
  PROVE  /\ reportError(a) \in {2, 3, 4}
         /\ existence(a) \in {"found", "missing", "unknown"}
BY DEF reportError, existence

\* No goroutine has the number that stands for a free mutex.
LEMMA WorkersNotZero == \A i \in Workers : i # 0
BY ClaimAssumption DEF Workers

\* Each of the four rules returns well-formed findings.
LEMMA RuleFindings ==
  ASSUME NEW i \in DOMAIN Rules
  PROVE  /\ Rules[i] \subseteq [id : ClaimIDs, severity : Severities,
                                confidence : {"certain"}, causedBy : {NoCause} \cup ClaimIDs]
         /\ i \in 1..4
<1> DEFINE F == [id : ClaimIDs, severity : Severities, confidence : {"certain"},
                 causedBy : {NoCause} \cup ClaimIDs]
<1> USE DEF Finding, ClaimIDs, Severities
<1>1. evaluateStorageClass \subseteq F
  BY DEF evaluateStorageClass, NoClassID
<1>2. evaluateProvisioning \subseteq F
  BY DEF evaluateProvisioning, ProvisioningCause, NoClassID
<1>3. evaluateConsumers \subseteq F
  BY DEF evaluateConsumers
<1>4. evaluateLost \subseteq F
  BY DEF evaluateLost
<1>5. i \in 1..4
  BY DEF Rules
<1>6. CASE i = 1  BY <1>1, <1>6 DEF Rules
<1>7. CASE i = 2  BY <1>2, <1>7 DEF Rules
<1>8. CASE i = 3  BY <1>3, <1>8 DEF Rules
<1>9. CASE i = 4  BY <1>4, <1>9 DEF Rules
<1> QED BY <1>5, <1>6, <1>7, <1>8, <1>9

\* So does the fallback.
LEMMA FallbackFindings ==
  Fallback \subseteq [id : ClaimIDs, severity : Severities, confidence : {"certain"},
                      causedBy : {NoCause} \cup ClaimIDs]
BY DEF Fallback, Finding, ClaimIDs, Severities

-----------------------------------------------------------------------------
(* Type correctness, with mutual exclusion *)

\* No goroutine runs before the Pods are listed, one that has come as far as the
\* mutex has its answer, and the list it holds a copy of is the list as it is.
WorkersInv ==
  /\ pc \in {"claim", "events", "class", "consumers"} => \A i \in Workers : worker[i] = "idle"
  /\ \A i \in Workers : worker[i] \in {"lock", "book", "done"} => answer[i] # "none"
  /\ \A i \in Workers : worker[i] = "book" => copy[i] = degradations
  /\ EveryFailureBooked

\* A run starts well formed.
LEMMA InitType == Init => TypeOK
<1> SUFFICES ASSUME Init PROVE TypeOK
  OBVIOUS
<1>1. scenario \in Scenario
  BY ClaimAssumption DEF Init
<1>2. present \subseteq Objects /\ everAbsent \subseteq Objects
  BY <1>1 DEF Init, Scenario
<1>3. \A i \in Workers : worker[i] = "book" <=> mu = i
  BY ClaimAssumption DEF Init, Workers
<1>4. /\ worker \in [Workers -> {"idle", "fetch", "lock", "book", "done"}]
      /\ answer \in [Workers -> {"none", "ok"} \cup Reasons]
      /\ copy \in [Workers -> SUBSET Degradation]
  BY DEF Init
<1>5. class \in [exists : {"unread", "unknown", "found", "missing"}, waits : BOOLEAN]
  BY DEF Init
<1>6. ctxDone \in BOOLEAN /\ known \in BOOLEAN
  BY DEF Init
<1>7. calls \in Nat /\ mu \in {0} \cup Workers /\ next \in 1..5 /\ exit \in {-1, 0, 1, 2, 3, 4}
  BY DEF Init
<1>8. /\ scenario \in Scenarios /\ events \subseteq scenario.events
      /\ consumers \subseteq DOMAIN scenario.pods /\ degradations \subseteq Degradation
  BY DEF Init
<1>9. /\ pc \in {"claim", "events", "class", "consumers", "wait", "rules", "render", "done"}
      /\ status \in Statuses \cup {"none"}
      /\ found \subseteq [id : ClaimIDs, severity : Severities, confidence : {"certain"},
                          causedBy : {NoCause} \cup ClaimIDs]
  BY DEF Init
<1> QED BY <1>2, <1>3, <1>4, <1>5, <1>6, <1>7, <1>8, <1>9 DEF TypeOK

\* Every step keeps the state well formed and the mutex exclusive.
LEMMA NextType == TypeOK /\ WorkersInv /\ [Next]_vars => TypeOK'
<1> SUFFICES ASSUME TypeOK, WorkersInv, [Next]_vars PROVE TypeOK'
  OBVIOUS
<1> USE DEF world, workers, verdict
<1>s. scenario \in Scenario
  BY ClaimAssumption DEF TypeOK
<1>1. CASE GetClaim
  <2>1. exit' \in {-1, 0, 1, 2, 3, 4}
    BY <1>1, CodeFacts DEF GetClaim, TypeOK
  <2> QED BY <1>1, <2>1 DEF GetClaim, TypeOK
<1>2. CASE eventsFor
  <2>1. PICK a \in Reasons \cup {"ok"} :
          /\ events' = IF a = "ok" THEN scenario.events ELSE events
          /\ degradations' = degradations \cup degrade("events", a)
    BY <1>2, AnswersFacts DEF eventsFor
  <2>2. degradations' \subseteq Degradation /\ events' \subseteq scenario.events
    BY <2>1, DegradeFacts DEF TypeOK
  <2> QED BY <1>2, <2>2 DEF eventsFor, TypeOK
<1>3. CASE storageClassInfo
  <2>1. CASE scenario.class = "none"
    BY <1>3, <2>1 DEF storageClassInfo, TypeOK
  <2>2. CASE scenario.class # "none"
    <3>1. PICK a \in Reasons \cup {"ok"} :
            /\ class' = [exists |-> existence(a), waits |-> ClassWaits(a)]
            /\ degradations' = degradations \cup existenceDegradation("storageclasses", a)
      BY <1>3, <2>2, LookupFacts DEF storageClassInfo
    <3>2. existence(a) \in {"unread", "unknown", "found", "missing"} /\ ClassWaits(a) \in BOOLEAN
      BY <1>s, CodeFacts DEF ClassWaits, Scenario
    <3>3. degradations' \subseteq Degradation
      BY <3>1, DegradeFacts DEF TypeOK
    <3> QED BY <1>3, <2>2, <3>1, <3>2, <3>3 DEF storageClassInfo, TypeOK
  <2> QED BY <2>1, <2>2
<1>4. CASE collectClaimConsumers
  <2>1. Mounting \subseteq DOMAIN scenario.pods
    BY DEF Mounting
  <2>2. PICK a \in Reasons \cup {"ok"} :
          \/ /\ known' = TRUE /\ consumers' = Mounting /\ pc' = "wait"
             /\ worker' = [i \in Workers |-> IF i \in needEvents(Mounting) THEN "fetch" ELSE "idle"]
             /\ UNCHANGED degradations
          \/ /\ degradations' = degradations \cup degrade("pods", a) /\ pc' = "rules"
             /\ UNCHANGED <<known, consumers, worker>>
    BY <1>4, AnswersFacts DEF collectClaimConsumers
  <2>3. degradations' \subseteq Degradation
    BY <2>2, DegradeFacts DEF TypeOK
  <2>4. /\ worker' \in [Workers -> {"idle", "fetch", "lock", "book", "done"}]
        /\ known' \in BOOLEAN /\ consumers' \subseteq DOMAIN scenario.pods
        /\ pc' \in {"wait", "rules"}
    BY <2>1, <2>2 DEF TypeOK
  <2>5. \A i \in Workers : worker'[i] = "book" <=> mu' = i
    <3>1. \A i \in Workers : worker[i] # "book" /\ mu # i
      BY <1>4 DEF collectClaimConsumers, WorkersInv, TypeOK
    <3>2. \A i \in Workers : worker'[i] # "book"
      BY <2>2, <3>1
    <3> QED BY <1>4, <3>1, <3>2 DEF collectClaimConsumers
  <2> QED BY <1>4, <2>3, <2>4, <2>5 DEF collectClaimConsumers, TypeOK
<1>5. ASSUME NEW i \in Workers, backendEvents(i) PROVE TypeOK'
  <2>1. answer' \in [Workers -> {"none", "ok"} \cup Reasons]
    BY <1>5, AnswersFacts DEF backendEvents, TypeOK
  <2> QED BY <1>5, <2>1 DEF backendEvents, TypeOK
<1>6. ASSUME NEW i \in Workers, Lock(i) PROVE TypeOK'
  <2>1. \A j \in Workers : worker'[j] = "book" <=> mu' = j
    BY <1>6, WorkersNotZero DEF Lock, TypeOK
  <2>2. /\ worker' \in [Workers -> {"idle", "fetch", "lock", "book", "done"}]
        /\ copy' \in [Workers -> SUBSET Degradation] /\ mu' \in {0} \cup Workers
    BY <1>6 DEF Lock, TypeOK
  <2> QED BY <1>6, <2>1, <2>2 DEF Lock, TypeOK
<1>7. ASSUME NEW i \in Workers, Book(i) PROVE TypeOK'
  <2>1. answer[i] # "ok" => degrade("events", answer[i]) \subseteq Degradation
    BY <1>7, DegradeFacts DEF Book, WorkersInv, TypeOK
  <2>2. degradations' \subseteq Degradation
    BY <1>7, <2>1 DEF Book, TypeOK
  <2>3. \A j \in Workers : worker'[j] = "book" <=> mu' = j
    BY <1>7, WorkersNotZero DEF Book, TypeOK
  <2>4. worker' \in [Workers -> {"idle", "fetch", "lock", "book", "done"}]
    BY <1>7 DEF Book, TypeOK
  <2> QED BY <1>7, <2>2, <2>3, <2>4 DEF Book, TypeOK
<1>8. CASE Wait
  BY <1>8 DEF Wait, TypeOK
<1>9. CASE RunRule
  BY <1>9, RuleFindings DEF RunRule, TypeOK
<1>10. CASE PVCReport
  <2>1. found' \subseteq [id : ClaimIDs, severity : Severities, confidence : {"certain"},
                          causedBy : {NoCause} \cup ClaimIDs]
    BY <1>10, FallbackFindings DEF PVCReport, TypeOK
  <2>2. status' \in Statuses
    BY <1>10 DEF PVCReport, DeriveStatus, Statuses
  <2> QED BY <1>10, <2>1, <2>2 DEF PVCReport, TypeOK
<1>11. CASE Render
  BY <1>11 DEF Render, TypeOK
<1>12. CASE Expire \/ UNCHANGED vars
  BY <1>12 DEF Expire, vars, TypeOK
<1>13. CASE Drift
  <2>1. present' \subseteq Objects /\ everAbsent' \subseteq Objects
    BY <1>13, ClaimAssumption DEF Drift, TypeOK
  <2> QED BY <1>13, <2>1 DEF Drift, TypeOK
<1> QED
  BY <1>1, <1>2, <1>3, <1>4, <1>5, <1>6, <1>7, <1>8, <1>9, <1>10, <1>11, <1>12, <1>13
  DEF Next, Step, Terminated

-----------------------------------------------------------------------------
(* The goroutines lose no failure *)

\* No goroutine runs at the start.
LEMMA InitWorkers == Init => WorkersInv
BY DEF Init, WorkersInv, EveryFailureBooked

\* Every step keeps the copies up to date and loses no failure.
LEMMA NextWorkers == TypeOK /\ WorkersInv /\ [Next]_vars => WorkersInv'
<1> SUFFICES ASSUME TypeOK, WorkersInv, [Next]_vars PROVE WorkersInv'
  OBVIOUS
<1> USE DEF world, workers, verdict
\* The main goroutine before it lists the Pods.
<1>1. CASE GetClaim \/ eventsFor \/ storageClassInfo
  <2>1. /\ pc \in {"claim", "events", "class", "consumers"}
        /\ worker' = worker /\ answer' = answer
    BY <1>1 DEF GetClaim, eventsFor, storageClassInfo
  <2>2. \A i \in Workers : worker'[i] = "idle"
    BY <2>1 DEF WorkersInv
  <2> QED BY <2>2 DEF WorkersInv, EveryFailureBooked
<1>2. CASE collectClaimConsumers
  <2>1. \A i \in Workers : worker'[i] \in {"idle", "fetch"}
    BY <1>2 DEF collectClaimConsumers, WorkersInv
  <2>2. pc' \in {"wait", "rules"}
    BY <1>2 DEF collectClaimConsumers
  <2> QED BY <2>1, <2>2 DEF WorkersInv, EveryFailureBooked
<1>3. ASSUME NEW i \in Workers, backendEvents(i) PROVE WorkersInv'
  <2>1. PICK a \in Reasons \cup {"ok"} : answer' = [answer EXCEPT ![i] = a]
    BY <1>3, AnswersFacts DEF backendEvents
  <2>2. a # "none"
    BY DEF Reasons
  <2> QED BY <1>3, <2>1, <2>2 DEF backendEvents, WorkersInv, EveryFailureBooked, TypeOK
<1>4. ASSUME NEW i \in Workers, Lock(i) PROVE WorkersInv'
  BY <1>4 DEF Lock, WorkersInv, EveryFailureBooked, TypeOK
<1>5. ASSUME NEW i \in Workers, Book(i) PROVE WorkersInv'
  <2>1. answer[i] \in Reasons \cup {"ok"} /\ copy[i] = degradations
    BY <1>5 DEF Book, WorkersInv, TypeOK
  <2>2. /\ degradations \subseteq degradations'
        /\ answer[i] # "ok" => [resource |-> "events", reason |-> answer[i]] \in degradations'
    BY <1>5, <2>1, DegradeFacts DEF Book
  <2>3. \A j \in Workers : worker'[j] # "book"
    BY <1>5 DEF Book, TypeOK
  <2>4. EveryFailureBooked'
    BY <1>5, <2>2 DEF Book, WorkersInv, EveryFailureBooked, TypeOK
  <2> QED BY <1>5, <2>3, <2>4 DEF Book, WorkersInv, TypeOK
<1>6. CASE Wait \/ RunRule \/ PVCReport \/ Render
  BY <1>6 DEF Wait, RunRule, PVCReport, Render, WorkersInv, EveryFailureBooked
<1>7. CASE Expire \/ Drift \/ UNCHANGED vars
  BY <1>7 DEF Expire, Drift, vars, WorkersInv, EveryFailureBooked
<1> QED BY <1>1, <1>2, <1>3, <1>4, <1>5, <1>6, <1>7 DEF Next, Step, Terminated

\* The two invariants, inductive together.
LEMMA Inductive == Spec => [](TypeOK /\ WorkersInv)
<1>1. Init => TypeOK /\ WorkersInv
  BY InitType, InitWorkers
<1>2. TypeOK /\ WorkersInv /\ [Next]_vars => (TypeOK /\ WorkersInv)'
  BY NextType, NextWorkers
<1> QED BY <1>1, <1>2, PTL DEF Spec

\* Whatever the Pods and the failures, the state stays well formed and at most one
\* goroutine is between Lock and Unlock.
THEOREM TypeCorrect == Spec => []TypeOK
<1> QED BY Inductive, PTL

\* For any number of goroutines failing in any order, the shared list of
\* degradations holds each failure from the moment its goroutine is done.
THEOREM NoFailureLost == Spec => []EveryFailureBooked
<1>1. WorkersInv => EveryFailureBooked
  BY DEF WorkersInv
<1> QED BY <1>1, Inductive, PTL

-----------------------------------------------------------------------------
(* What the goroutines have read when the wait group lets the main one on *)

\* A goroutine has been started for exactly the consumers that need events, and
\* none is under way any more once the rules run.
JoinInv ==
  /\ pc = "wait" => known
  /\ pc \in {"claim", "events", "class", "consumers"} => ~known
  /\ ~known => consumers = {} /\ \A i \in Workers : worker[i] = "idle"
  /\ known => \A i \in Workers : worker[i] = "idle" <=> i \notin needEvents(consumers)
  /\ pc \in {"rules", "render", "done"} => \A i \in Workers : worker[i] \in {"idle", "done"}

\* A goroutine has the number of its Pod, and only consumers get one.
LEMMA NeedEventsFacts ==
  /\ scenario \in Scenarios => DOMAIN scenario.pods \subseteq Workers
  /\ \A pods : needEvents(pods) \subseteq pods
<1>1. ASSUME scenario \in Scenarios PROVE DOMAIN scenario.pods \subseteq Workers
  <2>1. scenario.pods \in UNION {[1..n -> [mounts : BOOLEAN, ready : BOOLEAN]] : n \in 0..MaxPods}
    BY <1>1, ClaimAssumption DEF Scenario
  <2>2. PICK n \in 0..MaxPods : scenario.pods \in [1..n -> [mounts : BOOLEAN, ready : BOOLEAN]]
    BY <2>1
  <2>3. DOMAIN scenario.pods = 1..n
    BY <2>2
  <2> QED BY <2>3, ClaimAssumption DEF Workers
<1> QED BY <1>1 DEF needEvents, Unready

\* Nothing is under way at the start.
LEMMA InitJoin == Init => JoinInv
BY DEF Init, JoinInv

\* Every step keeps the goroutines those of the consumers.
LEMMA NextJoin == TypeOK /\ WorkersInv /\ JoinInv /\ [Next]_vars => JoinInv'
<1> SUFFICES ASSUME TypeOK, WorkersInv, JoinInv, [Next]_vars PROVE JoinInv'
  OBVIOUS
<1> USE DEF world, workers, verdict
<1>1. ASSUME scenario' = scenario, consumers' = consumers
      PROVE  needEvents(consumers)' = needEvents(consumers)
  BY <1>1 DEF needEvents, Unready
<1>2. CASE GetClaim \/ eventsFor \/ storageClassInfo
  <2>1. /\ ~known /\ known' = known /\ consumers' = consumers /\ worker' = worker
        /\ pc' \in {"events", "class", "consumers", "rules", "done"}
    BY <1>2 DEF GetClaim, eventsFor, storageClassInfo, JoinInv
  <2>2. \A i \in Workers : worker'[i] = "idle"
    BY <2>1 DEF JoinInv
  <2> QED BY <2>1, <2>2 DEF JoinInv
<1>3. CASE collectClaimConsumers
  <2>1. ~known /\ scenario' = scenario /\ \A i \in Workers : worker[i] = "idle"
    BY <1>3 DEF collectClaimConsumers, JoinInv
  <2>2. CASE pc' = "wait"
    <3>1. /\ known' = TRUE /\ consumers' = Mounting
          /\ worker' = [i \in Workers |-> IF i \in needEvents(Mounting) THEN "fetch" ELSE "idle"]
      BY <1>3, <2>2 DEF collectClaimConsumers
    <3>2. needEvents(consumers)' = needEvents(Mounting)
      BY <2>1, <3>1 DEF needEvents, Unready
    <3> QED BY <2>2, <3>1, <3>2 DEF JoinInv
  <2>3. CASE pc' = "rules"
    BY <1>3, <2>1, <2>3 DEF collectClaimConsumers, JoinInv
  <2> QED BY <1>3, <2>2, <2>3 DEF collectClaimConsumers
<1>4. ASSUME NEW i \in Workers, backendEvents(i) \/ Lock(i) \/ Book(i) PROVE JoinInv'
  <2>1. /\ scenario' = scenario /\ known' = known /\ consumers' = consumers /\ pc' = pc
        /\ worker[i] \notin {"idle", "done"}
        /\ \E w \in {"lock", "book", "done"} : worker' = [worker EXCEPT ![i] = w]
    BY <1>4 DEF backendEvents, Lock, Book
  <2>2. pc \notin {"rules", "render", "done"} /\ known
    BY <2>1 DEF JoinInv
  <2>3. \A j \in Workers : worker'[j] = "idle" <=> worker[j] = "idle"
    BY <2>1 DEF TypeOK
  <2> QED BY <1>1, <2>1, <2>2, <2>3 DEF JoinInv
<1>5. CASE Wait \/ RunRule \/ PVCReport \/ Render
  BY <1>1, <1>5 DEF Wait, RunRule, PVCReport, Render, JoinInv
<1>6. CASE Expire \/ Drift \/ UNCHANGED vars
  BY <1>1, <1>6 DEF Expire, Drift, vars, JoinInv
<1> QED BY <1>2, <1>3, <1>4, <1>5, <1>6 DEF Next, Step, Terminated

\* Once the rules run, nothing that they look at changes.
LEMMA SnapshotFixed ==
  ASSUME JoinInv, [Next]_vars, pc \in {"rules", "render", "done"}
  PROVE  /\ UNCHANGED <<scenario, events, class, known, consumers, worker, answer, degradations>>
         /\ pc' \in {"rules", "render", "done"}
<1> USE DEF world, workers, verdict
<1>1. ASSUME NEW i \in Workers, backendEvents(i) \/ Lock(i) \/ Book(i) PROVE FALSE
  BY <1>1 DEF backendEvents, Lock, Book, JoinInv
<1>2. CASE RunRule \/ PVCReport \/ Render \/ Expire \/ Drift \/ UNCHANGED vars
  BY <1>2 DEF RunRule, PVCReport, Render, Expire, Drift, vars
<1>3. ~(GetClaim \/ eventsFor \/ storageClassInfo \/ collectClaimConsumers \/ Wait)
  BY DEF GetClaim, eventsFor, storageClassInfo, collectClaimConsumers, Wait
<1> QED BY <1>1, <1>2, <1>3 DEF Next, Step, Terminated

\* The three invariants, inductive together.
LEMMA JoinInductive == Spec => [](TypeOK /\ WorkersInv /\ JoinInv)
<1>1. TypeOK /\ WorkersInv /\ JoinInv /\ [Next]_vars => JoinInv'
  BY NextJoin
<1> QED BY <1>1, InitJoin, Inductive, PTL DEF Spec

-----------------------------------------------------------------------------
(* The concurrent reads implement one atomic read *)

\* Once the goroutines are joined, each has its events or its failure on the list.
NoneOutstanding ==
  Joined => \A i \in needEvents(consumers) :
              answer[i] = "ok" \/ degrade("events", answer[i]) \subseteq degradations

\* It follows from what the goroutines have booked.
LEMMA JoinedIsComplete == TypeOK /\ WorkersInv /\ JoinInv => NoneOutstanding
<1> SUFFICES ASSUME TypeOK, WorkersInv, JoinInv, Joined, NEW i \in needEvents(consumers)
             PROVE  answer[i] = "ok" \/ degrade("events", answer[i]) \subseteq degradations
  BY DEF NoneOutstanding
<1>1. i \in Workers
  BY NeedEventsFacts DEF TypeOK
<1>2. worker[i] = "done"
  BY <1>1 DEF JoinInv, Joined
<1> QED BY <1>1, <1>2 DEF WorkersInv, EveryFailureBooked, degrade

\* For any number of Pods and any interleaving of their goroutines, what the rules
\* see is what one atomic read of all the events would have left: every Pod's events
\* or their failure, from the moment backendSnapshots returns.
THEOREM ReadsAtomic == Spec => ReadsAreOneStep
<1> DEFINE Outcome == IF ~Joined THEN <<>> ELSE
             [i \in needEvents(consumers) |->
                CASE answer[i] = "ok" -> "read"
                  [] degrade("events", answer[i]) \subseteq degradations -> "booked"
                  [] OTHER -> "lost"]
<1>1. Init => Reads!Init
  BY DEF Init, Reads!Init, Joined
<1>2. JoinInv /\ NoneOutstanding' /\ [Next]_vars => [Reads!Return]_Reads!vars
  <2> SUFFICES ASSUME JoinInv, NoneOutstanding', [Next]_vars
               PROVE  [Reads!Return]_Reads!vars
    OBVIOUS
  <2>1. CASE Joined
    <3>1. /\ UNCHANGED <<scenario, known, consumers, answer, degradations>>
          /\ pc' \in {"rules", "render", "done"}
      BY <2>1, SnapshotFixed DEF Joined
    <3>2. Joined' /\ needEvents(consumers)' = needEvents(consumers)
      BY <2>1, <3>1 DEF Joined, needEvents, Unready
    <3>3. Outcome' = Outcome
      BY <2>1, <3>1, <3>2 DEF degrade
    <3> QED BY <2>1, <3>2, <3>3 DEF Reads!vars
  <2>2. CASE ~Joined /\ ~Joined'
    BY <2>2 DEF Reads!vars, Joined
  <2>3. CASE ~Joined /\ Joined'
    <3>1. Outcome' \in [needEvents(consumers)' -> {"read", "booked"}]
      BY <2>3 DEF NoneOutstanding
    <3> QED BY <2>3, <3>1 DEF Reads!Return
  <2> QED BY <2>1, <2>2, <2>3
<1> QED BY <1>1, <1>2, JoinInductive, JoinedIsComplete, PTL DEF Spec, ReadsAreOneStep, Reads!Spec

-----------------------------------------------------------------------------
(* The snapshot says what was so *)

\* What is known of the class and the consumers was true when it was read.
ReadInv ==
  /\ Objects \ present \subseteq everAbsent
  /\ pc \in {"claim", "events", "class"} => class = [exists |-> "unread", waits |-> FALSE]
  /\ pc \in {"class", "consumers", "wait"} => ~IsBound
  /\ class.exists # "unread" => scenario.class # "none"
  /\ class.waits <=> class.exists = "found" /\ scenario.waits
  /\ class.exists = "missing" => "class" \in everAbsent
  /\ known /\ "pods" \notin everAbsent =>
       consumers = {i \in DOMAIN scenario.pods : scenario.pods[i].mounts}

\* Nothing is known at the start.
LEMMA InitRead == Init => ReadInv
<1> SUFFICES ASSUME Init PROVE ReadInv
  OBVIOUS
<1>1. scenario \in Scenario
  BY ClaimAssumption DEF Init
<1> QED BY <1>1 DEF Init, ReadInv, Scenario, IsBound

\* Every read adds only what is so at that moment.
LEMMA NextRead == TypeOK /\ JoinInv /\ ReadInv /\ [Next]_vars => ReadInv'
<1> SUFFICES ASSUME TypeOK, JoinInv, ReadInv, [Next]_vars PROVE ReadInv'
  OBVIOUS
<1> USE DEF world, workers, verdict, IsBound
<1>s. scenario \in Scenario
  BY ClaimAssumption DEF TypeOK
<1>1. CASE GetClaim
  BY <1>1 DEF GetClaim, ReadInv
<1>2. CASE eventsFor
  BY <1>2 DEF eventsFor, ReadInv
<1>3. CASE storageClassInfo
  <2>1. CASE scenario.class = "none"
    BY <1>3, <2>1 DEF storageClassInfo, ReadInv
  <2>2. CASE scenario.class # "none"
    <3>1. PICK a \in Lookup("class") : class' = [exists |-> existence(a), waits |-> ClassWaits(a)]
      BY <1>3, <2>2 DEF storageClassInfo
    <3>2. existence(a) = "missing" => a = "NotFound" /\ "class" \notin present
      BY <3>1, ClaimAssumption DEF existence, Lookup, Answers
    <3>3. ClassWaits(a) <=> existence(a) = "found" /\ scenario.waits
      BY <2>2 DEF ClassWaits, existence
    <3>4. existence(a) = "missing" => "class" \in everAbsent
      BY <3>2 DEF ReadInv, Objects
    <3>5. /\ pc' = "consumers" /\ pc = "class"
          /\ UNCHANGED <<scenario, present, everAbsent, known, consumers>>
      BY <1>3 DEF storageClassInfo
    <3> QED BY <2>2, <3>1, <3>3, <3>4, <3>5 DEF ReadInv
  <2> QED BY <2>1, <2>2
<1>4. CASE collectClaimConsumers
  <2>1. known' /\ "pods" \notin everAbsent' =>
          consumers' = {i \in DOMAIN scenario'.pods : scenario'.pods[i].mounts}
    BY <1>4 DEF collectClaimConsumers, ReadInv, Mounting, Objects
  <2> QED BY <1>4, <2>1 DEF collectClaimConsumers, ReadInv
<1>5. ASSUME NEW i \in Workers, backendEvents(i) \/ Lock(i) \/ Book(i) PROVE ReadInv'
  BY <1>5 DEF backendEvents, Lock, Book, ReadInv
<1>6. CASE Wait \/ RunRule \/ PVCReport \/ Render
  BY <1>6 DEF Wait, RunRule, PVCReport, Render, ReadInv
<1>7. CASE Expire \/ UNCHANGED vars
  BY <1>7 DEF Expire, vars, ReadInv
<1>8. CASE Drift
  <2>1. everAbsent \subseteq everAbsent' /\ Objects \ present' \subseteq everAbsent'
    BY <1>8 DEF Drift, ReadInv
  <2> QED BY <1>8, <2>1 DEF Drift, ReadInv
<1> QED BY <1>1, <1>2, <1>3, <1>4, <1>5, <1>6, <1>7, <1>8 DEF Next, Step, Terminated

-----------------------------------------------------------------------------
(* The report is what the rules found *)

\* What the first rules find in the snapshot.
RulesBefore(n) == UNION {Rules[k] : k \in 1..(n - 1)}

\* The findings are those of the rules that ran or, without any, the fallback's, and
\* the status is derived from them.
FoundInv ==
  /\ pc \in {"claim", "events", "class", "consumers", "wait"} => next = 1 /\ found = {}
  /\ pc \in {"claim", "events", "class", "consumers", "wait", "rules"} => ~Reported
  /\ pc = "render" => Reported
  /\ ~Reported => found = RulesBefore(next)
  /\ Reported =>
       /\ found = IF RulesBefore(next) = {} THEN Fallback ELSE RulesBefore(next)
       /\ status = DeriveStatus(found, degradations # {})

\* The rules look at the snapshot alone.
LEMMA RulesKept ==
  ASSUME UNCHANGED <<scenario, events, class, known, consumers>>
  PROVE  Rules' = Rules /\ Fallback' = Fallback
<1> USE DEF Finding, IsBound, NoClassID
<1>1. evaluateStorageClass' = evaluateStorageClass
  BY DEF evaluateStorageClass
<1>2. evaluateProvisioning' = evaluateProvisioning
  BY DEF evaluateProvisioning, ProvisioningCause
<1>3. evaluateConsumers' = evaluateConsumers
  BY DEF evaluateConsumers
<1>4. evaluateLost' = evaluateLost
  BY DEF evaluateLost
<1> QED BY <1>1, <1>2, <1>3, <1>4 DEF Rules, Fallback

\* The findings one by one, and what they are when no rule or every rule has run.
LEMMA RulesBeforeFacts ==
  /\ RulesBefore(1) = {}
  /\ \A n \in 1..4 : RulesBefore(n + 1) = RulesBefore(n) \cup Rules[n]
  /\ RulesBefore(5) = evaluateStorageClass \cup evaluateProvisioning \cup evaluateConsumers
                         \cup evaluateLost
<1>1. RulesBefore(1) = {}
  BY DEF RulesBefore
<1>2. ASSUME NEW n \in 1..4 PROVE RulesBefore(n + 1) = RulesBefore(n) \cup Rules[n]
  <2>1. 1..((n + 1) - 1) = (1..(n - 1)) \cup {n}
    OBVIOUS
  <2> QED BY <2>1 DEF RulesBefore
<1>3. RulesBefore(5) = Rules[1] \cup Rules[2] \cup Rules[3] \cup Rules[4]
  <2>1. RulesBefore(2) = Rules[1]
    BY <1>1, <1>2
  <2>2. RulesBefore(3) = Rules[1] \cup Rules[2]
    BY <1>2, <2>1
  <2>3. RulesBefore(4) = Rules[1] \cup Rules[2] \cup Rules[3]
    BY <1>2, <2>2
  <2> QED BY <1>2, <2>3
<1> QED BY <1>1, <1>2, <1>3 DEF Rules

\* Nothing is found at the start.
LEMMA InitFound == Init => FoundInv
BY RulesBeforeFacts DEF Init, FoundInv, Reported

\* Every rule adds what it finds, and the report is made of them.
LEMMA NextFound == TypeOK /\ JoinInv /\ FoundInv /\ [Next]_vars => FoundInv'
<1> SUFFICES ASSUME TypeOK, JoinInv, FoundInv, [Next]_vars PROVE FoundInv'
  OBVIOUS
<1> USE DEF world, workers, verdict, Reported
<1>1. ASSUME pc \in {"claim", "events", "class", "consumers", "wait"},
             UNCHANGED <<next, found, status>>, pc' # "render"
      PROVE  FoundInv'
  <2>1. RulesBefore(next)' = {}
    BY <1>1, RulesBeforeFacts DEF FoundInv, RulesBefore
  <2> QED BY <1>1, <2>1 DEF FoundInv
<1>2. CASE GetClaim \/ eventsFor \/ storageClassInfo \/ collectClaimConsumers \/ Wait
  BY <1>1, <1>2 DEF GetClaim, eventsFor, storageClassInfo, collectClaimConsumers, Wait
<1>3. ASSUME NEW i \in Workers, backendEvents(i) \/ Lock(i) \/ Book(i) PROVE FoundInv'
  <2>1. pc \notin {"rules", "render", "done"}
    BY <1>3 DEF backendEvents, Lock, Book, JoinInv
  <2> QED BY <1>1, <1>3, <2>1 DEF backendEvents, Lock, Book, TypeOK
<1>4. ASSUME pc \in {"rules", "render", "done"}
      PROVE  /\ degradations' = degradations /\ Fallback' = Fallback
             /\ \A n : RulesBefore(n)' = RulesBefore(n)
  BY <1>4, SnapshotFixed, RulesKept DEF RulesBefore
<1>5. CASE RunRule
  <2>1. next \in 1..4 /\ next' = next + 1 /\ found' = found \cup Rules[next]
    BY <1>5, RuleFindings DEF RunRule
  <2>2. RulesBefore(next)' = RulesBefore(next + 1)
    BY <1>4, <1>5, <2>1 DEF RunRule, RulesBefore
  <2> QED BY <1>5, <2>1, <2>2, RulesBeforeFacts DEF RunRule, FoundInv
<1>6. CASE PVCReport
  <2>1. status' # "none" /\ next' = next
    BY <1>6 DEF PVCReport, DeriveStatus
  <2>2. RulesBefore(next)' = RulesBefore(next) /\ Fallback' = Fallback
    BY <1>4, <1>6, <2>1 DEF PVCReport, RulesBefore
  <2> QED BY <1>6, <2>1, <2>2 DEF PVCReport, FoundInv
<1>7. CASE UNCHANGED <<pc, next, found, status, degradations, scenario, events, class, known,
                       consumers>>
  <2>1. RulesBefore(next)' = RulesBefore(next) /\ Fallback' = Fallback
    BY <1>7, RulesKept DEF RulesBefore
  <2> QED BY <1>7, <2>1 DEF FoundInv
<1>8. CASE Render
  <2>1. RulesBefore(next)' = RulesBefore(next) /\ Fallback' = Fallback
    BY <1>8, RulesKept DEF RulesBefore, Render
  <2> QED BY <1>8, <2>1 DEF FoundInv, Render
<1>9. CASE Expire \/ Drift \/ UNCHANGED vars
  BY <1>7, <1>9 DEF Expire, Drift, vars
<1> QED BY <1>2, <1>3, <1>5, <1>6, <1>8, <1>9 DEF Next, Step, Terminated

\* What the report says rests on the snapshot and the snapshot on the reads.
LEMMA ReportInductive == Spec => [](TypeOK /\ JoinInv /\ ReadInv /\ FoundInv)
<1>1. TypeOK /\ JoinInv /\ ReadInv /\ FoundInv /\ [Next]_vars => ReadInv' /\ FoundInv'
  BY NextRead, NextFound
<1> QED BY <1>1, InitRead, InitFound, JoinInductive, PTL DEF Spec

\* A report on a claim that has not bound has a finding, whatever could not be read
\* and wherever the context ended the rules: if none of those that ran had any, the
\* fallback speaks.
THEOREM SilenceMeansBound == Spec => []NeverQuiet
<1>1. TypeOK /\ FoundInv => NeverQuiet
  <2> SUFFICES ASSUME TypeOK, FoundInv, Reported, ~IsBound, scenario.phase = "Lost" => Evaluated
               PROVE  found # {}
    BY DEF NeverQuiet
  <2>1. CASE RulesBefore(next) # {}
    BY <2>1 DEF FoundInv
  <2>2. CASE scenario.phase # "Lost"
    BY <2>2 DEF FoundInv, Fallback
  <2>3. CASE scenario.phase = "Lost"
    <3>1. next = 5
      BY <2>3 DEF Evaluated, Rules, TypeOK
    <3>2. evaluateLost # {}
      BY <2>3 DEF evaluateLost
    <3> QED BY <2>1, <3>1, <3>2, RulesBeforeFacts
  <2> QED BY <2>1, <2>2, <2>3
<1> QED BY <1>1, ReportInductive, PTL

\* When every rule has run, the findings are those of the four, or the fallback's.
LEMMA EvaluatedFindings ==
  ASSUME TypeOK, FoundInv, Evaluated
  PROVE  \/ found = Fallback
         \/ found = evaluateStorageClass \cup evaluateProvisioning \cup evaluateConsumers
                      \cup evaluateLost
<1>1. next = 5
  BY DEF Evaluated, Rules, TypeOK
<1> QED BY <1>1, RulesBeforeFacts DEF FoundInv, Evaluated

\* When the rules have all run, a missing storage class that a failed provisioning is
\* blamed on is in the report itself, because the two rules judge the class alike.
THEOREM CausesAreTold == Spec => []NoDanglingCause
<1>1. TypeOK /\ ReadInv /\ FoundInv => NoDanglingCause
  <2> SUFFICES ASSUME TypeOK, ReadInv, FoundInv, Evaluated,
                      NEW f \in found, f.causedBy # NoCause
               PROVE  \E g \in found : g.id = f.causedBy
    BY DEF NoDanglingCause
  <2> USE DEF Finding
  <2>1. f \notin Fallback
    BY DEF Fallback
  <2>2. found = evaluateStorageClass \cup evaluateProvisioning \cup evaluateConsumers
                  \cup evaluateLost
    BY <2>1, EvaluatedFindings
  <2>3. f \in evaluateProvisioning
    BY <2>2 DEF evaluateStorageClass, evaluateConsumers, evaluateLost
  <2>4. ~IsBound /\ class.exists = "missing" /\ f.causedBy = NoClassID
    BY <2>3 DEF evaluateProvisioning, ProvisioningCause
  <2>5. evaluateStorageClass = {Finding(NoClassID, "critical", NoCause)}
    BY <2>4 DEF evaluateStorageClass, ReadInv
  <2>6. Finding(NoClassID, "critical", NoCause) \in found
    BY <2>2, <2>5
  <2>7. Finding(NoClassID, "critical", NoCause).id = f.causedBy
    BY <2>4
  <2> QED BY <2>6, <2>7
<1> QED BY <1>1, ReportInductive, PTL

\* A claim that waits for its first consumer is no issue when it has one, whether
\* that consumer could be listed or not.
THEOREM WaitingExcused == Spec => []WaitingIsNoFault
<1>1. TypeOK /\ ReadInv /\ FoundInv => WaitingIsNoFault
  <2> SUFFICES ASSUME TypeOK, ReadInv, FoundInv, Evaluated,
                      scenario.phase \in {"Unknown", "Pending"},
                      class.exists = "found", scenario.waits, scenario.events = {},
                      "pods" \notin everAbsent,
                      \E i \in DOMAIN scenario.pods : scenario.pods[i].mounts
               PROVE  ~IssueFound
    BY DEF WaitingIsNoFault
  <2> USE DEF Finding
  <2>1. ~IsBound /\ class.waits /\ events = {}
    BY DEF IsBound, ReadInv, TypeOK
  <2>2. ~(known /\ consumers = {})
    BY DEF ReadInv
  <2>3. evaluateConsumers = {Finding("PVC_WAITING_FOR_CONSUMER", "info", NoCause)}
    BY <2>1, <2>2 DEF evaluateConsumers
  <2>4. evaluateStorageClass = {} /\ evaluateProvisioning = {} /\ evaluateLost = {}
    BY <2>1 DEF evaluateStorageClass, evaluateProvisioning, evaluateLost
  <2>5. RulesBefore(next) = {Finding("PVC_WAITING_FOR_CONSUMER", "info", NoCause)}
    <3>1. next = 5
      BY DEF Evaluated, Rules, TypeOK
    <3> QED BY <2>3, <2>4, <3>1, RulesBeforeFacts
  <2>6. found = {Finding("PVC_WAITING_FOR_CONSUMER", "info", NoCause)}
    BY <2>5 DEF FoundInv, Evaluated
  <2>7. status \in {"healthy", "unknown"}
    BY <2>6 DEF FoundInv, Evaluated, DeriveStatus
  <2> QED BY <2>7 DEF IssueFound
<1> QED BY <1>1, ReportInductive, PTL

-----------------------------------------------------------------------------
(* Completeness and cost *)

\* Without a degradation, everything that was due has been read.
CompleteInv ==
  degradations = {} =>
    /\ pc \in {"class", "consumers", "wait", "rules", "render"} \/ Reported =>
         events = scenario.events
    /\ pc \in {"consumers", "wait", "rules", "render"} \/ Reported =>
         IsBound \/ scenario.class = "none" \/ class.exists \in {"found", "missing"}
    /\ pc \in {"rules", "render"} \/ Reported => IsBound \/ known

\* The goroutines whose request has been answered.
Answered == {i \in Workers : worker[i] \notin {"idle", "fetch"}}

\* Every request is accounted for by where the run is.
CostInv ==
  /\ pc = "claim" => calls = 0
  /\ pc = "events" => calls = 1
  /\ pc = "class" => calls = 2
  /\ pc = "consumers" => calls <= 3
  /\ pc \in {"wait", "rules", "render", "done"} =>
       calls <= IF IsBound THEN 2 ELSE 4 + Cardinality(Answered)

\* No more than maxBackendEvents Pods have their events read: each is preceded by
\* a different number of unready ones.
LEMMA FewEvents ==
  ASSUME scenario \in Scenarios, NEW pods \in SUBSET (DOMAIN scenario.pods)
  PROVE  /\ IsFiniteSet(needEvents(pods))
         /\ Cardinality(needEvents(pods)) <= MaxBackendEvents
<1> DEFINE U == Unready(pods)
           Below(i) == {j \in U : j < i}
           rank == [i \in needEvents(pods) |-> Cardinality(Below(i))]
           B == 0..(MaxBackendEvents - 1)
<1>1. U \subseteq Workers /\ needEvents(pods) \subseteq U
  BY NeedEventsFacts DEF Unready, needEvents
<1>2. IsFiniteSet(Workers) /\ U \subseteq Int
  BY <1>1, ClaimAssumption, FS_Interval DEF Workers
<1>3. IsFiniteSet(U)
  BY <1>1, <1>2, FS_Subset
<1>4. ASSUME NEW i \in U
      PROVE  IsFiniteSet(Below(i)) /\ Cardinality(Below(i)) \in Nat
  BY <1>3, FS_Subset, FS_CardinalityType
<1>5. ASSUME NEW i \in needEvents(pods) PROVE Cardinality(Below(i)) \in B
  <2>1. i \in U /\ Cardinality(Below(i)) < MaxBackendEvents
    BY DEF needEvents
  <2>2. Cardinality(Below(i)) \in Nat
    BY <1>4, <2>1
  <2> HIDE DEF Below, U
  <2> QED BY <2>1, <2>2, ClaimAssumption
<1>6. ASSUME NEW i \in U, NEW k \in U, i < k
      PROVE  Cardinality(Below(i)) # Cardinality(Below(k))
  <2>1. Below(i) \in SUBSET Below(k) /\ i \in Below(k) /\ i \notin Below(i)
    BY <1>2, <1>6
  <2> QED BY <1>4, <2>1, FS_Subset
<1>7. rank \in Injection(needEvents(pods), B)
  <2>1. ASSUME NEW i \in needEvents(pods), NEW k \in needEvents(pods), rank[i] = rank[k]
        PROVE  i = k
    <3>1. i \in U /\ k \in U /\ i \in Int /\ k \in Int
      BY <1>1, <1>2
    <3>2. Cardinality(Below(i)) = Cardinality(Below(k))
      BY <2>1
    <3> HIDE DEF U, Below
    <3>3. ~(i < k) /\ ~(k < i)
      BY <1>6, <3>1, <3>2
    <3> QED BY <3>1, <3>3
  <2>2. rank \in [needEvents(pods) -> B]
    BY <1>5
  <2> QED BY <2>1, <2>2 DEF Injection, IsInjective
<1>8. IsFiniteSet(B) /\ Cardinality(B) = MaxBackendEvents
  BY ClaimAssumption, FS_Interval
<1> QED BY <1>7, <1>8, FS_Injection

\* Nothing has been read or requested at the start.
LEMMA InitComplete == Init => CompleteInv /\ CostInv
BY DEF Init, CompleteInv, CostInv, Reported

\* What cannot be read is booked.
LEMMA NextComplete ==
  TypeOK /\ WorkersInv /\ JoinInv /\ FoundInv /\ CompleteInv /\ [Next]_vars => CompleteInv'
<1> SUFFICES ASSUME TypeOK, WorkersInv, JoinInv, FoundInv, CompleteInv, [Next]_vars,
                    degradations' = {}
             PROVE  CompleteInv'
  BY DEF CompleteInv
<1> USE DEF world, workers, verdict, Reported, IsBound
<1>1. CASE GetClaim
  BY <1>1 DEF GetClaim, CompleteInv, FoundInv
<1>2. CASE eventsFor
  <2>1. events' = scenario.events
    BY <1>2 DEF eventsFor, degrade
  <2> QED BY <1>2, <2>1 DEF eventsFor, CompleteInv, FoundInv
<1>3. CASE storageClassInfo
  <2>1. degradations = {}
    BY <1>3 DEF storageClassInfo
  <2>2. ASSUME scenario.class # "none" PROVE class'.exists \in {"found", "missing"}
    <3>1. PICK a : /\ class' = [exists |-> existence(a), waits |-> ClassWaits(a)]
                   /\ degradations' = degradations \cup existenceDegradation("storageclasses", a)
      BY <1>3, <2>2 DEF storageClassInfo
    <3>2. a \in {"ok", "NotFound"}
      BY <3>1 DEF existenceDegradation, degrade
    <3> QED BY <3>1, <3>2 DEF existence
  <2> QED BY <1>3, <2>1, <2>2 DEF storageClassInfo, CompleteInv, FoundInv
<1>4. CASE collectClaimConsumers
  <2>1. degradations = {} /\ pc' = "wait"
    BY <1>4 DEF collectClaimConsumers, degrade
  <2> QED BY <1>4, <2>1 DEF collectClaimConsumers, CompleteInv, FoundInv
<1>5. ASSUME NEW i \in Workers, backendEvents(i) \/ Lock(i) PROVE CompleteInv'
  BY <1>5 DEF backendEvents, Lock, CompleteInv
<1>6. ASSUME NEW i \in Workers, Book(i) PROVE CompleteInv'
  <2>1. degradations = {}
    BY <1>6 DEF Book, WorkersInv, degrade
  <2> QED BY <1>6, <2>1 DEF Book, CompleteInv
<1>7. CASE Wait
  BY <1>7 DEF Wait, CompleteInv, JoinInv
<1>8. CASE RunRule \/ PVCReport \/ Render
  BY <1>8 DEF RunRule, PVCReport, Render, CompleteInv, FoundInv
<1>9. CASE Expire \/ Drift \/ UNCHANGED vars
  BY <1>9 DEF Expire, Drift, vars, CompleteInv
<1> QED BY <1>1, <1>2, <1>3, <1>4, <1>5, <1>6, <1>7, <1>8, <1>9 DEF Next, Step, Terminated

\* Every step makes at most the request it stands for.
LEMMA NextCost == TypeOK /\ JoinInv /\ ReadInv /\ CostInv /\ [Next]_vars => CostInv'
<1> SUFFICES ASSUME TypeOK, JoinInv, ReadInv, CostInv, [Next]_vars PROVE CostInv'
  OBVIOUS
<1> USE DEF world, workers, verdict, IsBound
<1>1. IsFiniteSet(Workers)
  BY ClaimAssumption, FS_Interval DEF Workers
<1>2. IsFiniteSet(Answered) /\ Cardinality(Answered) \in Nat
  BY <1>1, FS_Subset, FS_CardinalityType DEF Answered
<1>3. IsFiniteSet(Answered)' /\ Cardinality(Answered)' \in Nat
  BY <1>1, FS_Subset, FS_CardinalityType DEF Answered
<1>4. CASE GetClaim \/ eventsFor \/ storageClassInfo \/ collectClaimConsumers
  <2>1. /\ calls' <= calls + 1 /\ calls' \in Nat /\ scenario' = scenario
        /\ calls <= 3
    BY <1>4 DEF GetClaim, eventsFor, storageClassInfo, collectClaimConsumers, TypeOK, CostInv
  <2>2. CASE GetClaim
    BY <1>3, <2>1, <2>2 DEF GetClaim, CostInv
  <2>3. CASE eventsFor
    BY <1>3, <2>1, <2>3 DEF eventsFor, CostInv
  <2>4. CASE storageClassInfo
    BY <1>3, <2>1, <2>4 DEF storageClassInfo, CostInv
  <2>5. CASE collectClaimConsumers
    <3>1. ~IsBound' /\ pc' \in {"wait", "rules"} /\ calls' <= 4
      BY <2>1, <2>5 DEF collectClaimConsumers, ReadInv, TypeOK
    <3> QED BY <1>3, <2>1, <3>1 DEF CostInv
  <2> QED BY <1>4, <2>2, <2>3, <2>4, <2>5
<1>5. ASSUME NEW i \in Workers, backendEvents(i) PROVE CostInv'
  <2>1. pc = "wait" /\ pc' = pc /\ ~IsBound /\ scenario' = scenario /\ calls' = calls + 1
    BY <1>5 DEF backendEvents, JoinInv, ReadInv, TypeOK
  <2>2. i \notin Answered /\ Answered' = Answered \cup {i}
    BY <1>5 DEF backendEvents, Answered, TypeOK
  <2>3. Cardinality(Answered') = Cardinality(Answered) + 1
    BY <1>2, <2>2, FS_AddElement
  <2> QED BY <1>2, <2>1, <2>3 DEF CostInv, TypeOK
<1>6. ASSUME NEW i \in Workers, Lock(i) \/ Book(i) PROVE CostInv'
  <2>1. Answered' = Answered
    BY <1>6 DEF Lock, Book, Answered, TypeOK
  <2> QED BY <1>6, <2>1 DEF Lock, Book, CostInv
<1>7. CASE Wait \/ RunRule \/ PVCReport \/ Render
  <2>1. Answered' = Answered
    BY <1>7 DEF Wait, RunRule, PVCReport, Render, Answered
  <2> QED BY <1>7, <2>1 DEF Wait, RunRule, PVCReport, Render, CostInv
<1>8. CASE Expire \/ Drift \/ UNCHANGED vars
  <2>1. Answered' = Answered
    BY <1>8 DEF Expire, Drift, vars, Answered
  <2> QED BY <1>8, <2>1 DEF Expire, Drift, vars, CostInv
<1> QED BY <1>4, <1>5, <1>6, <1>7, <1>8 DEF Next, Step, Terminated

\* No analysis of a claim makes more requests than it may.
LEMMA NeverOverspent == TypeOK /\ JoinInv /\ ReadInv /\ CostInv => ~Overspent
<1> SUFFICES ASSUME TypeOK, JoinInv, ReadInv, CostInv PROVE ~Overspent
  OBVIOUS
<1>1. Answered \in SUBSET needEvents(consumers)
  BY DEF Answered, JoinInv
<1>2. Cardinality(Answered) <= MaxBackendEvents /\ Cardinality(Answered) \in Nat
  <2>1. /\ IsFiniteSet(needEvents(consumers))
        /\ Cardinality(needEvents(consumers)) <= MaxBackendEvents
    BY FewEvents DEF TypeOK
  <2>2. /\ Cardinality(Answered) <= Cardinality(needEvents(consumers))
        /\ Cardinality(Answered) \in Nat /\ Cardinality(needEvents(consumers)) \in Nat
    BY <1>1, <2>1, FS_Subset, FS_CardinalityType
  <2> QED BY <2>1, <2>2, ClaimAssumption
<1> QED BY <1>2, ClaimAssumption DEF Overspent, CostInv, ReadInv, TypeOK

-----------------------------------------------------------------------------
(* A claim analysis implements the safety part of Analysis *)

\* All of it together, and that nothing is printed before the end.
ClaimInv ==
  /\ TypeOK /\ WorkersInv /\ JoinInv /\ ReadInv /\ FoundInv /\ CompleteInv /\ CostInv
  /\ pc # "done" => exit = -1

\* It holds throughout.
LEMMA ClaimInductive == Spec => []ClaimInv
<1>1. Init => pc # "done" /\ exit = -1
  BY DEF Init
<1>2. (pc # "done" => exit = -1) /\ [Next]_vars => (pc # "done" => exit = -1)'
  <2> USE DEF world, workers, verdict
  <2> SUFFICES ASSUME pc # "done" => exit = -1, [Next]_vars PROVE (pc # "done" => exit = -1)'
    OBVIOUS
  <2>1. CASE GetClaim \/ eventsFor \/ storageClassInfo \/ collectClaimConsumers
    BY <2>1 DEF GetClaim, eventsFor, storageClassInfo, collectClaimConsumers
  <2>2. CASE \E i \in Workers : backendEvents(i) \/ Lock(i) \/ Book(i)
    BY <2>2 DEF backendEvents, Lock, Book
  <2>3. CASE Wait \/ RunRule \/ PVCReport \/ Render \/ Expire \/ Drift \/ UNCHANGED vars
    BY <2>3 DEF Wait, RunRule, PVCReport, Render, Expire, Drift, vars
  <2> QED BY <2>1, <2>2, <2>3 DEF Next, Step, Terminated
<1> QED
  BY <1>1, <1>2, Inductive, JoinInductive, ReportInductive, InitComplete, NextComplete, NextCost,
     PTL
  DEF Spec, ClaimInv

\* What was missing stays so, as far as the past is concerned.
LEMMA GoneFacts ==
  /\ everAbsent \subseteq Gone
  /\ (\A i \in DOMAIN scenario.pods : ~scenario.pods[i].mounts) => "pods" \in Gone
  /\ scenario' = scenario /\ everAbsent \subseteq everAbsent' => Gone \subseteq Gone'
  /\ scenario' = scenario /\ everAbsent = everAbsent' => Gone = Gone'
BY DEF Gone

\* A finding comes from the fallback or from one of the four rules.
LEMMA FindingSource ==
  ASSUME TypeOK, FoundInv
  PROVE  found \subseteq Fallback \cup evaluateStorageClass \cup evaluateProvisioning
                           \cup evaluateConsumers \cup evaluateLost
<1>1. RulesBefore(next) \subseteq Rules[1] \cup Rules[2] \cup Rules[3] \cup Rules[4]
  <2>1. \A k \in 1..(next - 1) : k \in {1, 2, 3, 4}
    BY DEF TypeOK
  <2> QED BY <2>1 DEF RulesBefore
<1>2. found \subseteq Fallback \cup RulesBefore(next)
  BY DEF FoundInv
<1> QED BY <1>1, <1>2 DEF Rules

\* What is called missing was missing, and counts as an issue.
LEMMA MissingFacts ==
  ASSUME ClaimInv, NEW m \in Missing
  PROVE  m \in Gone /\ status \in {"degraded", "unhealthy"}
<1> USE DEF ClaimInv, Finding
<1>1. PICK f \in found : Reported /\ f.id \in DOMAIN Absence /\ m = Absence[f.id]
  BY DEF Missing
<1>2. f \in evaluateStorageClass \/ (f \in evaluateConsumers /\ f.id = "PVC_NO_CONSUMER")
  BY <1>1, FindingSource
  DEF Absence, Fallback, evaluateProvisioning, evaluateConsumers, evaluateLost
<1>3. CASE f \in evaluateStorageClass
  <2>1. class.exists = "missing" /\ f.severity = "critical" /\ m = "class"
    BY <1>1, <1>3 DEF evaluateStorageClass, NoClassID, Absence
  <2> QED BY <1>1, <2>1, GoneFacts DEF ReadInv, FoundInv, DeriveStatus
<1>4. CASE f \in evaluateConsumers /\ f.id = "PVC_NO_CONSUMER"
  <2>1. known /\ consumers = {} /\ f.severity = "warning" /\ m = "pods"
    BY <1>1, <1>4 DEF evaluateConsumers, Absence
  <2>2. "pods" \in Gone
    BY <2>1, GoneFacts DEF ReadInv
  <2> QED BY <1>1, <2>1, <2>2 DEF FoundInv, DeriveStatus
<1> QED BY <1>2, <1>3, <1>4

\* The verdict of a report that stands.
JudgedInv ==
  Reported =>
    /\ status \in {"healthy", "degraded", "unhealthy", "unknown"}
    /\ status = "healthy" => ~Incomplete
    /\ status = "unknown" => Incomplete
    /\ Missing \subseteq Gone
    /\ Missing # {} => status \in {"degraded", "unhealthy"}

\* It follows from the reads and the rules.
LEMMA Judged == ClaimInv => JudgedInv
<1> SUFFICES ASSUME ClaimInv, Reported PROVE JudgedInv
  BY DEF JudgedInv
<1>1. status = DeriveStatus(found, degradations # {})
  BY DEF ClaimInv, FoundInv
<1>2. degradations = {} => Looked
  <2> SUFFICES ASSUME degradations = {} PROVE Looked
    OBVIOUS
  <2>1. /\ events = scenario.events
        /\ IsBound \/ (known /\ (scenario.class # "none" => class.exists \in {"found", "missing"}))
    BY DEF ClaimInv, CompleteInv
  <2>2. ASSUME NEW i \in needEvents(consumers) PROVE answer[i] = "ok"
    <3>1. known /\ pc \in {"rules", "render", "done"}
      BY <2>2, NeedEventsFacts DEF ClaimInv, JoinInv, FoundInv, TypeOK
    <3>2. answer[i] = "ok" \/ degrade("events", answer[i]) = {}
      BY <3>1, JoinedIsComplete DEF ClaimInv, NoneOutstanding, Joined
    <3> QED BY <3>2 DEF degrade
  <2> QED BY <2>1, <2>2 DEF Looked
<1> QED BY <1>1, <1>2, MissingFacts DEF JudgedInv, Incomplete, DeriveStatus

\* Every step of the analysis is a step of Analysis, or none.
LEMMA ContractStep ==
  ASSUME ClaimInv, ClaimInv', JudgedInv', ~Overspent, ~Overspent', [Next]_vars
  PROVE  [Contract!Next]_Contract!vars
<1> USE DEF world, workers, verdict, Contract!vars
<1>1. Overspent = FALSE /\ Overspent' = FALSE
  BY DEF Overspent
\* Before the report stands it says nothing.
<1>2. ASSUME pc \in {"claim", "events", "class", "consumers", "wait", "rules"},
             pc' \in {"claim", "events", "class", "consumers", "wait", "rules"},
             UNCHANGED <<scenario, everAbsent, status, exit>>
      PROVE  UNCHANGED Contract!vars
  <2>1. ~Reported /\ ~Reported'
    BY <1>2 DEF ClaimInv, FoundInv, Reported
  <2>2. /\ Stage = "open" /\ Stage' = "open" /\ Incomplete = FALSE /\ Incomplete' = FALSE
        /\ Missing = {} /\ Missing' = {}
    BY <1>2, <2>1 DEF Stage, Incomplete, Missing
  <2> QED BY <1>1, <1>2, <2>2, GoneFacts
\* Once it stands it does not change, whatever happens to the cluster.
<1>3. ASSUME pc \in {"rules", "render", "done"}, UNCHANGED <<found, status>>
      PROVE  Incomplete' = Incomplete /\ Missing' = Missing
  <2>1. UNCHANGED <<scenario, events, class, known, consumers, answer, degradations>>
    BY <1>3, SnapshotFixed DEF ClaimInv
  <2>2. Looked' = Looked /\ Reported' = Reported
    BY <1>3, <2>1 DEF Looked, IsBound, needEvents, Unready, Reported
  <2> QED BY <1>3, <2>1, <2>2 DEF Incomplete, Missing
<1>4. CASE GetClaim
  <2>1. PICK a \in Lookup("claim") :
          IF a = "ok" THEN pc' = "events" /\ UNCHANGED exit
                      ELSE pc' = "done" /\ exit' = reportError(a)
    BY <1>4 DEF GetClaim
  <2>2. CASE a = "ok"
    BY <1>2, <1>4, <2>1, <2>2 DEF GetClaim
  <2>3. CASE a # "ok"
    <3>1. exit' \in {2, 3, 4} /\ (exit' = 3 => a = "NotFound")
      BY <2>1, <2>3 DEF reportError
    <3>2. exit' = 3 => "claim" \in Gone
      BY <2>1, <3>1, ClaimAssumption, GoneFacts DEF Lookup, Answers, ClaimInv, ReadInv, Objects
    <3>3. ~Reported /\ ~Reported'
      BY <1>4 DEF GetClaim, ClaimInv, FoundInv, Reported
    <3>4. /\ Stage = "open" /\ Stage' = "done" /\ Incomplete = FALSE /\ Incomplete' = FALSE
          /\ Missing = {} /\ Missing' = {}
      BY <1>4, <2>1, <2>3, <3>3 DEF GetClaim, Stage, Incomplete, Missing
    <3>5. Gone' = Gone /\ status' = status
      BY <1>4, GoneFacts DEF GetClaim
    <3> QED BY <1>1, <3>1, <3>2, <3>4, <3>5 DEF Contract!Next, Contract!Refuse
  <2> QED BY <2>2, <2>3
<1>5. CASE eventsFor \/ storageClassInfo \/ collectClaimConsumers \/ Wait \/ RunRule
  BY <1>2, <1>5 DEF eventsFor, storageClassInfo, collectClaimConsumers, Wait, RunRule
<1>6. ASSUME NEW i \in Workers, backendEvents(i) \/ Lock(i) \/ Book(i)
      PROVE  UNCHANGED Contract!vars
  <2>1. pc \notin {"rules", "render", "done"}
    BY <1>6 DEF backendEvents, Lock, Book, ClaimInv, JoinInv
  <2> QED BY <1>2, <1>6, <2>1 DEF backendEvents, Lock, Book, ClaimInv, TypeOK
<1>7. CASE PVCReport
  <2>1. Reported' /\ Gone' = Gone /\ exit' = exit
    BY <1>7, GoneFacts DEF PVCReport, Reported, DeriveStatus
  <2>2. Stage = "open" /\ Stage' = "judged" /\ Incomplete' \in BOOLEAN
    BY <1>7 DEF PVCReport, Stage, Incomplete, Reported
  <2> QED BY <1>1, <2>1, <2>2 DEF JudgedInv, Contract!Next, Contract!Judge
<1>8. CASE Render
  <2>1. Incomplete' = Incomplete /\ Missing' = Missing /\ Gone' = Gone /\ status' = status
    BY <1>3, <1>8, GoneFacts DEF Render
  <2>2. Stage = "judged" /\ Stage' = "done"
    BY <1>8 DEF Render, Stage
  <2>3. exit' \in {2, IF status \in {"degraded", "unhealthy"} THEN 1 ELSE 0}
    BY <1>8 DEF Render, IssueFound
  <2> QED BY <1>1, <2>1, <2>2, <2>3 DEF Contract!Next, Contract!Exit
<1>9. CASE Drift
  <2>1. Gone \subseteq Gone' /\ UNCHANGED <<pc, found, status, exit>> /\ pc # "done"
    BY <1>9, GoneFacts DEF Drift
  <2>2. Stage' = Stage /\ Stage # "done"
    BY <2>1 DEF Stage
  <2>3. Incomplete' = Incomplete /\ Missing' = Missing
    <3>1. CASE pc \in {"rules", "render", "done"}
      BY <1>3, <2>1, <3>1
    <3>2. CASE pc \notin {"rules", "render", "done"}
      BY <2>1, <3>2 DEF Incomplete, Missing, ClaimInv, FoundInv, TypeOK
    <3> QED BY <3>1, <3>2
  <2> QED BY <1>1, <2>1, <2>2, <2>3 DEF Contract!Next, Contract!Vanish
<1>10. CASE Expire \/ UNCHANGED vars
  <2>1. UNCHANGED <<scenario, everAbsent, pc, events, class, known, consumers, answer, degradations,
                    found, status, exit>>
    BY <1>10 DEF Expire, vars
  <2>2. Stage' = Stage /\ Gone' = Gone /\ Looked' = Looked /\ Reported' = Reported
    BY <2>1, GoneFacts DEF Stage, Looked, IsBound, needEvents, Unready, Reported
  <2>3. Incomplete' = Incomplete /\ Missing' = Missing
    BY <2>1, <2>2 DEF Incomplete, Missing
  <2> QED BY <1>1, <2>1, <2>2, <2>3
<1> QED
  BY <1>4, <1>5, <1>6, <1>7, <1>8, <1>9, <1>10 DEF Next, Step, Terminated

\* For any claim, any number of consumers and any failures, an analysis keeps the
\* safety part of the contract all analyses share: it judges once, calls nothing
\* missing that was not, is healthy only when it looked at everything, exits as its
\* verdict says and makes no more requests than it may.
THEOREM ContractSafe == Spec => Contract!Safety
<1>1. Init => Contract!Init
  <2> SUFFICES ASSUME Init PROVE Contract!Init
    OBVIOUS
  <2>1. ~Reported /\ Stage = "open"
    BY DEF Init, Reported, Stage
  <2>2. Incomplete = FALSE /\ Missing = {}
    BY <2>1 DEF Incomplete, Missing
  <2>3. Overspent = FALSE
    BY ClaimAssumption DEF Init, Overspent
  <2> QED BY <2>1, <2>2, <2>3 DEF Init, Contract!Init
<1>2. ClaimInv => ~Overspent
  BY NeverOverspent DEF ClaimInv
<1>3. ClaimInv /\ ClaimInv' /\ JudgedInv' /\ ~Overspent /\ ~Overspent' /\ [Next]_vars
        => [Contract!Next]_Contract!vars
  BY ContractStep
<1> QED BY <1>1, <1>2, <1>3, ClaimInductive, Judged, PTL DEF Spec, Contract!Safety

=============================================================================
