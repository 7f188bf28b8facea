---------------------------- MODULE ClaimAnalysis ----------------------------
(***************************************************************************)
(* One run of `kubectl why pvc NAME`: collect.PVC with the concurrent      *)
(* event reads of backendSnapshots, the four claim rules and PVCReport.    *)
(*                                                                         *)
(* One goroutine per consumer that is not ready lists that Pod's events    *)
(* and books a failure in the collection all of them share.  Booking reads *)
(* the list and appends to it, so it is two steps here, between which      *)
(* another goroutine gets in unless the mutex keeps it out.                *)
(***************************************************************************)
EXTENDS Diagnosis, Collection

CONSTANTS Scenarios,         \* what may be true of the claim
          MaxPods,           \* bound on the Pods of the namespace
          MaxBackendEvents,  \* maxBackendEvents
          Volatile,          \* what comes and goes during the run
          Failures,          \* how a request may fail while the context lives
          MayExpire          \* whether the context can end

\* What the answers depend on: the claim, the storage class it relies on, and
\* whether the Pods of the namespace have been created.
Objects == {"claim", "class", "pods"}
EventReasons == {"ProvisioningFailed", "FailedBinding"}

\* phase is "Unknown" for a claim without a status; class is how it asks for a
\* storage class, waits whether that class waits for the first consumer.
Scenario ==
  [phase : {"Unknown", "Pending", "Bound", "Lost"}, class : {"none", "named", "default"},
   waits : BOOLEAN, events : SUBSET EventReasons, absent : SUBSET Objects,
   pods : UNION {[1..n -> [mounts : BOOLEAN, ready : BOOLEAN]] : n \in 0..MaxPods}]

ASSUME ClaimAssumption ==
  /\ MaxPods \in Nat
  /\ Scenarios \subseteq Scenario
  /\ MaxBackendEvents \in Nat
  /\ Volatile \subseteq Objects
  /\ Failures \subseteq {"Forbidden", "Error"}
  /\ MayExpire \in BOOLEAN

VARIABLES
  scenario, present, everAbsent, ctxDone,   \* the surroundings, as in PodAnalysis
  pc, calls,
  events,          \* the claim's events as read
  class,           \* what is known of its storage class
  known,           \* ConsumersKnown
  consumers,       \* the Pods that mount the claim
  worker, answer,  \* the goroutine of each consumer, and its answer
  mu,              \* the goroutine that holds the mutex, 0 for none
  copy,            \* the list a goroutine read and is about to append to
  degradations,
  next, found, status, exit

world == <<scenario, present, everAbsent, ctxDone>>
workers == <<worker, answer, mu, copy>>
verdict == <<next, found, status, exit>>
vars == <<world, pc, calls, events, class, known, consumers, workers, degradations, verdict>>

Workers == 1..MaxPods

Init ==
  /\ scenario \in Scenarios
  /\ present = Objects \ scenario.absent
  /\ everAbsent = scenario.absent
  /\ ctxDone = FALSE
  /\ pc = "claim" /\ calls = 0
  /\ events = {}
  /\ class = [exists |-> "unread", waits |-> FALSE]
  /\ known = FALSE /\ consumers = {}
  /\ worker = [i \in Workers |-> "idle"] /\ answer = [i \in Workers |-> "none"]
  /\ mu = 0 /\ copy = [i \in Workers |-> {}]
  /\ degradations = {}
  /\ next = 1 /\ found = {} /\ status = "none" /\ exit = -1

\* How a request may be answered whose outcome would be this one.
Answers(outcome) == IF ctxDone THEN {"Timeout"} ELSE {outcome} \cup Failures
Lookup(o) == Answers(IF o \in present THEN "ok" ELSE "NotFound")

Expire ==
  /\ MayExpire /\ ~ctxDone /\ pc # "done"
  /\ ctxDone' = TRUE
  /\ UNCHANGED <<scenario, present, everAbsent, pc, calls, events, class, known,
                 consumers, workers, degradations, verdict>>

Drift ==
  /\ pc # "done"
  /\ \E o \in Volatile :
       IF o \in present
         THEN present' = present \ {o} /\ everAbsent' = everAbsent \cup {o}
         ELSE present' = present \cup {o} /\ UNCHANGED everAbsent
  /\ UNCHANGED <<scenario, ctxDone, pc, calls, events, class, known, consumers, workers,
                 degradations, verdict>>

-----------------------------------------------------------------------------
(* The collectors *)

IsBound == scenario.phase = "Bound"

GetClaim ==
  /\ pc = "claim"
  /\ calls' = calls + 1
  /\ \E a \in Lookup("claim") :
       IF a = "ok" THEN pc' = "events" /\ UNCHANGED exit
                   ELSE pc' = "done" /\ exit' = reportError(a)
  /\ UNCHANGED <<world, events, class, known, consumers, workers, degradations, next,
                 found, status>>

\* Mutant: events that may not be listed are no events.
eventsForUnbooked ==
  /\ pc = "events"
  /\ calls' = calls + 1
  /\ \E a \in Answers("ok") : events' = IF a = "ok" THEN scenario.events ELSE events
  /\ pc' = IF IsBound THEN "rules" ELSE "class"
  /\ UNCHANGED <<world, class, known, consumers, workers, degradations, verdict>>

\* A bound claim is working: nothing beyond its events is read.
eventsFor ==
  /\ pc = "events"
  /\ calls' = calls + 1
  /\ \E a \in Answers("ok") :
       /\ events' = IF a = "ok" THEN scenario.events ELSE events
       /\ degradations' = degradations \cup degrade("events", a)
  /\ pc' = IF IsBound THEN "rules" ELSE "class"
  /\ UNCHANGED <<world, class, known, consumers, workers, verdict>>

\* Mutant: the binding mode of a default class is not taken over.
ClassWaitsIfNamed(a) == a = "ok" /\ scenario.class = "named" /\ scenario.waits

\* Whether the class was read and binds on first use.
ClassWaits(a) == a = "ok" /\ scenario.class # "none" /\ scenario.waits

\* No request for a claim that wants no class; a Get for the class it names; a
\* List for the default class, of which there may be none.
storageClassInfo ==
  /\ pc = "class"
  /\ IF scenario.class = "none"
       THEN UNCHANGED <<calls, class, degradations>>
       ELSE /\ calls' = calls + 1
            /\ \E a \in Lookup("class") :
                 /\ class' = [exists |-> existence(a), waits |-> ClassWaits(a)]
                 /\ degradations' = degradations \cup existenceDegradation("storageclasses", a)
  /\ pc' = "consumers"
  /\ UNCHANGED <<world, events, known, consumers, workers, verdict>>

\* The Pods of the namespace that mount the claim, and those not ready.
Mounting == IF "pods" \in present THEN {i \in DOMAIN scenario.pods : scenario.pods[i].mounts} ELSE {}
Unready(pods) == {i \in pods : ~scenario.pods[i].ready}

\* Only the first few unready Pods of the list have their events read.
needEvents(pods) ==
  {i \in Unready(pods) : Cardinality({j \in Unready(pods) : j < i}) < MaxBackendEvents}

\* The Pods are listed and a goroutine starts for each that needs events.
collectClaimConsumers ==
  /\ pc = "consumers"
  /\ calls' = calls + 1
  /\ \E a \in Answers("ok") :
       IF a = "ok"
         THEN /\ known' = TRUE
              /\ consumers' = Mounting
              /\ worker' = [i \in Workers |-> IF i \in needEvents(Mounting) THEN "fetch" ELSE "idle"]
              /\ pc' = "wait"
              /\ UNCHANGED degradations
         ELSE /\ degradations' = degradations \cup degrade("pods", a)
              /\ pc' = "rules"
              /\ UNCHANGED <<known, consumers, worker>>
  /\ UNCHANGED <<world, events, class, answer, mu, copy, verdict>>

-----------------------------------------------------------------------------
(* The goroutines of backendSnapshots *)

\* eventsFor returns in goroutine i.
backendEvents(i) ==
  /\ worker[i] = "fetch"
  /\ \E a \in Answers("ok") : answer' = [answer EXCEPT ![i] = a]
  /\ worker' = [worker EXCEPT ![i] = "lock"]
  /\ calls' = calls + 1
  /\ UNCHANGED <<world, pc, events, class, known, consumers, mu, copy, degradations, verdict>>

\* Mutant: mu.Lock is missing.
LockMissing(i) ==
  /\ worker[i] = "lock"
  /\ mu' = i
  /\ copy' = [copy EXCEPT ![i] = degradations]
  /\ worker' = [worker EXCEPT ![i] = "book"]
  /\ UNCHANGED <<world, pc, calls, events, class, known, consumers, answer, degradations,
                 verdict>>

Lock(i) ==
  /\ worker[i] = "lock" /\ mu = 0
  /\ mu' = i
  /\ copy' = [copy EXCEPT ![i] = degradations]
  /\ worker' = [worker EXCEPT ![i] = "book"]
  /\ UNCHANGED <<world, pc, calls, events, class, known, consumers, answer, degradations,
                 verdict>>

\* Mutant: one failure is kept for each resource, whatever its reason.
BookPerResource(i) ==
  /\ worker[i] = "book"
  /\ degradations' = IF answer[i] = "ok" \/ \E d \in copy[i] : d.resource = "events"
                     THEN degradations
                     ELSE copy[i] \cup degrade("events", answer[i])
  /\ mu' = 0
  /\ worker' = [worker EXCEPT ![i] = "done"]
  /\ UNCHANGED <<world, pc, calls, events, class, known, consumers, answer, copy, verdict>>

\* The failure is appended, if there is one, and the deferred Unlock and Done run.
Book(i) ==
  /\ worker[i] = "book"
  /\ degradations' = IF answer[i] = "ok" THEN degradations
                     ELSE copy[i] \cup degrade("events", answer[i])
  /\ mu' = 0
  /\ worker' = [worker EXCEPT ![i] = "done"]
  /\ UNCHANGED <<world, pc, calls, events, class, known, consumers, answer, copy, verdict>>

\* Mutant: a goroutine signals the wait group before it books.
WaitUnbooked ==
  /\ pc = "wait"
  /\ \A i \in Workers : worker[i] # "fetch"
  /\ pc' = "rules"
  /\ UNCHANGED <<world, calls, events, class, known, consumers, workers, degradations, verdict>>

Wait ==
  /\ pc = "wait"
  /\ \A i \in Workers : worker[i] \in {"idle", "done"}
  /\ pc' = "rules"
  /\ UNCHANGED <<world, calls, events, class, known, consumers, workers, degradations, verdict>>

-----------------------------------------------------------------------------
(* The rules *)

Finding(id, severity, causedBy) ==
  [id |-> id, severity |-> severity, confidence |-> "certain", causedBy |-> causedBy]

\* The identifier for a class that does not exist.
NoClassID == IF scenario.class = "named" THEN "PVC_STORAGECLASS_NOT_FOUND"
                                         ELSE "PVC_NO_DEFAULT_STORAGECLASS"

evaluateStorageClass ==
  IF IsBound \/ scenario.class = "none" \/ class.exists # "missing" THEN {}
  ELSE {Finding(NoClassID, "critical", NoCause)}

\* Mutant: a class that was not found, for whatever reason, is the cause.
ProvisioningCauseUnseen == IF class.exists = "found" THEN NoCause ELSE NoClassID

ProvisioningCause == IF class.exists = "missing" THEN NoClassID ELSE NoCause

evaluateProvisioning ==
  IF IsBound THEN {}
  ELSE IF "ProvisioningFailed" \in events
    THEN {Finding("PVC_PROVISIONING_FAILED", "critical", ProvisioningCause)}
  ELSE IF "FailedBinding" \in events
    THEN {Finding("PVC_NO_MATCHING_VOLUME", "critical", NoCause)}
  ELSE {}

evaluateConsumers ==
  IF IsBound \/ ~class.waits THEN {}
  ELSE IF known /\ consumers = {}
    THEN {Finding("PVC_NO_CONSUMER", "warning", NoCause)}
    ELSE {Finding("PVC_WAITING_FOR_CONSUMER", "info", NoCause)}

evaluateLost ==
  IF scenario.phase = "Lost" THEN {Finding("PVC_LOST", "critical", NoCause)} ELSE {}

\* Mutant: the fallback speaks only when the class is known to exist.
FallbackOfKnownClass ==
  IF IsBound \/ scenario.phase = "Lost" \/ class.exists # "found" THEN {}
  ELSE {Finding("PVC_PENDING", "critical", NoCause)}

Fallback ==
  IF IsBound \/ scenario.phase = "Lost" THEN {}
  ELSE {Finding("PVC_PENDING", "critical", NoCause)}

Rules == <<evaluateStorageClass, evaluateProvisioning, evaluateConsumers, evaluateLost>>

-----------------------------------------------------------------------------
(* The engine, the report and the exit code *)

RunRule ==
  /\ pc = "rules" /\ next \in DOMAIN Rules /\ ~ctxDone
  /\ found' = found \cup Rules[next]
  /\ next' = next + 1
  /\ UNCHANGED <<world, pc, calls, events, class, known, consumers, workers, degradations,
                 status, exit>>

PVCReport ==
  /\ pc = "rules" /\ (next \notin DOMAIN Rules \/ ctxDone)
  /\ found' = IF found = {} THEN Fallback ELSE found
  /\ status' = DeriveStatus(found', degradations # {})
  /\ pc' = "render"
  /\ UNCHANGED <<world, calls, events, class, known, consumers, workers, degradations, next,
                 exit>>

IssueFound == status \in {"unhealthy", "degraded"}

Render ==
  /\ pc = "render"
  /\ pc' = "done"
  /\ \/ exit' = IF IssueFound THEN 1 ELSE 0
     \/ exit' = 2
  /\ UNCHANGED <<world, calls, events, class, known, consumers, workers, degradations, next,
                 found, status>>

Terminated == pc = "done" /\ UNCHANGED vars

Step ==
  \/ GetClaim \/ eventsFor \/ storageClassInfo \/ collectClaimConsumers
  \/ \E i \in Workers : backendEvents(i) \/ Lock(i) \/ Book(i)
  \/ Wait \/ RunRule \/ PVCReport \/ Render

Next == Step \/ Expire \/ Drift \/ Terminated

Spec == Init /\ [][Next]_vars

\* Every request returns, because the context and the client bound it, and the
\* runtime schedules every goroutine that can run.
FairSpec == Spec /\ WF_vars(Step)

-----------------------------------------------------------------------------
(* Properties *)

Degradation == [resource : {"events", "storageclasses", "pods"}, reason : Reasons]
ClaimIDs == {"PVC_STORAGECLASS_NOT_FOUND", "PVC_NO_DEFAULT_STORAGECLASS",
             "PVC_PROVISIONING_FAILED", "PVC_NO_MATCHING_VOLUME", "PVC_NO_CONSUMER",
             "PVC_WAITING_FOR_CONSUMER", "PVC_LOST", "PVC_PENDING"}

\* The state is well formed, and the goroutine that holds the mutex is one that is
\* booking (collect/service.go:100-107).
TypeOK ==
  /\ scenario \in Scenarios
  /\ present \subseteq Objects /\ everAbsent \subseteq Objects
  /\ ctxDone \in BOOLEAN
  /\ pc \in {"claim", "events", "class", "consumers", "wait", "rules", "render", "done"}
  /\ calls \in Nat
  /\ events \subseteq scenario.events
  /\ class \in [exists : {"unread", "unknown", "found", "missing"}, waits : BOOLEAN]
  /\ known \in BOOLEAN /\ consumers \subseteq DOMAIN scenario.pods
  /\ worker \in [Workers -> {"idle", "fetch", "lock", "book", "done"}]
  /\ answer \in [Workers -> {"none", "ok"} \cup Reasons]
  /\ mu \in {0} \cup Workers
  /\ \A i \in Workers : worker[i] = "book" <=> mu = i
  /\ copy \in [Workers -> SUBSET Degradation]
  /\ degradations \subseteq Degradation
  /\ next \in 1..5
  /\ found \subseteq [id : ClaimIDs, severity : Severities, confidence : {"certain"},
                      causedBy : {NoCause} \cup ClaimIDs]
  /\ status \in Statuses \cup {"none"}
  /\ exit \in {-1, 0, 1, 2, 3, 4}

Reported == status # "none"
Evaluated == Reported /\ next > Len(Rules)

\* What the report calls missing, and what was missing at some moment of the run.
Absence == [PVC_STORAGECLASS_NOT_FOUND |-> "class", PVC_NO_DEFAULT_STORAGECLASS |-> "class",
            PVC_NO_CONSUMER |-> "pods"]
Gone ==
  everAbsent \cup (IF \E i \in DOMAIN scenario.pods : scenario.pods[i].mounts THEN {} ELSE {"pods"})

\* The events were read and, if the claim has not bound, its storage class, its
\* consumers and the events of the first unready ones as well.
Looked ==
  /\ events = scenario.events
  /\ IsBound \/ (known /\ (scenario.class # "none" => class.exists \in {"found", "missing"}))
  /\ \A i \in needEvents(consumers) : answer[i] = "ok"

\* A bound claim costs two requests; any other one at most four and one for each of
\* maxBackendEvents Pods, however many consume it (collect/pvc.go:17-18,
\* collect/service.go:18-22).
Overspent == calls > IF IsBound THEN 2 ELSE 4 + MaxBackendEvents

\* How a run looks from the outside, for Analysis.
Stage == CASE pc = "done" -> "done" [] pc = "render" -> "judged" [] OTHER -> "open"
Incomplete == Reported /\ (~Looked \/ degradations # {})
Missing == {Absence[f.id] : f \in {g \in found : Reported /\ g.id \in DOMAIN Absence}}

Contract == INSTANCE Analysis WITH
  Requested <- "claim", stage <- Stage, gone <- Gone, incomplete <- Incomplete,
  overspent <- Overspent, missing <- Missing

\* A claim analysis is an Analysis: "a denied read is never reported as an absence"
\* (docs/rules/PVC_WAITING_FOR_CONSUMER.md, snapshot/pvc.go:24-26), so a missing
\* class, a claim without consumers and exit code 3 were each true at some moment;
\* a claim is healthy only when everything it depends on was read (report.go:94-97).
\* It keeps to its requests and ends: no goroutine keeps the mutex or is missed by
\* the wait group, however requests fail and the context ends.
ContractKept == Contract!Spec

Joined == known /\ pc \in {"rules", "render", "done"}

Reads == INSTANCE BackendReads WITH
  joined <- Joined,
  outcome <- IF ~Joined THEN <<>> ELSE
    [i \in needEvents(consumers) |->
       CASE answer[i] = "ok" -> "read"
         [] degrade("events", answer[i]) \subseteq degradations -> "booked"
         [] OTHER -> "lost"]

\* The goroutines of backendSnapshots (collect/service.go:89-116) implement one
\* atomic read of all the events, after which none is outstanding and none has
\* failed in silence.  The analyses with several Pods rest on this.
ReadsAreOneStep == Reads!Spec

\* Whatever the order in which the goroutines return, each failed read of a
\* consumer's events is in the report's degradations: the mutex of
\* backendSnapshots (collect/service.go:93-109) loses none of two that fail at once.
EveryFailureBooked ==
  \A i \in Workers :
    worker[i] = "done" /\ answer[i] # "ok" =>
      [resource |-> "events", reason |-> answer[i]] \in degradations

\* "KubeWhy never goes quiet on a resource that is not working"
\* (docs/rules/PVC_PENDING.md:12): a claim that has not bound gets a finding, even
\* when the context ends before the first rule.  A Lost claim is left out when the
\* rules were cut short, because the fallback leaves it to a rule.
NeverQuiet ==
  Reported /\ ~IsBound /\ (scenario.phase = "Lost" => Evaluated) => found # {}

\* The class a failed provisioning is blamed on is reported by the storage class
\* rule too (pvc.go:159-167).
NoDanglingCause ==
  Evaluated => \A f \in found : f.causedBy # NoCause => \E g \in found : g.id = f.causedBy

\* "A Pending claim here is not a fault" (pvc.go:257): a claim whose class was read
\* and waits, that Pods mount and that no event complains about is no issue, whether
\* or not those Pods could be listed.
WaitingIsNoFault ==
  /\ Evaluated /\ scenario.phase \in {"Unknown", "Pending"}
  /\ class.exists = "found" /\ scenario.waits
  /\ scenario.events = {}
  /\ "pods" \notin everAbsent /\ \E i \in DOMAIN scenario.pods : scenario.pods[i].mounts
  => ~IssueFound

=============================================================================
