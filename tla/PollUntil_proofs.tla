-------------------------- MODULE PollUntil_proofs --------------------------
(***************************************************************************)
(* Proofs about PollUntil, for every set of waits: the type invariant, the *)
(* safety properties the runs check, and that every step of the wait is a  *)
(* step, or a stutter, of the promise Await.                               *)
(***************************************************************************)
EXTENDS PollUntil, TLAPS

\* What the goroutine, the channel and the caller know of each other.
Handover ==
    /\ gpc \in {"poll", "check", "sleep"} => answer = "none" /\ result = <<>>
    /\ gpc = "send" => answer # "none" /\ result = <<>>
    /\ result # <<>> => result = <<answer>> /\ answer # "none" /\ gpc = "exited"
    /\ gpc = "exited" /\ wpc = "select" => result # <<>>
    /\ done <=> wpc = "returned"
    /\ outcome = "none" <=> wpc = "select"
    /\ outcome \notin {"none", "timeout"} => outcome = answer /\ gpc = "exited"

\* A check that starts after the return finds "done" closed when it is over.
LateChecks ==
    /\ late <= 1
    /\ ~done => late = 0
    /\ gpc = "poll" => late = 0

\* The verdict is the truth about the resource, and stays so.
Truth ==
    /\ answer = "reached" => status = Goal[kind]
    /\ answer = "capacity" =>
          /\ kind = "instances_ready"
          /\ status = "failed"
          /\ \E i \in DOMAIN reasons : reasons[i] = "capacity"

IInv == TypeOK /\ Handover /\ LateChecks /\ Truth

-----------------------------------------------------------------------------
(* The tables of statuses. *)

\* A wait's goal and "failed" are final: the cloud moves on from neither.
LEMMA MovesLemma ==
    ASSUME NEW k \in Kinds, NEW m \in Moves[k]
    PROVE  /\ m = <<m[1], m[2]>>
           /\ m[2] \in Statuses
           /\ m[1] # Goal[k]
           /\ m[1] # "failed"
<1>1. k \in {"instances_ready", "floating_ips_ready", "images_ready",
             "instances_down", "export_job", "classic_instance"}
  BY DEF Kinds
<1>2. CASE k = "instances_ready"
  BY <1>2 DEF Moves, Goal, Statuses
<1>3. CASE k = "floating_ips_ready"
  BY <1>3 DEF Moves, Goal, Statuses
<1>4. CASE k = "images_ready"
  BY <1>4 DEF Moves, Goal, Statuses
<1>5. CASE k = "instances_down"
  BY <1>5 DEF Moves, Goal, Statuses
<1>6. CASE k = "export_job"
  BY <1>6 DEF Moves, Goal, Statuses
<1>7. CASE k = "classic_instance"
  BY <1>7 DEF Moves, Goal, Statuses
<1> QED BY <1>1, <1>2, <1>3, <1>4, <1>5, <1>6, <1>7

\* What a check may conclude, and what it then knows of the resource.
LEMMA VerdictLemma ==
    ASSUME NEW k \in Kinds, NEW s, NEW codes
    PROVE  LET v == CheckVerdict(k, s, codes)
           IN  /\ v \in {"none", "reached", "error", "capacity"}
               /\ v = "reached" => s = Goal[k]
               /\ v = "capacity" =>
                     /\ k = "instances_ready"
                     /\ s = "failed"
                     /\ \E i \in DOMAIN codes : codes[i] = "capacity"
<1>1. FailureVerdict(k, codes) \in {"error", "capacity"}
  BY DEF FailureVerdict
<1>2. FailureVerdict(k, codes) = "capacity" =>
          k = "instances_ready" /\ \E i \in DOMAIN codes : codes[i] = "capacity"
  BY DEF FailureVerdict
<1>3. k = "instances_ready" => Fatal[k] = {"failed"}
  BY DEF Fatal
<1> QED BY <1>1, <1>2, <1>3 DEF CheckVerdict

-----------------------------------------------------------------------------
(* The inductive invariant. *)

\* A wait starts with nothing sent and nothing received.
LEMMA InitInv == Init => IInv
<1> SUFFICES ASSUME Init PROVE IInv
  OBVIOUS
<1>1. kind \in Kinds
  BY WaitAssumption DEF Init
<1>2. status \in Statuses
  BY <1>1 DEF Init, FirstStatus, Statuses, Kinds
<1>3. reasons \in ReasonLists
  BY DEF Init, ReasonLists
<1>4. result \in Seq({"reached", "error", "capacity"})
  BY DEF Init
<1>5. done \in BOOLEAN
  BY DEF Init
<1>6. kind \in WaitKinds /\ wpc \in {"select", "returned"} /\ late \in 0..LateCap
  BY DEF Init, LateCap
<1>7. /\ gpc \in {"check", "send", "sleep", "poll", "exited"}
      /\ answer \in {"none", "reached", "error", "capacity"}
      /\ outcome \in {"none", "reached", "error", "capacity", "timeout"}
  BY DEF Init
<1>8. TypeOK
  BY <1>2, <1>3, <1>4, <1>5, <1>6, <1>7 DEF TypeOK
<1> QED BY <1>8 DEF Init, IInv, Handover, LateChecks, Truth

\* One step per action; the conjuncts of IInv in the order of its definition.
LEMMA StepInv == IInv /\ [Next]_vars => IInv'
<1> SUFFICES ASSUME IInv, [Next]_vars PROVE IInv'
  OBVIOUS
<1> USE DEF IInv
<1>k. kind \in Kinds
  BY WaitAssumption DEF TypeOK
<1>1. CASE CloudMoves
  <2>1. PICK m \in Moves[kind] :
            /\ m[1] = status
            /\ status' = m[2]
            /\ reasons' \in IF m[2] = "failed" THEN ReasonLists ELSE {<<>>}
    BY <1>1 DEF CloudMoves
  <2>2. UNCHANGED <<kind, wpc, gpc, late, answer, result, done, outcome>>
    BY <1>1 DEF CloudMoves
  <2>3. m[2] \in Statuses /\ m[1] # Goal[kind] /\ m[1] # "failed"
    BY <1>k, MovesLemma
  <2>4. TypeOK'
    BY <2>1, <2>2, <2>3 DEF TypeOK, ReasonLists
  <2>5. Handover' /\ LateChecks'
    BY <2>2 DEF Handover, LateChecks
  <2>6. Truth'
    BY <2>1, <2>2, <2>3 DEF Truth
  <2> QED BY <2>4, <2>5, <2>6
<1>2. CASE StartCheck
  <2>1. TypeOK'
    BY <1>2 DEF StartCheck, TypeOK, LateCap, cloud
  <2>2. Handover'
    BY <1>2 DEF StartCheck, Handover, cloud
  <2>3. LateChecks'
    BY <1>2 DEF StartCheck, LateChecks, LateCap, TypeOK
  <2>4. Truth'
    BY <1>2 DEF StartCheck, Truth, cloud
  <2> QED BY <2>1, <2>2, <2>3, <2>4
<1>3. ASSUME NEW v \in {"none", "reached", "error", "capacity"},
             gpc = "check", Conclude(v),
             v = "reached" => status = Goal[kind],
             v = "capacity" => /\ kind = "instances_ready"
                               /\ status = "failed"
                               /\ \E i \in DOMAIN reasons : reasons[i] = "capacity"
      PROVE  IInv'
  <2>1. TypeOK'
    BY <1>3 DEF Conclude, TypeOK, cloud
  <2>2. Handover'
    BY <1>3 DEF Conclude, Handover, cloud
  <2>3. LateChecks'
    BY <1>3 DEF Conclude, LateChecks
  <2>4. Truth'
    BY <1>3 DEF Conclude, Truth, cloud
  <2> QED BY <2>1, <2>2, <2>3, <2>4
<1>4. CASE CheckAnswered
  <2> DEFINE v == CheckVerdict(kind, status, reasons)
  <2>1. /\ v \in {"none", "reached", "error", "capacity"}
        /\ v = "reached" => status = Goal[kind]
        /\ v = "capacity" => /\ kind = "instances_ready"
                             /\ status = "failed"
                             /\ \E i \in DOMAIN reasons : reasons[i] = "capacity"
    BY <1>k, VerdictLemma
  <2>2. gpc = "check" /\ Conclude(v)
    BY <1>4 DEF CheckAnswered
  <2> HIDE DEF v
  <2> QED BY <1>3, <2>1, <2>2
<1>5. CASE CheckFailed
  <2>1. FailedRequestVerdict(kind) \in {"none", "error"}
    BY DEF FailedRequestVerdict
  <2>2. gpc = "check" /\ Conclude(FailedRequestVerdict(kind))
    BY <1>5 DEF CheckFailed
  <2> QED BY <1>3, <2>1, <2>2
<1>6. CASE Send
  <2>0. answer # "none" /\ result = <<>>
    BY <1>6 DEF Send, Handover
  <2>1. result' = <<answer>>
    BY <1>6, <2>0 DEF Send
  <2>2. TypeOK'
    BY <1>6, <2>0, <2>1 DEF Send, TypeOK, cloud
  <2>3. Handover'
    BY <1>6, <2>0, <2>1 DEF Send, Handover, TypeOK
  <2>4. LateChecks' /\ Truth'
    BY <1>6 DEF Send, LateChecks, Truth, cloud
  <2> QED BY <2>2, <2>3, <2>4
<1>7. CASE SleepOrDone
  <2>1. TypeOK'
    BY <1>7 DEF SleepOrDone, TypeOK, cloud
  <2>2. Handover'
    BY <1>7 DEF SleepOrDone, Handover, TypeOK
  <2>3. LateChecks' /\ Truth'
    BY <1>7 DEF SleepOrDone, LateChecks, Truth, cloud
  <2> QED BY <2>1, <2>2, <2>3
<1>8. CASE ReceiveResult
  <2>1. result = <<answer>> /\ answer # "none"
    BY <1>8 DEF ReceiveResult, Handover
  <2>2. Head(result) = answer /\ result' = <<>>
    BY <1>8, <2>1 DEF ReceiveResult
  <2>3. TypeOK'
    BY <1>8, <2>1, <2>2 DEF ReceiveResult, Returns, TypeOK, cloud
  <2>4. Handover'
    BY <1>8, <2>1, <2>2 DEF ReceiveResult, Returns, Handover, TypeOK
  <2>5. LateChecks' /\ Truth'
    BY <1>8 DEF ReceiveResult, Returns, LateChecks, Truth, cloud
  <2> QED BY <2>3, <2>4, <2>5
<1>9. CASE TimerFires
  <2>1. TypeOK'
    BY <1>9 DEF TimerFires, Returns, TypeOK, cloud
  <2>2. Handover'
    BY <1>9 DEF TimerFires, Returns, Handover, TypeOK
  <2>3. LateChecks' /\ Truth'
    BY <1>9 DEF TimerFires, Returns, LateChecks, Truth, cloud
  <2> QED BY <2>1, <2>2, <2>3
<1>10. CASE UNCHANGED vars
  BY <1>10 DEF vars, TypeOK, Handover, LateChecks, Truth
<1> QED
  BY <1>1, <1>2, <1>4, <1>5, <1>6, <1>7, <1>8, <1>9, <1>10
     DEF Next, Goroutine, Caller

-----------------------------------------------------------------------------
(* The theorems. *)

\* The inductive invariant holds whatever the cloud and the scheduler do:
\* fairness is not used.
THEOREM Invariance == Spec => []IInv
<1> QED BY InitInv, StepInv, PTL DEF Spec

\* Type correctness of the wait: pollUntil, its two copies and their checks.
THEOREM TypeCorrect == Spec => []TypeOK
<1>1. IInv => TypeOK
  BY DEF IInv
<1> QED BY <1>1, Invariance, PTL

\* The buffer of one is enough: the goroutine of pollUntil never blocks on
\* its send, whoever has or has not received.
THEOREM NobodyStuck == Spec => []NobodyIsStuck
<1>1. IInv => NobodyIsStuck
  BY DEF IInv, Handover, NobodyIsStuck
<1> QED BY <1>1, Invariance, PTL

\* A nil from pollUntil means the goal was reached, a capacityError that the
\* instance failed with a capacity code in some slot.
THEOREM TrueOutcome == Spec => []OutcomeIsTrue
<1>1. IInv => OutcomeIsTrue
  <2> SUFFICES ASSUME IInv PROVE OutcomeIsTrue
    OBVIOUS
  <2>1. outcome \in {"reached", "capacity"} => outcome = answer
    BY DEF IInv, Handover
  <2>2. outcome = "reached" => status = Goal[kind]
    BY <2>1 DEF IInv, Truth
  <2>3. outcome = "capacity" =>
            status = "failed" /\ \E i \in DOMAIN reasons : reasons[i] = "capacity"
    BY <2>1 DEF IInv, Truth
  <2> QED BY <2>2, <2>3 DEF OutcomeIsTrue
<1> QED BY <1>1, Invariance, PTL

\* sleepOrDone: at most one status check starts after pollUntil has returned.
THEOREM OneLateCheck == Spec => []AtMostOneLateCheck
<1>1. IInv => AtMostOneLateCheck
  BY DEF IInv, LateChecks, AtMostOneLateCheck
<1> QED BY <1>1, Invariance, PTL

-----------------------------------------------------------------------------
(* The wait implements the promise Await, its liveness left to TLC. *)

sent == IF gpc = "exited" /\ answer # "none" THEN answer ELSE "none"

\* A wait starts as Await does.
LEMMA PromiseInit == Init => Promise!Init
BY DEF Init, Promise!Init

\* Only Send moves the promised verdict and only a return its outcome.
LEMMA PromiseStep == IInv /\ [Next]_vars => [Promise!Next]_Promise!vars
<1> SUFFICES ASSUME IInv, [Next]_vars PROVE [Promise!Next]_Promise!vars
  OBVIOUS
<1> USE DEF IInv
<1>1. sent' = sent /\ outcome' = outcome => [Promise!Next]_Promise!vars
  BY DEF sent, Promise!vars
<1>2. CASE CloudMoves \/ StartCheck \/ SleepOrDone \/ UNCHANGED vars
  <2>1. answer' = answer /\ outcome' = outcome
    BY <1>2 DEF CloudMoves, StartCheck, SleepOrDone, vars
  <2>2. CASE gpc' = gpc
    BY <1>1, <2>1, <2>2 DEF sent
  <2>3. CASE gpc' # gpc
    <3>1. gpc \in {"poll", "sleep"}
      BY <1>2, <2>3 DEF CloudMoves, StartCheck, SleepOrDone, vars
    <3>2. answer = "none"
      BY <3>1 DEF Handover
    <3> QED BY <1>1, <2>1, <3>1, <3>2 DEF sent
  <2> QED BY <2>2, <2>3
<1>3. CASE CheckAnswered \/ CheckFailed
  <2>1. gpc = "check" /\ gpc' \in {"send", "sleep"} /\ outcome' = outcome
    BY <1>3 DEF CheckAnswered, CheckFailed, Conclude
  <2> QED BY <1>1, <2>1 DEF sent
<1>4. CASE Send
  <2>1. sent = "none" /\ sent' = answer /\ outcome' = outcome
    BY <1>4 DEF Send, Handover, sent
  <2>2. answer \in Promise!Verdicts
    BY <1>4 DEF Send, Handover, TypeOK, Promise!Verdicts
  <2>3. Promise!Settle(answer)
    BY <2>1 DEF Promise!Settle, sent
  <2> QED BY <2>2, <2>3 DEF Promise!Next
<1>5. CASE ReceiveResult
  <2>1. result = <<answer>> /\ answer # "none" /\ gpc = "exited"
    BY <1>5 DEF ReceiveResult, Handover
  <2>2. outcome = "none" /\ outcome' = answer /\ answer' = answer /\ gpc' = gpc
    BY <1>5, <2>1 DEF ReceiveResult, Returns, Handover
  <2>3. Promise!Deliver
    BY <2>1, <2>2 DEF Promise!Deliver
  <2> QED BY <2>3 DEF Promise!Next
<1>6. CASE TimerFires
  <2>1. outcome = "none" /\ outcome' = "timeout" /\ answer' = answer /\ gpc' = gpc
    BY <1>6 DEF TimerFires, Returns, Handover
  <2>2. Promise!GiveUp
    BY <2>1 DEF Promise!GiveUp
  <2> QED BY <2>2 DEF Promise!Next
<1> QED BY <1>2, <1>3, <1>4, <1>5, <1>6 DEF Next, Goroutine, Caller

\* pollUntil keeps the promise of a bounded wait: at most one verdict settles,
\* the caller gets that verdict or a timeout, once.
THEOREM KeepsPromise == Spec => Promise!Init /\ [][Promise!Next]_Promise!vars
<1> QED BY Invariance, PromiseInit, PromiseStep, PTL DEF Spec

=============================================================================
