----------------------------- MODULE PollUntil -----------------------------
(***************************************************************************)
(* The bounded wait of the plugin: a goroutine that repeats a status check *)
(* and sends its verdict on a channel of capacity one, and a caller that   *)
(* selects between that channel and a timer and closes "done" on return.   *)
(* The code has it three times: pollUntil (with the checks isResourceReady *)
(* and isResourceDown), waitForExportJobToSucceed and the classic          *)
(* waitForInstanceReady; `kind' says which one the behaviour is about.     *)
(***************************************************************************)
EXTENDS Naturals, Sequences, FiniteSets

CONSTANT
    WaitKinds     \* the waits considered, a subset of Kinds

Kinds == {"instances_ready", "floating_ips_ready", "images_ready",
          "instances_down", "export_job", "classic_instance"}

\* Bound on the counter of late checks: one more than the code may reach.
LateCap == 2

ASSUME WaitAssumption == WaitKinds \subseteq Kinds

VARIABLES
    kind,       \* which wait this is
    status,     \* the status the cloud holds for the resource
    reasons,    \* the status reason codes of a failed instance, in API order
    wpc,        \* the caller: "select", then "returned"
    gpc,        \* the goroutine: "check", "send", "sleep", "poll", "exited"
    late,       \* checks started after the caller returned, counted to LateCap
    answer,     \* what the last completed check concluded
    result,     \* the buffered channel
    done,       \* the done channel is closed
    outcome     \* what the caller returned, "none" while it waits

cloud == <<status, reasons>>
vars == <<kind, status, reasons, wpc, gpc, late, answer, result, done, outcome>>

-----------------------------------------------------------------------------
(* The resource, as the cloud moves it. *)

Codes == {"capacity", "other"}
ReasonLists == {<<>>} \cup {<<c>> : c \in Codes} \cup (Codes \X Codes)

Statuses == {"starting", "pending", "queued", "off", "running", "stopping",
             "stopped", "available", "succeeded", "idle", "deleting", "failed"}

\* The moves between the statuses each wait tells apart.
Moves == [
    instances_ready    |-> {<<"starting", "running">>, <<"starting", "failed">>},
    instances_down     |-> {<<"running", "stopping">>, <<"stopping", "stopped">>,
                            <<"stopping", "failed">>},
    floating_ips_ready |-> {<<"pending", "available">>, <<"pending", "failed">>},
    images_ready       |-> {<<"pending", "available">>, <<"pending", "failed">>},
    export_job         |-> {<<"queued", "running">>, <<"running", "succeeded">>,
                            <<"running", "failed">>, <<"queued", "deleting">>},
    classic_instance   |-> {<<"off", "running">>, <<"running", "idle">>}]

FirstStatus == [
    instances_ready    |-> "starting",
    instances_down     |-> "running",
    floating_ips_ready |-> "pending",
    images_ready       |-> "pending",
    export_job         |-> "queued",
    classic_instance   |-> "off"]

\* The status each wait is for.  A classic instance is ready when it is
\* powered on and has no active transaction, here "idle".
Goal == [
    instances_ready    |-> "running",
    instances_down     |-> "stopped",
    floating_ips_ready |-> "available",
    images_ready       |-> "available",
    export_job         |-> "succeeded",
    classic_instance   |-> "idle"]

\* The statuses a check turns into an error.  Stopping an instance that
\* fails and a floating IP that fails have none: those waits run to the timer.
Fatal == [
    instances_ready    |-> {"failed"},
    instances_down     |-> {},
    floating_ips_ready |-> {},
    images_ready       |-> {"failed"},
    export_job         |-> {"failed", "deleting"},
    classic_instance   |-> {}]

\* Mutant: the code of the first reason is passed on unclassified.
FailureVerdictUnclassified(k, codes) ==
    IF k = "instances_ready" /\ codes # <<>> THEN codes[1] ELSE "error"

\* Mutant: every failed start counts as a want of capacity.
FailureVerdictAlwaysCapacity(k, codes) ==
    IF k = "instances_ready" THEN "capacity" ELSE "error"

\* newInstanceFailedError: a capacity code in any position is a capacity error.
FailureVerdict(k, codes) ==
    IF k = "instances_ready" /\ \E i \in DOMAIN codes : codes[i] = "capacity"
    THEN "capacity"
    ELSE "error"

\* isResourceReady, isResourceDown and the two checks written in line: the
\* verdict on the status an answered status request reports.
CheckVerdict(k, s, codes) ==
    IF s = Goal[k] THEN "reached"
    ELSE IF s \in Fatal[k] THEN FailureVerdict(k, codes) ELSE "none"

\* A status request that fails after the SDK's own retries ends the wait,
\* except in the classic client, whose check reports "not ready yet".
FailedRequestVerdict(k) == IF k = "classic_instance" THEN "none" ELSE "error"

-----------------------------------------------------------------------------
TypeOK ==
    /\ kind \in WaitKinds
    /\ status \in Statuses
    /\ reasons \in ReasonLists
    /\ wpc \in {"select", "returned"}
    /\ gpc \in {"check", "send", "sleep", "poll", "exited"}
    /\ late \in 0..LateCap
    /\ answer \in {"none", "reached", "error", "capacity"}
    /\ result \in Seq({"reached", "error", "capacity"})
    /\ done \in BOOLEAN
    /\ outcome \in {"none", "reached", "error", "capacity", "timeout"}

Init ==
    /\ kind \in WaitKinds
    /\ status = FirstStatus[kind]
    /\ reasons = <<>>
    /\ wpc = "select"
    /\ gpc = "poll"
    /\ late = 0
    /\ answer = "none"
    /\ result = <<>>
    /\ done = FALSE
    /\ outcome = "none"

CloudMoves ==
    \E s \in {m[2] : m \in {n \in Moves[kind] : n[1] = status}} :
        /\ status' = s
        /\ reasons' \in IF s = "failed" THEN ReasonLists ELSE {<<>>}
        /\ UNCHANGED <<kind, wpc, gpc, late, answer, result, done, outcome>>

-----------------------------------------------------------------------------
(* The goroutine. *)

\* The top of the loop: a new check starts.
StartCheck ==
    /\ gpc = "poll"
    /\ gpc' = "check"
    /\ late' = IF done /\ late < LateCap THEN late + 1 ELSE late
    /\ UNCHANGED <<kind, cloud, wpc, answer, result, done, outcome>>

\* The check concludes v: it has a verdict to send, or sleeps.
Conclude(v) ==
    /\ answer' = v
    /\ gpc' = IF v = "none" THEN "sleep" ELSE "send"
    /\ UNCHANGED <<kind, cloud, wpc, late, result, done, outcome>>

CheckAnswered == gpc = "check" /\ Conclude(CheckVerdict(kind, status, reasons))

CheckFailed == gpc = "check" /\ Conclude(FailedRequestVerdict(kind))

\* Mutant: no return after the send.
SendAndGoOn ==
    /\ gpc = "send"
    /\ Len(result) < 1
    /\ result' = Append(result, answer)
    /\ gpc' = "sleep"
    /\ UNCHANGED <<kind, cloud, wpc, late, answer, done, outcome>>

\* The send never waits: the channel has room for the one result.
Send ==
    /\ gpc = "send"
    /\ Len(result) < 1
    /\ result' = Append(result, answer)
    /\ gpc' = "exited"
    /\ UNCHANGED <<kind, cloud, wpc, late, answer, done, outcome>>

\* Mutant: the goroutine never looks at done.
SleepOnly ==
    /\ gpc = "sleep"
    /\ gpc' = "poll"
    /\ UNCHANGED <<kind, cloud, wpc, late, answer, result, done, outcome>>

\* sleepOrDone: after the interval, stop when the caller has returned.
SleepOrDone ==
    /\ gpc = "sleep"
    /\ gpc' = IF done THEN "exited" ELSE "poll"
    /\ UNCHANGED <<kind, cloud, wpc, late, answer, result, done, outcome>>

-----------------------------------------------------------------------------
(* The caller. *)

Returns(o) ==
    /\ outcome' = o
    /\ wpc' = "returned"
    /\ done' = TRUE
    /\ UNCHANGED <<kind, cloud, gpc, late, answer>>

\* Mutant: whatever is received, the caller returns nil.
ReceiveAnything ==
    /\ wpc = "select"
    /\ result # <<>>
    /\ Returns("reached")
    /\ result' = Tail(result)

ReceiveResult ==
    /\ wpc = "select"
    /\ result # <<>>
    /\ Returns(Head(result))
    /\ result' = Tail(result)

\* Mutant: the deadline is only looked at between two checks.
TimerBetweenChecks ==
    /\ wpc = "select"
    /\ gpc = "sleep"
    /\ Returns("timeout")
    /\ UNCHANGED result

\* The timer is always the other arm: it may win over a result that is ready.
TimerFires ==
    /\ wpc = "select"
    /\ Returns("timeout")
    /\ UNCHANGED result

-----------------------------------------------------------------------------
Goroutine == StartCheck \/ CheckAnswered \/ CheckFailed \/ Send \/ SleepOrDone
Caller == ReceiveResult \/ TimerFires
Next == CloudMoves \/ Goroutine \/ Caller

\* A status request that is out.  The classic client's has no timeout: it may
\* stay unanswered for ever.
RequestOut == gpc = "check"

\* The timer fires whatever the goroutine and the cloud do, so the caller is
\* weakly fair.  The goroutine is scheduled, except that nothing makes a request
\* return: it is not asked of the classic client's, nor of the SDK's, which is
\* not part of the repository.  Of the cloud nothing is asked either.
Spec == Init /\ [][Next]_vars /\ WF_vars(Caller) /\ WF_vars(Goroutine /\ ~RequestOut)

-----------------------------------------------------------------------------
(* Properties. *)

\* Nobody waits for the other for ever.  The goroutine's send finds room, even
\* when the caller has given up and nobody receives: the buffer of one is enough
\* because it sends at most once.  And a goroutine that has stopped has left a
\* result to a caller that still waits.
NobodyIsStuck ==
    /\ gpc = "send" => result = <<>>
    /\ gpc = "exited" /\ wpc = "select" => result # <<>>

\* A nil return means the resource reached the goal of this very wait, and a
\* capacity error that the instance failed with a capacity code: the capacity
\* fallback of stepCreateInstance deletes an instance on the strength of it.
OutcomeIsTrue ==
    /\ outcome = "reached" => status = Goal[kind]
    /\ outcome = "capacity" =>
          /\ status = "failed"
          /\ "capacity" \in {reasons[i] : i \in DOMAIN reasons}

\* After the caller has returned, the goroutine starts at most one more check:
\* it looks at "done" between the sleep and the next check.
AtMostOneLateCheck == late <= 1

\* The wait returns, even when a status request never answers.
CallerReturns == <>(wpc = "returned")

\* The goroutine of a wait does not go round for ever behind its caller's back:
\* it stops, unless one of its requests is never answered, and then it stays
\* in that one.
GoroutineStops == <>[](gpc = "exited" \/ RequestOut)

\* The promise to the caller.  The verdict is the one that was sent.
Promise == INSTANCE Await WITH
    answer <- IF gpc = "exited" /\ answer # "none" THEN answer ELSE "none"

PromiseKept == Promise!Spec
=============================================================================
