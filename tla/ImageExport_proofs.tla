------------------------- MODULE ImageExport_proofs -------------------------
(***************************************************************************)
(* Proofs about ImageExport, for every chain of post-processors: what an   *)
(* artifact stands for, whose credentials a job runs under, that only an   *)
(* interrupted run panics, and how far a wait's timer is from the          *)
(* export_timeout.                                                         *)
(***************************************************************************)
EXTENDS ImageExport, TLAPS

StepPoints == {"Greeting", "CreateVPCServiceInstance", "StepImageExport"}

AllSucceeded == \A i \in DOMAIN jobs : jobs[i].status = "succeeded"

\* What Configure has accepted, as it left it.
Configured ==
    /\ \A i \in DOMAIN configs :
          configs[i] = Normalised(pipeline[i]) /\ Accepts(pipeline[i])
    /\ pc = "Configure" => Len(configs) < Len(pipeline)
    /\ pc \notin {"Configure", "rejected"} => Len(configs) = Len(pipeline)

\* One artifact per post-processor that is through.
Counted == pc # "done" => at = Len(artifacts) + 1

UsesAsConfigured ==
    pc \in StepPoints \cup {"wait", "finish"} => used = UsesOf(configs[at])

JobsOfThisChain == \A i \in DOMAIN jobs : jobs[i].of \in DOMAIN pipeline

\* The last job is the one of the post-processor at work.
OwnJob ==
    /\ jobs # <<>>
    /\ TheJob.of = at
    /\ TheJob.image_id = used.image_id

\* How far the post-processor at work has come.
Progress ==
    /\ pc \in StepPoints \cup {"Configure", "PostProcess"} => AllSucceeded
    /\ pc \in StepPoints \cup {"wait"} => bag = EmptyBag
    /\ pc = "wait" => OwnJob
    /\ pc = "finish" /\ ~bag.error =>
          IF bag.image_export_job_id = 0
          THEN cancelled
          ELSE /\ OwnJob
               /\ bag.image_export_job_id = Len(jobs)
               /\ TheJob.status = "succeeded"

\* A job writes to the one bucket the template gives: no bucket the user
\* wrote down is passed over in silence.
BucketAsGiven ==
    \A i \in DOMAIN jobs :
        LET c == pipeline[jobs[i].of]
        IN  /\ c.storage_bucket_name <=> jobs[i].bucket = "name"
            /\ c.storage_bucket_crn <=> jobs[i].bucket = "crn"

IInv ==
    /\ TypeOK /\ Configured /\ Counted /\ UsesAsConfigured /\ JobsOfThisChain
    /\ Progress /\ ExportContract /\ OneAccount /\ BucketAsGiven
    /\ PanicsOnlyWhenCancelled /\ NoExportAfterFailure

-----------------------------------------------------------------------------
(* A configuration that was accepted. *)

\* Configure leaves a configuration a configuration, and what it says of the
\* image and the bucket alone.
LEMMA NormalisedType ==
    ASSUME NEW c \in ConfigSpace
    PROVE  /\ Normalised(c) \in ConfigSpace
           /\ Normalised(c).image_id = c.image_id
           /\ Normalised(c).api_key = c.api_key
           /\ Normalised(c).vpc_endpoint_url = (c.vpc_endpoint_url \/ c.image_id)
           /\ Normalised(c).storage_bucket_name = c.storage_bucket_name
           /\ Normalised(c).storage_bucket_crn = c.storage_bucket_crn
  BY DEF Normalised, ConfigSpace

\* What Configure demands is what PostProcess relies on: image, account and
\* endpoint have one owner.
LEMMA OneOwner ==
    ASSUME NEW c \in ConfigSpace, Accepts(c)
    PROVE  LET u == UsesOf(Normalised(c))
           IN  /\ u \in Uses
               /\ u.account = u.image_id
               /\ u.endpoint = u.image_id
               /\ u.image_id = IF c.image_id THEN "user" ELSE "builder"
<1>1. CASE c.image_id
  BY <1>1, NormalisedType DEF Accepts, UsesOf, Uses, Owners
<1>2. CASE ~c.image_id
  BY <1>2, NormalisedType DEF UsesOf, OfSource, Uses, Owners
<1> QED BY <1>1, <1>2

-----------------------------------------------------------------------------
(* The initial states. *)

\* No job and no artifact satisfy every part.
LEMMA InitInv == Init => IInv
<1> SUFFICES ASSUME Init PROVE IInv
  OBVIOUS
<1>1. pipeline \in Seq(ConfigSpace) /\ pipeline # <<>> /\ Len(pipeline) \in Nat /\ Len(pipeline) > 0
  BY ExportAssumption DEF Init
<1>2. configs = <<>> /\ jobs = <<>> /\ artifacts = <<>> /\ at = 1 /\ pc = "Configure"
  BY DEF Init
<1>3. TypeOK
  <2>1. at \in DOMAIN pipeline /\ Len(configs) <= Len(pipeline)
    BY <1>1, <1>2
  <2>2. used \in Uses /\ bag \in [error : BOOLEAN, image_export_job_id : 0..Len(jobs)]
    BY <1>2 DEF Init, OfSource, Uses, Owners, EmptyBag
  <2>3. configs \in Seq(ConfigSpace) /\ jobs \in Seq(Jobs) /\ artifacts \in Seq(DOMAIN jobs)
    BY <1>2
  <2>4. pipeline \in Pipelines /\ pc \in Points /\ source \in {"vpc", "export", "other"}
    BY DEF Init, Points
  <2>5. deadline \in Int
    BY DEF Init
  <2>6. cancelled \in BOOLEAN
    BY DEF Init
  <2> QED BY <2>1, <2>2, <2>3, <2>4, <2>5, <2>6 DEF TypeOK
<1>4. Configured /\ Counted /\ UsesAsConfigured /\ JobsOfThisChain /\ Progress
  BY <1>1, <1>2 DEF Configured, Counted, UsesAsConfigured, JobsOfThisChain, Progress,
     StepPoints, AllSucceeded
<1>5. ExportContract /\ OneAccount /\ BucketAsGiven /\ PanicsOnlyWhenCancelled /\ NoExportAfterFailure
  BY <1>2 DEF ExportContract, OneAccount, BucketAsGiven, PanicsOnlyWhenCancelled, NoExportAfterFailure
<1> QED BY <1>3, <1>4, <1>5 DEF IInv

-----------------------------------------------------------------------------
(* Facts the actions share. *)

\* A chain is not empty, and its sequences have lengths.
LEMMA Shape ==
    ASSUME TypeOK
    PROVE  /\ pipeline \in Seq(ConfigSpace)
           /\ Len(pipeline) \in Nat /\ DOMAIN pipeline = 1..Len(pipeline)
           /\ Len(configs) \in Nat /\ DOMAIN configs = 1..Len(configs)
           /\ Len(jobs) \in Nat /\ DOMAIN jobs = 1..Len(jobs)
           /\ Len(artifacts) \in Nat /\ DOMAIN artifacts = 1..Len(artifacts)
           /\ at \in Nat /\ 1 <= at /\ at <= Len(pipeline)
  BY ExportAssumption DEF TypeOK

\* The configuration at work was accepted, whenever there is one at work.
LEMMA AtWork ==
    ASSUME IInv, pc \notin {"Configure", "rejected"}
    PROVE  /\ pipeline[at] \in ConfigSpace
           /\ configs[at] = Normalised(pipeline[at])
           /\ Accepts(pipeline[at])
           /\ UsesOf(configs[at]) \in Uses
           /\ UsesOf(configs[at]).account = UsesOf(configs[at]).image_id
           /\ UsesOf(configs[at]).endpoint = UsesOf(configs[at]).image_id
           /\ UsesOf(configs[at]).image_id =
                 IF pipeline[at].image_id THEN "user" ELSE "builder"
<1>1. at \in DOMAIN pipeline /\ at \in DOMAIN configs /\ pipeline[at] \in ConfigSpace
  BY Shape DEF IInv, Configured, TypeOK
<1>2. configs[at] = Normalised(pipeline[at]) /\ Accepts(pipeline[at])
  BY <1>1 DEF IInv, Configured
<1> QED BY <1>1, <1>2, OneOwner

\* A step that neither creates a job nor returns an artifact keeps what the
\* invariant says of jobs and artifacts.
LEMMA Untouched ==
    ASSUME IInv, UNCHANGED <<pipeline, jobs, artifacts>>, pc' # "done"
    PROVE  /\ JobsOfThisChain' /\ ExportContract' /\ OneAccount'
           /\ BucketAsGiven' /\ NoExportAfterFailure'
<1>1. JobsOfThisChain' /\ OneAccount' /\ BucketAsGiven' /\ NoExportAfterFailure'
  BY DEF IInv, JobsOfThisChain, OneAccount, BucketAsGiven, NoExportAfterFailure
<1>2. ExportContract'
  BY DEF IInv, ExportContract
<1> QED BY <1>1, <1>2

\* Configure takes the next configuration, or rejects the chain.
LEMMA ConfigureInv == IInv /\ Configure => IInv'
<1> SUFFICES ASSUME IInv, Configure PROVE IInv'
  OBVIOUS
<1> DEFINE c == pipeline[Len(configs) + 1]
<1>1. TypeOK /\ Configured /\ Len(configs) < Len(pipeline) /\ pc = "Configure"
  BY DEF IInv, Configured, Configure
<1>2. c \in ConfigSpace
  BY <1>1, Shape
<1>3. UNCHANGED <<pipeline, at, source, used, bag, jobs, artifacts, deadline, cancelled>>
  BY DEF Configure
<1>4. CASE Accepts(c)
  <2>1. configs' = Append(configs, Normalised(c))
        /\ pc' = IF Len(configs') = Len(pipeline) THEN "PostProcess" ELSE pc
    BY <1>4 DEF Configure
  <2>2. /\ configs' \in Seq(ConfigSpace) /\ Len(configs') = Len(configs) + 1
        /\ configs'[Len(configs) + 1] = Normalised(c)
        /\ \A i \in DOMAIN configs : configs'[i] = configs[i]
        /\ DOMAIN configs' = DOMAIN configs \cup {Len(configs) + 1}
    <3>1. configs \in Seq(ConfigSpace) /\ Normalised(c) \in ConfigSpace
      BY <1>1, <1>2, NormalisedType DEF TypeOK
    <3> QED BY <2>1, <3>1
  <2>3. TypeOK'
    BY <1>1, <1>3, <2>1, <2>2, Shape DEF TypeOK, Points
  <2>4. Configured'
    <3>1. \A i \in DOMAIN configs' :
             configs'[i] = Normalised(pipeline[i]) /\ Accepts(pipeline[i])
      BY <1>1, <1>4, <2>2 DEF Configured
    <3>2. /\ pc' = "Configure" => Len(configs') < Len(pipeline)
          /\ pc' \notin {"Configure", "rejected"} => Len(configs') = Len(pipeline)
      <4>1. Len(configs') <= Len(pipeline) /\ Len(configs') \in Nat /\ Len(pipeline) \in Nat
        BY <1>1, <2>2, Shape
      <4>2. pc' = IF Len(configs') = Len(pipeline) THEN "PostProcess" ELSE "Configure"
        BY <1>1, <2>1
      <4> QED BY <4>1, <4>2
    <3> QED BY <3>1, <3>2, <1>3 DEF Configured
  <2>5. (Counted /\ UsesAsConfigured /\ Progress /\ PanicsOnlyWhenCancelled)'
    BY <1>1, <1>3, <2>1 DEF IInv, Counted, UsesAsConfigured, Progress, StepPoints,
       AllSucceeded, PanicsOnlyWhenCancelled
  <2> QED BY <1>1, <1>3, <2>1, <2>3, <2>4, <2>5, Untouched DEF IInv
<1>5. CASE ~Accepts(c)
  <2>1. pc' = "rejected" /\ configs' = configs
    BY <1>5 DEF Configure
  <2>2. TypeOK'
    BY <1>1, <1>3, <2>1 DEF TypeOK, Points, EndPoints
  <2>3. (Configured /\ Counted /\ UsesAsConfigured /\ Progress /\ PanicsOnlyWhenCancelled)'
    BY <1>1, <1>3, <2>1 DEF IInv, Configured, Counted, UsesAsConfigured, Progress,
       StepPoints, PanicsOnlyWhenCancelled
  <2> QED BY <1>3, <2>1, <2>2, <2>3, Untouched DEF IInv
<1> QED BY <1>4, <1>5

\* PostProcess starts afresh, with an empty state bag, or refuses its source.
LEMMA PostProcessInv == IInv /\ PostProcess => IInv'
<1> SUFFICES ASSUME IInv, PostProcess PROVE IInv'
  OBVIOUS
<1>1. TypeOK /\ pc = "PostProcess"
      /\ UNCHANGED <<pipeline, configs, at, source, jobs, artifacts, deadline, cancelled>>
      /\ bag' = EmptyBag
  BY DEF IInv, PostProcess
<1>2. \/ pc' = "failed" /\ used' = used
      \/ pc' = "Greeting" /\ used' = UsesOf(configs[at])
      \/ pc' = "finish" /\ cancelled /\ used' = UsesOf(configs[at])
  BY DEF PostProcess, Continues
<1>3. TypeOK'
  <2>1. used' \in Uses
    BY <1>1, <1>2, AtWork DEF TypeOK
  <2>2. bag' \in [error : BOOLEAN, image_export_job_id : 0..Len(jobs)]
    BY <1>1, Shape DEF EmptyBag
  <2> QED BY <1>1, <1>2, <2>1, <2>2 DEF TypeOK, Points, EndPoints
<1>4. (Configured /\ Counted /\ UsesAsConfigured /\ PanicsOnlyWhenCancelled)'
  BY <1>1, <1>2 DEF IInv, Configured, Counted, UsesAsConfigured, StepPoints, PanicsOnlyWhenCancelled
<1>5. Progress'
  BY <1>1, <1>2 DEF IInv, Progress, AllSucceeded, StepPoints, EmptyBag
<1> QED BY <1>1, <1>2, <1>3, <1>4, <1>5, Untouched DEF IInv

\* The steps before the export change nothing but the error entry.
LEMMA EarlyStepsInv ==
    IInv /\ (Greeting \/ CreateVPCServiceInstance) => IInv'
<1> SUFFICES ASSUME IInv, Greeting \/ CreateVPCServiceInstance PROVE IInv'
  OBVIOUS
<1>1. TypeOK /\ pc \in {"Greeting", "CreateVPCServiceInstance"}
      /\ UNCHANGED <<pipeline, configs, at, source, used, jobs, artifacts, deadline, cancelled>>
  BY DEF IInv, Greeting, CreateVPCServiceInstance
<1>2. bag = EmptyBag
  BY <1>1 DEF IInv, Progress, StepPoints
<1>3. \/ pc' \in {"CreateVPCServiceInstance", "StepImageExport"} /\ bag' = bag
      \/ pc' = "finish" /\ cancelled /\ bag' = bag
      \/ pc' = "finish" /\ bag' = [bag EXCEPT !.error = TRUE]
  BY DEF Greeting, CreateVPCServiceInstance, Continues, Fails
<1>4. TypeOK'
  <2>1. bag' \in [error : BOOLEAN, image_export_job_id : 0..Len(jobs)]
    BY <1>1, <1>3 DEF TypeOK
  <2> QED BY <1>1, <1>3, <2>1 DEF TypeOK, Points
<1>5. (Configured /\ Counted /\ UsesAsConfigured /\ PanicsOnlyWhenCancelled)'
  BY <1>1, <1>3 DEF IInv, Configured, Counted, UsesAsConfigured, StepPoints, PanicsOnlyWhenCancelled
<1>6. Progress'
  BY <1>1, <1>2, <1>3 DEF IInv, Progress, AllSucceeded, StepPoints, EmptyBag
<1> QED BY <1>1, <1>3, <1>4, <1>5, <1>6, Untouched DEF IInv

\* The wait ends in the job's success, or in an error.
LEMMA AwaitJobInv == IInv /\ AwaitJob => IInv'
<1> SUFFICES ASSUME IInv, AwaitJob PROVE IInv'
  OBVIOUS
<1>1. TypeOK /\ pc = "wait" /\ pc' = "finish"
      /\ UNCHANGED <<pipeline, configs, at, source, used, jobs, artifacts, deadline, cancelled>>
  BY DEF IInv, AwaitJob, Fails
<1>2. OwnJob
  BY <1>1 DEF IInv, Progress
<1>3. \/ TheJob.status = "succeeded" /\ bag' = [bag EXCEPT !.image_export_job_id = Len(jobs)]
      \/ bag' = [bag EXCEPT !.error = TRUE]
  BY DEF AwaitJob, Fails
<1>4. TypeOK'
  <2>1. bag \in [error : BOOLEAN, image_export_job_id : 0..Len(jobs)] /\ Len(jobs) \in 0..Len(jobs)
    BY <1>1, Shape DEF TypeOK
  <2>2. bag' \in [error : BOOLEAN, image_export_job_id : 0..Len(jobs)]
    BY <1>3, <2>1
  <2> QED BY <1>1, <2>2 DEF TypeOK, Points
<1>5. (Configured /\ Counted /\ UsesAsConfigured /\ PanicsOnlyWhenCancelled)'
  BY <1>1 DEF IInv, Configured, Counted, UsesAsConfigured, StepPoints, PanicsOnlyWhenCancelled
<1>6. Progress'
  <2>1. Len(jobs) # 0
    BY <1>1, <1>2, Shape DEF OwnJob, TypeOK
  <2>2. OwnJob' /\ TheJob' = TheJob
    BY <1>1, <1>2 DEF OwnJob, TheJob
  <2>3. CASE TheJob.status = "succeeded" /\ bag' = [bag EXCEPT !.image_export_job_id = Len(jobs)]
    <3>1. bag'.image_export_job_id = Len(jobs)
      BY <1>1, <2>3 DEF TypeOK
    <3> QED BY <1>1, <2>1, <2>2, <2>3, <3>1 DEF Progress, StepPoints
  <2>4. CASE bag' = [bag EXCEPT !.error = TRUE]
    <3>1. bag'.error
      BY <1>1, <2>4 DEF TypeOK
    <3> QED BY <1>1, <3>1 DEF Progress, StepPoints
  <2> QED BY <1>3, <2>3, <2>4
<1> QED BY <1>1, <1>4, <1>5, <1>6, Untouched DEF IInv

\* Cancelling changes only what may panic.
LEMMA CancelInv == IInv /\ Cancel => IInv'
<1> SUFFICES ASSUME IInv, Cancel PROVE IInv'
  OBVIOUS
<1>1. TypeOK /\ cancelled' = TRUE /\ pc # "done"
      /\ UNCHANGED <<pipeline, configs, at, pc, source, used, bag, jobs, artifacts, deadline>>
  BY DEF IInv, Cancel, EndPoints
<1>2. TypeOK'
  BY <1>1 DEF TypeOK
<1>3. (Configured /\ Counted /\ UsesAsConfigured /\ PanicsOnlyWhenCancelled)'
  BY <1>1 DEF IInv, Configured, Counted, UsesAsConfigured, StepPoints, PanicsOnlyWhenCancelled
<1>4. Progress'
  BY <1>1 DEF IInv, Progress, AllSucceeded, StepPoints, OwnJob, TheJob
<1> QED BY <1>1, <1>2, <1>3, <1>4, Untouched DEF IInv

\* A job that is created is the last, and of the post-processor at work.
LEMMA CreateJobInv == IInv /\ CreateImageExportJob => IInv'
<1> SUFFICES ASSUME IInv, CreateImageExportJob PROVE IInv'
  OBVIOUS
<1> DEFINE j == NewJob(configs[at])
<1>1. TypeOK /\ pc = "StepImageExport"
      /\ UNCHANGED <<pipeline, configs, at, source, used, artifacts, cancelled>>
  BY DEF IInv, CreateImageExportJob
<1>2. bag = EmptyBag /\ AllSucceeded /\ used = UsesOf(configs[at])
  BY <1>1 DEF IInv, Progress, UsesAsConfigured, StepPoints
<1>3. \/ pc' = "wait" /\ bag' = bag
      \/ pc' = "finish" /\ bag' = [bag EXCEPT !.error = TRUE]
  BY DEF CreateImageExportJob, Fails
<1>4. (Configured /\ Counted /\ UsesAsConfigured /\ PanicsOnlyWhenCancelled)'
  BY <1>1, <1>3 DEF IInv, Configured, Counted, UsesAsConfigured, StepPoints, PanicsOnlyWhenCancelled
<1>5. CASE jobs' = Append(jobs, j)
  <2>1. /\ j \in Jobs /\ j.of = at /\ j.image_id = used.image_id
        /\ j.account = used.account /\ j.endpoint = used.endpoint
        /\ j.bucket = IF pipeline[at].storage_bucket_name THEN "name" ELSE "crn"
    <3>1. configs[at] \in ConfigSpace /\ at \in Nat
      BY <1>1, AtWork, Shape, NormalisedType
    <3>2. configs[at].storage_bucket_name = pipeline[at].storage_bucket_name
      BY <1>1, AtWork, NormalisedType
    <3>3. j \in Jobs
      BY <1>1, <3>1 DEF NewJob, Jobs, TypeOK, Uses, ConfigSpace, JobStatus
    <3> QED BY <3>2, <3>3 DEF NewJob
  <2>2. /\ jobs' \in Seq(Jobs) /\ Len(jobs') = Len(jobs) + 1
        /\ DOMAIN jobs' = DOMAIN jobs \cup {Len(jobs) + 1}
        /\ jobs'[Len(jobs) + 1] = j
        /\ \A i \in DOMAIN jobs : jobs'[i] = jobs[i]
    BY <1>1, <1>5, <2>1 DEF TypeOK
  <2>3. artifacts \in Seq(DOMAIN jobs')
    <3>1. artifacts \in Seq(DOMAIN jobs) /\ DOMAIN jobs \subseteq DOMAIN jobs'
      BY <1>1, <2>2 DEF TypeOK
    <3> QED BY <3>1
  <2>4. bag' \in [error : BOOLEAN, image_export_job_id : 0..Len(jobs')]
    <3>1. bag \in [error : BOOLEAN, image_export_job_id : {0}]
      BY <1>2 DEF EmptyBag
    <3>2. 0 \in 0..Len(jobs')
      BY <1>1, <2>2, Shape
    <3>3. bag' \in [error : BOOLEAN, image_export_job_id : {0}]
      BY <1>3, <3>1
    <3> QED BY <3>2, <3>3
  <2>5. deadline' \in Int
    <3>1. configs[at].export_timeout \in {<<>>} \cup {<<d>> : d \in Durations}
      BY <1>1, AtWork, NormalisedType DEF ConfigSpace
    <3>2. ExportTimeout(configs[at].export_timeout) \in Int
      BY <3>1, ExportAssumption DEF ExportTimeout
    <3> QED BY <1>1, <3>2 DEF CreateImageExportJob, TypeOK
  <2>6. TypeOK'
    BY <1>1, <1>3, <2>2, <2>3, <2>4, <2>5 DEF TypeOK, Points
  <2>7. OwnJob'
    <3>1. jobs' # <<>> /\ TheJob' = j
      BY <1>1, <2>2, Shape DEF TheJob
    <3> QED BY <1>1, <2>1, <3>1 DEF OwnJob
  <2>8. Progress'
    <3>1. pc' = "finish" => bag'.error
      BY <1>2, <1>3 DEF EmptyBag
    <3> QED BY <1>2, <1>3, <2>7, <3>1 DEF Progress, StepPoints
  <2>9. JobsOfThisChain'
    BY <1>1, <2>1, <2>2 DEF IInv, JobsOfThisChain, TypeOK
  <2>10. OneAccount'
    <3>1. j.account = j.image_id /\ j.endpoint = j.image_id
      BY <1>1, <1>2, <2>1, AtWork
    <3> QED BY <2>2, <3>1 DEF IInv, OneAccount
  <2>11. BucketAsGiven'
    <3>1. /\ pipeline[j.of].storage_bucket_name <=> j.bucket = "name"
          /\ pipeline[j.of].storage_bucket_crn <=> j.bucket = "crn"
      BY <1>1, <2>1, AtWork DEF Accepts, OneBucket, ConfigSpace
    <3> QED BY <1>1, <2>2, <3>1 DEF IInv, BucketAsGiven
  <2>12. NoExportAfterFailure'
    <3>1. \A i, k \in DOMAIN jobs' : i < k => i \in DOMAIN jobs
      BY <1>1, <2>2, Shape
    <3> QED BY <1>2, <2>2, <3>1 DEF NoExportAfterFailure, AllSucceeded
  <2>13. ExportContract'
    <3>1. \A i \in DOMAIN artifacts : artifacts[i] \in DOMAIN jobs
      BY <1>1 DEF TypeOK
    <3> QED BY <1>1, <1>3, <2>2, <3>1 DEF IInv, ExportContract
  <2> QED BY <1>4, <2>6, <2>8, <2>9, <2>10, <2>11, <2>12, <2>13 DEF IInv
<1>6. CASE UNCHANGED jobs
  <2>1. bag' = [bag EXCEPT !.error = TRUE] /\ pc' = "finish" /\ UNCHANGED deadline
    <3>1. jobs # Append(jobs, j)
      <4>1. Len(Append(jobs, j)) = Len(jobs) + 1 /\ Len(jobs) \in Nat
        BY <1>1, Shape DEF TypeOK
      <4> QED BY <4>1
    <3> QED BY <1>6, <3>1 DEF CreateImageExportJob, Fails
  <2>2. bag' \in [error : BOOLEAN, image_export_job_id : 0..Len(jobs)] /\ bag'.error
    BY <1>1, <2>1 DEF TypeOK
  <2>3. TypeOK'
    BY <1>1, <1>6, <2>1, <2>2 DEF TypeOK, Points
  <2>4. Progress'
    BY <2>1, <2>2 DEF Progress, StepPoints
  <2> QED BY <1>1, <1>4, <1>6, <2>1, <2>3, <2>4, Untouched DEF IInv
<1> QED BY <1>5, <1>6 DEF CreateImageExportJob

\* An artifact is made of the job that has just succeeded.
LEMMA FinishInv == IInv /\ Finish => IInv'
<1> SUFFICES ASSUME IInv, Finish PROVE IInv'
  OBVIOUS
<1>1. TypeOK /\ pc = "finish"
      /\ UNCHANGED <<pipeline, configs, used, bag, jobs, deadline, cancelled>>
  BY DEF IInv, Finish
<1>2. CASE bag.error /\ pc' = "failed" /\ UNCHANGED <<at, source, artifacts>>
  <2>1. TypeOK'
    BY <1>1, <1>2 DEF TypeOK, Points, EndPoints
  <2>2. (Configured /\ Counted /\ UsesAsConfigured /\ Progress /\ PanicsOnlyWhenCancelled)'
    BY <1>1, <1>2 DEF IInv, Configured, Counted, UsesAsConfigured, Progress, StepPoints,
       PanicsOnlyWhenCancelled
  <2> QED BY <1>1, <1>2, <2>1, <2>2, Untouched DEF IInv
<1>3. CASE ~bag.error /\ bag.image_export_job_id = 0 /\ pc' = "panicked"
           /\ UNCHANGED <<at, source, artifacts>>
  <2>1. TypeOK'
    BY <1>1, <1>3 DEF TypeOK, Points, EndPoints
  <2>2. cancelled
    BY <1>1, <1>3 DEF IInv, Progress
  <2>3. (Configured /\ Counted /\ UsesAsConfigured /\ Progress /\ PanicsOnlyWhenCancelled)'
    BY <1>1, <1>3, <2>2 DEF IInv, Configured, Counted, UsesAsConfigured, Progress, StepPoints,
       PanicsOnlyWhenCancelled
  <2> QED BY <1>1, <1>3, <2>1, <2>3, Untouched DEF IInv
<1>4. CASE /\ ~bag.error /\ bag.image_export_job_id # 0
           /\ artifacts' = Append(artifacts, bag.image_export_job_id)
           /\ source' = "export"
           /\ IF at < Len(pipeline)
              THEN at' = at + 1 /\ pc' = "PostProcess"
              ELSE pc' = "done" /\ UNCHANGED at
  <2> DEFINE n == Len(jobs)
  <2>1. /\ OwnJob /\ bag.image_export_job_id = n /\ TheJob.status = "succeeded"
        /\ n \in DOMAIN jobs
    <3>1. OwnJob /\ bag.image_export_job_id = n /\ TheJob.status = "succeeded"
      BY <1>1, <1>4 DEF IInv, Progress
    <3>2. n \in Nat /\ n # 0 /\ DOMAIN jobs = 1..n
      BY <1>1, <1>4, <3>1, Shape
    <3> QED BY <3>1, <3>2
  <2>2. Len(artifacts) + 1 = at
    BY <1>1 DEF IInv, Counted
  <2>3. /\ artifacts' \in Seq(DOMAIN jobs) /\ Len(artifacts') = at
        /\ DOMAIN artifacts' = DOMAIN artifacts \cup {at}
        /\ artifacts'[at] = n
        /\ \A i \in DOMAIN artifacts : artifacts'[i] = artifacts[i]
    <3>1. artifacts \in Seq(DOMAIN jobs) /\ artifacts' = Append(artifacts, n)
      BY <1>1, <1>4, <2>1 DEF TypeOK
    <3> QED BY <2>1, <2>2, <3>1
  <2>4. at' \in DOMAIN pipeline /\ (pc' = "done" => at = Len(pipeline))
        /\ (pc' # "done" => at' = at + 1) /\ pc' \in {"PostProcess", "done"}
    <3>1. at \in Nat /\ Len(pipeline) \in Nat /\ 1 <= at /\ at <= Len(pipeline)
          /\ DOMAIN pipeline = 1..Len(pipeline)
      BY <1>1, Shape
    <3>2. CASE at < Len(pipeline)
      <4>1. at' = at + 1 /\ pc' = "PostProcess"
        BY <1>4, <3>2
      <4> QED BY <3>1, <3>2, <4>1
    <3>3. CASE ~(at < Len(pipeline))
      <4>1. at' = at /\ pc' = "done"
        BY <1>4, <3>3
      <4>2. at = Len(pipeline)
        <5>1. \A a, b \in Nat : a <= b /\ ~(a < b) => a = b
          OBVIOUS
        <5> QED BY <3>1, <3>3, <5>1
      <4>3. at \in DOMAIN pipeline
        BY <1>1 DEF TypeOK
      <4> QED BY <4>1, <4>2, <4>3
    <3> QED BY <3>2, <3>3
  <2>5. TypeOK'
    BY <1>1, <1>4, <2>3, <2>4 DEF TypeOK, Points, EndPoints
  <2>6. (Configured /\ Counted /\ UsesAsConfigured /\ PanicsOnlyWhenCancelled)'
    BY <1>1, <2>3, <2>4 DEF IInv, Configured, Counted, UsesAsConfigured, StepPoints,
       PanicsOnlyWhenCancelled
  <2>7. Progress'
    <3>1. AllSucceeded
      <4>1. \A i \in DOMAIN jobs : i < n \/ i = n
        BY <1>1, Shape
      <4>2. jobs[n].status = "succeeded"
        BY <2>1 DEF TheJob
      <4> QED BY <2>1, <4>1, <4>2 DEF IInv, NoExportAfterFailure, AllSucceeded
    <3> QED BY <1>1, <2>4, <3>1 DEF Progress, StepPoints, AllSucceeded
  <2>8. ExportContract'
    <3>1. /\ jobs[n].of = at /\ jobs[n].status = "succeeded"
          /\ jobs[n].image_id = IF pipeline[at].image_id THEN "user" ELSE "builder"
      <4>1. used = UsesOf(configs[at])
        BY <1>1 DEF IInv, UsesAsConfigured
      <4> QED BY <1>1, <2>1, <4>1, AtWork DEF OwnJob, TheJob
    <3> QED BY <1>1, <2>3, <2>4, <3>1 DEF IInv, ExportContract
  <2>9. JobsOfThisChain' /\ OneAccount' /\ BucketAsGiven' /\ NoExportAfterFailure'
    BY <1>1 DEF IInv, JobsOfThisChain, OneAccount, BucketAsGiven, NoExportAfterFailure
  <2> QED BY <2>5, <2>6, <2>7, <2>8, <2>9 DEF IInv
<1> QED BY <1>2, <1>3, <1>4 DEF Finish

\* The cloud never takes a success back, nor changes what a job is of.
LEMMA JobMovesInv == IInv /\ JobMoves => IInv'
<1> SUFFICES ASSUME IInv, JobMoves PROVE IInv'
  OBVIOUS
<1>1. TypeOK
      /\ UNCHANGED <<pipeline, configs, at, pc, source, used, bag, artifacts, deadline, cancelled>>
  BY DEF IInv, JobMoves
<1>2. PICK k \in DOMAIN jobs, s \in JobStatus :
         jobs[k].status # "succeeded" /\ jobs' = [jobs EXCEPT ![k].status = s]
  BY DEF JobMoves
<1>3. /\ jobs' \in Seq(Jobs) /\ Len(jobs') = Len(jobs) /\ DOMAIN jobs' = DOMAIN jobs
      /\ \A i \in DOMAIN jobs :
            /\ jobs'[i].of = jobs[i].of /\ jobs'[i].image_id = jobs[i].image_id
            /\ jobs'[i].account = jobs[i].account /\ jobs'[i].endpoint = jobs[i].endpoint
            /\ jobs'[i].bucket = jobs[i].bucket
            /\ jobs[i].status = "succeeded" => jobs'[i].status = "succeeded"
  <2>1. jobs \in Seq(Jobs) /\ \A i \in DOMAIN jobs : jobs[i] \in Jobs
    BY <1>1 DEF TypeOK
  <2>2. [jobs[k] EXCEPT !.status = s] \in Jobs
    BY <2>1 DEF Jobs
  <2>3. jobs' \in Seq(Jobs) /\ Len(jobs') = Len(jobs) /\ DOMAIN jobs' = DOMAIN jobs
    BY <1>2, <2>1, <2>2
  <2>4. \A i \in DOMAIN jobs :
           jobs'[i] = IF i = k THEN [jobs[k] EXCEPT !.status = s] ELSE jobs[i]
    BY <1>2, <2>1
  <2> QED BY <1>2, <2>1, <2>3, <2>4 DEF Jobs
<1>4. TypeOK'
  BY <1>1, <1>3 DEF TypeOK
<1>5. (Configured /\ Counted /\ UsesAsConfigured /\ PanicsOnlyWhenCancelled)'
  BY <1>1 DEF IInv, Configured, Counted, UsesAsConfigured, StepPoints, PanicsOnlyWhenCancelled
<1>6. Progress'
  <2>1. AllSucceeded => AllSucceeded'
    BY <1>3 DEF AllSucceeded
  <2>2. OwnJob => OwnJob' /\ (TheJob.status = "succeeded" => TheJob'.status = "succeeded")
    <3>1. jobs # <<>> => Len(jobs) \in DOMAIN jobs /\ jobs' # <<>>
      BY <1>1, <1>3, Shape DEF TypeOK
    <3> QED BY <1>1, <1>3, <3>1 DEF OwnJob, TheJob
  <2> QED BY <1>1, <1>3, <2>1, <2>2 DEF IInv, Progress
<1>7. (JobsOfThisChain /\ OneAccount /\ BucketAsGiven /\ NoExportAfterFailure)'
  BY <1>1, <1>3 DEF IInv, JobsOfThisChain, OneAccount, BucketAsGiven, NoExportAfterFailure
<1>8. ExportContract'
  <2>1. \A i \in DOMAIN artifacts : artifacts[i] \in DOMAIN jobs
    BY <1>1 DEF TypeOK
  <2> QED BY <1>1, <1>3, <2>1 DEF IInv, ExportContract
<1> QED BY <1>4, <1>5, <1>6, <1>7, <1>8 DEF IInv

\* Every step, and every stutter, keeps the invariant.
LEMMA StepInv == IInv /\ [Next]_vars => IInv'
<1> SUFFICES ASSUME IInv, [Next]_vars PROVE IInv'
  OBVIOUS
<1>1. CASE Work
  BY <1>1, ConfigureInv, PostProcessInv, EarlyStepsInv, CreateJobInv, AwaitJobInv,
     FinishInv DEF Work
<1>2. CASE Cancel
  BY <1>2, CancelInv
<1>3. CASE JobMoves
  BY <1>3, JobMovesInv
<1>4. CASE UNCHANGED vars
  BY <1>4 DEF vars, IInv, TypeOK, Configured, Counted, UsesAsConfigured, JobsOfThisChain,
     Progress, AllSucceeded, OwnJob, TheJob, ExportContract, OneAccount, BucketAsGiven,
     PanicsOnlyWhenCancelled, NoExportAfterFailure
<1> QED BY <1>1, <1>2, <1>3, <1>4 DEF Next, Ended

-----------------------------------------------------------------------------
(* The theorems. *)

\* The inductive invariant of every chain; fairness is not used.
THEOREM Invariance == Spec => []IInv
<1> QED BY InitInv, StepInv, PTL DEF Spec

\* Type correctness of Configure, PostProcess and the steps.
THEOREM TypeCorrect == Spec => []TypeOK
<1>1. IInv => TypeOK
  BY DEF IInv
<1> QED BY <1>1, Invariance, PTL

\* An artifact of PostProcess stands for its own job, which succeeded, on the
\* image that was asked for, in a chain of any length.
THEOREM Contract == Spec => []ExportContract
<1>1. IInv => ExportContract
  BY DEF IInv
<1> QED BY <1>1, Invariance, PTL

\* What Configure checks is enough: no job of PostProcess mixes the owner of
\* the image with the credentials or the endpoint of another.
THEOREM Accounts == Spec => []OneAccount
<1>1. IInv => OneAccount
  BY DEF IInv
<1> QED BY <1>1, Invariance, PTL

\* StepImageExport writes to the bucket the template gives.
THEOREM Bucket == Spec => []BucketAsGiven
<1>1. IInv => BucketAsGiven
  BY DEF IInv
<1> QED BY <1>1, Invariance, PTL

\* PostProcess panics on a missing job identifier only in a cancelled run.
THEOREM Panics == Spec => []PanicsOnlyWhenCancelled
<1>1. IInv => PanicsOnlyWhenCancelled
  BY DEF IInv
<1> QED BY <1>1, Invariance, PTL

\* A chain stops at the first export that fails or is given up.
THEOREM StopsAtFailure == Spec => []NoExportAfterFailure
<1>1. IInv => NoExportAfterFailure
  BY DEF IInv
<1> QED BY <1>1, Invariance, PTL

\* Where the timer is not the export_timeout, that was shorter than a minute and
\* the timer is five.
OnlyShortTimeoutsReplaced ==
    pc = "wait" =>
        LET t == pipeline[at].export_timeout
        IN  t # <<>> /\ deadline # t[1] => t[1] < 60 /\ deadline = 300

\* Configure leaves an export_timeout as the template has it.
LEMMA TimerOf ==
    ASSUME NEW c \in ConfigSpace
    PROVE  LET t == c.export_timeout
           IN  /\ Normalised(c).export_timeout = t
               /\ t # <<>> /\ ExportTimeout(t) # t[1] => t[1] < 60 /\ ExportTimeout(t) = 300
<1>1. Normalised(c).export_timeout = c.export_timeout
  BY DEF Normalised, ConfigSpace
<1>2. CASE c.export_timeout = <<>>
  BY <1>1, <1>2
<1>3. ASSUME NEW d \in Durations, c.export_timeout = <<d>>
      PROVE  LET t == c.export_timeout
             IN  ExportTimeout(t) # t[1] => t[1] < 60 /\ ExportTimeout(t) = 300
  <2>1. d \in Int /\ c.export_timeout # <<>> /\ c.export_timeout[1] = d
    BY <1>3, ExportAssumption
  <2> QED BY <2>1 DEF ExportTimeout
<1> QED BY <1>1, <1>2, <1>3 DEF ConfigSpace

\* A wait begins with the timer of its own post-processor, and nothing moves
\* the timer while it lasts.
LEMMA StepKeepsTimer ==
    IInv /\ OnlyShortTimeoutsReplaced /\ [Next]_vars => OnlyShortTimeoutsReplaced'
<1> SUFFICES ASSUME IInv, OnlyShortTimeoutsReplaced, [Next]_vars, pc' = "wait"
             PROVE  LET t == pipeline'[at'].export_timeout
                    IN  t # <<>> /\ deadline' # t[1] => t[1] < 60 /\ deadline' = 300
  BY DEF OnlyShortTimeoutsReplaced
<1>1. CASE pc = "wait" /\ UNCHANGED <<pipeline, at, deadline>>
  BY <1>1 DEF OnlyShortTimeoutsReplaced
<1>2. CASE CreateImageExportJob
  <2>1. pc = "StepImageExport" /\ UNCHANGED <<pipeline, at>>
    BY <1>2 DEF CreateImageExportJob
  <2>2. deadline' = ExportTimeout(configs[at].export_timeout)
    BY <1>2 DEF CreateImageExportJob, Fails
  <2>3. pipeline[at] \in ConfigSpace /\ configs[at] = Normalised(pipeline[at])
    BY <2>1, AtWork
  <2> QED BY <2>1, <2>2, <2>3, TimerOf
<1>3. CASE Cancel \/ JobMoves \/ Ended \/ UNCHANGED vars
  BY <1>1, <1>3 DEF Cancel, JobMoves, Ended, vars
<1>4. ~(Configure \/ PostProcess \/ Greeting \/ CreateVPCServiceInstance \/ AwaitJob \/ Finish)
  BY DEF Configure, PostProcess, Greeting, CreateVPCServiceInstance, AwaitJob, Finish,
         Continues, Fails
<1> QED BY <1>2, <1>3, <1>4 DEF Next, Work

\* The wait for the job is not always the one the template asks for, but only an
\* export_timeout of less than a minute is replaced, by five minutes
\* (StepImageExport, waitForExportJobToSucceed).
THEOREM TimeoutsReplaced == Spec => []OnlyShortTimeoutsReplaced
<1>1. Init => OnlyShortTimeoutsReplaced
  BY DEF Init, OnlyShortTimeoutsReplaced
<1> QED BY <1>1, StepKeepsTimer, Invariance, PTL DEF Spec
=============================================================================
