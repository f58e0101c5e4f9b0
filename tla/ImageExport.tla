---------------------------- MODULE ImageExport ----------------------------
(***************************************************************************)
(* A chain of export post-processors behind a VPC build, the module        *)
(* post-processor/ibmcloud-export-image with the step StepImageExport of   *)
(* builder/ibmcloud/vpc.  The packer core (external) calls Configure of    *)
(* every post-processor before the build and PostProcess of each after it, *)
(* with the artifact of the one before.  Every request is an action; the   *)
(* wait for the job is one point, as the module Await allows.              *)
(***************************************************************************)
EXTENDS Integers, Sequences

CONSTANTS
    Pipelines,   \* the chains considered, sequences of configurations
    Durations,   \* what an export_timeout parses to, in seconds; 0 if it does not
    Faults       \* what may go wrong, a subset of FaultKinds

\* "api": a request is answered with an error.  "lost": the create of the job
\* takes effect and its answer never arrives.  "timeout": the wait's timer
\* fires.  "zone": the cloud fails or deletes the job.  "cancel": the user
\* interrupts, before the first PostProcess or at any later point.
FaultKinds == {"api", "lost", "timeout", "zone", "cancel"}

\* A post-processor block.  An empty sequence is an export_timeout not given.
ConfigSpace ==
    [image_id : BOOLEAN,            \* an image of the user's choice is given
     api_key : BOOLEAN,
     region : BOOLEAN,
     vpc_endpoint_url : BOOLEAN,
     storage_bucket_name : BOOLEAN,
     storage_bucket_crn : BOOLEAN,
     format : {"", "qcow2", "vhd"},
     image_export_job_name : {"", "users", "qcow2"},
     export_timeout : {<<>>} \cup {<<d>> : d \in Durations}]

ASSUME ExportAssumption ==
    /\ Durations \subseteq Int
    /\ Pipelines \subseteq Seq(ConfigSpace) \ {<<>>}
    /\ Faults \subseteq FaultKinds

VARIABLES
    pipeline,   \* the chain as the template has it, fixed
    configs,    \* its configurations as Configure left them, in order
    at,         \* the post-processor at work
    pc,         \* where the run is
    source,     \* BuilderId of the artifact handed to PostProcess
    used,       \* the exporterConfig: whose image, account and endpoint
    bag,        \* the state bag: error, and image_export_job_id (0: absent)
    jobs,       \* the export jobs in the cloud, one per create that got there
    artifacts,  \* the image_export_job_id of every artifact returned
    deadline,   \* the timer of the wait, in seconds
    cancelled   \* the context is cancelled

vars == <<pipeline, configs, at, pc, source, used, bag, jobs, artifacts,
          deadline, cancelled>>

Owners == {"builder", "user", "none"}   \* "none": the empty string
Uses == [image_id : Owners, account : Owners, endpoint : Owners]
JobStatus == {"queued", "running", "succeeded", "failed", "deleting"}

Jobs == [of : Nat, image_id : Owners, account : Owners, endpoint : Owners,
         name : {"", "users", "qcow2"}, format : {"", "qcow2", "vhd"},
         bucket : {"name", "crn"}, status : JobStatus]

EndPoints == {"rejected", "failed", "panicked", "done"}
Points == {"Configure", "PostProcess", "Greeting", "CreateVPCServiceInstance",
           "StepImageExport", "wait", "finish"} \cup EndPoints

TypeOK ==
    /\ pipeline \in Pipelines
    /\ configs \in Seq(ConfigSpace) /\ Len(configs) <= Len(pipeline)
    /\ at \in DOMAIN pipeline
    /\ pc \in Points
    /\ source \in {"vpc", "export", "other"}
    /\ used \in Uses
    /\ bag \in [error : BOOLEAN, image_export_job_id : 0..Len(jobs)]
    /\ jobs \in Seq(Jobs)
    /\ artifacts \in Seq(DOMAIN jobs)
    /\ deadline \in Int
    /\ cancelled \in BOOLEAN

EmptyBag == [error |-> FALSE, image_export_job_id |-> 0]
OfSource == [image_id |-> "builder", account |-> "builder", endpoint |-> "builder"]

May(f) == f \in Faults

Init ==
    /\ pipeline \in Pipelines
    /\ configs = <<>>
    /\ at = 1
    /\ pc = "Configure"
    /\ source \in {"vpc", "other"}
    /\ used = OfSource
    /\ bag = EmptyBag
    /\ jobs = <<>>
    /\ artifacts = <<>>
    /\ deadline = 0
    /\ cancelled = FALSE

-----------------------------------------------------------------------------
(* Configure. *)

OneBucket(c) == c.storage_bucket_name # c.storage_bucket_crn

\* Mutant: credentials are not asked for with an image_id.
AcceptsWithoutKey(c) ==
    /\ ~c.image_id => ~c.api_key /\ ~c.region /\ ~c.vpc_endpoint_url
    /\ OneBucket(c)

\* An image of the user's comes with its credentials, any other without.
Accepts(c) ==
    /\ IF c.image_id
       THEN c.api_key /\ c.region
       ELSE ~c.api_key /\ ~c.region /\ ~c.vpc_endpoint_url
    /\ OneBucket(c)

\* The endpoint follows from the region; a missing format changes the name.
Normalised(c) ==
    [c EXCEPT !.vpc_endpoint_url = @ \/ c.image_id,
              !.image_export_job_name = IF c.format = "" THEN "qcow2" ELSE @]

Configure ==
    /\ pc = "Configure"
    /\ LET c == pipeline[Len(configs) + 1]
       IN  IF Accepts(c)
           THEN /\ configs' = Append(configs, Normalised(c))
                /\ pc' = IF Len(configs') = Len(pipeline) THEN "PostProcess" ELSE pc
           ELSE pc' = "rejected" /\ UNCHANGED configs
    /\ UNCHANGED <<pipeline, at, source, used, bag, jobs, artifacts, deadline, cancelled>>

-----------------------------------------------------------------------------
(* PostProcess, up to the runner. *)

\* The runner (external) looks at the context before every step.
Continues(p) == pc' = IF cancelled THEN "finish" ELSE p

Fails == bag' = [bag EXCEPT !.error = TRUE] /\ pc' = "finish"

\* Mutant: the image of the source is taken although one is given.
UsesSourceImage(c) ==
    [image_id |-> "builder",
     account |-> IF c.api_key THEN "user" ELSE "builder",
     endpoint |-> IF c.vpc_endpoint_url THEN "user" ELSE "builder"]

\* Everything is the source's, or everything is the configuration's.
UsesOf(c) ==
    IF c.image_id
    THEN [image_id |-> "user",
          account |-> IF c.api_key THEN "user" ELSE "none",
          endpoint |-> IF c.vpc_endpoint_url THEN "user" ELSE "none"]
    ELSE OfSource

PostProcess ==
    /\ pc = "PostProcess"
    /\ bag' = EmptyBag
    /\ IF source = "other"
       THEN pc' = "failed" /\ UNCHANGED used
       ELSE Continues("Greeting") /\ used' = UsesOf(configs[at])
    /\ UNCHANGED <<pipeline, configs, at, source, jobs, artifacts, deadline, cancelled>>

Greeting ==
    /\ pc = "Greeting"
    /\ Continues("CreateVPCServiceInstance")
    /\ UNCHANGED <<pipeline, configs, at, source, used, bag, jobs, artifacts, deadline, cancelled>>

CreateVPCServiceInstance ==
    /\ pc = "CreateVPCServiceInstance"
    /\ \/ Continues("StepImageExport") /\ UNCHANGED bag
       \/ May("api") /\ Fails
    /\ UNCHANGED <<pipeline, configs, at, source, used, jobs, artifacts, deadline, cancelled>>

-----------------------------------------------------------------------------
(* StepImageExport. *)

\* The duration given, two minutes without one; a short one becomes five.
ExportTimeout(t) ==
    LET d == IF t = <<>> THEN 120 ELSE t[1]
    IN  IF d < 60 THEN 300 ELSE d

\* The name of the bucket goes before its CRN.
NewJob(c) ==
    [of |-> at, image_id |-> used.image_id, account |-> used.account,
     endpoint |-> used.endpoint, name |-> c.image_export_job_name,
     format |-> c.format, bucket |-> IF c.storage_bucket_name THEN "name" ELSE "crn",
     status |-> "queued"]

CreateImageExportJob ==
    /\ pc = "StepImageExport"
    /\ \/ /\ jobs' = Append(jobs, NewJob(configs[at]))
          /\ deadline' = ExportTimeout(configs[at].export_timeout)
          /\ pc' = "wait"
          /\ UNCHANGED bag
       \/ May("api") /\ Fails /\ UNCHANGED <<jobs, deadline>>
       \/ /\ May("lost")
          /\ jobs' = Append(jobs, NewJob(configs[at]))
          /\ Fails
          /\ UNCHANGED deadline
    /\ UNCHANGED <<pipeline, configs, at, source, used, artifacts, cancelled>>

TheJob == jobs[Len(jobs)]

\* Mutant: the job is good for an artifact when it was accepted.
AwaitJobAccepted ==
    /\ pc = "wait"
    /\ bag' = [bag EXCEPT !.image_export_job_id = Len(jobs)]
    /\ pc' = "finish"
    /\ UNCHANGED <<pipeline, configs, at, source, used, jobs, artifacts, deadline, cancelled>>

\* Mutant: a failed wait halts without recording its error.
AwaitJobSilently ==
    /\ pc = "wait"
    /\ \/ /\ TheJob.status = "succeeded"
          /\ bag' = [bag EXCEPT !.image_export_job_id = Len(jobs)]
       \/ /\ TheJob.status \in {"failed", "deleting"} \/ May("timeout") \/ May("api")
          /\ UNCHANGED bag
    /\ pc' = "finish"
    /\ UNCHANGED <<pipeline, configs, at, source, used, jobs, artifacts, deadline, cancelled>>

\* Mutant: the wait has no deadline.
AwaitJobForever ==
    /\ pc = "wait"
    /\ \/ /\ TheJob.status = "succeeded"
          /\ bag' = [bag EXCEPT !.image_export_job_id = Len(jobs)]
          /\ pc' = "finish"
       \/ TheJob.status \in {"failed", "deleting"} /\ Fails
    /\ UNCHANGED <<pipeline, configs, at, source, used, jobs, artifacts, deadline, cancelled>>

\* waitForExportJobToSucceed, and the entry the artifact is made of.
AwaitJob ==
    /\ pc = "wait"
    /\ \/ /\ TheJob.status = "succeeded"
          /\ bag' = [bag EXCEPT !.image_export_job_id = Len(jobs)]
          /\ pc' = "finish"
       \/ /\ TheJob.status \in {"failed", "deleting"} \/ May("timeout") \/ May("api")
          /\ Fails
    /\ UNCHANGED <<pipeline, configs, at, source, used, jobs, artifacts, deadline, cancelled>>

-----------------------------------------------------------------------------
(* PostProcess, after the runner. *)

\* Mutant: an artifact is returned whether or not there is a job.
FinishUnchecked ==
    /\ pc = "finish"
    /\ artifacts' = Append(artifacts, bag.image_export_job_id)
    /\ source' = "export"
    /\ IF at < Len(pipeline)
       THEN at' = at + 1 /\ pc' = "PostProcess"
       ELSE pc' = "done" /\ UNCHANGED at
    /\ UNCHANGED <<pipeline, configs, used, bag, jobs, deadline, cancelled>>

\* An entry that is absent is no string: the conversion panics.  The artifact
\* hands the builder's image and credentials on, whatever was exported.
Finish ==
    /\ pc = "finish"
    /\ \/ bag.error /\ pc' = "failed" /\ UNCHANGED <<at, source, artifacts>>
       \/ /\ ~bag.error /\ bag.image_export_job_id = 0
          /\ pc' = "panicked"
          /\ UNCHANGED <<at, source, artifacts>>
       \/ /\ ~bag.error /\ bag.image_export_job_id # 0
          /\ artifacts' = Append(artifacts, bag.image_export_job_id)
          /\ source' = "export"
          /\ IF at < Len(pipeline)
             THEN at' = at + 1 /\ pc' = "PostProcess"
             ELSE pc' = "done" /\ UNCHANGED at
    /\ UNCHANGED <<pipeline, configs, used, bag, jobs, deadline, cancelled>>

-----------------------------------------------------------------------------
Cancel ==
    /\ May("cancel")
    /\ ~cancelled
    /\ pc \notin EndPoints \cup {"Configure"}
    /\ cancelled' = TRUE
    /\ UNCHANGED <<pipeline, configs, at, pc, source, used, bag, jobs, artifacts, deadline>>

\* The cloud works on a job, whether or not somebody waits for it.
JobMoves ==
    /\ \E i \in DOMAIN jobs, s \in JobStatus :
          /\ <<jobs[i].status, s>> \in {<<"queued", "running">>, <<"running", "succeeded">>} \cup
                IF May("zone") THEN {<<"running", "failed">>, <<"queued", "deleting">>} ELSE {}
          /\ jobs' = [jobs EXCEPT ![i].status = s]
    /\ UNCHANGED <<pipeline, configs, at, pc, source, used, bag, artifacts, deadline, cancelled>>

Ended == pc \in EndPoints /\ UNCHANGED vars

Work ==
    \/ Configure \/ PostProcess \/ Greeting \/ CreateVPCServiceInstance
    \/ CreateImageExportJob \/ AwaitJob \/ Finish

Next == Work \/ Cancel \/ JobMoves \/ Ended

\* Requests are bounded by the SDK's client (external) and the wait by its timer;
\* nothing is asked of the cloud.
Spec == Init /\ [][Next]_vars /\ WF_vars(Work)

-----------------------------------------------------------------------------
(* Properties. *)

\* An artifact names a job that succeeded, of the very post-processor that
\* returned it, and the job exported what the template asked for: the image
\* given or, at any place in the chain, the builder's.
ExportContract ==
    /\ \A i \in DOMAIN artifacts :
          LET j == jobs[artifacts[i]]
          IN  /\ j.of = i /\ j.status = "succeeded"
              /\ j.image_id = IF pipeline[i].image_id THEN "user" ELSE "builder"
    /\ pc = "done" => Len(artifacts) = Len(pipeline)

\* No job reads an image with the credentials or at the endpoint of somebody
\* else: what Configure demands is what PostProcess relies on.
OneAccount ==
    \A i \in DOMAIN jobs :
        jobs[i].account = jobs[i].image_id /\ jobs[i].endpoint = jobs[i].image_id

\* Unless the user interrupts, every failure is an error that is returned,
\* and never a missing job identifier that panics.
PanicsOnlyWhenCancelled == pc = "panicked" => cancelled

\* A chain creates a job only while every earlier one has succeeded: an
\* export that failed or was given up is the last.
NoExportAfterFailure ==
    \A i, j \in DOMAIN jobs : i < j => jobs[i].status = "succeeded"

\* The time to wait for the job is the export_timeout, if a duration is given:
\* what post-processor/README.md says of it.
WaitAsConfigured ==
    pc = "wait" =>
        LET t == pipeline[at].export_timeout
        IN  t # <<>> /\ t[1] > 0 => deadline = t[1]

\* Every chain ends, even if the cloud never works on a job.
Terminates == <>(pc \in EndPoints)
=============================================================================
