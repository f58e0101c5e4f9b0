------------------------------ MODULE VpcBuild ------------------------------
(***************************************************************************)
(* One run of the VPC builder, Builder.Run in builder/ibmcloud/vpc: the    *)
(* steps of the build and their Cleanups, each request to the cloud an     *)
(* action of its own, under the packer SDK's step runner (external).       *)
(*                                                                         *)
(* pc is the entry of a step, a point inside one ("createInstance.wait"),  *)
(* a point of a Cleanup ("clean.instance") or the end of the run.  A wait  *)
(* (waitForResourceReady, waitForResourceDown) is one point with one       *)
(* action per verdict, as the modules Await and PollUntil allow.           *)
(***************************************************************************)
EXTENDS VpcCloud, Sequences

CONSTANTS
    Configs,     \* the configurations considered, Config.Prepare accepts each
    Faults,      \* what may go wrong, a subset of FaultKinds
    NilPointer   \* a (*vpcv1.Instance)(nil) stored in the state bag

\* "api": a request of a step is answered with an error.
\* "noresp": a request fails without any response.
\* "lost": a request of a step takes effect and its answer never arrives.
\* "timeout": a wait's timer fires.       "zone": the cloud fails a resource.
\* "local": a file operation fails.       "cancel": the user interrupts.
\* "cleanup": a request of a Cleanup ends in an error other than 404, with or
\* without its effect.
\* "kept": the deletion of a Cleanup is answered without an error, with a status
\* other than 204, and the resource stays.
FaultKinds == {"api", "noresp", "lost", "timeout", "zone", "local", "cancel", "cleanup",
               "kept"}

\* What of a configuration decides the course of a build.
ConfigSpace ==
    [comm : {"ssh", "winrm", "none"},         \* communicator type
     vsi_interface : {"public", "private"},
     security_group_id : BOOLEAN,             \* the user provides the group
     skip_rules : BOOLEAN,                    \* skip_create_default_security_group_rule
     remotes : 1..MaxRemotes,                 \* rules to create, the default counted
     skip_reboot : BOOLEAN,
     subnets : Subnets,                       \* candidate subnets
     image_tags : BOOLEAN]                    \* tags requested for the image

ASSUME BuildAssumption ==
    /\ Configs \subseteq ConfigSpace
    /\ Faults \subseteq FaultKinds
    /\ NilPointer \notin Nat

VARIABLES
    cfg,        \* the configuration, fixed
    pc,         \* where the run is
    todo,       \* the steps the runner has not started
    deferred,   \* how many of the three non-empty Cleanups are registered
    panicking,  \* a panic is unwinding the run
    cancelled,  \* the context is cancelled
    attempt,    \* instances stepCreateInstance has asked for
    nrule,      \* rules the current step has created
    bag,        \* the state bag, the entries the run reads back
    keydir,     \* the local directory with the private key exists
    rebooted,   \* history: the build rebooted its instance
    lost,       \* history: the resource whose create was not answered
    result      \* what Run returned

runner == <<todo, deferred, panicking>>
history == <<rebooted, lost, result>>
vars == <<cloud, cfg, pc, runner, cancelled, attempt, nrule, bag, keydir, history>>

-----------------------------------------------------------------------------
(* The steps. *)

SshSteps ==
    <<"Greeting", "CreateVPCServiceInstance", "verifyInput", "getSubnetInfo",
      "getBaseImageID", "createSshKeyPair", "createSshKeyVPC", "createInstance",
      "waitforInstance", "getIP", "createSecurityGroupRules", "StepConnect",
      "StepProvision", "CreateVPCServiceInstance", "rebootInstance", "captureImage">>

WinRMSteps ==
    <<"Greeting", "CreateVPCServiceInstance", "verifyInput", "getSubnetInfo",
      "getBaseImageID", "createSshKeyPair", "createSshKeyVPC", "createInstance",
      "waitforInstance", "getIP", "createSecurityGroupRules", "waitWinRM",
      "StepConnect", "StepProvision", "CreateVPCServiceInstance",
      "rebootInstance", "captureImage">>

\* Any other communicator gets a build without steps.
Steps(comm) ==
    IF comm = "ssh" THEN SshSteps ELSE IF comm = "winrm" THEN WinRMSteps ELSE <<>>

StepNames == {"Greeting", "CreateVPCServiceInstance", "verifyInput",
    "getSubnetInfo", "getBaseImageID", "createSshKeyPair", "createSshKeyVPC",
    "createInstance", "waitforInstance", "getIP", "createSecurityGroupRules",
    "waitWinRM", "StepConnect", "StepProvision", "rebootInstance", "captureImage"}

InnerPoints == {"createInstance.wait", "createInstance.delete",
    "createInstance.gone", "waitforInstance.retrieve", "getIP.wait",
    "getIP.inventory", "createSecurityGroupRules.rules",
    "createSecurityGroupRules.attach", "rebootInstance.wait",
    "rebootInstance.retrieve", "captureImage.wait", "captureImage.create",
    "captureImage.tag", "captureImage.available"}

CleanupPoints == {"clean.floatingip", "clean.instance", "clean.gone",
    "clean.rule", "clean.group", "clean.key", "clean.keydir", "finish"}

EndPoints == {"returned", "crashed", "exited"}

Bag == [error : {"none", "run", "cleanup"},  \* the entry, and who put it last
        image_id : BOOLEAN,
        instance_data : (0..MaxSubnets) \cup {NilPointer},  \* 0: absent or nil
        floating_ip : BOOLEAN,
        floating_ip_id : BOOLEAN,
        security_group_id : BOOLEAN,
        security_group_name : BOOLEAN,
        security_group_rule_id : BOOLEAN,
        vpc_ssh_key : BOOLEAN]               \* vpc_ssh_key_id and _name

Points == StepNames \cup InnerPoints \cup CleanupPoints \cup EndPoints

RunnerTypeOK ==
    /\ pc \in Points
    /\ todo \in Seq(StepNames)
    /\ deferred \in 0..3
    /\ panicking \in BOOLEAN

RestTypeOK ==
    /\ cfg \in Configs
    /\ cancelled \in BOOLEAN
    /\ attempt \in 0..MaxSubnets
    /\ nrule \in 0..MaxRemotes
    /\ bag \in Bag
    /\ keydir \in BOOLEAN
    /\ rebooted \in BOOLEAN
    /\ lost \in {"none", "instance", "floating_ip", "security_group", "rule", "ssh_key", "image"}
    /\ result \in {"none", "artifact", "error"}

TypeOK == CloudTypeOK /\ RunnerTypeOK /\ RestTypeOK

Init ==
    /\ CloudInit
    /\ cfg \in Configs
    /\ LET s == Steps(cfg.comm)
       IN  /\ pc = IF s = <<>> THEN "finish" ELSE Head(s)
           /\ todo = IF s = <<>> THEN s ELSE Tail(s)
    /\ deferred = 0
    /\ panicking = FALSE
    /\ cancelled = FALSE
    /\ attempt = 0
    /\ nrule = 0
    /\ bag = [error |-> "none", image_id |-> FALSE, instance_data |-> 0,
              floating_ip |-> FALSE, floating_ip_id |-> FALSE,
              security_group_id |-> FALSE, security_group_name |-> FALSE,
              security_group_rule_id |-> FALSE, vpc_ssh_key |-> FALSE]
    /\ keydir = FALSE
    /\ rebooted = FALSE
    /\ lost = "none"
    /\ result = "none"

-----------------------------------------------------------------------------
(* The runner (external).  It registers the Cleanup of a step when its Run *)
(* has returned, stops on a halt or a cancelled context, and unwinds the   *)
(* registered Cleanups last first; so does a panic.  Three steps have a    *)
(* Cleanup that does something: createSshKeyPair, createSshKeyVPC and      *)
(* createInstance, registered in this order, so a count tells the stack.   *)

CleanupEntry == <<"clean.keydir", "clean.key", "clean.floatingip">>

\* Mutant: the stack pointer is moved below the bottom.
UnwindPastBottom(d) ==
    /\ pc' = IF d = 0 THEN "finish" ELSE CleanupEntry[d]
    /\ deferred' = d - 1
    /\ UNCHANGED todo

\* Enter the last of d registered Cleanups.
Unwind(d) ==
    /\ pc' = IF d = 0 THEN "finish" ELSE CleanupEntry[d]
    /\ deferred' = IF d = 0 THEN 0 ELSE d - 1
    /\ UNCHANGED todo

\* Run returned ActionContinue (Halts: ActionHalt), d Cleanups now registered.
Continues(d) ==
    /\ UNCHANGED panicking
    /\ IF cancelled \/ todo = <<>>
       THEN Unwind(d)
       ELSE /\ pc' = Head(todo)
            /\ todo' = Tail(todo)
            /\ deferred' = d

Halts(d) == Unwind(d) /\ UNCHANGED panicking

\* Mutant: a panic ends the process at once.
PanicsAtOnce ==
    /\ pc' = "crashed"
    /\ panicking' = TRUE
    /\ UNCHANGED <<todo, deferred>>

\* A panic: in a Run, the panicking step's own Cleanup is not registered; in
\* a Cleanup, the Cleanups registered before it still run.
Panics == Unwind(deferred) /\ panicking' = TRUE

At(p) == pc = p
GoTo(p) == pc' = p /\ UNCHANGED runner

Put(f, v) == bag' = [bag EXCEPT ![f] = v]
PutError == bag' = [bag EXCEPT !.error = "run"]
PutCleanupError == bag' = [bag EXCEPT !.error = "cleanup"]

May(f) == f \in Faults

\* A step records an error and halts.
Fails(d) == PutError /\ Halts(d)

\* A wait returns an error that says nothing of the resource: its timer fired,
\* or a status request failed.
WaitBreaks == May("timeout") \/ May("api")

\* The instance the state bag holds.  A nil pointer is dereferenced, or not.
TheInstance == bag.instance_data
NilInstance == bag.instance_data = NilPointer

(* Steps that only read the cloud, and the two that read nothing.          *)

\* The step passes or, when it asks the cloud, records an error and halts.
Checks(p, asks) ==
    /\ At(p)
    /\ \/ Continues(deferred) /\ UNCHANGED bag
       \/ asks /\ May("api") /\ Fails(deferred)
    /\ UNCHANGED <<cloud, attempt, nrule, keydir, history>>

Greeting == Checks("Greeting", FALSE)
CreateVPCServiceInstance == Checks("CreateVPCServiceInstance", TRUE)
VerifyInput == Checks("verifyInput", TRUE)
GetSubnetInfo == Checks("getSubnetInfo", TRUE)
GetBaseImageID == Checks("getBaseImageID", TRUE)
WaitWinRM == Checks("waitWinRM", FALSE)

-----------------------------------------------------------------------------
(* SSH keys. *)

\* The directory, then the two files in it; a later failure leaves it there.
CreateSshKeyPair ==
    /\ At("createSshKeyPair")
    /\ \/ keydir' = TRUE /\ Continues(1) /\ UNCHANGED bag
       \/ May("local") /\ keydir' \in BOOLEAN /\ Fails(1)
    /\ UNCHANGED <<cloud, attempt, nrule, history>>

CreateSshKeyVPC ==
    /\ At("createSshKeyVPC")
    /\ \/ /\ SetKey("exists")
          /\ Put("vpc_ssh_key", TRUE)
          /\ Continues(2)
          /\ UNCHANGED lost
       \/ (May("api") \/ May("local")) /\ Fails(2) /\ UNCHANGED <<cloud, lost>>
       \/ May("lost") /\ SetKey("exists") /\ lost' = "ssh_key" /\ Fails(2)
    /\ UNCHANGED <<attempt, nrule, keydir, rebooted, result>>

-----------------------------------------------------------------------------
(* The instance, with the capacity fallback over the candidate subnets. *)

\* Mutant: the bag gets the instance only when the wait is over.
CreateInstanceUnrecorded ==
    /\ At("createInstance")
    /\ attempt < cfg.subnets
    /\ \/ /\ attempt' = attempt + 1
          /\ SetInstance(attempt + 1, "starting")
          /\ GoTo("createInstance.wait")
          /\ UNCHANGED <<bag, lost>>
       \/ (May("api") \/ May("local")) /\ Fails(3) /\ UNCHANGED <<cloud, attempt, lost>>
    /\ UNCHANGED <<nrule, keydir, rebooted, result>>

\* createInstance in the next subnet.  The bag holds the instance before the
\* wait starts.
CreateInstance ==
    /\ At("createInstance")
    /\ attempt < cfg.subnets
    /\ \/ /\ attempt' = attempt + 1
          /\ SetInstance(attempt + 1, "starting")
          /\ Put("instance_data", attempt + 1)
          /\ GoTo("createInstance.wait")
          /\ UNCHANGED lost
       \/ /\ May("api") \/ May("local")
          /\ Fails(3)
          /\ UNCHANGED <<cloud, attempt, lost>>
       \/ /\ May("lost")
          /\ attempt' = attempt + 1
          /\ SetInstance(attempt + 1, "starting")
          /\ lost' = "instance"
          /\ Fails(3)
    /\ UNCHANGED <<nrule, keydir, rebooted, result>>

\* Mutant: the fallback records the failure it recovers from.
AwaitStartRecordingFallback ==
    /\ At("createInstance.wait")
    /\ \/ inst[attempt] = "running" /\ Continues(3) /\ UNCHANGED bag
       \/ /\ inst[attempt] = "failed_capacity"
          /\ attempt < cfg.subnets
          /\ GoTo("createInstance.delete")
          /\ PutError
       \/ (inst[attempt] = "failed" \/ WaitBreaks) /\ Fails(3)
    /\ UNCHANGED <<cloud, attempt, nrule, keydir, history>>

\* Only a capacity failure with a subnet left is worth another zone.
AwaitStart ==
    /\ At("createInstance.wait")
    /\ \/ inst[attempt] = "running" /\ Continues(3) /\ UNCHANGED bag
       \/ /\ inst[attempt] = "failed_capacity"
          /\ attempt < cfg.subnets
          /\ GoTo("createInstance.delete")
          /\ UNCHANGED bag
       \/ /\ \/ inst[attempt] = "failed"
             \/ inst[attempt] = "failed_capacity" /\ attempt = cfg.subnets
             \/ WaitBreaks
          /\ Fails(3)
    /\ UNCHANGED <<cloud, attempt, nrule, keydir, history>>

\* Mutant: the fallback does not wait for the failed instance to go.
DeleteFailedInstanceNoWait ==
    /\ At("createInstance.delete")
    /\ SetInstance(attempt, "deleting")
    /\ GoTo("createInstance")
    /\ Put("instance_data", 0)
    /\ UNCHANGED <<attempt, nrule, keydir, history>>

\* deleteInstanceAndWait on the fallback path: the request...
DeleteFailedInstance ==
    /\ At("createInstance.delete")
    /\ \/ SetInstance(attempt, "deleting") /\ GoTo("createInstance.gone") /\ UNCHANGED bag
       \/ May("api") /\ Fails(3) /\ UNCHANGED cloud
       \/ May("lost") /\ Fails(3) /\ SetInstance(attempt, "deleting")
    /\ UNCHANGED <<attempt, nrule, keydir, history>>

\* Mutant: instance_data is cleared whether or not the instance went.
AwaitFailedInstanceGoneClearing ==
    /\ At("createInstance.gone")
    /\ \/ inst[attempt] = "gone" /\ Put("instance_data", 0) /\ GoTo("createInstance")
       \/ /\ May("timeout")
          /\ bag' = [bag EXCEPT !.instance_data = 0, !.error = "run"]
          /\ Halts(3)
    /\ UNCHANGED <<cloud, attempt, nrule, keydir, history>>

\* ... and the wait, which a failed status request does not end.
AwaitFailedInstanceGone ==
    /\ At("createInstance.gone")
    /\ \/ inst[attempt] = "gone" /\ Put("instance_data", 0) /\ GoTo("createInstance")
       \/ May("timeout") /\ Fails(3)
    /\ UNCHANGED <<cloud, attempt, nrule, keydir, history>>

WaitforInstance ==
    /\ At("waitforInstance")
    /\ \/ /\ inst[TheInstance] = "running"
          /\ GoTo("waitforInstance.retrieve")
          /\ UNCHANGED bag
       \/ WaitBreaks /\ Fails(deferred)
    /\ UNCHANGED <<cloud, attempt, nrule, keydir, history>>

\* The error of retrieveResource is dropped, its nil result is stored.
RetrieveInstance ==
    /\ At("waitforInstance.retrieve")
    /\ \/ UNCHANGED bag
       \/ May("api") /\ Put("instance_data", NilPointer)
    /\ Continues(deferred)
    /\ UNCHANGED <<cloud, attempt, nrule, keydir, history>>

-----------------------------------------------------------------------------
(* The address. *)

GetPrivateIP ==
    /\ At("getIP")
    /\ cfg.vsi_interface = "private"
    /\ \/ NilInstance /\ Panics /\ UNCHANGED bag
       \/ ~NilInstance /\ Put("floating_ip", TRUE) /\ GoTo("getIP.inventory")
    /\ UNCHANGED <<cloud, attempt, nrule, keydir, history>>

\* createFloatingIP; its identifier is stored at once, its address is not.
CreateFloatingIP ==
    /\ At("getIP")
    /\ cfg.vsi_interface = "public"
    /\ \/ NilInstance /\ Panics /\ UNCHANGED <<cloud, bag, lost>>
       \/ /\ ~NilInstance
          /\ SetFloatingIP("pending")
          /\ Put("floating_ip_id", TRUE)
          /\ GoTo("getIP.wait")
          /\ UNCHANGED lost
       \/ /\ ~NilInstance
          /\ May("api")
          /\ Fails(deferred)
          /\ UNCHANGED <<cloud, lost>>
       \/ /\ ~NilInstance
          /\ May("lost")
          /\ SetFloatingIP("pending")
          /\ lost' = "floating_ip"
          /\ Fails(deferred)
    /\ UNCHANGED <<attempt, nrule, keydir, rebooted, result>>

AwaitFloatingIP ==
    /\ At("getIP.wait")
    /\ \/ fip = "available" /\ Put("floating_ip", TRUE) /\ GoTo("getIP.inventory")
       \/ WaitBreaks /\ Fails(deferred)
    /\ UNCHANGED <<cloud, attempt, nrule, keydir, history>>

WriteInventory ==
    /\ At("getIP.inventory")
    /\ \/ Continues(deferred) /\ UNCHANGED bag
       \/ May("local") /\ Fails(deferred)
    /\ UNCHANGED <<cloud, attempt, nrule, keydir, history>>

-----------------------------------------------------------------------------
(* The security group and its rules. *)

\* The build's own group, or the user's, whose identifier is stored unread.
OpenSecurityGroup ==
    /\ At("createSecurityGroupRules")
    /\ \/ /\ cfg.security_group_id
          /\ \/ GoTo("createSecurityGroupRules.rules") /\ Put("security_group_id", TRUE)
             \/ /\ May("api")
                /\ bag' = [bag EXCEPT !.security_group_id = TRUE, !.error = "run"]
                /\ Halts(deferred)
          /\ UNCHANGED <<cloud, lost>>
       \/ /\ ~cfg.security_group_id
          /\ \/ /\ SetSecurityGroup("exists")
                /\ bag' = [bag EXCEPT !.security_group_id = TRUE, !.security_group_name = TRUE]
                /\ GoTo("createSecurityGroupRules.rules")
                /\ UNCHANGED lost
             \/ May("api") /\ Fails(deferred) /\ UNCHANGED <<cloud, lost>>
             \/ /\ May("lost")
                /\ SetSecurityGroup("exists")
                /\ lost' = "security_group"
                /\ Fails(deferred)
    /\ UNCHANGED <<attempt, nrule, keydir, rebooted, result>>

\* One rule per remote; the bag keeps the first one's identifier.  createRule
\* converts the answer before it looks at the error: an error is a panic.
CreateRule ==
    /\ At("createSecurityGroupRules.rules")
    /\ ~cfg.skip_rules /\ nrule < cfg.remotes
    /\ \/ /\ SetRules(rules \cup {nrule + 1})
          /\ nrule' = nrule + 1
          /\ bag' = [bag EXCEPT !.security_group_rule_id = @ \/ nrule = 0]
          /\ UNCHANGED <<pc, runner, lost>>
       \/ May("api") /\ Panics /\ UNCHANGED <<cloud, nrule, bag, lost>>
       \/ /\ May("lost")
          /\ SetRules(rules \cup {nrule + 1})
          /\ lost' = "rule"
          /\ Panics
          /\ UNCHANGED <<nrule, bag>>
    /\ UNCHANGED <<attempt, keydir, rebooted, result>>

RulesDone ==
    /\ At("createSecurityGroupRules.rules")
    /\ cfg.skip_rules \/ nrule = cfg.remotes
    /\ GoTo("createSecurityGroupRules.attach")
    /\ UNCHANGED <<cloud, attempt, nrule, bag, keydir, history>>

\* addNetworkInterfaceToSecurityGroup
AttachInterface ==
    /\ At("createSecurityGroupRules.attach")
    /\ \/ Attach /\ Continues(deferred) /\ UNCHANGED bag
       \/ May("api") /\ Fails(deferred) /\ UNCHANGED cloud
       \/ May("lost") /\ Attach /\ Fails(deferred)
    /\ UNCHANGED <<attempt, nrule, keydir, history>>

-----------------------------------------------------------------------------
(* The communicator and the provisioners (external, with the callbacks     *)
(* sshConfig and winRMConfig of this repository).                          *)

\* A cancelled StepConnect halts without an error of its own.
Connect ==
    /\ At("StepConnect")
    /\ \/ Continues(deferred) /\ UNCHANGED bag
       \/ May("timeout") /\ Fails(deferred)
       \/ cancelled /\ Halts(deferred) /\ UNCHANGED bag
    /\ UNCHANGED <<cloud, attempt, nrule, keydir, history>>

\* sshConfig that cannot load the private key ends the process, log.Fatalf.
SshKeyUnreadable ==
    /\ At("StepConnect")
    /\ cfg.comm = "ssh"
    /\ May("local")
    /\ GoTo("exited")
    /\ PutError
    /\ UNCHANGED <<cloud, attempt, nrule, keydir, history>>

\* winRMConfig that cannot grab the credentials records an error and returns
\* neither a configuration nor an error.  What StepConnect makes of that is
\* its own affair: it tries again, or dereferences it in a goroutine, whose
\* panic no recover of the runner's reaches.
WinRMCredentialsMissing ==
    /\ At("StepConnect")
    /\ cfg.comm = "winrm"
    /\ May("api") \/ May("local")
    /\ PutError
    /\ \E p \in {"StepConnect", "exited"} : GoTo(p)
    /\ UNCHANGED <<cloud, attempt, nrule, keydir, history>>

Provision ==
    /\ At("StepProvision")
    /\ \/ Continues(deferred) /\ UNCHANGED bag
       \/ May("local") /\ Fails(deferred)
       \/ cancelled /\ Halts(deferred) /\ UNCHANGED bag
    /\ UNCHANGED <<cloud, attempt, nrule, keydir, history>>

-----------------------------------------------------------------------------
(* Reboot.  The step reboots when skip_reboot is set.  The status it        *)
(* compares is the action's: the instance may still be running as before.  *)

RebootInstance ==
    /\ At("rebootInstance")
    /\ \/ /\ ~cfg.skip_reboot
          /\ Continues(deferred)
          /\ UNCHANGED <<cloud, bag, rebooted>>
       \/ /\ cfg.skip_reboot
          /\ \E s \in {"running", "restarting"} : SetInstance(TheInstance, s)
          /\ \E p \in {"rebootInstance.wait", "rebootInstance.retrieve"} : GoTo(p)
          /\ rebooted' = TRUE
          /\ UNCHANGED bag
       \/ /\ cfg.skip_reboot
          /\ May("api")
          /\ Fails(deferred)
          /\ UNCHANGED <<cloud, rebooted>>
    /\ UNCHANGED <<attempt, nrule, keydir, lost, result>>

AwaitReboot ==
    /\ At("rebootInstance.wait")
    /\ \/ /\ inst[TheInstance] = "running"
          /\ GoTo("rebootInstance.retrieve")
          /\ UNCHANGED bag
       \/ /\ inst[TheInstance] = "failed" \/ WaitBreaks
          /\ Fails(deferred)
    /\ UNCHANGED <<cloud, attempt, nrule, keydir, history>>

RetrieveRebooted ==
    /\ At("rebootInstance.retrieve")
    /\ \/ Continues(deferred) /\ UNCHANGED bag
       \/ May("api") /\ Fails(deferred)
    /\ UNCHANGED <<cloud, attempt, nrule, keydir, history>>

-----------------------------------------------------------------------------
(* Capture. *)

\* Mutant: the capture does not wait for the instance to stop.
StopInstanceNoWait ==
    /\ At("captureImage")
    /\ SetInstance(TheInstance, "stopping")
    /\ GoTo("captureImage.create")
    /\ UNCHANGED <<attempt, nrule, bag, keydir, history>>

\* Only a request that reports "stopped" outright spares the wait.  A failed
\* instance cannot be stopped.
StopInstance ==
    /\ At("captureImage")
    /\ \/ /\ inst[TheInstance] # "failed"
          /\ \/ SetInstance(TheInstance, "stopping") /\ GoTo("captureImage.wait")
             \/ SetInstance(TheInstance, "stopped") /\ GoTo("captureImage.create")
          /\ UNCHANGED bag
       \/ /\ inst[TheInstance] = "failed" \/ May("api")
          /\ Fails(deferred)
          /\ UNCHANGED cloud
       \/ /\ inst[TheInstance] # "failed"
          /\ May("lost")
          /\ SetInstance(TheInstance, "stopping")
          /\ Fails(deferred)
    /\ UNCHANGED <<attempt, nrule, keydir, history>>

AwaitStopped ==
    /\ At("captureImage.wait")
    /\ \/ inst[TheInstance] = "stopped" /\ GoTo("captureImage.create") /\ UNCHANGED bag
       \/ WaitBreaks /\ Fails(deferred)
    /\ UNCHANGED <<cloud, attempt, nrule, keydir, history>>

CreateImage ==
    /\ At("captureImage.create")
    /\ \/ /\ CreateImageFrom
          /\ Put("image_id", TRUE)
          /\ GoTo(IF cfg.image_tags THEN "captureImage.tag" ELSE "captureImage.available")
          /\ UNCHANGED lost
       \/ May("api") /\ Fails(deferred) /\ UNCHANGED <<cloud, lost>>
       \/ May("lost") /\ CreateImageFrom /\ lost' = "image" /\ Fails(deferred)
    /\ UNCHANGED <<attempt, nrule, keydir, rebooted, result>>

AttachTags ==
    /\ At("captureImage.tag")
    /\ \/ TagImage /\ GoTo("captureImage.available") /\ UNCHANGED bag
       \/ May("api") /\ Fails(deferred) /\ UNCHANGED cloud
    /\ UNCHANGED <<attempt, nrule, keydir, history>>

AwaitImage ==
    /\ At("captureImage.available")
    /\ \/ image = "available" /\ Continues(deferred) /\ UNCHANGED bag
       \/ /\ image = "failed" \/ WaitBreaks
          /\ Fails(deferred)
    /\ UNCHANGED <<cloud, attempt, nrule, keydir, history>>

-----------------------------------------------------------------------------
(* stepCreateInstance.Cleanup: floating IP, instance, rule, group, in this *)
(* order; the first failure records its error and gives up on the rest.    *)

\* This Cleanup is over; the one registered before it is next.
NextCleanup == Unwind(deferred) /\ UNCHANGED panicking

CleanupGivesUp == PutCleanupError /\ NextCleanup

\* GetFloatingIP, then DeleteFloatingIP.  The status code of a response that
\* is not there is a nil dereference.
ReleaseFloatingIP ==
    /\ At("clean.floatingip")
    /\ IF cfg.vsi_interface = "public" /\ bag.floating_ip /\ bag.floating_ip_id
       THEN \/ /\ SetFloatingIP(IF fip = "available" THEN "gone" ELSE fip)
               /\ GoTo("clean.instance")
               /\ UNCHANGED bag
            \/ /\ May("cleanup")
               /\ CleanupGivesUp
               /\ \E s \in {fip, "gone"} : SetFloatingIP(s)
            \/ /\ May("kept") /\ fip = "available"
               /\ SetFloatingIP("kept")
               /\ GoTo("clean.instance")
               /\ UNCHANGED bag
            \/ May("noresp") /\ Panics /\ UNCHANGED <<cloud, bag>>
       ELSE GoTo("clean.instance") /\ UNCHANGED <<cloud, bag>>
    /\ UNCHANGED <<attempt, nrule, keydir, history>>

\* A typed nil is not a nil interface: it passes the check and panics.  A
\* delete of an instance that is gone is answered 404, an error here.
DeleteInstance ==
    /\ At("clean.instance")
    /\ \/ NilInstance /\ Panics /\ UNCHANGED <<cloud, bag>>
       \/ TheInstance = 0 /\ GoTo("clean.rule") /\ UNCHANGED <<cloud, bag>>
       \/ /\ TheInstance \in Subnets
          /\ \/ /\ inst[TheInstance] # "gone"
                /\ SetInstance(TheInstance, "deleting")
                /\ GoTo("clean.gone")
                /\ UNCHANGED bag
             \/ /\ inst[TheInstance] = "gone" \/ May("cleanup")
                /\ CleanupGivesUp
                /\ UNCHANGED cloud
             \/ /\ inst[TheInstance] # "gone"
                /\ May("cleanup")
                /\ CleanupGivesUp
                /\ SetInstance(TheInstance, "deleting")
    /\ UNCHANGED <<attempt, nrule, keydir, history>>

\* Mutant: the wait for the deletion has no deadline.
AwaitInstanceGoneForever ==
    /\ At("clean.gone")
    /\ inst[TheInstance] = "gone"
    /\ GoTo("clean.rule")
    /\ UNCHANGED <<cloud, attempt, nrule, bag, keydir, history>>

AwaitInstanceGone ==
    /\ At("clean.gone")
    /\ \/ inst[TheInstance] = "gone" /\ GoTo("clean.rule") /\ UNCHANGED bag
       \/ May("timeout") /\ CleanupGivesUp
    /\ UNCHANGED <<cloud, attempt, nrule, keydir, history>>

\* Only the rule whose identifier was kept, the first.
DeleteRule ==
    /\ At("clean.rule")
    /\ IF bag.security_group_rule_id /\ bag.security_group_id
       THEN \/ SetRules(rules \ {1}) /\ GoTo("clean.group") /\ UNCHANGED bag
            \/ /\ May("cleanup")
               /\ CleanupGivesUp
               /\ \E r \in {rules, rules \ {1}} : SetRules(r)
            \/ /\ May("kept") /\ 1 \in rules
               /\ SetRules((rules \ {1}) \cup {0})
               /\ GoTo("clean.group")
               /\ UNCHANGED bag
       ELSE GoTo("clean.group") /\ UNCHANGED <<cloud, bag>>
    /\ UNCHANGED <<attempt, nrule, keydir, history>>

\* Only a group of the build's own.  The cloud refuses one that is in use.
DeleteSecurityGroup ==
    /\ At("clean.group")
    /\ IF ~cfg.security_group_id /\ bag.security_group_name /\ bag.security_group_id
       THEN \/ /\ ~GroupInUse
               /\ SetSecurityGroup("gone")
               /\ NextCleanup
               /\ UNCHANGED bag
            \/ /\ ~GroupInUse
               /\ May("cleanup")
               /\ CleanupGivesUp
               /\ \E s \in {sg, "gone"} : SetSecurityGroup(s)
            \/ /\ ~GroupInUse
               /\ May("kept") /\ sg = "exists"
               /\ SetSecurityGroup("kept")
               /\ NextCleanup
               /\ UNCHANGED bag
            \/ GroupInUse /\ CleanupGivesUp /\ UNCHANGED cloud
       ELSE NextCleanup /\ UNCHANGED <<cloud, bag>>
    /\ UNCHANGED <<attempt, nrule, keydir, history>>

(* stepCreateSshKeyVPC.Cleanup and stepCreateSshKeyPair.Cleanup. *)

\* Mutant: the error of the deletion is said, and not put into the state bag.
DeleteKeySilently ==
    /\ At("clean.key")
    /\ IF bag.vpc_ssh_key
       THEN \E s \in {"gone"} \cup (IF May("cleanup") THEN {key} ELSE {}) : SetKey(s)
       ELSE UNCHANGED cloud
    /\ NextCleanup
    /\ UNCHANGED <<attempt, nrule, bag, keydir, history>>

\* A status other than 204 without an error is only said on the console.
DeleteKey ==
    /\ At("clean.key")
    /\ IF bag.vpc_ssh_key
       THEN \/ SetKey("gone") /\ NextCleanup /\ UNCHANGED bag
            \/ /\ May("kept") /\ key = "exists"
               /\ SetKey("kept")
               /\ NextCleanup
               /\ UNCHANGED bag
            \/ /\ May("cleanup")
               /\ CleanupGivesUp
               /\ \E s \in {key, "gone"} : SetKey(s)
       ELSE NextCleanup /\ UNCHANGED <<cloud, bag>>
    /\ UNCHANGED <<attempt, nrule, keydir, history>>

RemoveKeyDirectory ==
    /\ At("clean.keydir")
    /\ \/ keydir' = FALSE /\ NextCleanup /\ UNCHANGED bag
       \/ May("cleanup") /\ CleanupGivesUp /\ UNCHANGED keydir
    /\ UNCHANGED <<cloud, attempt, nrule, history>>

-----------------------------------------------------------------------------
(* The end of the run, and what happens around it. *)

\* Mutant: an image_id is enough.
BuildSucceededWithImage == bag.image_id

\* buildResultError: nil only without an error and with an image_id.
BuildSucceeded == bag.error = "none" /\ bag.image_id

Finish ==
    /\ At("finish")
    /\ IF panicking
       THEN GoTo("crashed") /\ UNCHANGED result
       ELSE /\ GoTo("returned")
            /\ result' = IF BuildSucceeded THEN "artifact" ELSE "error"
    /\ UNCHANGED <<cloud, attempt, nrule, bag, keydir, rebooted, lost>>

Cancel ==
    /\ May("cancel")
    /\ ~cancelled
    /\ pc \notin EndPoints
    /\ cancelled' = TRUE
    /\ UNCHANGED <<cloud, cfg, pc, runner, attempt, nrule, bag, keydir, history>>

CloudMoves ==
    /\ \/ \E i \in Subnets : InstanceMoves(i, May("zone"))
       \/ FloatingIPMoves
       \/ ImageMoves(May("zone"))
    /\ UNCHANGED <<cfg, pc, runner, cancelled, attempt, nrule, bag, keydir, history>>

Ended == pc \in EndPoints /\ UNCHANGED vars

-----------------------------------------------------------------------------
CreateSteps ==
    \/ Greeting \/ CreateVPCServiceInstance \/ VerifyInput \/ GetSubnetInfo
    \/ GetBaseImageID \/ WaitWinRM \/ CreateSshKeyPair \/ CreateSshKeyVPC
    \/ CreateInstance \/ AwaitStart \/ DeleteFailedInstance
    \/ AwaitFailedInstanceGone \/ WaitforInstance \/ RetrieveInstance
    \/ GetPrivateIP \/ CreateFloatingIP \/ AwaitFloatingIP \/ WriteInventory
    \/ OpenSecurityGroup \/ CreateRule \/ RulesDone \/ AttachInterface

BakeSteps ==
    \/ Connect \/ SshKeyUnreadable \/ WinRMCredentialsMissing \/ Provision
    \/ RebootInstance \/ AwaitReboot \/ RetrieveRebooted
    \/ StopInstance \/ AwaitStopped \/ CreateImage \/ AttachTags \/ AwaitImage

CleanupSteps ==
    \/ ReleaseFloatingIP \/ DeleteInstance \/ AwaitInstanceGone \/ DeleteRule
    \/ DeleteSecurityGroup \/ DeleteKey \/ RemoveKeyDirectory \/ Finish

Build == (CreateSteps \/ BakeSteps \/ CleanupSteps) /\ UNCHANGED <<cfg, cancelled>>

Next == Build \/ Cancel \/ CloudMoves \/ Ended

\* The run is one thread that is never blocked for good: a wait is ended by its
\* timer, and a request outside the waits is taken to be answered or refused by
\* the SDK's client, which is not part of the repository.  Nothing is asked of
\* the cloud.
Spec == Init /\ [][Next]_vars /\ WF_vars(Build)

\* The same with a cloud that finishes what it begins.
FairCloudSpec == Spec /\ WF_vars(CloudMoves)

(* Properties. *)

\* The rules after the first stay in a group of the user's, and any rule in a
\* group that was kept.
OnlyLaterRulesLeft ==
    rules \subseteq IF cfg.security_group_id \/ sg = "kept" THEN (0..MaxRemotes) \ {1} ELSE {}

\* Run returns an artifact only for an image that is available and carries the
\* tags that were asked for, whatever was lost, cancelled or retried on the way
\* (buildResultError).  Then no instance and no key file is left, and nothing
\* else of the build's own but what the code leaves without an error: the later
\* rules in a group of the user's, and a resource whose deletion was answered
\* with a status other than 204 ("kept").
ImageContract ==
    result = "artifact" =>
        /\ image = "available" /\ (cfg.image_tags => tagged)
        /\ \A i \in Subnets : ~Standing(i)
        /\ fip \in {"none", "gone", "kept"}
        /\ sg # "exists"
        /\ OnlyLaterRulesLeft
        /\ key # "exists"
        /\ ~keydir

\* A build that fails, for any reason, cleans up as well, unless a Cleanup
\* reports an error or the answer to a create never came.  A floating IP is
\* excepted until its wait has passed, the rules after the first in a group of
\* the user's, and what is kept.
CleanOnFailure ==
    pc = "returned" /\ bag.error # "cleanup" /\ lost = "none" =>
        /\ \A i \in Subnets : ~Standing(i)
        /\ bag.floating_ip => fip \in {"none", "gone", "kept"}
        /\ sg # "exists"
        /\ OnlyLaterRulesLeft

\* The SSH key and the private key file are removed even when a panic ends
\* the process: the Cleanups of the steps before it still run.  Only the key
\* may be kept, when its deletion is answered with a status other than 204:
\* the console then says so, and no error is recorded.
KeysNeverOutliveTheRun ==
    pc \in {"returned", "crashed"} /\ bag.error # "cleanup" /\ lost # "ssh_key" =>
        key # "exists" /\ ~keydir

\* The capacity fallback never has two instances: the next zone is tried only
\* once the cloud has reported the failed instance gone.
AtMostOneInstance ==
    \A i, j \in Subnets : Standing(i) /\ Standing(j) => i = j

\* stepCreateInstance: "Record the instance immediately so Cleanup can delete
\* it".  Whatever stands in the cloud is in the bag, between any two requests.
StandingIsRecorded ==
    \A i \in Subnets :
        Standing(i) => bag.instance_data \in {i, NilPointer} \/ lost = "instance"

\* No step works on an instance that is gone or being deleted: the fallback
\* and a late Cleanup never pull it from under the build.  The one that is
\* captured has stopped, and its boot volume is quiet.
InstanceInUse ==
    /\ pc \in {"waitforInstance", "StepConnect", "StepProvision", "captureImage",
               "captureImage.wait", "captureImage.create"} =>
        TheInstance \in Subnets /\ inst[TheInstance] \notin {"none", "deleting", "gone"}
    /\ pc = "captureImage.create" => inst[TheInstance] = "stopped"

\* Every build ends, even if the cloud never finishes anything it began.
Terminates == <>(pc \in EndPoints)

\* The capacity fallback is worth its trouble: when some zone starts the
\* instance and nothing but capacity fails, the build ends with an artifact.
CapacityFallbackWorks ==
    /\ <>(\E i \in Subnets : inst[i] = "running")
    /\ [](image # "failed" /\ \A i \in Subnets : inst[i] # "failed")
    => <>(result = "artifact")

-----------------------------------------------------------------------------
(* The contract.  Resources whose create was not answered are the build's   *)
(* too: the contract counts what stands in the account.                     *)

Contract == INSTANCE BuildContract WITH
    Instances <- Subnets,
    phase <- CASE pc \in EndPoints -> "ended"
               [] pc \in CleanupPoints -> "tearing"
               [] OTHER -> "building",
    machines <- {i \in Subnets : Standing(i)},
    held <- (IF fip \in {"pending", "available"} THEN {"floating_ip"} ELSE {})
            \cup (IF sg = "exists" THEN {"security_group"} ELSE {})
            \cup (IF key = "exists" THEN {"ssh_key"} ELSE {})
            \cup (IF keydir THEN {"key_files"} ELSE {}),
    kept <- (IF fip = "kept" THEN {"floating_ip"} ELSE {})
            \cup (IF sg = "kept" THEN {"security_group"} ELSE {})
            \cup (IF key = "kept" THEN {"ssh_key"} ELSE {}),
    outcome <- result

\* Builder.Run keeps the contract, under every fault but for the liveness
\* part, which needs Spec's fairness.
ContractKept == Contract!Spec

(* What the documentation says and the code does not do: each is refuted by *)
(* a run of its own.                                                        *)

\* README: "skip_reboot ... Skip reboot instance step."
SkipRebootHonoured == cfg.skip_reboot => ~rebooted

\* "stepCreateInstance handles all resource deletion": when no Cleanup request
\* fails and no create was lost, no instance is left at the end.
NoInstanceLeftBehind ==
    pc \in {"returned", "crashed"} /\ bag.error # "cleanup" /\ lost = "none" =>
        \A i \in Subnets : ~Standing(i)
=============================================================================
