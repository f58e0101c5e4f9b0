# TLA+ models of packer-plugin-ibmcloud

Packer builds machine images. This plugin gives it two builders for the IBM
Cloud, one for VPC and one for the classic infrastructure, and a post-processor
that exports a VPC image to object storage. A build creates paid resources in
the user's account, works on them over the network, and must give them back
whatever happens. That is what these models are about: which resources stand at
which moment, what a run may leave behind, in which order things are taken and
given back, and what `Run` may report.

Everything is translated from the code under `src/`; the paths below are
relative to it. `PROJECT.json` gives the lines each definition stands for.

## 1. Inventory

| Part | State | Operations | Model |
| --- | --- | --- | --- |
| VPC builder, `builder/ibmcloud/vpc/builder.go` and `step_*.go` | the state bag, the step runner's position, a directory of its own with the key pair; in the cloud an instance per zone tried, a floating IP, a security group with rules, an SSH key, an image | `Run`; a `Run` and a `Cleanup` per step | `VpcBuild`, `VpcCloud`, `BuildContract` |
| VPC waits, `client.go` 37-212, `step_image_export.go` 93-161 | a goroutine, a result channel of capacity one, a done channel, a timer | `pollUntil`, `isResourceReady`, `isResourceDown`, `waitForExportJobToSucceed` | `Await`, `PollUntil` |
| Classic wait, `classic/client.go` 548-670 | the same | `waitForInstanceReady`, `isInstanceReady` | `PollUntil` |
| WinRM credentials, `client.go` 334-391, `winRM.go` | the directory `data/` and one file in it, shared by all builds of a working directory | `winRMConfig`, `GrabCredentials`, `DecryptPassword` | `DecryptPassword` |
| Classic builder, `builder/ibmcloud/classic` | state bag, `ssh_keys/`, an instance, an SSH key, an image | `Run`, steps, Cleanups | `ClassicBuild` |
| Classic configuration, `classic/config.go` | the configuration | `Prepare`; the request of `CreateInstance` | `ClassicInput` |
| Export post-processor, `post-processor/ibmcloud-export-image`, `step_image_export.go` | its configuration, a state bag, in the cloud an export job | `Configure`, `PostProcess`, `StepImageExport` | `ImageExport`; the wait in `PollUntil` |
| VPC configuration, `config.go` | the configuration | `Prepare` | `VpcInput`; the space of accepted configurations in `VpcBuild` (`ConfigSpace`) |
| Input verification, `step_verify_input.go`, `verify_encryption_key.go`, `step_get_subnet_info.go`, `step_get_base_image_id.go` | none (reads the cloud) | existence checks, CRNs, choice of the subnets | `VpcInput`; in `VpcBuild` one action each that passes or fails |
| Artifacts, plugin entry, generated schemas, scripts | - | - | not modelled, see 6 |

How they interact. `Run` builds a list of steps and gives it to the packer
SDK's runner, which is external. Steps speak to each other only through the
state bag: identifiers of what they created, and the entry `error`. A step's
`Run` makes requests and waits; its `Cleanup` undoes them and is called by the
runner, last step first, after success, failure, cancellation and while a panic
unwinds. Almost everything is undone in one place,
`stepCreateInstance.Cleanup`, because the security group cannot be deleted
before the instance attached to it. `StepConnect` calls back into `ssh.go` and
`winRM.go`. Builds that packer runs side by side are processes of their own; they
meet in the working directory (`data/`, `ssh_keys/`), in the file that
`ANSIBLE_INVENTORY_FILE` names, and in the account.

What is hard in this code.

* Partial failure. Some requests succeed, one fails: what the Cleanups know is
  what the state bag says, and a resource can exist before, or without, its
  entry. Answers can be lost after a request took effect.
* Cleanups that fail. The first failing request of a Cleanup ends it; success
  must not be reported then. A deletion that is answered without an error and
  with a status other than 204 is no failure to the code, and what it left stays.
* Panics. A nil response or a nil instance is dereferenced in several places;
  the deferred Cleanups still run, the panicking step's own does not.
* The capacity fallback. An instance that failed for want of capacity is
  deleted and another zone is tried, inside one step.
* The waits. A goroutine, a timer and a caller race.
* Cancellation, which the steps themselves do not look at.
* Files with fixed names, which builds in one directory share; removing a
  directory is several operations.
* The classic client, whose requests have no timeout.
* Checks made minutes before what they are for, in an account others use.
* In the classic builder, a verdict from two requests, answers converted
  without a look at their type, and failures that are printed and not returned.

What makes each part right.

* Wait: the caller gets a verdict that is true of its resource or a timeout, by
  its deadline, and the goroutine does not go round
  behind its back.
* VPC build: an artifact is an available, tagged image; nothing temporary is
  left after it but what the code gives up silently, and after a failure as
  little as possible; never two instances;
  nothing is pulled from under a step that uses it; every build ends.
* Classic build: an artifact only for a capture that is over; nothing stays
  without the user hearing of it; the instance is not destroyed under a
  transaction; every build ends unless a request is never answered, and builds
  side by side disturb each other in the key files and the inventory file only.
* Export: no artifact without its job, no job with another's account.
* Configuration and verification: nothing a template says is dropped, nothing is
  rejected without a reason, and what passed the checks the cloud takes.
* Credentials: no build gets another's password, and nothing of it stays.

## 2. The modules

| Module | What it is |
| --- | --- |
| `Await` | abstract: what a bounded wait promises its caller |
| `PollUntil` | the wait, with its goroutine, channel, timer; implements `Await` |
| `PollUntil_proofs` | theorems about `PollUntil` |
| `VpcCloud` | the resources of a build and what the cloud does with them (external) |
| `BuildContract` | abstract: what a packer core and the owner of the account may rely on |
| `VpcBuild` | one run of the VPC builder; implements `BuildContract` |
| `MCVpcBuild` | the sets of configurations the runs of `VpcBuild` use |
| `VpcBuild_proofs` | theorems about `VpcBuild`: types, one instance at a time |
| `VpcCleanup_proofs` | the same, continued: what a build leaves behind, and what it records |
| `VpcContract_proofs` | the same, concluded: `VpcBuild` implements `BuildContract` |
| `ImageExport` | a chain of export post-processors behind a VPC build |
| `MCImageExport` | the chains its runs use |
| `ImageExport_proofs` | theorems about `ImageExport` |
| `ClassicInput` | which classic templates `Prepare` accepts, and what of them is asked for |
| `ClassicBuild` | runs of the classic builder, side by side |
| `MCClassicBuild` | the scenarios its run uses |
| `ClassicBuild_proofs` | theorems about `ClassicBuild` |
| `VpcInput` | from a template of the VPC builder to its requests, in an account others use |
| `MCVpcInput` | the templates and accounts its runs use |
| `VpcInput_proofs` | theorems about `VpcInput` |
| `DecryptPassword` | the calls of several builds that decrypt Windows passwords |
| `MCDecryptPassword` | three builds, and their symmetry |
| `DecryptPassword_proofs` | theorems about `DecryptPassword` |

### PollUntil

The code has the wait three times. `kind` says which one a behaviour is about
(`"instances_ready"` and so on are the resource types passed to
`waitForResourceReady`/`Down`); `Goal` and `Fatal` hold the statuses the checks
compare, and `FailureVerdict` is `newInstanceFailedError`. The goroutine's `gpc`
walks through a loop: a check is out (`check`), its verdict is to be sent
(`send`), it sleeps (`sleep`), it is about to check again (`poll`). The caller
`select`s between `result` and its timer, and closes `done` by returning. The
status of the resource moves by itself, along `Moves`, between any two steps.
Two details of the copies are kept: a failed status request ends a VPC wait but
not a classic one, and an instance that fails while it is being stopped has no
error verdict. The two requests of the classic `isInstanceReady` are taken as
one here and are apart in `ClassicBuild`. While a check is out, its request may
stay unanswered for ever (`RequestOut`).

### VpcCloud and VpcBuild

`VpcCloud` has one variable per kind of resource, `inst[i]` being the instance
asked for in the i-th candidate subnet; an instance that failed for want of
capacity has a status of its own.

`VpcBuild` has one action per request, because everything interesting happens
between two of them. `pc` names the step, a point inside it
(`createInstance.wait`), a point of a Cleanup (`clean.instance`) or the end:
`returned`, `crashed` (a panic reached the top) or `exited` (`log.Fatalf`).
The runner is external, as the SDK documents it: `todo` is the rest of the
steps, `deferred` the number of registered Cleanups. Only three Cleanups do
something (key pair, VPC key, instance), in a fixed order, so the number tells
the stack. `Continues`, `Halts` and `Panics` are the three ways a step ends;
the argument of the first two is the number of Cleanups registered then.

`bag` has the entries the run reads back. `instance_data` is 0, the index of an
instance, or `NilPointer`: a nil `*Instance` stored as an interface, which
passes the code's nil check. `error` also says who put it last, a step or a
Cleanup, for the properties to tell the two apart. `lost`, `rebooted` are
history.

A wait inside a build is one point with one action per verdict, which is what
`Await` allows and `PollUntil` is shown to implement: success only in the
resource's goal status, an error in a fatal status, a timeout or a failed status
request at any time.

Faults are a constant. `api`: a request is answered with an error. `noresp`: a
request of a Cleanup has no response at all. `lost`: a request took effect and
its answer never came. `timeout`: a wait's timer. `zone`: the cloud fails a
resource. `local`: a file operation. `cancel`: the user interrupts, between any
two steps. `cleanup`: a request of a Cleanup fails, with or without effect.
`kept`: a deletion of a Cleanup is answered without an error and with a status
other than 204, and the resource stays. The code records no error then
(`step_create_ssh_key_vpc.go:74`, `step_create_instance.go:289`, `:334`, `:362`),
and only for the key does it say anything, on the console. Such a resource has
the status `"kept"` in the cloud (a rule is the member 0 of `rules`), so the
properties can tell what was given up silently from what was forgotten.

Abstractions to know of. A step that only reads the cloud is one action that
passes or fails. The plain instance, the boot volume, the catalog offering and
the snapshot are one `CreateInstance`: the four paths differ in the prototype
they send. The deletion of the SSH key counts as done when it is answered. The
steps' IAM authentication is a read. Logging, names and addresses are left out.

### BuildContract

The phases of a build (`building`, `tearing`, `ended`), the instances that
stand, the other resources held, the image and the outcome. One instance at a
time; nothing is taken after the capture; nothing is given back during the
build, but a failed instance to which nothing is bound yet; the group only after
the instance; an artifact only with nothing held. A resource goes out of what is
held when it is given back (`GiveBack`) or when a deletion that reported no error
has let it stand (`Keep`): `kept` is what an artifact may come with. The contract
counts what stands in the account, known to the build or not.

### ImageExport

The packer core (external) calls `Configure` of every post-processor before the
build and `PostProcess` of one after the other behind it, each with the artifact
of the one before. `pipeline` is what the template has, `configs` what
`Configure` made of it, `used` what `PostProcess` put into the `exporterConfig`:
whose image, account and endpoint. The three steps run under the same runner as
a build; `jobs` are the export jobs in the cloud. A context that is cancelled
ends the runner before its next step, with no error and no job identifier; the
conversion in `PostProcess` then panics. The artifact handed on carries the
builder's image, whatever was exported, which is what the next block without an
`image_id` is documented to use. Durations are seconds; a text that is no
duration parses to 0, as the code ignores the error.

### ClassicInput and ClassicBuild

`ClassicInput` is `Prepare` as a predicate on templates (`Accepts`) and the
request `CreateInstance` makes of an accepted one (`Request`).

`ClassicBuild` has a record `run[b]` per build, the state of its process: `pc`,
the runner's `step` and `deferred` Cleanups, the fields of the steps that a
Cleanup reads (`key_id`, `instance`), the entries of the state bag (`error` as
the point that put it, `image_id`), and two histories: `told`, what the console
said in a Cleanup, and `lost`, the answers that never arrived. `Halted`,
`Continued`, `Failed` and `Panicked` are functions of that record: the runner.
A wait is its two requests, `ReadPower` and `ReadTransaction`, between which the
cloud may move, and a timer, `GiveUpWait`; the same three serve the two steps and
the Cleanup. A panic in a step goes up through the Cleanups and ends in
`panicked`; one in the goroutine of a wait ends the process (`killed`).

A guest's transactions and power are one status: it is `deploying`, `booting`,
`running`, `archiving` with its power on and `halted` with its power off.
The archive transaction is taken to be active when its request is
answered. An image is `hidden` until it is listed by name; `Named(b)` is what
`findImageIdByName` chooses from.

Three things on disk are shared: the directory `ssh_keys/`, the two key files in
it (`id_rsa` with the build it belongs to) and the file that
`ANSIBLE_INVENTORY_FILE` names, with the build whose address is in it.
`os.RemoveAll("ssh_keys")` is what it does: list the directory, unlink each file
that was listed, whoever wrote it, and remove the directory, which fails if a
file is in it again; the code makes an error of that (`KeyDirectoryStays`).
`ioutil.WriteFile` of the inventory truncates the file and then writes it
(`OpenInventory`, `WriteInventory`), and of two builds that write at once the
last wins. The code in `src/` only writes the inventory; that a provisioner works
on the machine it names is the use the plugin's `README.md:35` makes of it
(`Host`, external). The VPC builder writes the same kind of file
(`step_get_ip.go:71`); `VpcBuild`, which is one build, has only its failure.

Faults are part of the scenario, as in `VpcBuild`; `shape` is an answer whose type
is not the one the code asserts (`client.go:171` converts the text of an error
answer, too), `archive` a capture that the cloud fails, `hang` a request that is
never answered: `classic/client.go:141` makes an `http.Client` without a timeout,
and `:196` uses the default one. A build may be in such a request for ever
(`Hanging`).

### VpcInput

A run goes from `Prepare` through the checks of `stepVerifyInput`,
`stepGetSubnetInfo` and `stepGetBaseImageID` to the requests for key, instance,
address, security group and image, and ends at its first error, whose place it
remembers: how a build goes on after an error is `VpcBuild`'s. `definition` is
the instance prototype; its volumes come from `BootVolume` and `DataVolume`,
which have the four paths of `createInstance`. `account` is what the checks
read, and `OthersGoOn` lets other users attach the volume or take the image's
name at any moment; `news` remembers that they did. Names are told apart as far
as sanitising does it: `Canonical`. Numbers are numbers, with 0 for not given.
The names of the subnets' zones and the random order of the subnets do not
matter here; which endpoint a CRN leads to is not told apart.

### DecryptPassword

One action per file operation of `DecryptPassword`: make the directory, create
(and truncate) the file, write it, decrypt it, remove the file, remove the
directory. A file keeps its identity while it is open, so that a build may write
to one that was removed from under it. `ImplicitRejection` says whether openssl
answers a wrong key with a random text, as its newer versions do, or fails.
`met` remembers whose calls overlapped. What `winRMConfig` does with a failure,
calling again, is `CallFails` and `MaxCalls`. The key pair
of each build is in a directory of its own and is not touched here.

## 3. The runs

| Run | Instance | What it shows |
| --- | --- | --- |
| `poll_until` | all six waits; a status request may never be answered; 916 states | neither side of the wait is ever stuck on the other, and the goroutine stops or is in a request for ever; the outcome is true; at most one check starts after the caller has left, and the caller leaves even if a request never answers; `Await` is implemented |
| `build_all_faults` | all of `ConfigSpace`, all faults, up to 3 zones, 2 rules; 5.9 million states | the safety properties below |
| `build_contract` | the 9 configurations that differ in resources, all faults, 2 zones; 159,222 states | `BuildContract` is implemented, every build ends |
| `build_fallback` | 12 configurations, 1 to 3 zones, a cloud that fails instances and images but finishes what it begins | when only capacity is short and some zone has it, the build ends with an artifact |
| `export_chain` | 92 single blocks (credentials, buckets, timeouts, formats) and 256 pairs, all faults | artifacts stand for their own job, which succeeded on the image asked for; image, credentials and endpoint have one owner; only a cancelled run panics; a chain stops at its first failure and ends |
| `classic_builds` | two builds: one with every fault but an unanswered request beside one without steps, over two communicators, four shapes of template and an image of the name that may be there already; the same with no fault, with an interruption only, and with requests that fail or are never answered, with and without an inventory file; and two real builds of one name or two, two SSH builds that share the key files or an SSH and a WinRM build that share the inventory, with nothing going wrong or, for two names, requests that are never answered; 1.08 million states | the properties below |
| `vpc_input` | templates that vary one topic (volumes, source, network, groups, names) around one in order, each in the accounts that matter to it, with one thing amiss in them or nothing; about 103,000 states | the properties below |
| `decrypt_password` | three builds, two calls each, an openssl with implicit rejection; 542,237 states up to symmetry | a build gets its own password, or overlapped another; what earlier calls left never fails a later one; calls that succeed leave nothing |
| `find_*` | the configurations and the faults that the sentence is about | a sentence of the documentation or of a comment that the code does not keep, see 4 |

`build_all_faults` checks: an artifact is an available and tagged image, with
nothing left of what it took but the later rules in a group of the user's and what
is `kept` (`ImageContract`); failure leaves nothing either, with these and one more
exception of section 4 and unless a Cleanup reported an error or the answer to a
create was lost (`CleanOnFailure`); keys are removed even when the process dies of
a panic, but for a key in the account that is `kept` (`KeysNeverOutliveTheRun`); never two instances
(`AtMostOneInstance`); whatever stands is in the state bag between any two
requests (`StandingIsRecorded`); no step works on an instance that is being
deleted, and what is captured has stopped (`InstanceInUse`). That the group goes
after the instance is part of `BuildContract`.

`classic_builds` checks: an artifact is for a capture that is over, and names
another image only if the name is another's too; neither artifact nor error
needs an interruption or a build without steps (`ArtifactContract`); no instance
and no key stays unless the console said so or its answer was lost
(`NothingLeftSilently`); a private key stays only if it was never uploaded or
with an error (`NoPrivateKeyLeft`); an instance under a transaction is destroyed
only after the user heard that the wait ran out (`DestroyWaits`); two builds side
by side, with nothing going wrong, fail over each other only where they make or
remove the key files or share an inventory, and provision each other's machines
only through that file (`OnlySharedFilesInterfere`); every build ends, unless it
is in a request that is never answered (`Terminates`).

`vpc_input` checks: what an accepted template says of volumes and user data is in
the instance definition on all four paths (`NothingDropped`); `Prepare` rejects
nothing that would be carried whole and taken (`RejectedForAReason`); what passed
the checks is refused later only for one of the listed reasons (`RefusedLate`);
all resources are in a group the template names, or in the default one
(`GroupsAgree`).

Bounds. `MaxSubnets` is the number of candidate zones: a region has three, and
three make a fallback that starts, goes on and ends. `MaxRemotes` 2: the code
treats the first rule differently from all others, and two is one of each.
`LateCap` 2 caps a counter that the property says stays at 1. A build has no
other unbounded state. Chains of two are enough for one post-processor to see
the artifact of another. Two classic builds are enough to meet, since they
share one directory, one inventory, one list of images and nothing else, and a
third could only do to either what the other does. `MaxCalls` 2 is a call and its repetition
after a failure; three builds are two that overlap and one that comes later. The
capacities are 0, 9, 10, 32000 and 32001, the lines `Prepare` draws and their
neighbours. The proofs cover any number of zones, rules, blocks, builds, calls
and capacities.

Fairness. In `PollUntil`, `WF(Caller)`: a timer fires. `WF(Goroutine /\ ~RequestOut)`:
a goroutine is scheduled, but nothing makes its request return, so no request has
to; the classic client sets no timeout, and what the SDK does is not in `src/`. In
`VpcBuild`, `WF(Build)`: the run is one thread, its waits have timers, and its
requests go through the SDK's clients, which are external and taken to answer or to
fail. In `ClassicBuild`, `WF` of a build's step asks nothing of a request that may
hang: not outside the waits (`Hanging`), where the build then stays, and not in a
wait, which its timer ends (`TimerFires`, fair for each build by itself, because
packer runs each as a process). In `ImageExport` the wait has a timer and the
requests are the SDK's. The cloud and the user
are not fair; only `FairCloudSpec`, for `build_fallback`, asks that the cloud
finish what it began. `VpcInput` and `DecryptPassword` state safety only: neither
waits for anything. `PollUntil`'s and `DecryptPassword`'s configurations turn the
deadlock check off because a wait and a call end; the other modules have an
explicit end (`Ended`, `Rest`) and are checked for deadlock.

## 4. Findings

Each is a run that TLC refutes, and names the sentence it contradicts.

1. `find_skip_reboot`: `step_reboot_instance.go:19` reboots when `skip_reboot`
   is set, and only then. `README.md:195` says the opposite.
2. `find_nil_instance`: `step_waitfor_instance.go:32` drops the error of
   `retrieveResource` and stores its nil result. `stepGetIP` panics on it and so
   does the Cleanup, before it deletes the instance, which stays.
3. `find_group_name`: `README.md:191` says of `resource_group_name` that the
   default group is used only without one. The SSH key (`client.go:415`) and an
   instance made from a snapshot (`step_create_instance.go:240`) look at the
   identifier only, and go to the default group.
4. `find_export_timeout`: `post-processor/README.md:76` says of `export_timeout`
   that it is the time to wait, such as `"5s"`. Whatever is shorter than a minute
   becomes five minutes (`step_image_export.go:87`), so `"5s"` does. The comment on
   line 88 calls five minutes the default for no timeout, too; with none,
   `step_image_export.go:32` has made it two.

Met while modelling, in the modules, and without a run of their own.

VPC builder. A deletion that is answered without an error and with a status other
than 204 is not recorded (`step_create_ssh_key_vpc.go:76`: "The key could not be
deleted. Please delete it manually!"; of address, rule and group the code says
nothing), and the run may return its artifact. The Cleanup releases a floating IP only when its address is in the
state bag, put there after the wait (`step_get_ip.go:61`). Only the first rule's
identifier is kept (`step_create_sec_group_rules.go:167`); in a group of the
user's the others stay. `createRule` converts the result before it looks at the
error (`client.go:480`), so an error is a panic (`CreateRule`).
`step_create_instance.go:268` reads the status code of a response that may be
nil, and the instance stays (`ReleaseFloatingIP`). An unreadable private key ends
the process in `log.Fatalf` (`ssh.go:28`) and no Cleanup runs
(`SshKeyUnreadable`). An error of a Cleanup replaces that of the step that failed.
`winRMConfig` answers a failure with neither a configuration nor an error, and
`GrabCredentials` takes any text openssl gives (`DecryptPassword`).

VPC input. The name looked up at the start is not the sanitised one the image
gets; a `base_image_id` that does not exist is found out only by the create; the
user data file is only looked for, not read, by `Prepare`; a subnet may be given
twice; a second `Prepare` on its own result refuses a `subnet_id`, because the
first put it into `subnet_ids` as well.

Classic builder. Cleanups print their failures and return nothing; only that of
the key files records an error. `getInstancePublicIp` swallows its error. The
private key file stays when its upload failed, since the Cleanup returns early.
The image stays when a later part of the capture fails. An image of the same name
may be taken for the build's own. `os.Stat` and `os.Mkdir` on `ssh_keys/` race
with another build's; `os.RemoveAll` removes another's keys, and fails when the
other writes one meanwhile, which costs a faultless build its artifact
(`step_create_ssh_key.go:148`). Builds that share an inventory file may provision
each other's machines. A request that is never answered holds a build for ever. An
answer of another shape panics, in the goroutine of a wait too, which ends the process. A
communicator that is neither ssh nor winrm returns no artifact and no error.

Export. Without a `format`, `post-processor.go:91` assigns the default to the
job's name, which the user may have given. A cancelled `PostProcess` panics on
the missing job identifier (`post-processor.go:163`). A job that was given up
runs on.

## 5. Proofs

The theorems hold for every value of the constants: any set of waits, of
configurations, templates, accounts and faults; any number of candidate subnets,
rules, blocks, builds and calls. The assumptions are `WaitAssumption`,
`CloudAssumption`, `BuildAssumption`, `ExportAssumption`, `DecryptAssumption`,
`InputAssumption` and `ClassicAssumption`, which type the constants and say that
the special values (`NilPointer`, `None`, `Nobody`, `Earlier`) are not ordinary
ones, that a chain is not empty, that there are finitely many builds of
`DecryptPassword`, that a classic build runs a template `Prepare` accepted, and
that the default image name and those in the account are sanitised ones.

* `PollUntil_proofs`: type correctness and the three safety invariants of the
  run, from one inductive invariant. It relates the points of the goroutine to
  the channel, because none of them is inductive alone: that the channel is
  empty before the send needs that a goroutine that has not concluded has sent
  nothing; that the outcome is true needs that a verdict, once reached, stays
  true, that is that goal statuses are not left. `KeepsPromise` is the
  refinement of `Await`, its fairness aside.
* `VpcBuild_proofs`: `TypeCorrect`, and `OneInstance`, that no build ever has
  two instances standing. Why this needs an invariant: a create must find every
  earlier instance gone, which follows from where `pc` can be
  (`CreatedOnce`: `createInstance` is entered once, so its loop starts with no
  attempt made) and from which instance the later requests name (`OnlyTheLast`:
  whatever stands or is in the bag is the last one asked for, and at
  `createInstance` none stands). `Invariance` proves the conjunction, one step
  per action; the lemmas `RunnerOrder` and `CreateOrder` carry the facts about
  the order of steps, `OutsideCreate` and `InsideCreate` the two halves of the
  case split.
* `VpcCleanup_proofs`: the other invariants of `build_all_faults`, which all say
  something of the end of a run that is decided long before it. The inductive
  invariant `Stock` therefore has a part for the runner and one per resource.
  `OnTrack` says that the steps left to run are the tail of the list that starts
  behind the current one (a step that is listed twice is told apart by the
  registered Cleanups), `Stack` which Cleanups are registered at which point,
  `Sound` what cannot have happened yet: a run that still builds has no lost
  answer and no panic. For each resource `KeysStock`, `InstanceStock`,
  `AddressStock`, `GroupStock` and `ImageStock` say before which point it does not
  exist, which entry of the state bag names it once it does, and that past the
  Cleanup that gives it back it stands only after a panic, an error of a Cleanup,
  or a deletion that let it stand without an error. None of these is inductive without the others: that the group is gone
  at the end needs its name in the bag, that needs that the steps have come in
  their order, and that needs `OnTrack`.
  The proof has two layers. `FlowStep` shows once, action by action, that a step
  moves the run in one of five ways (`Flow`: on in the build, round to the Cleanups,
  out of the process, on in a Cleanup or to the next one, to the end), `FrameStep`
  which requests may change which resource, `StartStep` where a request may be
  made. A lemma per resource (`KeysStep` to `ImageStep`) then argues from these
  and from the few actions that touch the resource; `OutsideStep` is the cloud and
  the user. The five theorems are consequences of `Stock` at the end points.
* `VpcContract_proofs`: `ContractSafety`, the refinement of `BuildContract` step by
  step. `Phase`, `Machines` and `HeldKinds` are the contract's state. Beside
  `Stock` it needs `Bound`: while it builds, only the fallback deletes an instance,
  and an instance whose creation was never answered leaves no group behind. `PhaseStep` and `MachinesStep` say how a step moves the
  contract's state; `BuildTakes` and `CleanupGivesBack` find the contract's action
  for each request, `BuildKeeps` and `CloudKeeps` the stutters. The theorem is the
  part of `ContractKept` without fairness, which stays with `build_contract`.
* `ImageExport_proofs`: all safety invariants of `export_chain`, for chains of any
  length, and `Bucket`, that a job writes to the one bucket given. The invariant
  ties `configs` to `pipeline` (every one was accepted), `used` to `configs[at]`,
  the last job to the post-processor at work, and says that all earlier jobs
  succeeded. From `OneOwner`, the lemma about what `Configure` accepts, follows
  that a job never mixes owners. `TimeoutsReplaced` is the bright side of the
  fourth finding: only a timeout of less than a minute is replaced, and by five;
  `TimerOf` is about the conversion, and only `CreateImageExportJob` sets a timer.
* `DecryptPassword_proofs`: all its invariants. `Overlap` says that two calls
  under way know of each other, `Undisturbed` that a call that met nobody finds
  directory, file and content as it left them, `ToBeRemoved` that until a call
  fails everything in `data/` is some call's to remove.
* `VpcInput_proofs`: all its invariants. `Judged` and `Verified` keep what an
  earlier check found out, against what others do to the account meanwhile,
  `Placed` where an error can come from, `Derived` what later steps make of the
  template. The arithmetic of the capacities is in the lemmas about volumes.
* `ClassicBuild_proofs`: all safety invariants of `classic_builds`. The invariant is
  one of each build (`BuildInv`: where its `pc` can be, and what then is known of
  its instance, key, image and console), so the proof has two halves: a build's
  own step keeps its own (`OwnInvariant`, a lemma per action), and another's step
  leaves it alone (`OthersInvariant`), for any number of builds.
  `OnlySharedFilesInterfere` is the one property for which the builds' meeting
  matters. Beside the invariant it needs `Undisturbed`: of a run in which nothing
  goes wrong, which errors can be there (`Excused`), that an SSH build with no other
  beside it finds the key files as it left them (`KeysHere`), that a build that is
  alone with the inventory finds its own address in it (`Written`), and that a
  build past the step that looks up its address has one (`AddressHere`); and
  `Writers`, that only a build with steps writes the inventory. A build's own steps
  keep these (`StepAlone` to `UnwindsAlone`); another's keep them because only SSH
  builds change the key files and only builds with steps the inventory
  (`FilesAreTheirs`, `OthersUndisturbed`). That the request is complete when the
  template is needs `Prepare`'s rules (`RequestIsComplete`).

Only model-checked: everything about liveness, that is `Terminates`,
`CallerReturns`, `GoroutineStops`, `CapacityFallbackWorks` and the fairness in
`Await` and `BuildContract`: the prover has no rules for `WF` and `ENABLED` beyond
propositional ones. Every safety invariant a passing run checks is also a theorem. The
inductive invariants of the proofs were checked with TLC on the instances of
section 3 before they were proved, and are not in the configurations.

## 6. Limits

Not modelled, and why.

* The artifacts: records without state. The VPC one's `Destroy` does nothing; the
  classic one's is one request, to the endpoint of guests and with the
  identifier of an image.
* Plugin entry and version: registration.
* The generated schemas (`*.hcl2spec.go`): generated code.
* Scripts, examples, the Ansible playbook, the Windows setup: not the program.
* The packer SDK, the cloud and openssl are external, and modelled as far as the
  code uses them. The archive transaction of a classic guest is taken to be
  active when its request is answered: the code has no way to tell.
* A crash of the process (`SshKeyUnreadable`, `killed`) is in the models; the
  plugin keeps no record from which a later run could recover, so nothing can be
  promised of it.

Left to prove: the safety of the runs is proved. What remains are the temporal
properties above, which are out of the prover's reach.
