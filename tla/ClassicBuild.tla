---------------------------- MODULE ClassicBuild ----------------------------
(***************************************************************************)
(* Runs of the classic builder, Builder.Run in builder/ibmcloud/classic,   *)
(* side by side in one directory and one account, as packer starts the     *)
(* sources of a template: each in a process of its own, all of them with   *)
(* the directory ssh_keys/, the file that ANSIBLE_INVENTORY_FILE names and *)
(* the account's list of images in common.                                 *)
(*                                                                         *)
(* A point of a run (pc) is the entry of a step, a place inside one, a     *)
(* place of a Cleanup or an end.  The step runner is external.             *)
(***************************************************************************)
EXTENDS ClassicInput, Sequences

CONSTANTS
    Builds,       \* the builds that run side by side
    Scenarios,    \* what the builds are given and what may go wrong
    Nobody,       \* neither a build nor Earlier
    Earlier       \* a run before these: its key, its machine, its image

\* "api": a request of a step fails.    "lost": it takes effect, unanswered.
\* "shape": its answer has not the type the code asserts.
\* "hang": it is never answered, and the client has no timeout.
\* "timeout": nobody answers at the address.  "archive": the capture fails.
\* "local": a file operation fails.     "cancel": the user interrupts.
\* "cleanup": an operation of a Cleanup fails.
FaultKinds ==
    {"api", "lost", "shape", "hang", "timeout", "archive", "local", "cancel", "cleanup"}

ScenarioSpace ==
    [template : [Builds -> Templates],
     taken : SUBSET Names,               \* names of images already there
     inventory : BOOLEAN,                \* ANSIBLE_INVENTORY_FILE is set
     faults : SUBSET FaultKinds]

ASSUME ClassicAssumption ==
    /\ Scenarios \subseteq ScenarioSpace
    /\ \A s \in Scenarios, b \in Builds : Accepts(s.template[b], TRUE)
    /\ Nobody \notin Builds
    /\ Earlier \notin Builds \cup {Nobody}

VARIABLES
    scenario,   \* fixed
    run,        \* the state of each build's process
    dir,        \* ssh_keys/ exists
    id_rsa,     \* the build whose private key is in ssh_keys/id_rsa
    id_rsa_pub, \* ssh_keys/id_rsa.pub exists
    inventory,  \* the build whose address is in the inventory file
    guest,      \* the instance of each build
    key,        \* the SSH key of each build in the account
    image       \* the image of each build

cloud == <<guest, key, image>>
keyFiles == <<dir, id_rsa, id_rsa_pub>>
files == <<keyFiles, inventory>>
vars == <<scenario, run, files, cloud>>

-----------------------------------------------------------------------------
(* The steps and their Cleanups. *)

SshSteps == <<"createSshKey", "createInstance", "waitforInstance", "grabPublicIP",
              "StepConnect", "StepProvision", "captureImage">>

WinRMSteps == <<"createInstance", "waitforInstance", "grabPublicIP", "StepConnect",
                "waitforInstance", "StepProvision", "captureImage">>

\* Any other communicator gets a build without steps.
Steps(b) ==
    CASE scenario.template[b].comm = "ssh" -> SshSteps
      [] scenario.template[b].comm = "winrm" -> WinRMSteps
      [] OTHER -> <<>>

\* The Cleanups that do something, in the order they are registered.
Cleanups(b) ==
    CASE scenario.template[b].comm = "ssh" -> <<"clean.key", "clean.instance">>
      [] scenario.template[b].comm = "winrm" -> <<"clean.instance">>
      [] OTHER -> <<>>

StepNames == {"createSshKey", "createInstance", "waitforInstance", "grabPublicIP",
              "StepConnect", "StepProvision", "captureImage"}

InnerPoints == {"createSshKey.mkdir", "createSshKey.private", "createSshKey.chmod",
                "createSshKey.public", "createSshKey.chmodpub", "createSshKey.upload",
                "grabPublicIP.open", "grabPublicIP.write",
                "captureImage.archive", "captureImage.find",
                "captureImage.wait", "captureImage.copy"}

CleanupPoints == {"clean.instance", "clean.destroy", "clean.key", "clean.keydir",
                  "clean.unlink", "finish"}

\* A panic in a step goes up through the Cleanups, one in a goroutine does not.
EndPoints == {"returned", "panicked", "killed"}

Points == StepNames \cup InnerPoints \cup CleanupPoints \cup EndPoints

KeyFiles == {"id_rsa", "id_rsa.pub"}

Runs ==
    [pc : Points,
     step : 0..7,                     \* the step the runner is at
     deferred : 0..2,                 \* Cleanups still to run
     power : {"unread", "on", "off"}, \* isPowerOn, between the two requests
     cancelled : BOOLEAN,
     panicking : BOOLEAN,
     error : Points \cup {"none"},    \* the entry, as the point that put it
     key_id : BOOLEAN,                \* keyId is not zero
     instance : BOOLEAN,              \* instanceId is not empty
     address : BOOLEAN,               \* the configuration has the host
     host : Builds \cup {Earlier, Nobody},    \* whose machine was provisioned
     image_id : Builds \cup {Earlier, Nobody},
     names : SUBSET KeyFiles,                 \* what RemoveAll has yet to unlink
     told : SUBSET {"instance", "key", "keydir", "wait"},  \* console errors
     lost : SUBSET {"instance", "key", "image"},           \* history
     result : {"none", "artifact", "error", "nothing"}]

\* The transactions of an instance, and its power, as one status.
PowerOn == {"booting", "running", "archiving"}
Busy == {"deploying", "booting", "archiving", "halted"}
GuestStatus == PowerOn \cup Busy \cup {"none", "gone"}
Listed == {"listed", "complete", "failed"}

TypeOK ==
    /\ scenario \in Scenarios
    /\ run \in [Builds -> Runs]
    /\ dir \in BOOLEAN
    /\ id_rsa \in Builds \cup {Earlier, Nobody}
    /\ id_rsa_pub \in BOOLEAN
    /\ inventory \in Builds \cup {Earlier, Nobody}
    /\ guest \in [Builds -> GuestStatus]
    /\ key \in [Builds -> {"none", "exists", "gone"}]
    /\ image \in [Builds -> Listed \cup {"none", "hidden"}]

Fresh(b) ==
    [pc |-> IF Steps(b) = <<>> THEN "finish" ELSE Steps(b)[1],
     step |-> IF Steps(b) = <<>> THEN 0 ELSE 1,
     deferred |-> 0, power |-> "unread", cancelled |-> FALSE, panicking |-> FALSE,
     error |-> "none", key_id |-> FALSE, instance |-> FALSE, address |-> FALSE,
     host |-> Nobody, image_id |-> Nobody, names |-> {}, told |-> {}, lost |-> {}, result |-> "none"]

\* An earlier run may have left its key files and an inventory.
Init ==
    /\ scenario \in Scenarios
    /\ run = [b \in Builds |-> Fresh(b)]
    /\ dir \in BOOLEAN
    /\ id_rsa = IF dir THEN Earlier ELSE Nobody
    /\ id_rsa_pub = dir
    /\ inventory = IF dir /\ scenario.inventory THEN Earlier ELSE Nobody
    /\ guest = [b \in Builds |-> "none"]
    /\ key = [b \in Builds |-> "none"]
    /\ image = [b \in Builds |-> "none"]

-----------------------------------------------------------------------------
(* The runner (external), as functions of the state r of build b's process. *)

\* Enter the last of d registered Cleanups.
Unwound(b, r, d) ==
    [r EXCEPT !.pc = IF d = 0 THEN "finish" ELSE Cleanups(b)[d],
              !.deferred = IF d = 0 THEN 0 ELSE d - 1,
              !.power = "unread"]

\* The Cleanups registered when n steps have returned.
Registered(b, n) == IF n < Len(Cleanups(b)) THEN n ELSE Len(Cleanups(b))

Halted(b, r) == Unwound(b, r, Registered(b, r.step))

Continued(b, r) ==
    IF r.cancelled \/ r.step = Len(Steps(b))
    THEN Halted(b, r)
    ELSE [r EXCEPT !.pc = Steps(b)[r.step + 1], !.step = @ + 1, !.power = "unread"]

\* The step records an error and halts.
Failed(b, r) == Halted(b, [r EXCEPT !.error = r.pc])

\* A panic in a step, whose own Cleanup is not registered.
Panicked(b, r) == Unwound(b, [r EXCEPT !.panicking = TRUE], Registered(b, r.step - 1))

\* The next Cleanup.
NextCleanup(b, r) == Unwound(b, r, r.deferred)

At(b, p) == run[b].pc = p
To(r, p) == [r EXCEPT !.pc = p, !.power = "unread"]
Becomes(b, r) == run' = [run EXCEPT ![b] = r]
May(f) == f \in scenario.faults

-----------------------------------------------------------------------------
(* stepCreateSshKey.  The directory is looked for, then made. *)

StatDirectory(b) ==
    /\ At(b, "createSshKey")
    /\ Becomes(b, To(run[b], IF dir THEN "createSshKey.private" ELSE "createSshKey.mkdir"))
    /\ UNCHANGED <<files, cloud>>

MakeDirectory(b) ==
    /\ At(b, "createSshKey.mkdir")
    /\ \/ /\ ~dir
          /\ dir' = TRUE
          /\ Becomes(b, To(run[b], "createSshKey.private"))
       \/ /\ dir \/ May("local")
          /\ Becomes(b, Failed(b, run[b]))
          /\ UNCHANGED dir
    /\ UNCHANGED <<id_rsa, id_rsa_pub, inventory, cloud>>

\* A write without the directory fails; a failing one may have written.
WritePrivateKey(b) ==
    /\ At(b, "createSshKey.private")
    /\ \/ dir /\ id_rsa' = b /\ Becomes(b, To(run[b], "createSshKey.chmod"))
       \/ ~dir /\ UNCHANGED id_rsa /\ Becomes(b, Failed(b, run[b]))
       \/ /\ dir /\ May("local")
          /\ id_rsa' \in {id_rsa, b}
          /\ Becomes(b, Failed(b, run[b]))
    /\ UNCHANGED <<dir, id_rsa_pub, inventory, cloud>>

WritePublicKey(b) ==
    /\ At(b, "createSshKey.public")
    /\ \/ dir /\ id_rsa_pub' = TRUE /\ Becomes(b, To(run[b], "createSshKey.chmodpub"))
       \/ ~dir /\ UNCHANGED id_rsa_pub /\ Becomes(b, Failed(b, run[b]))
       \/ /\ dir /\ May("local")
          /\ id_rsa_pub' \in {id_rsa_pub, TRUE}
          /\ Becomes(b, Failed(b, run[b]))
    /\ UNCHANGED <<dir, id_rsa, inventory, cloud>>

\* The key files that exist.
Present ==
    (IF id_rsa # Nobody THEN {"id_rsa"} ELSE {}) \cup (IF id_rsa_pub THEN {"id_rsa.pub"} ELSE {})

\* The permissions of each file are set after it is written, by its name.
ChangeMode(b) ==
    /\ \E f \in KeyFiles :
          LET here == IF f = "id_rsa" THEN "createSshKey.chmod" ELSE "createSshKey.chmodpub"
              next == IF f = "id_rsa" THEN "createSshKey.public" ELSE "createSshKey.upload"
          IN  /\ At(b, here)
              /\ \/ f \in Present /\ Becomes(b, To(run[b], next))
                 \/ /\ f \notin Present \/ May("local")
                    /\ Becomes(b, Failed(b, run[b]))
    /\ UNCHANGED <<files, cloud>>

\* UploadSshKey; the identifier is converted without a look at its type, and so
\* is the text of an error answer, here and in the requests below.
UploadSshKey(b) ==
    /\ At(b, "createSshKey.upload")
    /\ \/ /\ key' = [key EXCEPT ![b] = "exists"]
          /\ \/ Becomes(b, Continued(b, [run[b] EXCEPT !.key_id = TRUE]))
             \/ May("lost") /\ Becomes(b, Failed(b, [run[b] EXCEPT !.lost = @ \cup {"key"}]))
             \/ May("shape") /\ Becomes(b, Panicked(b, [run[b] EXCEPT !.lost = @ \cup {"key"}]))
       \/ May("api") /\ Becomes(b, Failed(b, run[b])) /\ UNCHANGED key
       \/ May("shape") /\ Becomes(b, Panicked(b, run[b])) /\ UNCHANGED key
    /\ UNCHANGED <<files, guest, image>>

-----------------------------------------------------------------------------
(* The instance. *)

\* The cloud asks a request without a flavor for processors, memory and, with an
\* operating system, a disk.  Prepare asks the template for one of them.
Complete(given) ==
    \/ "instance_flavor" \in given
    \/ /\ {"instance_cpu", "instance_memory"} \subseteq given
       /\ "base_os_code" \in given => "instance_disk_capacity" \in given

\* The user data file is read again.
MayLoseUserData(b) ==
    May("local") /\ "user_data_file_path" \in scenario.template[b].given

CreateInstance(b) ==
    /\ At(b, "createInstance")
    /\ \/ /\ Complete(Request(scenario.template[b]))
          /\ guest' = [guest EXCEPT ![b] = "deploying"]
          /\ \/ Becomes(b, Continued(b, [run[b] EXCEPT !.instance = TRUE]))
             \/ May("lost") /\ Becomes(b, Failed(b, [run[b] EXCEPT !.lost = @ \cup {"instance"}]))
             \/ May("shape") /\ Becomes(b, Panicked(b, [run[b] EXCEPT !.lost = @ \cup {"instance"}]))
       \/ /\ \/ ~Complete(Request(scenario.template[b]))
             \/ May("api")
             \/ MayLoseUserData(b)
          /\ Becomes(b, Failed(b, run[b]))
          /\ UNCHANGED guest
       \/ May("shape") /\ Becomes(b, Panicked(b, run[b])) /\ UNCHANGED guest
    /\ UNCHANGED <<files, key, image>>

\* waitForInstanceReady, in two steps and in the Cleanup of the instance.
Waits(b) ==
    \/ run[b].pc \in {"waitforInstance", "captureImage.wait"}
    \/ At(b, "clean.instance") /\ run[b].instance

\* Mutant: the answer is kept as it came.
ReadPowerRaw(b) ==
    /\ Waits(b)
    /\ run[b].power = "unread"
    /\ Becomes(b, [run[b] EXCEPT !.power = guest[b]])
    /\ UNCHANGED <<files, cloud>>

\* isInstanceReady asks for the power state and then for the transaction.  A
\* request that fails is a "not yet"; a verdict never comes from a failure.
ReadPower(b) ==
    /\ Waits(b)
    /\ run[b].power = "unread"
    /\ Becomes(b, [run[b] EXCEPT !.power = IF guest[b] \in PowerOn THEN "on" ELSE "off"])
    /\ UNCHANGED <<files, cloud>>

\* Mutant: the power state is enough.
ReadyWhenOn(b) == run[b].power = "on"

Ready(b) == run[b].power = "on" /\ guest[b] \notin Busy

\* The wait is over: the rest of what called it.
Resumed(b) ==
    CASE At(b, "waitforInstance") -> Continued(b, run[b])
      [] At(b, "captureImage.wait") ->
            IF scenario.template[b].upload THEN To(run[b], "captureImage.copy")
                                           ELSE Continued(b, run[b])
      [] OTHER -> To(run[b], "clean.destroy")

ReadTransaction(b) ==
    /\ Waits(b)
    /\ run[b].power # "unread"
    /\ \/ Ready(b) /\ Becomes(b, Resumed(b))
       \/ /\ ~Ready(b) \/ May("api")
          /\ Becomes(b, [run[b] EXCEPT !.power = "unread"])
    /\ UNCHANGED <<files, cloud>>

\* Mutant: the Cleanup's wait has no timer.
GiveUpWaitInSteps(b) ==
    /\ Waits(b)
    /\ ~At(b, "clean.instance")
    /\ Becomes(b, Failed(b, run[b]))
    /\ UNCHANGED <<files, cloud>>

\* Mutant: the Cleanup drops the wait's error.
GiveUpWaitQuietly(b) ==
    /\ Waits(b)
    /\ Becomes(b, IF At(b, "clean.instance") THEN To(run[b], "clean.destroy")
                                             ELSE Failed(b, run[b]))
    /\ UNCHANGED <<files, cloud>>

\* The timer, which may always be the first.  A step fails on it, the Cleanup
\* only says so.
GiveUpWait(b) ==
    /\ Waits(b)
    /\ Becomes(b, IF At(b, "clean.instance")
                  THEN To([run[b] EXCEPT !.told = @ \cup {"wait"}], "clean.destroy")
                  ELSE Failed(b, run[b]))
    /\ UNCHANGED <<files, cloud>>

\* The assertions are made in the wait's goroutine: its panic is the process's
\* end, without a Cleanup.
WaitPanics(b) ==
    /\ Waits(b)
    /\ May("shape")
    /\ Becomes(b, To(run[b], "killed"))
    /\ UNCHANGED <<files, cloud>>

-----------------------------------------------------------------------------
(* Address, communicator and provisioners. *)

\* getInstancePublicIp answers a failing request with no address and no error.
GrabPublicIP(b) ==
    /\ At(b, "grabPublicIP")
    /\ \E a \in {TRUE} \cup (IF May("api") THEN {FALSE} ELSE {}) :
          LET r == [run[b] EXCEPT !.address = a]
          IN  Becomes(b, IF scenario.inventory THEN To(r, "grabPublicIP.open")
                                               ELSE Continued(b, r))
    /\ UNCHANGED <<files, cloud>>

\* Mutant: an inventory that is there is left as it is.
OpenInventoryOnce(b) ==
    /\ At(b, "grabPublicIP.open")
    /\ inventory' = inventory
    /\ Becomes(b, IF inventory = Nobody THEN To(run[b], "grabPublicIP.write")
                                        ELSE Continued(b, run[b]))
    /\ UNCHANGED <<keyFiles, cloud>>

\* The inventory is one file for all builds.  Opening it empties it, ...
OpenInventory(b) ==
    /\ At(b, "grabPublicIP.open")
    /\ \/ inventory' = Nobody /\ Becomes(b, To(run[b], "grabPublicIP.write"))
       \/ May("local") /\ Becomes(b, Failed(b, run[b])) /\ UNCHANGED inventory
    /\ UNCHANGED <<keyFiles, cloud>>

\* ... and the address is written at its start: what another build has written
\* since, if it is longer, stays behind as a line that names no machine.
WriteInventory(b) ==
    /\ At(b, "grabPublicIP.write")
    /\ \/ /\ \/ run[b].address /\ inventory' = b
             \/ (~run[b].address \/ inventory # Nobody) /\ inventory' = Nobody
          /\ Becomes(b, Continued(b, run[b]))
       \/ May("local") /\ Becomes(b, Failed(b, run[b])) /\ UNCHANGED inventory
    /\ UNCHANGED <<keyFiles, cloud>>

\* External.  Without an address there is nothing to connect to.
Connect(b) ==
    /\ At(b, "StepConnect")
    /\ \/ run[b].address /\ Becomes(b, Continued(b, run[b]))
       \/ /\ ~run[b].address \/ May("timeout")
          /\ Becomes(b, Failed(b, run[b]))
       \/ run[b].cancelled /\ Becomes(b, Halted(b, run[b]))
    /\ UNCHANGED <<files, cloud>>

\* winRMConfig that cannot grab the credentials records an error and returns
\* neither a configuration nor an error.  What StepConnect makes of that is
\* its own affair: it tries again, or dereferences it and ends the process.
WinRMCredentialsMissing(b) ==
    /\ At(b, "StepConnect")
    /\ scenario.template[b].comm = "winrm"
    /\ May("api")
    /\ \E p \in {"StepConnect", "killed"} :
          Becomes(b, To([run[b] EXCEPT !.error = "StepConnect"], p))
    /\ UNCHANGED <<files, cloud>>

\* External.  A provisioner that is given the inventory works on the machine
\* there, whoever wrote it; without one, through the build's own connection.
Host(b) == IF scenario.inventory THEN inventory ELSE b

Provision(b) ==
    /\ At(b, "StepProvision")
    /\ \/ /\ Host(b) # Nobody
          /\ Becomes(b, Continued(b, [run[b] EXCEPT !.host = Host(b)]))
       \/ /\ Host(b) # b \/ May("local")
          /\ Becomes(b, Failed(b, [run[b] EXCEPT !.host = Host(b)]))
       \/ run[b].cancelled /\ Becomes(b, Halted(b, run[b]))
    /\ UNCHANGED <<files, cloud>>

-----------------------------------------------------------------------------
(* stepCaptureImage.  Prepare leaves one image type, so the other branch is  *)
(* never taken.                                                              *)

GetBlockDevices(b) ==
    /\ At(b, "captureImage")
    /\ \/ Becomes(b, To(run[b], "captureImage.archive"))
       \/ May("api") /\ Becomes(b, Failed(b, run[b]))
       \/ May("shape") /\ Becomes(b, Panicked(b, run[b]))
    /\ UNCHANGED <<files, cloud>>

\* createArchiveTransaction; the image need not be in the list at once.
CaptureStandardImage(b) ==
    /\ At(b, "captureImage.archive")
    /\ \/ /\ guest' = [guest EXCEPT ![b] = "archiving"]
          /\ \E i \in {"hidden", "listed"} : image' = [image EXCEPT ![b] = i]
          /\ \/ Becomes(b, To(run[b], "captureImage.find"))
             \/ May("lost") /\ Becomes(b, Failed(b, [run[b] EXCEPT !.lost = @ \cup {"image"}]))
             \/ May("shape") /\ Becomes(b, Panicked(b, [run[b] EXCEPT !.lost = @ \cup {"image"}]))
       \/ May("api") /\ Becomes(b, Failed(b, run[b])) /\ UNCHANGED <<guest, image>>
       \/ May("shape") /\ Becomes(b, Panicked(b, run[b])) /\ UNCHANGED <<guest, image>>
    /\ UNCHANGED <<files, key>>

name(b) == scenario.template[b].image_name

\* The images of the account that have the build's name.
Named(b) ==
    {x \in Builds : name(x) = name(b) /\ image[x] \in Listed}
    \cup (IF name(b) \in scenario.taken THEN {Earlier} ELSE {})

\* findImageIdByName takes the first of them.
FindImage(b) ==
    /\ At(b, "captureImage.find")
    /\ \/ \E i \in Named(b) :
             Becomes(b, To([run[b] EXCEPT !.image_id = i], "captureImage.wait"))
       \/ /\ Named(b) = {} \/ May("api")
          /\ Becomes(b, Failed(b, run[b]))
       \/ May("shape") /\ Becomes(b, Panicked(b, run[b]))
    /\ UNCHANGED <<files, cloud>>

CopyImage(b) ==
    /\ At(b, "captureImage.copy")
    /\ \/ Becomes(b, Continued(b, run[b]))
       \/ May("api") /\ Becomes(b, Failed(b, run[b]))
       \/ May("shape") /\ Becomes(b, Panicked(b, run[b]))
    /\ UNCHANGED <<files, cloud>>

-----------------------------------------------------------------------------
(* The Cleanups.  A failure there is told on the console; only that of the  *)
(* directory's removal is recorded as an error.                             *)

NoInstanceToDestroy(b) ==
    /\ At(b, "clean.instance")
    /\ ~run[b].instance
    /\ Becomes(b, NextCleanup(b, run[b]))
    /\ UNCHANGED <<files, cloud>>

\* Mutant: the answer of the API is not looked at.
DestroyInstanceQuietly(b) ==
    /\ At(b, "clean.destroy")
    /\ guest' = [guest EXCEPT ![b] = IF @ \in Busy THEN @ ELSE "gone"]
    /\ Becomes(b, NextCleanup(b, run[b]))
    /\ UNCHANGED <<files, key, image>>

\* The cloud refuses while a transaction is active.
DestroyInstance(b) ==
    /\ At(b, "clean.destroy")
    /\ \/ /\ guest[b] \notin Busy
          /\ guest' = [guest EXCEPT ![b] = "gone"]
          /\ Becomes(b, NextCleanup(b, run[b]))
       \/ /\ guest[b] \in Busy \/ May("cleanup")
          /\ \E g \in {guest[b]} \cup (IF guest[b] \in Busy THEN {} ELSE {"gone"}) :
                guest' = [guest EXCEPT ![b] = g]
          /\ Becomes(b, NextCleanup(b, [run[b] EXCEPT !.told = @ \cup {"instance"}]))
    /\ UNCHANGED <<files, key, image>>

\* Mutant: the Cleanup returns when the key cannot be destroyed.
DestroySshKeyStopping(b) ==
    /\ At(b, "clean.key")
    /\ \/ /\ ~run[b].key_id
          /\ Becomes(b, NextCleanup(b, run[b]))
          /\ UNCHANGED key
       \/ /\ run[b].key_id
          /\ key' = [key EXCEPT ![b] = "gone"]
          /\ Becomes(b, To(run[b], "clean.keydir"))
       \/ /\ run[b].key_id /\ May("cleanup")
          /\ Becomes(b, NextCleanup(b, [run[b] EXCEPT !.told = @ \cup {"key"}]))
          /\ UNCHANGED key
    /\ UNCHANGED <<files, guest, image>>

\* Without an uploaded key nothing is done, the files stay.
DestroySshKey(b) ==
    /\ At(b, "clean.key")
    /\ \/ /\ ~run[b].key_id
          /\ Becomes(b, NextCleanup(b, run[b]))
          /\ UNCHANGED key
       \/ /\ run[b].key_id
          /\ key' = [key EXCEPT ![b] = "gone"]
          /\ Becomes(b, To(run[b], "clean.keydir"))
       \/ /\ run[b].key_id /\ May("cleanup")
          /\ \E k \in {"exists", "gone"} : key' = [key EXCEPT ![b] = k]
          /\ Becomes(b, To([run[b] EXCEPT !.told = @ \cup {"key"}], "clean.keydir"))
    /\ UNCHANGED <<files, guest, image>>

\* A failed removal is the only failure of a Cleanup that becomes the run's error.
KeyDirectoryStays(b) ==
    Becomes(b, NextCleanup(b, [run[b] EXCEPT !.told = @ \cup {"keydir"},
                                             !.error = "clean.keydir"]))

\* Mutant: os.Remove in place of os.RemoveAll.
ListNoKeyFiles(b) ==
    /\ At(b, "clean.keydir")
    /\ Becomes(b, To(run[b], "clean.unlink"))
    /\ UNCHANGED <<files, cloud>>

\* RemoveAll lists what there is in the directory, ...
ListKeyFiles(b) ==
    /\ At(b, "clean.keydir")
    /\ \/ Becomes(b, [To(run[b], "clean.unlink") EXCEPT !.names = Present])
       \/ May("cleanup") /\ KeyDirectoryStays(b)
    /\ UNCHANGED <<files, cloud>>

\* ... unlinks each of it, whoever put it there, ...
UnlinkKeyFile(b) ==
    /\ At(b, "clean.unlink")
    /\ \E f \in run[b].names :
          /\ Becomes(b, [run[b] EXCEPT !.names = @ \ {f}])
          /\ \/ /\ id_rsa' = IF f = "id_rsa" THEN Nobody ELSE id_rsa
                /\ id_rsa_pub' = (id_rsa_pub /\ f # "id_rsa.pub")
             \/ May("cleanup") /\ UNCHANGED <<id_rsa, id_rsa_pub>>
    /\ UNCHANGED <<dir, inventory, cloud>>

\* ... and removes the directory, which fails if a file is in it again, or
\* still.  A directory that is gone is as good as removed.
RemoveKeyDirectory(b) ==
    /\ At(b, "clean.unlink")
    /\ run[b].names = {}
    /\ \/ /\ Present = {}
          /\ dir' = FALSE
          /\ Becomes(b, NextCleanup(b, run[b]))
       \/ /\ Present # {} \/ May("cleanup")
          /\ KeyDirectoryStays(b)
          /\ UNCHANGED dir
    /\ UNCHANGED <<id_rsa, id_rsa_pub, inventory, cloud>>

\* What Builder.Run makes of the state when the runner is through.
Finish(b) ==
    /\ At(b, "finish")
    /\ LET r == run[b] IN
       Becomes(b,
         IF r.panicking THEN To(r, "panicked")
         ELSE [To(r, "returned") EXCEPT
                 !.result = CASE r.error # "none" -> "error"
                              [] r.error = "none" /\ r.image_id # Nobody -> "artifact"
                              [] OTHER -> "nothing"])
    /\ UNCHANGED <<files, cloud>>

-----------------------------------------------------------------------------
(* The user, and the cloud (external). *)

\* The requests and waits of the steps do not look at it.
Cancel(b) ==
    /\ May("cancel")
    /\ run[b].pc \in StepNames \cup InnerPoints
    /\ Becomes(b, [run[b] EXCEPT !.cancelled = TRUE])
    /\ UNCHANGED <<files, cloud>>

\* A guest is deployed, started, and halted while it is archived; the image is
\* finished with the transaction.
CloudMoves(b) ==
    /\ \/ /\ guest[b] \in {"deploying", "booting", "archiving"}
          /\ guest' = [guest EXCEPT ![b] = CASE guest[b] = "deploying" -> "booting"
                                             [] guest[b] = "booting" -> "running"
                                             [] OTHER -> "halted"]
          /\ UNCHANGED image
       \/ /\ guest[b] \in {"archiving", "halted"}
          /\ guest' = [guest EXCEPT ![b] = "running"]
          /\ \/ image' = [image EXCEPT ![b] = "complete"]
             \/ May("archive") /\ image' = [image EXCEPT ![b] = "failed"]
       \/ /\ image[b] = "hidden"
          /\ image' = [image EXCEPT ![b] = "listed"]
          /\ UNCHANGED guest
    /\ UNCHANGED <<run, files, key>>

-----------------------------------------------------------------------------

Running(b) ==
    \/ StatDirectory(b) \/ MakeDirectory(b) \/ WritePrivateKey(b) \/ WritePublicKey(b)
    \/ ChangeMode(b) \/ UploadSshKey(b) \/ CreateInstance(b)
    \/ ReadPower(b) \/ ReadTransaction(b) \/ WaitPanics(b)
    \/ GrabPublicIP(b) \/ OpenInventory(b) \/ WriteInventory(b)
    \/ Connect(b) \/ WinRMCredentialsMissing(b) \/ Provision(b)
    \/ GetBlockDevices(b) \/ CaptureStandardImage(b) \/ FindImage(b) \/ CopyImage(b)

Unwinding(b) ==
    \/ NoInstanceToDestroy(b) \/ DestroyInstance(b)
    \/ DestroySshKey(b) \/ ListKeyFiles(b) \/ UnlinkKeyFile(b) \/ RemoveKeyDirectory(b)
    \/ Finish(b)

\* What a build's process does when it is scheduled.
Build(b) == (Running(b) \/ Unwinding(b)) /\ UNCHANGED scenario

TimerFires(b) == GiveUpWait(b) /\ UNCHANGED scenario

Elsewhere(b) == (Cancel(b) \/ CloudMoves(b)) /\ UNCHANGED scenario

AllEnded == \A b \in Builds : run[b].pc \in EndPoints

\* An end, and not a deadlock.
Rest == AllEnded /\ UNCHANGED vars

Next == Rest \/ \E b \in Builds : Build(b) \/ TimerFires(b) \/ Elsewhere(b)

\* A request outside the timed waits that may stay unanswered.  StepConnect has
\* a timeout of its own around the requests it causes.
RequestPoints ==
    {"createSshKey.upload", "createInstance", "grabPublicIP", "captureImage",
     "captureImage.archive", "captureImage.find", "captureImage.copy",
     "clean.destroy", "clean.key"}

Hanging(b) == May("hang") /\ run[b].pc \in RequestPoints

\* A process is scheduled, unless it is in a request that is not answered, for
\* the client has no timeout; the timer of a wait fires, whatever becomes of the
\* wait's own requests.  The communicator and the provisioners are taken to end,
\* and of the cloud nothing is asked.
Fairness ==
    \A b \in Builds :
        /\ WF_vars(Build(b) /\ ~Hanging(b) /\ ~(May("hang") /\ Waits(b)))
        /\ WF_vars(TimerFires(b))

Spec == Init /\ [][Next]_vars /\ Fairness

-----------------------------------------------------------------------------
(* Properties. *)

\* The runner has run every registered Cleanup: the run returned, or a panic of
\* a step went up through it.
CleanedUp(b) == run[b].pc \in {"returned", "panicked"}

SshBuilds == {b \in Builds : scenario.template[b].comm = "ssh"}

\* Builder.Run returns an artifact only without an error, and then the capture
\* it asked for is over: the image is finished, or the cloud failed it.  The
\* artifact names another image only when the name is another image's too.  It
\* returns neither an artifact nor an error only to a user who interrupted it,
\* or for a communicator that has no steps.
ArtifactContract ==
    \A b \in Builds :
        /\ run[b].result = "artifact" =>
              /\ run[b].error = "none"
              /\ image[b] = "complete" \/ (image[b] = "failed" /\ May("archive"))
              /\ \/ run[b].image_id = b
                 \/ name(b) \in scenario.taken
                 \/ \E c \in Builds \ {b} : name(c) = name(b)
        /\ run[b].result = "nothing" => run[b].cancelled \/ Steps(b) = <<>>

\* No instance and no key of the account outlives a run silently: there is a
\* console message that names it, or the answer that named it never arrived.
NothingLeftSilently ==
    \A b \in Builds : CleanedUp(b) =>
        /\ guest[b] \notin {"none", "gone"} => "instance" \in run[b].told \cup run[b].lost
        /\ key[b] = "exists" => "key" \in run[b].told \cup run[b].lost

\* A private key that stays in ssh_keys/ after a run is one whose public half
\* the run never uploaded, or the removal's failure is the run's error.
NoPrivateKeyLeft ==
    \A b \in Builds : run[b].pc = "returned" /\ id_rsa = b =>
        ~run[b].key_id \/ ("keydir" \in run[b].told /\ run[b].result = "error")

\* The Cleanup asks for an instance's destruction while a transaction holds it
\* only after it told the user that the wait ran out.
DestroyWaits ==
    \A b \in Builds : At(b, "clean.destroy") /\ guest[b] \in Busy => "wait" \in run[b].told

\* The builds that write the inventory beside b.
Neighbours(b) == {c \in Builds \ {b} : Steps(c) # <<>>}

\* Side by side, with nothing going wrong, a build fails over the key files,
\* when it makes them or when it removes them, only when another SSH build
\* shares the directory.  It provisions a machine that is not its own, or none,
\* only when another build shares the inventory file, and never a machine of an
\* earlier run.  What else it can fail over is its own: a wait's timer, a
\* capture not listed yet, a template that Prepare should not have let through.
OnlySharedFilesInterfere ==
    \A b \in Builds : scenario.faults \subseteq {"cancel", "hang"} =>
        /\ CASE run[b].error = "none" -> TRUE
             [] run[b].error \in {"waitforInstance", "captureImage.wait", "captureImage.find"} -> TRUE
             [] run[b].error = "createInstance" -> ~Complete(scenario.template[b].given)
             [] run[b].error = "StepProvision" -> scenario.inventory /\ Neighbours(b) # {}
             [] OTHER -> /\ run[b].error \in {"createSshKey.mkdir", "createSshKey.private",
                                               "createSshKey.chmod", "createSshKey.public",
                                               "createSshKey.chmodpub", "clean.keydir"}
                         /\ SshBuilds \ {b} # {}
        /\ \/ run[b].host \in {Nobody, b}
           \/ scenario.inventory /\ run[b].host \in Neighbours(b)

\* Every build ends, whatever the cloud does and whatever becomes of the other
\* builds: the waits have a timer each.  Only a request outside the waits that
\* is never answered holds a build for ever.
Terminates == \A b \in Builds : <>[](run[b].pc \in EndPoints \/ Hanging(b))
=============================================================================
