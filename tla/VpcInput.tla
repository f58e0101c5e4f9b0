------------------------------ MODULE VpcInput ------------------------------
(***************************************************************************)
(* From a template of the VPC builder to what the cloud is asked for:      *)
(* Config.Prepare, the checks of stepVerifyInput and stepGetSubnetInfo in  *)
(* the account, and the requests for key, instance, security group and     *)
(* image, while other users of the account go on.                          *)
(*                                                                         *)
(* How a build goes on when a request fails is VpcBuild's affair: here a   *)
(* run ends at its first error, whose place it remembers.                  *)
(***************************************************************************)
EXTENDS Integers, Sequences

CONSTANTS
    Cases,         \* a template, and what is in the account at first
    Subnets,       \* identifiers of subnets
    SecurityGroups,
    VPCs,
    VpcOf,         \* the VPC of a subnet or a security group
    Names,         \* image names as templates give them
    Canonical,     \* the name without what the cloud takes no names with
    DefaultName,   \* the name Prepare makes from the time
    Groups,        \* identifiers of resource groups
    Keys           \* CRNs of encryption keys

\* Zero is the value of a number that is not given.
MinCapacity == 10
MaxCapacity == 32000

Profiles == {"general-purpose", "5iops-tier", "10iops-tier", "sdp", "custom"}

Sources == {"base_image_id", "base_image_name", "catalog_offering",
            "catalog_version", "boot_volume", "snapshot"}

Volumes ==
    [capacity : Int, profile : STRING, iops : Int, bandwidth : Int]

TemplateSpace ==
    [absent : SUBSET {"api_key", "region", "vsi_profile"},
     timeout : {"", "duration", "text"},
     subnet_id : Subnets \cup {""},
     subnet_ids : Seq(Subnets \cup {""}),
     source : SUBSET Sources,
     boot : Volumes,
     data : Volumes,
     user_data : SUBSET {"file", "string"},
     group_id : Groups \cup {""},
     group_name : BOOLEAN,               \* resource_group_name is given
     security_group_id : SecurityGroups \cup {""},
     image_name : Names \cup {""},
     tags : {"none", "some", "blank"},
     encryption_key : Keys \cup {"", "malformed"}]

AccountSpace ==
    [file : {"readable", "unreadable", "missing"},   \* the user data file
     named : Seq(Groups),                \* the groups with the name given
     groups : SUBSET Groups,             \* those that exist
     volume : {"unattached", "attached", "data", "missing"},
     snapshot : {"bootable", "data", "missing"},
     base_image : BOOLEAN, catalog : BOOLEAN,        \* there is one
     keys : SUBSET Keys,
     security_groups : SUBSET SecurityGroups,
     images : SUBSET Names,              \* the names of the images
     outage : BOOLEAN]                   \* requests may fail

ASSUME InputAssumption ==
    /\ Cases \subseteq [template : TemplateSpace, account : AccountSpace]
    /\ VpcOf \in [Subnets \cup SecurityGroups -> VPCs]
    /\ Canonical \in [Names -> Names \cup {""}]
    /\ \A c \in Cases : \A n \in c.account.images : Canonical[n] = n
    /\ DefaultName \in Names /\ Canonical[DefaultName] = DefaultName
    /\ "" \notin Subnets \cup SecurityGroups \cup Groups \cup Keys \cup Names

Resources == {"key", "instance", "floating_ip", "security_group", "image"}

VARIABLES
    template,    \* fixed
    account,
    at,          \* the point of the run
    error,       \* the point at which it ended with an error
    candidates,  \* bake_subnets: the subnets not tried yet, by their place
    derived,     \* derived_resource_group_id
    group_of,    \* the resource group each resource was asked for in
    definition,  \* instance_definition, the last instance asked for
    news         \* history: what others changed in the account meanwhile

vars == <<template, account, at, error, candidates, derived, group_of, definition, news>>

-----------------------------------------------------------------------------
(* Config.Prepare. *)

Tuned(v) == v.profile # "" \/ v.iops # 0 \/ v.bandwidth # 0

\* What boot and data volume have in common.
VolumeAccepted(v) ==
    /\ v.capacity # 0 => v.capacity \in MinCapacity..MaxCapacity
    /\ v.profile # "" => v.profile \in Profiles
    /\ v.iops # 0 => v.profile \in {"custom", "sdp"}
    /\ v.bandwidth # 0 => v.profile = "sdp"
    /\ v.iops >= 0 /\ v.bandwidth >= 0

\* Mutant: a tuned boot volume needs no capacity.
BootAcceptedWithoutCapacity(t) ==
    /\ VolumeAccepted(t.boot)
    /\ "boot_volume" \in t.source => ~Tuned(t.boot) /\ t.boot.capacity = 0

\* Mutant: a boot volume from a snapshot needs a capacity too.
BootAcceptedAlwaysSized(t) ==
    /\ VolumeAccepted(t.boot)
    /\ Tuned(t.boot) => t.boot.capacity # 0
    /\ "boot_volume" \in t.source => ~Tuned(t.boot) /\ t.boot.capacity = 0

BootAccepted(t) ==
    /\ VolumeAccepted(t.boot)
    /\ Tuned(t.boot) /\ "snapshot" \notin t.source => t.boot.capacity # 0
    /\ "boot_volume" \in t.source => ~Tuned(t.boot) /\ t.boot.capacity = 0

DataAccepted(t) ==
    /\ VolumeAccepted(t.data)
    /\ Tuned(t.data) => t.data.capacity # 0

OneSource(t) == \E s \in Sources : t.source = {s}

\* subnet_id is the list of one.
SubnetIDs(t) ==
    IF t.subnet_ids = <<>> /\ t.subnet_id # "" THEN <<t.subnet_id>> ELSE t.subnet_ids

ImageName(t) == IF t.image_name = "" THEN DefaultName ELSE t.image_name

SubnetsAccepted(t) ==
    /\ t.subnet_ids = <<>> <=> t.subnet_id # ""
    /\ \A i \in DOMAIN t.subnet_ids : t.subnet_ids[i] # ""

Accepts(t) ==
    /\ t.absent = {}
    /\ t.timeout # "text"                 \* "" becomes two minutes
    /\ SubnetsAccepted(t)
    /\ OneSource(t)
    /\ BootAccepted(t)
    /\ DataAccepted(t)
    /\ t.user_data # {"file", "string"}
    /\ "file" \in t.user_data => account.file # "missing"   \* os.Stat

-----------------------------------------------------------------------------
(* The instance definition: createInstance and its helpers. *)

\* The default profile of a volume that is asked for.
Filled(v) == [v EXCEPT !.profile = IF @ = "" THEN "general-purpose" ELSE @]

NoVolume == [capacity |-> 0, profile |-> "", iops |-> 0, bandwidth |-> 0]

\* bootVolumePrototype needs a capacity, snapshotBootVolumePrototype does not,
\* an existing volume is attached as it is.
BootVolume(t) ==
    IF "snapshot" \in t.source \/ ("boot_volume" \notin t.source /\ t.boot.capacity # 0)
    THEN Filled(t.boot)
    ELSE NoVolume

DataVolume(t) == IF t.data.capacity = 0 THEN NoVolume ELSE Filled(t.data)

\* Mutant: the group derived from the name comes first.
ResourceGroupDerived(t) == derived

\* resourceGroupIdentity; "" is the account's default group.
ResourceGroup(t) == IF t.group_id # "" THEN t.group_id ELSE derived

\* The path from a snapshot knows resource_group_id only.
InstanceGroup(t) ==
    IF "snapshot" \in t.source THEN t.group_id ELSE ResourceGroup(t)

Definition(t, subnet) ==
    [source |-> t.source, boot |-> BootVolume(t), data |-> DataVolume(t),
     user_data |-> t.user_data, subnet |-> subnet]

-----------------------------------------------------------------------------
(* What the cloud takes (external): iops and bandwidth only with a profile   *)
(* that honours them, a source that is there, a volume nobody else has.      *)

VolumeTaken(v) ==
    /\ v.capacity = 0 \/ v.capacity \in MinCapacity..MaxCapacity
    /\ v.profile \in Profiles \cup {""}
    /\ v.iops = 0 \/ (v.iops > 0 /\ v.profile \in {"custom", "sdp"})
    /\ v.bandwidth = 0 \/ (v.bandwidth > 0 /\ v.profile = "sdp")

SourceThere(t) ==
    CASE t.source = {"boot_volume"} -> account.volume = "unattached"
      [] t.source = {"snapshot"} -> account.snapshot = "bootable"
      [] t.source \subseteq {"catalog_offering", "catalog_version"} -> account.catalog
      [] OTHER -> account.base_image

InstanceTaken(d) ==
    /\ VolumeTaken(d.boot)
    /\ VolumeTaken(d.data)
    /\ SourceThere(template)
    /\ VpcOf[d.subnet] = VpcOf[SubnetIDs(template)[1]]

-----------------------------------------------------------------------------

Checks == {"verify.group", "verify.source", "verify.image", "verify.security_group",
           "verify.catalog", "verify.key", "getSubnetInfo", "getBaseImageID"}

Requests == {"createSshKeyVPC", "createInstance", "createFloatingIP",
             "createSecurityGroupRules", "captureImage"}

TypeOK ==
    /\ template \in TemplateSpace
    /\ account \in AccountSpace
    /\ at \in {"Prepare", "done", "rejected", "failed"} \cup Checks \cup Requests
    /\ error \in Checks \cup Requests \cup {"none", "file"}
    /\ candidates \subseteq DOMAIN SubnetIDs(template)
    /\ derived \in Groups \cup {""}
    /\ group_of \in [Resources -> Groups \cup {"", "unmade"}]
    /\ definition \in {Definition(template, s) : s \in Subnets \cup {""}}
    /\ news \subseteq {"volume", "image"}

Init ==
    /\ \E c \in Cases : template = c.template /\ account = c.account
    /\ at = "Prepare"
    /\ error = "none"
    /\ candidates = {}
    /\ derived = ""
    /\ group_of = [r \in Resources |-> "unmade"]
    /\ definition = Definition(template, "")    \* none yet
    /\ news = {}

Prepare ==
    /\ at = "Prepare"
    /\ at' = IF Accepts(template) THEN "verify.group" ELSE "rejected"
    /\ UNCHANGED <<template, account, error, candidates, derived, group_of, definition, news>>

\* Mutant: the place of the error is not kept.
FailsUnplaced(p) == at = p /\ at' = "failed" /\ error' = "failed"

\* A step at p goes on to q, or fails: for a reason, or with its request.
Passes(p, q) == at = p /\ at' = q /\ UNCHANGED error
Fails(p) == at = p /\ at' = "failed" /\ error' = p

Check(p, ok, q) ==
    /\ \/ ok /\ Passes(p, q)
       \/ ~ok /\ Fails(p)
       \/ account.outage /\ Fails(p)
    /\ UNCHANGED <<template, account, candidates, derived, group_of, definition, news>>

\* The first of several groups of the name given is taken.
VerifyResourceGroup ==
    LET byName == template.group_name /\ template.group_id = ""
        known == /\ ~(template.group_name /\ template.group_id # "")
                 /\ byName => account.named # <<>>
                 /\ template.group_id # "" => template.group_id \in account.groups
    IN  /\ \/ /\ known
              /\ Passes("verify.group", "verify.source")
              /\ derived' = IF byName THEN account.named[1] ELSE ""
           \/ /\ ~known \/ account.outage
              /\ Fails("verify.group")
              /\ UNCHANGED derived
        /\ UNCHANGED <<template, account, candidates, group_of, definition, news>>

\* Mutant: a volume somebody uses will do.
VerifySourceFound ==
    Check("verify.source",
          /\ "boot_volume" \in template.source => account.volume \in {"unattached", "attached"}
          /\ "snapshot" \in template.source => account.snapshot = "bootable",
          "verify.image")

\* The boot volume or the snapshot is there, bootable and unattached.
VerifySource ==
    Check("verify.source",
          /\ "boot_volume" \in template.source => account.volume = "unattached"
          /\ "snapshot" \in template.source => account.snapshot = "bootable",
          "verify.image")

\* No image has the name as it was given, no tag is blank.
VerifyImage ==
    Check("verify.image",
          ImageName(template) \notin account.images /\ template.tags # "blank",
          "verify.security_group")

\* The group's VPC is kept for stepGetSubnetInfo.
VerifySecurityGroup ==
    Check("verify.security_group",
          template.security_group_id # "" =>
              template.security_group_id \in account.security_groups,
          "verify.catalog")

\* verifyCRNs: every CRN that is given is found.
VerifyCRNs ==
    Check("verify.catalog",
          template.source \cap {"catalog_offering", "catalog_version"} # {} => account.catalog,
          "verify.key")

\* verifyEncryptionKeyCRN: a CRN of a key, and the key is listed.
VerifyEncryptionKey ==
    Check("verify.key",
          template.encryption_key # "" => template.encryption_key \in account.keys,
          "getSubnetInfo")

\* All the subnets, and the security group, are in one VPC.
SameVPC ==
    LET ids == SubnetIDs(template)
        groups == IF template.security_group_id = "" THEN {} ELSE {template.security_group_id}
    IN  \A x \in {ids[i] : i \in DOMAIN ids} \cup groups : VpcOf[x] = VpcOf[ids[1]]

GetSubnetInfo ==
    /\ at = "getSubnetInfo"
    /\ \/ /\ SameVPC
          /\ Passes("getSubnetInfo", "getBaseImageID")
          /\ candidates' = DOMAIN SubnetIDs(template)
       \/ /\ ~SameVPC \/ account.outage
          /\ Fails("getSubnetInfo")
          /\ UNCHANGED candidates
    /\ UNCHANGED <<template, account, derived, group_of, definition, news>>

\* A name is looked up, an identifier taken as it is.
GetBaseImageID ==
    Check("getBaseImageID",
          "base_image_name" \in template.source => account.base_image,
          "createSshKeyVPC")

-----------------------------------------------------------------------------
(* The requests. *)

Made(r, g) == group_of' = [group_of EXCEPT ![r] = g]

CreateSSHKeyVPC ==
    /\ \/ /\ Passes("createSshKeyVPC", "createInstance")
          /\ Made("key", template.group_id)
       \/ /\ account.outage
          /\ Fails("createSshKeyVPC")
          /\ UNCHANGED group_of
    /\ UNCHANGED <<template, account, candidates, derived, definition, news>>

\* The subnets are tried in any order; the last one's capacity is enough.
\* The user data file is read now.
CreateInstance ==
    /\ at = "createInstance"
    /\ \E i \in candidates :
         LET d == Definition(template, SubnetIDs(template)[i])
             unread == "file" \in template.user_data /\ account.file # "readable"
         IN  /\ candidates' = candidates \ {i}
             /\ \/ /\ ~unread /\ InstanceTaken(d)
                   /\ \/ Passes("createInstance", "createFloatingIP")
                      \/ candidates' # {} /\ Passes("createInstance", "createInstance")
                   /\ Made("instance", InstanceGroup(template))
                   /\ definition' = d
                \/ /\ ~unread /\ (~InstanceTaken(d) \/ account.outage)
                   /\ Fails("createInstance")
                   /\ definition' = d
                   /\ UNCHANGED group_of
                \/ /\ unread
                   /\ at' = "failed" /\ error' = "file"
                   /\ UNCHANGED <<group_of, definition>>
    /\ UNCHANGED <<template, account, derived, news>>

\* With the instance's group; a private interface has none.
CreateFloatingIP ==
    /\ \/ /\ Passes("createFloatingIP", "createSecurityGroupRules")
          /\ Made("floating_ip", group_of["instance"])
       \/ Passes("createFloatingIP", "createSecurityGroupRules") /\ UNCHANGED group_of
       \/ account.outage /\ Fails("createFloatingIP") /\ UNCHANGED group_of
    /\ UNCHANGED <<template, account, candidates, derived, definition, news>>

\* A group of the build's own in the subnets' VPC, or the one given, which the
\* cloud attaches only to an interface in its VPC.
CreateSecurityGroupRules ==
    LET given == template.security_group_id
        fits == given # "" => VpcOf[given] = VpcOf[definition.subnet]
    IN  /\ at = "createSecurityGroupRules"
        /\ \/ /\ fits
              /\ Passes("createSecurityGroupRules", "captureImage")
              /\ IF given = "" THEN Made("security_group", ResourceGroup(template))
                               ELSE UNCHANGED group_of
           \/ /\ ~fits \/ account.outage
              /\ Fails("createSecurityGroupRules")
              /\ UNCHANGED group_of
        /\ UNCHANGED <<template, account, candidates, derived, definition, news>>

\* The name without what is not allowed in it; the cloud takes no second image
\* of a name, and none without.
CaptureImage ==
    LET name == Canonical[ImageName(template)]
        free == name # "" /\ name \notin account.images
    IN  /\ \/ /\ free
              /\ Passes("captureImage", "done")
              /\ Made("image", ResourceGroup(template))
              /\ account' = [account EXCEPT !.images = @ \cup {name}]
           \/ /\ ~free \/ account.outage
              /\ Fails("captureImage")
              /\ UNCHANGED <<group_of, account>>
        /\ UNCHANGED <<template, candidates, derived, definition, news>>

\* Others attach the volume or take the name, once each.
OthersGoOn ==
    /\ at \notin {"Prepare", "done", "rejected", "failed"}
    /\ \/ /\ account.volume = "unattached"
          /\ account' = [account EXCEPT !.volume = "attached"]
          /\ news' = news \cup {"volume"}
       \/ /\ "image" \notin news
          /\ \E n \in {Canonical[ImageName(template)]} \ ({""} \cup account.images) :
                account' = [account EXCEPT !.images = @ \cup {n}]
          /\ news' = news \cup {"image"}
    /\ UNCHANGED <<template, at, error, candidates, derived, group_of, definition>>

Ended == at \in {"done", "rejected", "failed"} /\ UNCHANGED vars

Next ==
    \/ Prepare
    \/ VerifyResourceGroup \/ VerifySource \/ VerifyImage \/ VerifySecurityGroup
    \/ VerifyCRNs \/ VerifyEncryptionKey \/ GetSubnetInfo \/ GetBaseImageID
    \/ CreateSSHKeyVPC \/ CreateInstance \/ CreateFloatingIP
    \/ CreateSecurityGroupRules \/ CaptureImage
    \/ OthersGoOn \/ Ended

Spec == Init /\ [][Next]_vars

-----------------------------------------------------------------------------
(* Properties. *)

\* A number or profile that is given and that a volume is not asked for with.
Dropped(v, asked) ==
    \/ v.capacity # 0 /\ asked.capacity # v.capacity
    \/ v.profile # "" /\ asked.profile # v.profile
    \/ v.iops # 0 /\ asked.iops # v.iops
    \/ v.bandwidth # 0 /\ asked.bandwidth # v.bandwidth

\* Everything an accepted template says of the volumes and the user data gets
\* into the instance definition, whatever the instance is made from: what
\* Prepare lets through is not dropped on one of the four paths.
NothingDropped ==
    definition.subnet # "" =>
        /\ ~Dropped(template.boot, definition.boot)
        /\ ~Dropped(template.data, definition.data)
        /\ definition.user_data = template.user_data

\* Prepare refuses no template without a reason: something required is absent
\* or there twice, or the request it leads to would drop a setting or be one
\* the cloud does not take.
RejectedForAReason ==
    at = "rejected" =>
        LET t == template IN
        \/ t.absent # {} \/ t.timeout = "text" \/ ~OneSource(t) \/ ~SubnetsAccepted(t)
        \/ t.user_data = {"file", "string"}
        \/ "file" \in t.user_data /\ account.file = "missing"
        \/ Dropped(t.boot, BootVolume(t)) \/ ~VolumeTaken(BootVolume(t))
        \/ Dropped(t.data, DataVolume(t)) \/ ~VolumeTaken(DataVolume(t))

\* What Prepare and the checks let through the cloud takes, later in the build,
\* unless others took the volume or the name meanwhile, the user data file
\* cannot be read, the image named by its identifier is not there, or the
\* image's name is not the one that was looked for.
RefusedLate ==
    (~account.outage /\ error # "none") =>
        CASE error = "createInstance" ->
                \/ "volume" \in news
                \/ template.source = {"base_image_id"} /\ ~account.base_image
          [] error = "captureImage" ->
                \/ "image" \in news
                \/ Canonical[ImageName(template)] # ImageName(template)
          [] OTHER -> error \in Checks \cup {"file"}

\* The groups the template names, by identifier or by name.
NamedGroups ==
    (IF template.group_id # "" THEN {template.group_id} ELSE {})
    \cup (IF template.group_name THEN {account.named[i] : i \in DOMAIN account.named} ELSE {})

\* Every resource is asked for in a group the template names, or in the
\* account's default group; with an identifier all of them are in that group.
GroupsAgree ==
    \A r \in Resources : group_of[r] # "unmade" =>
        /\ group_of[r] \in NamedGroups \cup {""}
        /\ template.group_id # "" => group_of[r] = template.group_id

\* README.md: a resource_group_name is the group to use; only without one the
\* default group is used.
GroupNameHonoured ==
    template.group_name =>
        \A r \in Resources : group_of[r] # "unmade" => group_of[r] # ""
=============================================================================
