--------------------------- MODULE VpcInput_proofs ---------------------------
(***************************************************************************)
(* What VpcInput guarantees for any templates and any accounts: Prepare    *)
(* lets through what the four paths of createInstance can carry, refuses   *)
(* the rest for a reason, and what the checks of the first steps found     *)
(* holds at the requests unless others changed it meanwhile.               *)
(***************************************************************************)
EXTENDS VpcInput, TLAPS

Making == {"createSshKeyVPC", "createInstance", "createFloatingIP",
           "createSecurityGroupRules", "captureImage"}

\* What follows a check, the end excepted.
PastSubnets == {"getBaseImageID"} \cup Making
PastCRNs == {"verify.key", "getSubnetInfo"} \cup PastSubnets
PastImage == {"verify.security_group", "verify.catalog"} \cup PastCRNs
PastSource == {"verify.image"} \cup PastImage

\* Whoever is past Prepare was accepted, the others were not.
Judged ==
    /\ at \notin {"Prepare", "rejected"} => Accepts(template)
    /\ at = "rejected" => ~Accepts(template)
    /\ at \in {"Prepare", "rejected"} => definition.subnet = ""

\* What a check found, as far as it can be told later.
Verified ==
    /\ at \in PastSource =>
        /\ "boot_volume" \in template.source =>
               account.volume = "unattached" \/ "volume" \in news
        /\ "snapshot" \in template.source => account.snapshot = "bootable"
    /\ at \in PastImage => ImageName(template) \notin account.images \/ "image" \in news
    /\ at \in PastCRNs =>
        (template.source \cap {"catalog_offering", "catalog_version"} # {} => account.catalog)
    /\ at \in PastSubnets => SameVPC
    /\ at \in Making => ("base_image_name" \in template.source => account.base_image)

\* The instance is in the subnets' VPC.
Placed ==
    at \in {"createFloatingIP", "createSecurityGroupRules", "captureImage"} =>
        VpcOf[definition.subnet] = VpcOf[SubnetIDs(template)[1]]

\* A derived group is one of those with the name given, and the only group the
\* template names.
Derived ==
    derived # "" =>
        /\ template.group_id = ""
        /\ template.group_name
        /\ \E i \in DOMAIN account.named : derived = account.named[i]

IInv ==
    /\ TypeOK
    /\ Judged /\ Verified /\ Placed /\ Derived
    /\ GroupsAgree /\ RefusedLate

-----------------------------------------------------------------------------
(* Prepare. *)

\* The template is one of the cases', and its parts have their types.
LEMMA Parts ==
    ASSUME TypeOK
    PROVE  /\ template.boot \in Volumes /\ template.data \in Volumes
           /\ template.source \subseteq Sources
           /\ template.subnet_ids \in Seq(Subnets \cup {""})
           /\ template.subnet_id \in Subnets \cup {""}
           /\ template.group_id \in Groups \cup {""}
           /\ template.image_name \in Names \cup {""}
           /\ template.security_group_id \in SecurityGroups \cup {""}
BY DEF TypeOK, TemplateSpace

\* A number is either not negative, and then zero or positive, or none of these.
LEMMA Sign ==
    ASSUME NEW i \in Int
    PROVE  i >= 0 <=> i = 0 \/ i > 0
OBVIOUS

\* A volume that is asked for as it was accepted is one the cloud takes.
LEMMA FilledTaken ==
    ASSUME NEW v \in Volumes, VolumeAccepted(v)
    PROVE  VolumeTaken(Filled(v))
<1>1. Filled(v).capacity = v.capacity /\ Filled(v).iops = v.iops
  BY DEF Filled, Volumes
<1>2. Filled(v).bandwidth = v.bandwidth
  BY DEF Filled, Volumes
<1>3. Filled(v).profile = IF v.profile = "" THEN "general-purpose" ELSE v.profile
  BY DEF Filled, Volumes
<1>4. v.capacity \in Int /\ v.iops \in Int /\ v.bandwidth \in Int
  BY DEF Volumes
<1>5. v.capacity = 0 \/ v.capacity \in MinCapacity..MaxCapacity
  BY Zenon DEF VolumeAccepted
<1>6. Filled(v).profile \in Profiles
  BY <1>3 DEF VolumeAccepted, Profiles
<1>7. v.iops = 0 \/ (v.iops > 0 /\ Filled(v).profile \in {"custom", "sdp"})
  <2>1. v.iops = 0 \/ v.iops > 0
    BY <1>4, Sign, Zenon DEF VolumeAccepted
  <2>2. v.iops # 0 => v.profile \in {"custom", "sdp"}
    BY Zenon DEF VolumeAccepted
  <2> QED BY <1>3, <2>1, <2>2, Zenon
<1>8. v.bandwidth = 0 \/ (v.bandwidth > 0 /\ Filled(v).profile = "sdp")
  <2>1. v.bandwidth = 0 \/ v.bandwidth > 0
    BY <1>4, Sign, Zenon DEF VolumeAccepted
  <2>2. v.bandwidth # 0 => v.profile = "sdp"
    BY Zenon DEF VolumeAccepted
  <2> QED BY <1>3, <2>1, <2>2, Zenon
<1> QED BY <1>1, <1>2, <1>5, <1>6, <1>7, <1>8 DEF VolumeTaken

\* No volume is one the cloud takes.
LEMMA NoVolumeTaken == VolumeTaken(NoVolume)
BY DEF VolumeTaken, NoVolume

\* Of a volume that is asked for nothing is dropped.
LEMMA FilledKeeps ==
    ASSUME NEW v \in Volumes
    PROVE  ~Dropped(v, Filled(v))
BY DEF Dropped, Filled, Volumes

\* Of a volume without a setting nothing can be dropped.
LEMMA NothingToDrop ==
    ASSUME NEW v \in Volumes, ~Tuned(v), v.capacity = 0
    PROVE  ~Dropped(v, NoVolume)
BY DEF Dropped, Tuned, NoVolume

\* And of one with a setting something is.
LEMMA SomethingDropped ==
    ASSUME NEW v \in Volumes, Tuned(v) \/ v.capacity # 0
    PROVE  Dropped(v, NoVolume)
BY DEF Dropped, Tuned, NoVolume

\* The boot volume of an accepted template is asked for as given, and taken.
LEMMA BootCarried ==
    ASSUME TypeOK, Accepts(template)
    PROVE  /\ ~Dropped(template.boot, BootVolume(template))
           /\ VolumeTaken(BootVolume(template))
<1>1. template.boot \in Volumes
  BY Parts
<1>2. BootAccepted(template) /\ VolumeAccepted(template.boot)
  BY DEF Accepts, BootAccepted
<1>3. CASE BootVolume(template) = Filled(template.boot)
  BY <1>1, <1>2, <1>3, FilledTaken, FilledKeeps
<1>4. CASE /\ BootVolume(template) = NoVolume
           /\ "snapshot" \notin template.source
           /\ "boot_volume" \in template.source \/ template.boot.capacity = 0
  <2>1. ~Tuned(template.boot) /\ template.boot.capacity = 0
    BY <1>2, <1>4 DEF BootAccepted
  <2> QED BY <1>1, <1>4, <2>1, NothingToDrop, NoVolumeTaken
<1> QED BY <1>3, <1>4 DEF BootVolume

\* So is the data volume.
LEMMA DataCarried ==
    ASSUME TypeOK, Accepts(template)
    PROVE  /\ ~Dropped(template.data, DataVolume(template))
           /\ VolumeTaken(DataVolume(template))
<1>1. template.data \in Volumes
  BY Parts
<1>2. DataAccepted(template) /\ VolumeAccepted(template.data)
  BY DEF Accepts, DataAccepted
<1>3. CASE template.data.capacity = 0
  <2>1. ~Tuned(template.data)
    BY <1>2, <1>3 DEF DataAccepted
  <2>2. DataVolume(template) = NoVolume
    BY <1>3 DEF DataVolume
  <2> QED BY <1>1, <1>3, <2>1, <2>2, NothingToDrop, NoVolumeTaken
<1>4. CASE template.data.capacity # 0
  <2>1. DataVolume(template) = Filled(template.data)
    BY <1>4 DEF DataVolume
  <2> QED BY <1>1, <1>2, <2>1, FilledTaken, FilledKeeps
<1> QED BY <1>3, <1>4

\* A volume that is asked for and was not accepted the cloud does not take.
LEMMA RefusedNotTaken ==
    ASSUME NEW v \in Volumes, ~VolumeAccepted(v)
    PROVE  ~VolumeTaken(Filled(v))
<1>1. Filled(v).capacity = v.capacity /\ Filled(v).iops = v.iops
  BY DEF Filled, Volumes
<1>2. Filled(v).bandwidth = v.bandwidth
  BY DEF Filled, Volumes
<1>3. Filled(v).profile = IF v.profile = "" THEN "general-purpose" ELSE v.profile
  BY DEF Filled, Volumes
<1>4. v.capacity \in Int /\ v.iops \in Int /\ v.bandwidth \in Int
  BY DEF Volumes
<1>5. CASE v.capacity # 0 /\ v.capacity \notin MinCapacity..MaxCapacity
  BY <1>1, <1>5 DEF VolumeTaken
<1>6. CASE v.profile # "" /\ v.profile \notin Profiles
  BY <1>3, <1>6 DEF VolumeTaken
<1>7. CASE v.iops # 0 /\ v.profile \notin {"custom", "sdp"}
  BY <1>1, <1>3, <1>7 DEF VolumeTaken
<1>8. CASE v.bandwidth # 0 /\ v.profile # "sdp"
  BY <1>2, <1>3, <1>8 DEF VolumeTaken
<1>9. CASE ~(v.iops >= 0) \/ ~(v.bandwidth >= 0)
  BY <1>1, <1>2, <1>4, <1>9, Sign, Zenon DEF VolumeTaken
<1> QED BY <1>5, <1>6, <1>7, <1>8, <1>9 DEF VolumeAccepted

\* A volume that was not accepted has a setting.
LEMMA RefusedHasSetting ==
    ASSUME NEW v \in Volumes, ~VolumeAccepted(v)
    PROVE  Tuned(v) \/ v.capacity # 0
<1>1. v.capacity \in Int /\ v.iops \in Int /\ v.bandwidth \in Int
  BY DEF Volumes
<1> QED BY <1>1, Sign, Zenon DEF VolumeAccepted, Tuned

\* A template with one source whose boot volume is refused would lose a setting
\* of it, or have it refused by the cloud.
LEMMA BootRefused ==
    ASSUME TypeOK, OneSource(template), ~BootAccepted(template)
    PROVE  \/ Dropped(template.boot, BootVolume(template))
           \/ ~VolumeTaken(BootVolume(template))
<1>1. template.boot \in Volumes
  BY Parts
<1>2. CASE ~VolumeAccepted(template.boot)
  <2>1. CASE BootVolume(template) = Filled(template.boot)
    BY <1>1, <1>2, <2>1, RefusedNotTaken
  <2>2. CASE BootVolume(template) = NoVolume
    BY <1>1, <1>2, <2>2, RefusedHasSetting, SomethingDropped
  <2> QED BY <2>1, <2>2 DEF BootVolume
<1>3. CASE /\ Tuned(template.boot) /\ "snapshot" \notin template.source
           /\ template.boot.capacity = 0
  <2>1. BootVolume(template) = NoVolume
    BY <1>3 DEF BootVolume
  <2> QED BY <1>1, <1>3, <2>1, SomethingDropped
<1>4. CASE /\ "boot_volume" \in template.source
           /\ Tuned(template.boot) \/ template.boot.capacity # 0
  <2>1. "snapshot" \notin template.source
    BY <1>4 DEF OneSource
  <2>2. BootVolume(template) = NoVolume
    BY <1>4, <2>1 DEF BootVolume
  <2> QED BY <1>1, <1>4, <2>2, SomethingDropped
<1> QED BY <1>2, <1>3, <1>4 DEF BootAccepted

\* The same of the data volume.
LEMMA DataRefused ==
    ASSUME TypeOK, ~DataAccepted(template)
    PROVE  \/ Dropped(template.data, DataVolume(template))
           \/ ~VolumeTaken(DataVolume(template))
<1>1. template.data \in Volumes
  BY Parts
<1>2. CASE template.data.capacity = 0
  <2>1. DataVolume(template) = NoVolume
    BY <1>2 DEF DataVolume
  <2>2. Tuned(template.data) \/ ~VolumeAccepted(template.data)
    BY DEF DataAccepted
  <2> QED BY <1>1, <2>1, <2>2, RefusedHasSetting, SomethingDropped
<1>3. CASE template.data.capacity # 0
  <2>1. DataVolume(template) = Filled(template.data)
    BY <1>3 DEF DataVolume
  <2>2. ~VolumeAccepted(template.data)
    BY <1>3 DEF DataAccepted
  <2> QED BY <1>1, <2>1, <2>2, RefusedNotTaken
<1> QED BY <1>2, <1>3

\* The elements of a list are in its set, and a list that is not empty has one.
LEMMA Listed ==
    ASSUME NEW S, NEW s \in Seq(S)
    PROVE  /\ \A i \in DOMAIN s : s[i] \in S
           /\ s # <<>> => 1 \in DOMAIN s
<1>1. DOMAIN s = 1..Len(s) /\ Len(s) \in Nat
  OBVIOUS
<1>2. s # <<>> => Len(s) # 0
  OBVIOUS
<1>3. \A i \in 1..Len(s) : s[i] \in S
  OBVIOUS
<1> QED BY <1>1, <1>2, <1>3

\* A list of one.
LEMMA Single ==
    ASSUME NEW S, NEW x \in S
    PROVE  /\ <<x>> \in Seq(S) /\ <<x>> # <<>>
           /\ DOMAIN <<x>> = {1} /\ <<x>>[1] = x
OBVIOUS

\* The subnets are a list of identifiers, some of which may be empty.
LEMMA SubnetList ==
    ASSUME TypeOK
    PROVE  SubnetIDs(template) \in Seq(Subnets \cup {""})
BY Parts, Single, Zenon DEF SubnetIDs

\* An accepted template has subnets, and none of them is empty.
LEMMA HasSubnets ==
    ASSUME TypeOK, Accepts(template)
    PROVE  /\ 1 \in DOMAIN SubnetIDs(template)
           /\ \A i \in DOMAIN SubnetIDs(template) : SubnetIDs(template)[i] \in Subnets
<1>1. SubnetsAccepted(template)
  BY DEF Accepts
<1>2. \A i \in DOMAIN SubnetIDs(template) : SubnetIDs(template)[i] \in Subnets \cup {""}
  BY SubnetList, Listed, Zenon
<1>3. CASE template.subnet_ids = <<>>
  <2>1. template.subnet_id # ""
    BY <1>1, <1>3 DEF SubnetsAccepted
  <2>2. SubnetIDs(template) = <<template.subnet_id>>
    BY <1>3, <2>1 DEF SubnetIDs
  <2>3. DOMAIN <<template.subnet_id>> = {1} /\ <<template.subnet_id>>[1] = template.subnet_id
    BY Parts, Single, Zenon
  <2>4. SubnetIDs(template)[1] \in Subnets
    BY <1>2, <2>1, <2>2, <2>3, Zenon
  <2> QED BY <2>2, <2>3, <2>4, Zenon
<1>4. CASE template.subnet_ids # <<>>
  <2>1. SubnetIDs(template) = template.subnet_ids
    BY <1>4 DEF SubnetIDs
  <2>2. \A i \in DOMAIN SubnetIDs(template) : SubnetIDs(template)[i] # ""
    BY <1>1, <2>1, Zenon DEF SubnetsAccepted
  <2>3. 1 \in DOMAIN SubnetIDs(template)
    BY <1>4, <2>1, SubnetList, Listed, Zenon
  <2> QED BY <1>2, <2>2, <2>3, Zenon
<1> QED BY <1>3, <1>4

-----------------------------------------------------------------------------
(* Type correctness. *)

Checking ==
    \/ VerifySource \/ VerifyImage \/ VerifySecurityGroup
    \/ VerifyCRNs \/ VerifyEncryptionKey \/ GetBaseImageID

\* A check only moves on, or fails where it is.
LEMMA CheckMoves ==
    ASSUME Checking
    PROVE  /\ UNCHANGED <<template, account, candidates, derived, group_of, definition, news>>
           /\ at \in Checks
           /\ \/ at' \in (Checks \ {"verify.group", "verify.source"}) \cup {"createSshKeyVPC"}
                 /\ error' = error
              \/ at' = "failed" /\ error' = at
BY DEF Checking, VerifySource, VerifyImage, VerifySecurityGroup, VerifyCRNs,
       VerifyEncryptionKey, GetBaseImageID, Check, Passes, Fails, Checks

\* The rest of the account stays as it is.
AccountStays ==
    /\ account'.file = account.file
    /\ account'.named = account.named
    /\ account'.snapshot = account.snapshot
    /\ account'.base_image = account.base_image
    /\ account'.catalog = account.catalog
    /\ account'.outage = account.outage

\* Only others' images and the build's own are new, and only others take the
\* volume.
AccountNews ==
    /\ account'.volume = account.volume \/ "volume" \in news'
    /\ account'.images = account.images \/ "image" \in news' \/ at' = "done"
    /\ news \subseteq news'

\* An account with new images, or a volume that was taken, is an account.
LEMMA AccountType ==
    ASSUME NEW a \in AccountSpace, NEW n \in Names,
           NEW b, b = [a EXCEPT !.images = @ \cup {n}] \/ b = [a EXCEPT !.volume = "attached"]
    PROVE  /\ b \in AccountSpace
           /\ b.file = a.file /\ b.named = a.named /\ b.snapshot = a.snapshot
           /\ b.base_image = a.base_image /\ b.catalog = a.catalog /\ b.outage = a.outage
<1>1. a.images \cup {n} \in SUBSET Names
  BY DEF AccountSpace
<1>2. CASE b = [a EXCEPT !.images = @ \cup {n}]
  BY <1>1, <1>2 DEF AccountSpace
<1>3. CASE b = [a EXCEPT !.volume = "attached"]
  BY <1>3 DEF AccountSpace
<1> QED BY <1>2, <1>3

\* The image's name without what is not allowed in it.
LEMMA CanonicalName ==
    ASSUME TypeOK
    PROVE  ImageName(template) \in Names /\ Canonical[ImageName(template)] \in Names \cup {""}
<1>1. ImageName(template) \in Names
  BY Parts, InputAssumption DEF ImageName
<1> QED BY <1>1, InputAssumption

\* No step changes the template, and of the account only what AccountNews says.
LEMMA Frame ==
    ASSUME TypeOK, [Next]_vars
    PROVE  template' = template /\ account' \in AccountSpace /\ AccountStays /\ AccountNews
<1>1. account \in AccountSpace
  BY DEF TypeOK
<1>2. CASE Checking
  BY <1>1, <1>2, CheckMoves DEF AccountStays, AccountNews
<1>3. CASE CaptureImage
  <2>1. PICK ok \in BOOLEAN :
          IF ok THEN /\ account' = [account EXCEPT !.images = @ \cup {Canonical[ImageName(template)]}]
                     /\ Canonical[ImageName(template)] # "" /\ at' = "done"
                ELSE account' = account
    BY <1>3 DEF CaptureImage, Passes
  <2>2. UNCHANGED <<template, news>>
    BY <1>3 DEF CaptureImage
  <2>3. CASE ok
    <3>1. Canonical[ImageName(template)] \in Names
      BY <2>1, <2>3, CanonicalName
    <3>2. account' = [account EXCEPT !.images = @ \cup {Canonical[ImageName(template)]}]
      BY <2>1, <2>3
    <3>3. account'.volume = account.volume
      BY <1>1, <3>2 DEF AccountSpace
    <3>4. account' \in AccountSpace /\ AccountStays
      BY <1>1, <3>1, <3>2, AccountType DEF AccountStays
    <3> QED BY <2>1, <2>2, <2>3, <3>3, <3>4 DEF AccountNews
  <2>4. CASE ~ok
    BY <1>1, <2>1, <2>2, <2>4 DEF AccountStays, AccountNews
  <2> QED BY <2>3, <2>4
<1>4. CASE OthersGoOn
  <2>1. template' = template
    BY <1>4 DEF OthersGoOn
  <2>2. CASE account' = [account EXCEPT !.volume = "attached"] /\ news' = news \cup {"volume"}
    <3>1. account'.images = account.images
      BY <1>1, <2>2 DEF AccountSpace
    <3>2. account' \in AccountSpace /\ AccountStays
      BY <1>1, <2>2, InputAssumption, AccountType DEF AccountStays
    <3> QED BY <2>1, <2>2, <3>1, <3>2 DEF AccountNews
  <2>3. CASE /\ \E n \in {Canonical[ImageName(template)]} \ ({""} \cup account.images) :
                   account' = [account EXCEPT !.images = @ \cup {n}]
             /\ news' = news \cup {"image"}
    <3>1. PICK n \in {Canonical[ImageName(template)]} \ ({""} \cup account.images) :
             account' = [account EXCEPT !.images = @ \cup {n}]
      BY <2>3
    <3>2. n \in Names
      BY <3>1, CanonicalName
    <3>3. account'.volume = account.volume
      BY <1>1, <3>1 DEF AccountSpace
    <3>4. account' \in AccountSpace /\ AccountStays
      BY <1>1, <3>1, <3>2, AccountType DEF AccountStays
    <3> QED BY <2>1, <2>3, <3>3, <3>4 DEF AccountNews
  <2> QED BY <1>4, <2>2, <2>3 DEF OthersGoOn
<1>5. CASE Prepare \/ VerifyResourceGroup \/ GetSubnetInfo \/ CreateSSHKeyVPC
           \/ CreateInstance \/ CreateFloatingIP \/ CreateSecurityGroupRules
  <2>1. UNCHANGED <<template, account, news>>
    BY <1>5 DEF Prepare, VerifyResourceGroup, GetSubnetInfo, CreateSSHKeyVPC,
                CreateInstance, CreateFloatingIP, CreateSecurityGroupRules
  <2> QED BY <1>1, <2>1 DEF AccountStays, AccountNews
<1>6. CASE UNCHANGED vars
  BY <1>1, <1>6 DEF vars, AccountStays, AccountNews
<1> QED BY <1>2, <1>3, <1>4, <1>5, <1>6 DEF Next, Ended, Checking

\* The point of a run and the place of its error stay what they may be.
LEMMA PlaceType ==
    ASSUME TypeOK, [Next]_vars
    PROVE  /\ at' \in {"Prepare", "done", "rejected", "failed"} \cup Checks \cup Requests
           /\ error' \in Checks \cup Requests \cup {"none", "file"}
           /\ news' \subseteq {"volume", "image"}
<1> USE DEF Passes, Fails, Checks, Requests
<1>0. /\ at \in {"Prepare", "done", "rejected", "failed"} \cup Checks \cup Requests
      /\ error \in Checks \cup Requests \cup {"none", "file"}
      /\ news \subseteq {"volume", "image"}
  BY DEF TypeOK
<1>1. CASE Prepare
  BY <1>0, <1>1 DEF Prepare
<1>2. CASE VerifyResourceGroup
  BY <1>0, <1>2 DEF VerifyResourceGroup
<1>3. CASE Checking
  BY <1>0, <1>3, CheckMoves
<1>4. CASE GetSubnetInfo
  BY <1>0, <1>4 DEF GetSubnetInfo
<1>5. CASE CreateSSHKeyVPC
  BY <1>0, <1>5 DEF CreateSSHKeyVPC
<1>6. CASE CreateInstance
  BY <1>0, <1>6 DEF CreateInstance
<1>7. CASE CreateFloatingIP
  BY <1>0, <1>7 DEF CreateFloatingIP
<1>8. CASE CreateSecurityGroupRules
  BY <1>0, <1>8 DEF CreateSecurityGroupRules
<1>9. CASE CaptureImage
  BY <1>0, <1>9 DEF CaptureImage
<1>10. CASE OthersGoOn
  BY <1>0, <1>10 DEF OthersGoOn
<1>11. CASE UNCHANGED vars
  BY <1>0, <1>11 DEF vars
<1> QED BY <1>1, <1>2, <1>3, <1>4, <1>5, <1>6, <1>7, <1>8, <1>9, <1>10, <1>11
        DEF Next, Ended, Checking

\* A derived group is the first of those with the name given.
LEMMA DerivedType ==
    ASSUME TypeOK, [Next]_vars
    PROVE  derived' = derived \/
             /\ at = "verify.group"
             /\ derived' = "" \/
                  /\ template.group_name /\ template.group_id = ""
                  /\ 1 \in DOMAIN account.named
                  /\ derived' = account.named[1] /\ account.named[1] \in Groups
<1>1. CASE VerifyResourceGroup
  <2>1. account.named \in Seq(Groups)
    BY DEF TypeOK, AccountSpace
  <2>2. account.named # <<>> => 1 \in DOMAIN account.named /\ account.named[1] \in Groups
    BY <2>1, Listed, Zenon
  <2> QED BY <1>1, <2>2 DEF VerifyResourceGroup, Passes, Fails
<1>2. CASE ~VerifyResourceGroup
  <2>1. CASE Checking
    BY <2>1, CheckMoves
  <2>2. CASE Prepare \/ GetSubnetInfo \/ CreateSSHKeyVPC \/ CreateInstance
             \/ CreateFloatingIP \/ CreateSecurityGroupRules \/ CaptureImage \/ OthersGoOn
    BY <2>2 DEF Prepare, GetSubnetInfo, CreateSSHKeyVPC, CreateInstance, CreateFloatingIP,
                CreateSecurityGroupRules, CaptureImage, OthersGoOn
  <2>3. CASE UNCHANGED vars
    BY <2>3 DEF vars
  <2> QED BY <1>2, <2>1, <2>2, <2>3 DEF Next, Ended, Checking
<1> QED BY <1>1, <1>2

\* At most one resource is asked for in a step, in one of these groups.
LEMMA GroupsMade ==
    ASSUME TypeOK, [Next]_vars
    PROVE  \/ group_of' = group_of
           \/ \E r \in Resources :
                \E g \in {template.group_id, ResourceGroup(template), group_of["instance"]} :
                    group_of' = [group_of EXCEPT ![r] = g]
<1> USE DEF Made
<1>1. CASE CreateSSHKeyVPC
  <2>1. "key" \in Resources
    BY DEF Resources
  <2> QED BY <1>1, <2>1 DEF CreateSSHKeyVPC
<1>2. CASE CreateInstance
  <2>1. "instance" \in Resources
    BY DEF Resources
  <2> QED BY <1>2, <2>1 DEF CreateInstance, InstanceGroup
<1>3. CASE CreateFloatingIP
  <2>1. "floating_ip" \in Resources
    BY DEF Resources
  <2> QED BY <1>3, <2>1 DEF CreateFloatingIP
<1>4. CASE CreateSecurityGroupRules
  <2>1. "security_group" \in Resources
    BY DEF Resources
  <2> QED BY <1>4, <2>1 DEF CreateSecurityGroupRules
<1>5. CASE CaptureImage
  <2>1. "image" \in Resources
    BY DEF Resources
  <2> QED BY <1>5, <2>1 DEF CaptureImage
<1>6. CASE Checking
  BY <1>6, CheckMoves
<1>7. CASE Prepare \/ VerifyResourceGroup \/ GetSubnetInfo \/ OthersGoOn
  BY <1>7 DEF Prepare, VerifyResourceGroup, GetSubnetInfo, OthersGoOn
<1>8. CASE UNCHANGED vars
  BY <1>8 DEF vars
<1> QED BY <1>1, <1>2, <1>3, <1>4, <1>5, <1>6, <1>7, <1>8 DEF Next, Ended, Checking

\* Only createInstance defines an instance, in a subnet not tried before, and
\* only GetSubnetInfo gives it subnets to try.
LEMMA Defined ==
    ASSUME TypeOK, [Next]_vars
    PROVE  /\ candidates' \subseteq DOMAIN SubnetIDs(template)
           /\ \/ definition' = definition
              \/ /\ at = "createInstance"
                 /\ \E i \in candidates : definition' = Definition(template, SubnetIDs(template)[i])
<1>0. candidates \subseteq DOMAIN SubnetIDs(template)
  BY DEF TypeOK
<1>1. CASE GetSubnetInfo
  BY <1>0, <1>1 DEF GetSubnetInfo
<1>2. CASE CreateInstance
  <2>1. PICK i \in candidates :
          /\ candidates' = candidates \ {i}
          /\ definition' = definition \/ definition' = Definition(template, SubnetIDs(template)[i])
    BY <1>2 DEF CreateInstance
  <2> QED BY <1>0, <1>2, <2>1 DEF CreateInstance
<1>3. CASE Checking
  BY <1>0, <1>3, CheckMoves
<1>4. CASE Prepare \/ VerifyResourceGroup \/ CreateSSHKeyVPC \/ CreateFloatingIP
           \/ CreateSecurityGroupRules \/ CaptureImage \/ OthersGoOn
  BY <1>0, <1>4 DEF Prepare, VerifyResourceGroup, CreateSSHKeyVPC, CreateFloatingIP,
                    CreateSecurityGroupRules, CaptureImage, OthersGoOn
<1>5. CASE UNCHANGED vars
  BY <1>0, <1>5 DEF vars
<1> QED BY <1>1, <1>2, <1>3, <1>4, <1>5 DEF Next, Ended, Checking

\* Every step keeps the types.
LEMMA TypeStep ==
    ASSUME TypeOK, [Next]_vars
    PROVE  TypeOK'
<1>1. template' = template /\ account' \in AccountSpace
  BY Frame
<1>2. template' \in TemplateSpace
  BY <1>1 DEF TypeOK
<1>3. /\ at' \in {"Prepare", "done", "rejected", "failed"} \cup Checks \cup Requests
      /\ error' \in Checks \cup Requests \cup {"none", "file"}
      /\ news' \subseteq {"volume", "image"}
  BY PlaceType
<1>4. derived' \in Groups \cup {""}
  BY DerivedType DEF TypeOK
<1>5. group_of' \in [Resources -> Groups \cup {"", "unmade"}]
  <2>1. /\ template.group_id \in Groups \cup {"", "unmade"}
        /\ ResourceGroup(template) \in Groups \cup {"", "unmade"}
    BY Parts DEF ResourceGroup, TypeOK
  <2>2. group_of["instance"] \in Groups \cup {"", "unmade"}
    BY DEF TypeOK, Resources
  <2>3. group_of \in [Resources -> Groups \cup {"", "unmade"}]
    BY DEF TypeOK
  <2> QED BY <2>1, <2>2, <2>3, GroupsMade
<1>6. candidates' \subseteq DOMAIN SubnetIDs(template')
  BY <1>1, Defined
<1>7. definition' \in {Definition(template', s) : s \in Subnets \cup {""}}
  <2>1. CASE definition' = definition
    BY <1>1, <2>1 DEF TypeOK
  <2>2. CASE \E i \in candidates : definition' = Definition(template, SubnetIDs(template)[i])
    <3>1. PICK i \in candidates : definition' = Definition(template, SubnetIDs(template)[i])
      BY <2>2
    <3>2. i \in DOMAIN SubnetIDs(template)
      BY <3>1 DEF TypeOK
    <3>3. SubnetIDs(template)[i] \in Subnets \cup {""}
      BY <3>2, SubnetList, Listed, Zenon
    <3> QED BY <1>1, <3>1, <3>3
  <2> QED BY <2>1, <2>2, Defined
<1>8. SubnetIDs(template)' = SubnetIDs(template')
  BY DEF SubnetIDs
<1>9. \A s : Definition(template, s)' = Definition(template', s)
  BY DEF Definition, BootVolume, DataVolume, Filled, NoVolume
<1> QED BY <1>1, <1>2, <1>3, <1>4, <1>5, <1>6, <1>7, <1>8, <1>9 DEF TypeOK

-----------------------------------------------------------------------------
(* The inductive invariant. *)

\* It holds at first.
LEMMA InitIInv == Init => IInv
<1> SUFFICES ASSUME Init PROVE IInv
  OBVIOUS
<1>1. PICK c \in Cases : template = c.template /\ account = c.account
  BY DEF Init
<1>2. template \in TemplateSpace /\ account \in AccountSpace
  BY <1>1, InputAssumption
<1>3. /\ at = "Prepare" /\ error = "none" /\ candidates = {} /\ derived = "" /\ news = {}
      /\ group_of = [r \in Resources |-> "unmade"]
      /\ definition = Definition(template, "")
  BY DEF Init
<1>4. definition \in {Definition(template, s) : s \in Subnets \cup {""}}
  BY <1>3
<1>5. group_of \in [Resources -> Groups \cup {"", "unmade"}]
  BY <1>3
<1>6. TypeOK
  BY <1>2, <1>3, <1>4, <1>5 DEF TypeOK
<1>7. definition.subnet = ""
  BY <1>3 DEF Definition
<1>8. Judged /\ Verified /\ Placed /\ Derived
  BY <1>3, <1>7 DEF Judged, Verified, Placed, Derived, PastSource, PastImage, PastCRNs,
                    PastSubnets, Making
<1>9. GroupsAgree /\ RefusedLate
  BY <1>3 DEF GroupsAgree, RefusedLate
<1> QED BY <1>6, <1>8, <1>9 DEF IInv

\* Prepare's verdict does not change while the account does.
LEMMA SameVerdict ==
    ASSUME template' = template, AccountStays
    PROVE  Accepts(template)' <=> Accepts(template)
BY DEF AccountStays, Accepts, SubnetsAccepted, OneSource, BootAccepted, DataAccepted,
       VolumeAccepted, Tuned, Profiles, Sources, MinCapacity, MaxCapacity

\* But for Prepare no step leaves or reaches Prepare's points.
LEMMA PastPrepare ==
    ASSUME TypeOK, [Next]_vars, ~Prepare, ~UNCHANGED vars
    PROVE  at \notin {"Prepare", "rejected"} /\ at' \notin {"Prepare", "rejected"}
<1> USE DEF Passes, Fails
<1>1. CASE Checking
  BY <1>1, CheckMoves DEF Checks
<1>2. CASE VerifyResourceGroup \/ GetSubnetInfo \/ CreateSSHKeyVPC
  BY <1>2 DEF VerifyResourceGroup, GetSubnetInfo, CreateSSHKeyVPC
<1>3. CASE CreateInstance
  BY <1>3 DEF CreateInstance
<1>4. CASE CreateFloatingIP \/ CreateSecurityGroupRules
  BY <1>4 DEF CreateFloatingIP, CreateSecurityGroupRules
<1>5. CASE CaptureImage \/ OthersGoOn
  BY <1>5 DEF CaptureImage, OthersGoOn
<1> QED BY <1>1, <1>2, <1>3, <1>4, <1>5 DEF Next, Ended, Checking

\* Whoever is past Prepare was accepted.
LEMMA JudgedStep ==
    ASSUME TypeOK, Judged, [Next]_vars
    PROVE  Judged'
<1>1. template' = template /\ AccountStays
  BY Frame
<1>2. Accepts(template)' <=> Accepts(template)
  BY <1>1, SameVerdict
<1>3. CASE Prepare
  BY <1>2, <1>3 DEF Judged, Prepare
<1>4. CASE UNCHANGED vars
  BY <1>2, <1>4 DEF Judged, vars
<1>5. CASE ~Prepare /\ ~UNCHANGED vars
  BY <1>2, <1>5, PastPrepare DEF Judged
<1> QED BY <1>3, <1>4, <1>5

\* A derived group stays one of those with the name given.
LEMMA DerivedStep ==
    ASSUME TypeOK, Derived, [Next]_vars
    PROVE  Derived'
<1>1. template' = template /\ account'.named = account.named
  BY Frame DEF AccountStays
<1>2. CASE derived' = derived
  BY <1>1, <1>2 DEF Derived
<1>3. CASE derived' = ""
  BY <1>3 DEF Derived
<1>4. CASE /\ template.group_name /\ template.group_id = ""
           /\ 1 \in DOMAIN account.named /\ derived' = account.named[1]
  BY <1>1, <1>4 DEF Derived
<1> QED BY <1>2, <1>3, <1>4, DerivedType

\* The group of a resource is a named one or the default.
LEMMA GroupsStep ==
    ASSUME TypeOK, Derived, GroupsAgree, [Next]_vars
    PROVE  GroupsAgree'
<1>1. template' = template /\ account'.named = account.named
  BY Frame DEF AccountStays
<1>2. NamedGroups' = NamedGroups
  BY <1>1 DEF NamedGroups
<1> DEFINE Agrees(g) == /\ g \in NamedGroups \cup {""}
                        /\ template.group_id # "" => g = template.group_id
<1>3. Agrees(template.group_id)
  BY DEF NamedGroups
<1>4. Agrees(ResourceGroup(template))
  BY <1>3 DEF ResourceGroup, Derived, NamedGroups
<1>5. "instance" \in Resources
  BY DEF Resources
<1>6. group_of["instance"] = "unmade" \/ Agrees(group_of["instance"])
  BY <1>5 DEF GroupsAgree
<1>7. \A r \in Resources : group_of'[r] = "unmade" \/ Agrees(group_of'[r])
  <2>1. CASE group_of' = group_of
    BY <2>1 DEF GroupsAgree
  <2>2. CASE \E r \in Resources :
                \E g \in {template.group_id, ResourceGroup(template), group_of["instance"]} :
                    group_of' = [group_of EXCEPT ![r] = g]
    <3>1. PICK r \in Resources,
               g \in {template.group_id, ResourceGroup(template), group_of["instance"]} :
                    group_of' = [group_of EXCEPT ![r] = g]
      BY <2>2
    <3>2. g = "unmade" \/ Agrees(g)
      BY <1>3, <1>4, <1>6, <3>1
    <3> SUFFICES ASSUME NEW q \in Resources
                 PROVE  group_of'[q] = "unmade" \/ Agrees(group_of'[q])
      OBVIOUS
    <3>3. group_of'[q] = g \/ group_of'[q] = group_of[q]
      BY <3>1 DEF TypeOK
    <3> QED BY <3>2, <3>3 DEF GroupsAgree
  <2> QED BY <2>1, <2>2, GroupsMade
<1> QED BY <1>1, <1>2, <1>7 DEF GroupsAgree

\* What each check asks for before it lets a run past it.
SourceFound ==
    /\ "boot_volume" \in template.source => account.volume = "unattached"
    /\ "snapshot" \in template.source => account.snapshot = "bootable"

ImageNameFree == ImageName(template) \notin account.images

CatalogFound ==
    template.source \cap {"catalog_offering", "catalog_version"} # {} => account.catalog

BaseImageFound == "base_image_name" \in template.source => account.base_image

\* A run gets past a check only through it.
LEMMA Passed ==
    ASSUME TypeOK, [Next]_vars
    PROVE  /\ at' \in PastSource => at \in PastSource \/ SourceFound
           /\ at' \in PastImage => at \in PastImage \/ ImageNameFree
           /\ at' \in PastCRNs => at \in PastCRNs \/ CatalogFound
           /\ at' \in PastSubnets => at \in PastSubnets \/ SameVPC
           /\ at' \in Making => at \in Making \/ BaseImageFound
<1> USE DEF Passes, Fails, PastSource, PastImage, PastCRNs, PastSubnets, Making
<1>1. CASE VerifySource
  BY <1>1 DEF VerifySource, Check, SourceFound
<1>2. CASE VerifyImage
  BY <1>2 DEF VerifyImage, Check, ImageNameFree
<1>3. CASE VerifyCRNs
  BY <1>3 DEF VerifyCRNs, Check, CatalogFound
<1>4. CASE GetSubnetInfo
  BY <1>4 DEF GetSubnetInfo
<1>5. CASE GetBaseImageID
  BY <1>5 DEF GetBaseImageID, Check, BaseImageFound
<1>6. CASE VerifySecurityGroup \/ VerifyEncryptionKey
  BY <1>6 DEF VerifySecurityGroup, VerifyEncryptionKey, Check
<1>7. CASE Prepare \/ VerifyResourceGroup
  BY <1>7 DEF Prepare, VerifyResourceGroup
<1>8. CASE CreateSSHKeyVPC \/ CreateInstance
  BY <1>8 DEF CreateSSHKeyVPC, CreateInstance
<1>9. CASE CreateFloatingIP \/ CreateSecurityGroupRules
  BY <1>9 DEF CreateFloatingIP, CreateSecurityGroupRules
<1>10. CASE CaptureImage \/ OthersGoOn
  BY <1>10 DEF CaptureImage, OthersGoOn
<1>11. CASE UNCHANGED vars
  BY <1>11 DEF vars
<1> QED BY <1>1, <1>2, <1>3, <1>4, <1>5, <1>6, <1>7, <1>8, <1>9, <1>10, <1>11
        DEF Next, Ended

\* What a check found stays so, or is news.
LEMMA VerifiedStep ==
    ASSUME TypeOK, Verified, [Next]_vars
    PROVE  Verified'
<1>1. template' = template /\ AccountStays /\ AccountNews
  BY Frame
<1>2. at' \in PastSource =>
        /\ "boot_volume" \in template.source =>
               account'.volume = "unattached" \/ "volume" \in news'
        /\ "snapshot" \in template.source => account'.snapshot = "bootable"
  BY <1>1, Passed DEF Verified, SourceFound, AccountStays, AccountNews
<1>3. at' \in PastImage => ImageName(template) \notin account'.images \/ "image" \in news'
  <2>1. "done" \notin PastImage
    BY DEF PastImage, PastCRNs, PastSubnets, Making
  <2> QED BY <1>1, <2>1, Passed DEF Verified, ImageNameFree, AccountNews
<1>4. at' \in PastCRNs =>
        (template.source \cap {"catalog_offering", "catalog_version"} # {} => account'.catalog)
  BY <1>1, Passed, Zenon DEF Verified, CatalogFound, AccountStays
<1>5. at' \in PastSubnets => SameVPC
  BY Passed DEF Verified
<1>6. at' \in Making => ("base_image_name" \in template.source => account'.base_image)
  BY <1>1, Passed, Zenon DEF Verified, BaseImageFound, AccountStays
<1>7. SameVPC' <=> SameVPC
  BY <1>1 DEF SameVPC, SubnetIDs
<1>8. ImageName(template)' = ImageName(template)
  BY <1>1 DEF ImageName
<1> QED BY <1>1, <1>2, <1>3, <1>4, <1>5, <1>6, <1>7, <1>8 DEF Verified

\* The subnets of a run past GetSubnetInfo, and its security group, are in the
\* first subnet's VPC.
LEMMA OneVPC ==
    ASSUME TypeOK, SameVPC
    PROVE  /\ \A i \in DOMAIN SubnetIDs(template) :
                 VpcOf[SubnetIDs(template)[i]] = VpcOf[SubnetIDs(template)[1]]
           /\ template.security_group_id # "" =>
                 VpcOf[template.security_group_id] = VpcOf[SubnetIDs(template)[1]]
BY DEF SameVPC

\* The instance is in the subnets' VPC.
LEMMA PlacedStep ==
    ASSUME TypeOK, Verified, Placed, [Next]_vars
    PROVE  Placed'
<1> DEFINE After == {"createFloatingIP", "createSecurityGroupRules", "captureImage"}
<1>1. template' = template
  BY Frame
<1>2. VpcOf[SubnetIDs(template)[1]]' = VpcOf[SubnetIDs(template)[1]]
  BY <1>1 DEF SubnetIDs
<1>3. CASE CreateInstance
  <2>1. at = "createInstance"
    BY <1>3 DEF CreateInstance
  <2>2. SameVPC
    BY <2>1 DEF Verified, PastSubnets, Making
  <2>3. at' \in After =>
          \E i \in candidates : definition' = Definition(template, SubnetIDs(template)[i])
    BY <1>3 DEF CreateInstance, Passes, Fails
  <2>4. \A i \in candidates : VpcOf[SubnetIDs(template)[i]] = VpcOf[SubnetIDs(template)[1]]
    BY <2>2, OneVPC DEF TypeOK
  <2>5. \A s : Definition(template, s).subnet = s
    BY DEF Definition
  <2> QED BY <1>2, <2>3, <2>4, <2>5 DEF Placed
<1>4. CASE ~CreateInstance
  <2>1. definition' = definition /\ (at' \in After => at \in After)
    <3> USE DEF Passes, Fails
    <3>1. CASE Checking
      BY <3>1, CheckMoves DEF Checks
    <3>2. CASE Prepare \/ VerifyResourceGroup \/ GetSubnetInfo \/ CreateSSHKeyVPC
      BY <3>2 DEF Prepare, VerifyResourceGroup, GetSubnetInfo, CreateSSHKeyVPC
    <3>3. CASE CreateFloatingIP \/ CreateSecurityGroupRules
      BY <3>3 DEF CreateFloatingIP, CreateSecurityGroupRules
    <3>4. CASE CaptureImage \/ OthersGoOn
      BY <3>4 DEF CaptureImage, OthersGoOn
    <3>5. CASE UNCHANGED vars
      BY <3>5 DEF vars
    <3> QED BY <1>4, <3>1, <3>2, <3>3, <3>4, <3>5 DEF Next, Ended, Checking
  <2> QED BY <1>2, <2>1 DEF Placed
<1> QED BY <1>3, <1>4

\* What createInstance asks for in a subnet the cloud takes, unless somebody
\* took the volume or the image of the template's identifier is not there.
LEMMA Taken ==
    ASSUME TypeOK, Judged, Verified, at = "createInstance", NEW i \in candidates
    PROVE  \/ InstanceTaken(Definition(template, SubnetIDs(template)[i]))
           \/ "volume" \in news
           \/ template.source = {"base_image_id"} /\ ~account.base_image
<1> DEFINE d == Definition(template, SubnetIDs(template)[i])
<1>1. d.boot = BootVolume(template) /\ d.data = DataVolume(template)
      /\ d.subnet = SubnetIDs(template)[i]
  BY DEF Definition
<1>2. Accepts(template)
  BY DEF Judged
<1>3. VolumeTaken(d.boot) /\ VolumeTaken(d.data)
  BY <1>1, <1>2, BootCarried, DataCarried
<1>4. SameVPC
  BY DEF Verified, PastSubnets, Making
<1>5. VpcOf[d.subnet] = VpcOf[SubnetIDs(template)[1]]
  BY <1>1, <1>4, OneVPC DEF TypeOK
<1>6. \/ SourceThere(template)
      \/ "volume" \in news
      \/ template.source = {"base_image_id"} /\ ~account.base_image
  <2>1. PICK s \in Sources : template.source = {s}
    BY <1>2 DEF Accepts, OneSource
  <2>2. at \in Making /\ at \in PastCRNs /\ at \in PastSource
    BY DEF Making, PastSource, PastImage, PastCRNs, PastSubnets
  <2>3. CASE s = "boot_volume"
    BY <2>1, <2>2, <2>3 DEF Verified, SourceThere
  <2>4. CASE s = "snapshot"
    BY <2>1, <2>2, <2>4 DEF Verified, SourceThere
  <2>5. CASE s \in {"catalog_offering", "catalog_version"}
    <3>1. account.catalog
      BY <2>1, <2>2, <2>5 DEF Verified
    <3>2. /\ template.source \subseteq {"catalog_offering", "catalog_version"}
          /\ template.source # {"boot_volume"} /\ template.source # {"snapshot"}
      BY <2>1, <2>5
    <3> QED BY <3>1, <3>2 DEF SourceThere
  <2>6. CASE s \in {"base_image_id", "base_image_name"}
    <3>1. /\ ~(template.source \subseteq {"catalog_offering", "catalog_version"})
          /\ template.source # {"boot_volume"} /\ template.source # {"snapshot"}
      BY <2>1, <2>6
    <3>2. SourceThere(template) <=> account.base_image
      BY <3>1 DEF SourceThere
    <3>3. s = "base_image_name" => account.base_image
      BY <2>1, <2>2 DEF Verified
    <3> QED BY <2>1, <2>6, <3>2, <3>3
  <2> QED BY <2>1, <2>3, <2>4, <2>5, <2>6 DEF Sources
<1> QED BY <1>3, <1>5, <1>6 DEF InstanceTaken

\* Without an outage a run fails for nothing else.
LEMMA Refusal ==
    ASSUME TypeOK, Judged, Verified, Placed, [Next]_vars, error' # error, ~account.outage
    PROVE  \/ error' \in Checks \cup {"file"}
           \/ /\ error' = "createInstance"
              /\ "volume" \in news \/ (template.source = {"base_image_id"} /\ ~account.base_image)
           \/ /\ error' = "captureImage"
              /\ "image" \in news \/ Canonical[ImageName(template)] # ImageName(template)
<1> USE DEF Passes, Fails
<1>1. CASE Checking
  BY <1>1, CheckMoves
<1>2. CASE VerifyResourceGroup \/ GetSubnetInfo
  BY <1>2 DEF VerifyResourceGroup, GetSubnetInfo, Checks
<1>3. CASE Prepare \/ CreateSSHKeyVPC \/ CreateFloatingIP \/ OthersGoOn
  BY <1>3 DEF Prepare, CreateSSHKeyVPC, CreateFloatingIP, OthersGoOn
<1>4. CASE UNCHANGED vars
  BY <1>4 DEF vars
<1>5. CASE CreateInstance
  <2>1. at = "createInstance"
    BY <1>5 DEF CreateInstance
  <2>2. \/ error' = "file"
        \/ /\ error' = "createInstance"
           /\ \E i \in candidates :
                 ~InstanceTaken(Definition(template, SubnetIDs(template)[i]))
    BY <1>5 DEF CreateInstance
  <2> QED BY <2>1, <2>2, Taken
<1>6. CASE CreateSecurityGroupRules
  <2>1. /\ at = "createSecurityGroupRules"
        /\ template.security_group_id # ""
        /\ VpcOf[template.security_group_id] # VpcOf[definition.subnet]
    BY <1>6 DEF CreateSecurityGroupRules
  <2>2. SameVPC
    BY <2>1 DEF Verified, PastSubnets, Making
  <2> QED BY <2>1, <2>2, OneVPC DEF Placed
<1>7. CASE CaptureImage
  <2>1. /\ at = "captureImage" /\ error' = "captureImage"
        /\ \/ Canonical[ImageName(template)] = ""
           \/ Canonical[ImageName(template)] \in account.images
    BY <1>7 DEF CaptureImage
  <2>2. ImageName(template) # ""
    BY CanonicalName, InputAssumption
  <2>3. ImageName(template) \notin account.images \/ "image" \in news
    BY <2>1 DEF Verified, PastImage, PastCRNs, PastSubnets, Making
  <2> QED BY <2>1, <2>2, <2>3
<1> QED BY <1>1, <1>2, <1>3, <1>4, <1>5, <1>6, <1>7 DEF Next, Ended, Checking

\* A late refusal stays explained.
LEMMA RefusedStep ==
    ASSUME TypeOK, Judged, Verified, Placed, RefusedLate, [Next]_vars
    PROVE  RefusedLate'
<1>1. template' = template /\ AccountStays /\ AccountNews
  BY Frame
<1>2. ImageName(template)' = ImageName(template)
  BY <1>1 DEF ImageName
<1>3. account'.outage = account.outage /\ account'.base_image = account.base_image
      /\ news \subseteq news'
  BY <1>1 DEF AccountStays, AccountNews
<1> SUFFICES ASSUME ~account.outage, error' # "none"
             PROVE  CASE error' = "createInstance" ->
                           \/ "volume" \in news'
                           \/ template.source = {"base_image_id"} /\ ~account.base_image
                      [] error' = "captureImage" ->
                           \/ "image" \in news'
                           \/ Canonical[ImageName(template)] # ImageName(template)
                      [] OTHER -> error' \in Checks \cup {"file"}
  BY <1>1, <1>2, <1>3 DEF RefusedLate
<1>4. CASE error' = error
  BY <1>3, <1>4 DEF RefusedLate
<1>5. CASE error' # error
  BY <1>3, <1>5, Refusal DEF Checks
<1> QED BY <1>4, <1>5

\* Every step keeps the invariant.
LEMMA NextIInv == IInv /\ [Next]_vars => IInv'
<1> SUFFICES ASSUME IInv, [Next]_vars PROVE IInv'
  OBVIOUS
<1>1. TypeOK'
  BY TypeStep DEF IInv
<1>2. Judged' /\ Derived'
  BY JudgedStep, DerivedStep DEF IInv
<1>3. Verified' /\ Placed'
  BY VerifiedStep, PlacedStep DEF IInv
<1>4. GroupsAgree'
  BY GroupsStep DEF IInv
<1>5. RefusedLate'
  BY RefusedStep DEF IInv
<1> QED BY <1>1, <1>2, <1>3, <1>4, <1>5 DEF IInv

-----------------------------------------------------------------------------
(* The theorems. *)

\* The inductive invariant holds in every run.
THEOREM Invariance == Spec => []IInv
BY InitIInv, NextIInv, PTL DEF Spec

\* Every variable keeps its type.
THEOREM TypeCorrect == Spec => []TypeOK
<1>1. IInv => TypeOK
  BY DEF IInv
<1> QED BY <1>1, Invariance, PTL

\* Whatever createInstance makes the instance from, it asks for the volumes and
\* the user data exactly as an accepted template gives them.
THEOREM AllCarried == Spec => []NothingDropped
<1>1. IInv => NothingDropped
  <2> SUFFICES ASSUME IInv, definition.subnet # ""
               PROVE  /\ ~Dropped(template.boot, definition.boot)
                      /\ ~Dropped(template.data, definition.data)
                      /\ definition.user_data = template.user_data
    BY DEF NothingDropped
  <2>1. TypeOK /\ Accepts(template)
    BY DEF IInv, Judged
  <2>2. PICK s \in Subnets \cup {""} : definition = Definition(template, s)
    BY <2>1 DEF TypeOK
  <2>3. /\ definition.boot = BootVolume(template)
        /\ definition.data = DataVolume(template)
        /\ definition.user_data = template.user_data
    BY <2>2 DEF Definition
  <2> QED BY <2>1, <2>3, BootCarried, DataCarried
<1> QED BY <1>1, Invariance, PTL

\* Prepare refuses a template only for what is absent or there twice, or what
\* would be dropped from the request or not be taken.
THEOREM Reasons == Spec => []RejectedForAReason
<1>1. IInv => RejectedForAReason
  <2> SUFFICES ASSUME IInv, at = "rejected" PROVE RejectedForAReason
    BY DEF RejectedForAReason
  <2>1. TypeOK /\ ~Accepts(template)
    BY DEF IInv, Judged
  <2>2. OneSource(template) /\ ~BootAccepted(template) =>
          \/ Dropped(template.boot, BootVolume(template))
          \/ ~VolumeTaken(BootVolume(template))
    BY <2>1, BootRefused
  <2>3. ~DataAccepted(template) =>
          \/ Dropped(template.data, DataVolume(template))
          \/ ~VolumeTaken(DataVolume(template))
    BY <2>1, DataRefused
  <2> QED BY <2>1, <2>2, <2>3 DEF Accepts, RejectedForAReason
<1> QED BY <1>1, Invariance, PTL

\* Without an outage the cloud refuses only what others took meanwhile, an
\* image that was never looked for, or a name that was not looked for as it is.
THEOREM CheckedIsTaken == Spec => []RefusedLate
<1>1. IInv => RefusedLate
  BY DEF IInv
<1> QED BY <1>1, Invariance, PTL

\* All resources are in groups the template names or the default one, and with
\* an identifier in that group.
THEOREM OneGroup == Spec => []GroupsAgree
<1>1. IInv => GroupsAgree
  BY DEF IInv
<1> QED BY <1>1, Invariance, PTL
=============================================================================
