------------------------- MODULE VpcContract_proofs -------------------------
(***************************************************************************)
(* Proofs about VpcBuild, concluded: the builder implements BuildContract, *)
(* step by step, for any configurations and under every fault.  The state  *)
(* of the contract is the one VpcBuild maps it to; the liveness part of    *)
(* the contract rests on fairness and is left to TLC.                      *)
(***************************************************************************)
EXTENDS VpcCleanup_proofs

-----------------------------------------------------------------------------
(* The state of the contract. *)

Phase == CASE pc \in EndPoints -> "ended"
           [] pc \in CleanupPoints -> "tearing"
           [] OTHER -> "building"

Machines == {i \in Subnets : Standing(i)}

HeldKinds == (IF fip \in {"pending", "available"} THEN {"floating_ip"} ELSE {})
             \cup (IF sg = "exists" THEN {"security_group"} ELSE {})
             \cup (IF key = "exists" THEN {"ssh_key"} ELSE {})
             \cup (IF keydir THEN {"key_files"} ELSE {})

KeptKinds == (IF fip = "kept" THEN {"floating_ip"} ELSE {})
             \cup (IF sg = "kept" THEN {"security_group"} ELSE {})
             \cup (IF key = "kept" THEN {"ssh_key"} ELSE {})

\* Nothing is kept before its own Cleanup has asked for its deletion.
KeptAfter ==
    /\ fip = "kept" => pc \notin Building \cup {"clean.floatingip"}
    /\ sg = "kept" => pc \notin Building \cup InstanceCleanup
    /\ key = "kept" => pc \notin Building \cup InstanceCleanup \cup {"clean.key"}

\* What the mapping needs beyond Stock: during the build, only the fallback
\* deletes an instance; an instance whose creation was not answered has no
\* group to keep; and a resource is kept once.
Bound ==
    /\ KeptAfter
    /\ \A i \in Subnets : pc \in Building /\ inst[i] = "deleting" => pc = "createInstance.gone"
    /\ lost = "instance" => sg # "exists"

Kept == Stock /\ Bound

LEMMA PhaseIs ==
    /\ pc \in Building => Phase = "building"
    /\ pc \in CleanupPoints => Phase = "tearing"
    /\ pc \in EndPoints => Phase = "ended"
BY DEF Phase, Building, StepNames, InnerPoints, CleanupPoints, EndPoints

LEMMA PhaseWillBe ==
    /\ pc' \in Building => Phase' = "building"
    /\ pc' \in CleanupPoints => Phase' = "tearing"
    /\ pc' \in EndPoints => Phase' = "ended"
BY DEF Phase, Building, StepNames, InnerPoints, CleanupPoints, EndPoints

\* The ways a step keeps the contract.
LEMMA Keeps ==
    ASSUME Phase' = Phase \/ (Phase = "building" /\ Phase' = "tearing")
    PROVE  /\ UNCHANGED <<Machines, HeldKinds, KeptKinds, image, result>> => Contract!Next
           /\ \A i \in Subnets :
                  /\ Phase = "building" /\ image = "none" /\ Machines = {} /\ Machines' = {i}
                  /\ UNCHANGED <<HeldKinds, KeptKinds, image, result>>
                  => Contract!Next
           /\ \A k \in {"floating_ip", "security_group", "ssh_key", "key_files"} :
                  /\ Phase = "building" /\ image = "none"
                  /\ HeldKinds' = HeldKinds \cup {k}
                  /\ UNCHANGED <<Machines, KeptKinds, image, result>>
                  => Contract!Next
           /\ \A k \in HeldKinds :
                  /\ Phase = "tearing" /\ (k = "security_group" => Machines = {})
                  /\ HeldKinds' = HeldKinds \ {k}
                  /\ \/ KeptKinds' = KeptKinds
                     \/ k # "key_files" /\ KeptKinds' = KeptKinds \cup {k}
                  /\ UNCHANGED <<Machines, image, result>>
                  => Contract!Next
           /\ /\ \/ Phase # "building"
                 \/ HeldKinds \subseteq {"ssh_key", "key_files"} /\ image = "none"
              /\ Machines' = {}
              /\ UNCHANGED <<HeldKinds, KeptKinds, image, result>>
              => Contract!Next
           /\ /\ Phase = "building" /\ Machines # {} /\ image = "none" /\ image' = "pending"
              /\ UNCHANGED <<Machines, HeldKinds, KeptKinds, result>>
              => Contract!Next
           /\ /\ image = "pending" /\ image' \in {"available", "failed"}
              /\ UNCHANGED <<Machines, HeldKinds, KeptKinds, result>>
              => Contract!Next
<1> USE DEF Phase, Machines, HeldKinds, KeptKinds, Contract!Next, Contract!Works, Contract!Turn
<1>0. Contract!Turn
  OBVIOUS
<1>k. \A k \in HeldKinds : k \in Contract!Kinds
  BY DEF Contract!Kinds
<1>1. UNCHANGED <<Machines, HeldKinds, KeptKinds, image, result>> => Contract!Next
  BY <1>0
<1>2. ASSUME NEW i \in Subnets,
             Phase = "building", image = "none", Machines = {}, Machines' = {i},
             UNCHANGED <<HeldKinds, KeptKinds, image, result>>
      PROVE  Contract!Next
  BY <1>0, <1>2 DEF Contract!TakeMachine, Contract!MayTake
<1>3. ASSUME NEW k \in {"floating_ip", "security_group", "ssh_key", "key_files"},
             Phase = "building", image = "none", HeldKinds' = HeldKinds \cup {k},
             UNCHANGED <<Machines, KeptKinds, image, result>>
      PROVE  Contract!Next
  BY <1>0, <1>3 DEF Contract!Take, Contract!MayTake, Contract!Kinds
<1>4. ASSUME NEW k \in HeldKinds,
             Phase = "tearing", k = "security_group" => Machines = {},
             HeldKinds' = HeldKinds \ {k}, UNCHANGED <<Machines, image, result>>,
             \/ KeptKinds' = KeptKinds
             \/ k # "key_files" /\ KeptKinds' = KeptKinds \cup {k}
      PROVE  Contract!Next
  BY <1>0, <1>k, <1>4 DEF Contract!LetGo, Contract!GiveBack, Contract!Keep
<1>5. ASSUME \/ Phase # "building"
             \/ HeldKinds \subseteq {"ssh_key", "key_files"} /\ image = "none",
             Machines' = {}, UNCHANGED <<HeldKinds, KeptKinds, image, result>>
      PROVE  Contract!Next
  BY <1>0, <1>5 DEF Contract!LoseMachine
<1>6. ASSUME Phase = "building", Machines # {}, image = "none", image' = "pending",
             UNCHANGED <<Machines, HeldKinds, KeptKinds, result>>
      PROVE  Contract!Next
  BY <1>0, <1>6 DEF Contract!Capture
<1>7. ASSUME image = "pending", image' \in {"available", "failed"},
             UNCHANGED <<Machines, HeldKinds, KeptKinds, result>>
      PROVE  Contract!Next
  BY <1>0, <1>7 DEF Contract!Settle
<1> QED BY <1>1, <1>2, <1>3, <1>4, <1>5, <1>6, <1>7

-----------------------------------------------------------------------------
(* What a step of the run does to the state of the contract. *)

\* A step stays in its phase or begins the tear-down, ends the process in the
\* middle of the build, or returns.
LEMMA PhaseStep ==
    ASSUME TypeOK, OnTrack, Stack, Sound, Build
    PROVE  \/ /\ Phase' = Phase \/ (Phase = "building" /\ Phase' = "tearing")
              /\ result' = result
           \/ Exits /\ Phase = "building" /\ Phase' = "ended"
           \/ Returns /\ Phase = "tearing" /\ Phase' = "ended"
<1>t. RunnerTypeOK
  BY DEF TypeOK
<1>1. CASE GoesOn
  BY <1>1, PhaseIs, PhaseWillBe DEF GoesOn, Onward
<1>2. CASE TurnsAround
  <2>1. pc \in Building /\ pc' \in CleanupPoints
    BY <1>2, <1>t, Registered, Unwound DEF TurnsAround, CleanupPoints
  <2> QED BY <1>2, <2>1, PhaseIs, PhaseWillBe DEF TurnsAround
<1>3. CASE Exits
  BY <1>3, PhaseIs, PhaseWillBe DEF Exits, Building, StepNames, EndPoints
<1>4. CASE CleansUp
  <2>1. pc \in CleanupPoints /\ pc' \in CleanupPoints
    BY <1>4, <1>t, CleanedUp DEF NextRequest, CleansUp, CleanupPoints
  <2> QED BY <1>4, <2>1, PhaseIs, PhaseWillBe DEF CleansUp
<1>5. CASE Returns
  <2>1. pc \in CleanupPoints /\ pc' \in EndPoints
    BY <1>5 DEF Returns, CleanupPoints, EndPoints
  <2> QED BY <1>5, <2>1, PhaseIs, PhaseWillBe
<1> QED BY <1>1, <1>2, <1>3, <1>4, <1>5, FlowStep DEF Flow

\* Only the creation of an instance changes what stands: the other requests
\* are about an instance that stands, and it stands until the cloud says it
\* is gone.
LEMMA MachinesStep ==
    ASSUME Stock, Build, pc # "createInstance"
    PROVE  Machines' = Machines
<1>t. /\ TypeOK /\ inst \in [Subnets -> InstanceStatus]
      /\ IInv /\ OnTrack /\ Stack /\ Sound /\ InstanceStock
  BY DEF Stock, IInv, TypeOK, CloudTypeOK
<1>1. CASE inst' = inst
  BY <1>1 DEF Machines, Standing
<1>2. ASSUME NEW i \in Subnets, Standing(i), NEW s, s \notin {"none", "gone"},
             inst' = [inst EXCEPT ![i] = s]
      PROVE  Machines' = Machines
  BY <1>2, <1>t DEF Machines, Standing
<1>3. CASE pc \in {"createInstance.delete", "rebootInstance", "captureImage"} /\ inst' # inst
  <2>1. HasInstance /\ pc \in Building
    <3>1. pc \in Building
      BY <1>3 DEF Building, StepNames, InnerPoints
    <3>2. pc # "createInstance.delete" => deferred = 3
      BY <1>3, <1>t, <3>1, BuildingCleanups DEF FirstSteps, CreatePoints
    <3> QED BY <3>1, <3>2 DEF HasInstance, CreatePoints
  <2>2. ~NilInstance
    BY <1>3, <1>t, <2>1 DEF InstanceStock, Sound
  <2>3. TheInstance \in Subnets /\ Standing(TheInstance)
    <3>1. TheInstance \in Subnets
      BY <1>t, <2>1, <2>2 DEF InstanceStock, NilInstance, TheInstance
    <3> QED BY <1>3, <1>t, <2>1, <3>1 DEF InstanceStock, Standing
  <2>4. pc = "createInstance.delete" => TheInstance = attempt
    BY <1>t DEF InstanceStock, CreatePoints
  <2>5. DeleteFailedInstance \/ RebootInstance \/ StopInstance
    BY <1>3, StartStep DEF StartsAt
  <2>6. \E s \in {"deleting", "running", "restarting", "stopping", "stopped"} :
            inst' = [inst EXCEPT ![TheInstance] = s]
    BY <1>3, <2>4, <2>5
    DEF DeleteFailedInstance, RebootInstance, StopInstance, SetInstance, At, cloud
  <2> QED BY <1>2, <2>3, <2>6
<1>4. CASE pc = "clean.instance" /\ inst' # inst
  <2>1. DeleteInstance
    BY <1>4, StartStep DEF StartsAt
  <2>2. /\ TheInstance \in Subnets /\ inst[TheInstance] # "gone"
        /\ inst' = [inst EXCEPT ![TheInstance] = "deleting"]
    BY <1>4, <2>1 DEF DeleteInstance, SetInstance, cloud
  <2>3. Standing(TheInstance)
    BY <1>t, <2>2 DEF InstanceStock, Standing
  <2> QED BY <1>2, <2>2, <2>3
<1> QED BY <1>1, <1>3, <1>4, <1>t, FrameStep
  DEF Frame, At, CreateInstance, DeleteFailedInstance, RebootInstance, StopInstance, DeleteInstance

\* What is kept is kept by its own Cleanup, and the run is past it then.
LEMMA KeptStep ==
    ASSUME TypeOK, OnTrack, Stack, Sound, KeptAfter, Build
    PROVE  KeptAfter'
<1>f. Frame
  BY FrameStep
<1>r. RunnerTypeOK
  BY DEF TypeOK
<1>n. \A p \in InstanceCleanup \cup {"clean.key"} : p \notin Building
  BY DEF Building, StepNames, InnerPoints, InstanceCleanup
<1>1. fip' = "kept" => pc' \notin Building \cup {"clean.floatingip"}
  <2>1. fip' = fip \/ fip' = "pending" \/ pc = "clean.floatingip"
    BY <1>f DEF Frame, CreateFloatingIP, SetFloatingIP, ReleaseFloatingIP, At, cloud
  <2> QED BY <2>1, <1>n, FlowFacts DEF KeptAfter, InstanceCleanup
<1>2. sg' = "kept" => pc' \notin Building \cup InstanceCleanup
  <2>1. sg' = sg \/ sg' = "exists" \/ pc = "clean.group"
    BY <1>f DEF Frame, OpenSecurityGroup, SetSecurityGroup, DeleteSecurityGroup, At, cloud
  <2>2. pc = "clean.group" => pc' = "clean.key"
    BY FlowFacts DEF InstanceCleanup, NextRequest
  <2>3. pc \notin Building \cup InstanceCleanup => pc' \notin Building \cup InstanceCleanup
    BY FlowFacts
  <2> QED BY <2>1, <2>2, <2>3, <1>n DEF KeptAfter, InstanceCleanup
<1>3. key' = "kept" => pc' \notin Building \cup InstanceCleanup \cup {"clean.key"}
  <2>1. key' = key \/ key' = "exists" \/ pc = "clean.key"
    BY <1>f DEF Frame, CreateSshKeyVPC, SetKey, DeleteKey, At, cloud
  <2>2. pc \notin Building \cup InstanceCleanup =>
            pc' \notin Building \cup InstanceCleanup \cup {"clean.key"}
    <3>1. ASSUME pc \notin Building \cup InstanceCleanup PROVE pc' # "clean.key"
      <4>1. CleansUp \/ Returns
        BY <3>1, FlowStep DEF Flow, GoesOn, Onward, TurnsAround, Exits, Building, StepNames
      <4>2. CASE CleansUp
        BY <1>r, <3>1, <4>2, CleanedUp
      <4>3. CASE Returns
        BY <4>3 DEF Returns
      <4> QED BY <4>1, <4>2, <4>3
    <3> QED BY <3>1, FlowFacts
  <2>3. "clean.key" \notin Building \cup InstanceCleanup
    BY <1>n DEF InstanceCleanup
  <2> QED BY <2>1, <2>2, <2>3 DEF KeptAfter
<1> QED BY <1>1, <1>2, <1>3 DEF KeptAfter

\* Bound is kept.
LEMMA BoundStep ==
    ASSUME Kept, Build
    PROVE  Bound'
<1>t. /\ TypeOK /\ inst \in [Subnets -> InstanceStatus] /\ Stock
      /\ IInv /\ OnTrack /\ Stack /\ Sound /\ InstanceStock /\ GroupStock
  BY DEF Kept, Stock, IInv, TypeOK, CloudTypeOK
<1>i. IInv'
  BY <1>t, StepInv DEF Next
<1>1. ASSUME NEW i \in Subnets, pc' \in Building, inst'[i] = "deleting"
      PROVE  pc' = "createInstance.gone"
  <2>1. pc \in Building /\ Advances(pc, deferred, pc')
    BY <1>1, <1>t, FlowFacts
  <2>2. CASE pc = "createInstance"
    <3>1. CreateInstance
      BY <2>2, StartStep DEF StartsAt
    <3>2. inst[i] # "deleting"
      BY <2>2, <1>t DEF IInv, OnlyTheLast, Standing
    <3> QED BY <1>1, <1>t, <3>1, <3>2 DEF CreateInstance, SetInstance, cloud
  <2>3. CASE pc = "createInstance.delete"
    BY <2>1, <2>3 DEF Advances, Succeeds
  <2>4. CASE pc = "createInstance.gone"
    <3>1. pc' = "createInstance"
      BY <2>1, <2>4 DEF Advances, Succeeds
    <3>2. ~Standing(i)'
      BY <3>1, <1>i DEF IInv, OnlyTheLast
    <3> QED BY <1>1, <3>2 DEF Standing
  <2>5. CASE pc \notin {"createInstance", "createInstance.delete", "createInstance.gone"}
    <3>1. inst[i] # "deleting"
      BY <2>1, <2>5 DEF Kept, Bound
    <3>2. pc # "clean.instance"
      BY <2>1 DEF Building, StepNames, InnerPoints
    <3>3. RebootInstance \/ StopInstance \/ inst' = inst
      BY <2>5, <3>2, <1>t, FrameStep DEF Frame, At, CreateInstance, DeleteFailedInstance, DeleteInstance
    <3> QED BY <1>1, <1>t, <3>1, <3>3 DEF RebootInstance, StopInstance, SetInstance, cloud
  <2> QED BY <2>2, <2>3, <2>4, <2>5
<1>2. ASSUME lost' = "instance" PROVE sg' # "exists"
  <2>1. CASE lost = "instance"
    <3>1. pc \notin Building
      BY <2>1, <1>t DEF Sound
    <3>2. sg' = sg \/ DeleteSecurityGroup
      BY <3>1, <1>t, FrameStep DEF Frame, OpenSecurityGroup, At, Building, StepNames
    <3>3. sg # "exists"
      BY <2>1 DEF Kept, Bound
    <3> QED BY <3>2, <3>3 DEF DeleteSecurityGroup, SetSecurityGroup, cloud
  <2>2. CASE CreateInstance
    <3>1. pc = "createInstance" /\ pc \in Building
      BY <2>2 DEF CreateInstance, At, Building, StepNames
    <3>2. deferred = 2
      BY <3>1, <1>t, BuildingCleanups DEF FirstSteps, LaterPoints
    <3>3. sg = "none"
      BY <3>1, <3>2, <1>t DEF GroupStock, BeforeGroup, BeforeAddress
    <3> QED BY <2>2, <3>3 DEF CreateInstance, SetInstance, cloud
  <2> QED BY <1>2, <1>t, <2>1, <2>2, FrameStep DEF Frame
<1>3. KeptAfter'
  BY <1>t, KeptStep DEF Kept, Bound
<1> QED BY <1>1, <1>2, <1>3 DEF Bound

-----------------------------------------------------------------------------
(* Every step of the run is a step of the contract, or changes nothing in  *)
(* it: first what is taken, then the capture, then what is given back.     *)

\* One request of the build takes one thing, whether it is answered or not.
LEMMA BuildTakes ==
    ASSUME Kept, Build,
           pc \in {"createSshKeyPair", "createSshKeyVPC", "createInstance", "getIP",
                   "createSecurityGroupRules", "captureImage.create"}
    PROVE  Contract!Next
<1>t. /\ TypeOK /\ inst \in [Subnets -> InstanceStatus] /\ Stock
      /\ OnTrack /\ Stack /\ Sound
  BY DEF Kept, Stock, IInv, TypeOK, CloudTypeOK
<1>b. pc \in Building /\ Phase = "building" /\ image = "none"
  <2>1. pc \in Building
    BY DEF Building, StepNames, InnerPoints
  <2> QED BY <1>t, <2>1, PhaseIs DEF Stock, ImageStock
<1>p. /\ Phase' = Phase \/ (Phase = "building" /\ Phase' = "tearing")
      /\ result' = result
  BY <1>t, <1>b, PhaseStep DEF Exits
<1>m. pc # "createInstance" => Machines' = Machines
  BY <1>t, MachinesStep
<1>k. fip # "kept" /\ sg # "kept" /\ key # "kept"
  BY <1>b DEF Kept, Bound, KeptAfter
<1>1. CASE pc = "createSshKeyPair"
  <2>1. CreateSshKeyPair
    BY <1>1, StartStep DEF StartsAt
  <2>2. ~keydir
    <3>1. deferred = 0
      BY <1>1, <1>b, <1>t, BuildingCleanups DEF CreatePoints, LaterPoints
    <3> QED BY <1>1, <1>t, <1>b, <3>1 DEF Stock, KeysStock, Sound
  <2>3. UNCHANGED <<fip, sg, key, image>>
    BY <2>1 DEF CreateSshKeyPair, cloud
  <2>4. /\ HeldKinds' = HeldKinds \/ HeldKinds' = HeldKinds \cup {"key_files"}
        /\ KeptKinds' = KeptKinds
    BY <1>k, <2>2, <2>3 DEF HeldKinds, KeptKinds
  <2> QED BY <1>1, <1>b, <1>p, <1>m, <2>3, <2>4, Keeps
<1>2. CASE pc = "createSshKeyVPC"
  <2>1. CreateSshKeyVPC
    BY <1>2, StartStep DEF StartsAt
  <2>2. /\ UNCHANGED <<fip, sg, keydir, image>>
        /\ key' = key \/ key' = "exists"
    BY <2>1 DEF CreateSshKeyVPC, SetKey, cloud
  <2>3. /\ HeldKinds' = HeldKinds \/ HeldKinds' = HeldKinds \cup {"ssh_key"}
        /\ KeptKinds' = KeptKinds
    BY <1>k, <2>2 DEF HeldKinds, KeptKinds
  <2> QED BY <1>2, <1>b, <1>p, <1>m, <2>2, <2>3, Keeps
<1>3. CASE pc = "createInstance"
  <2>1. CreateInstance
    BY <1>3, StartStep DEF StartsAt
  <2>2. UNCHANGED <<fip, sg, key, keydir, image>>
    BY <2>1 DEF CreateInstance, SetInstance, cloud
  <2>3. HeldKinds' = HeldKinds /\ KeptKinds' = KeptKinds
    BY <2>2 DEF HeldKinds, KeptKinds
  <2>4. Machines = {}
    BY <1>3 DEF Kept, Stock, IInv, OnlyTheLast, Machines
  <2>5. CASE inst' = inst
    <3>1. Machines' = Machines
      BY <2>5 DEF Machines, Standing
    <3> QED BY <1>p, <2>2, <2>3, <3>1, Keeps
  <2>6. CASE SetInstance(attempt + 1, "starting")
    <3>1. attempt + 1 \in Subnets
      <4>1. attempt < cfg.subnets /\ cfg.subnets \in Subnets /\ attempt \in 0..MaxSubnets
        BY <2>1, <1>t, BuildAssumption DEF CreateInstance, TypeOK, RestTypeOK, ConfigSpace
      <4> QED BY <4>1, CloudAssumption DEF Subnets
    <3>2. Machines' = {attempt + 1}
      BY <1>t, <2>4, <2>6, <3>1 DEF SetInstance, Machines, Standing
    <3> QED BY <1>b, <1>p, <2>2, <2>3, <2>4, <3>1, <3>2, Keeps
  <2> QED BY <2>1, <2>5, <2>6 DEF CreateInstance, cloud
<1>4. CASE pc = "getIP"
  <2>1. GetPrivateIP \/ CreateFloatingIP
    BY <1>4, StartStep DEF StartsAt
  <2>2. /\ UNCHANGED <<sg, key, keydir, image>>
        /\ fip' = fip \/ fip' = "pending"
    BY <2>1 DEF GetPrivateIP, CreateFloatingIP, SetFloatingIP, cloud
  <2>3. /\ HeldKinds' = HeldKinds \/ HeldKinds' = HeldKinds \cup {"floating_ip"}
        /\ KeptKinds' = KeptKinds
    BY <1>k, <2>2 DEF HeldKinds, KeptKinds
  <2> QED BY <1>4, <1>b, <1>p, <1>m, <2>2, <2>3, Keeps
<1>5. CASE pc = "createSecurityGroupRules"
  <2>1. OpenSecurityGroup
    BY <1>5, StartStep DEF StartsAt
  <2>2. /\ UNCHANGED <<fip, key, keydir, image>>
        /\ sg' = sg \/ sg' = "exists"
    BY <2>1 DEF OpenSecurityGroup, SetSecurityGroup, cloud
  <2>3. /\ HeldKinds' = HeldKinds \/ HeldKinds' = HeldKinds \cup {"security_group"}
        /\ KeptKinds' = KeptKinds
    BY <1>k, <2>2 DEF HeldKinds, KeptKinds
  <2> QED BY <1>5, <1>b, <1>p, <1>m, <2>2, <2>3, Keeps
<1>6. CASE pc = "captureImage.create"
  <2>1. CreateImage
    BY <1>6, StartStep DEF StartsAt
  <2>2. /\ UNCHANGED <<fip, sg, key, keydir>>
        /\ image' = image \/ image' = "pending"
    BY <2>1 DEF CreateImage, CreateImageFrom, cloud
  <2>3. HeldKinds' = HeldKinds /\ KeptKinds' = KeptKinds
    BY <2>2 DEF HeldKinds, KeptKinds
  <2>4. Machines # {}
    <3>1. HasInstance /\ ~NilInstance
      <4>1. deferred = 3
        BY <1>6, <1>b, <1>t, BuildingCleanups DEF FirstSteps, CreatePoints
      <4> QED BY <1>6, <1>b, <1>t, <4>1 DEF HasInstance, Stock, InstanceStock, Sound
    <3>2. TheInstance \in Subnets /\ inst[TheInstance] = "stopped"
      BY <1>6, <3>1, <1>t DEF Stock, InstanceStock, NilInstance, TheInstance
    <3> QED BY <3>2 DEF Machines, Standing
  <2> QED BY <1>6, <1>b, <1>p, <1>m, <2>2, <2>3, <2>4, Keeps
<1> QED BY <1>1, <1>2, <1>3, <1>4, <1>5, <1>6

\* One request of a Cleanup gives one thing back, or nothing.
LEMMA CleanupGivesBack ==
    ASSUME Kept, Build,
           pc \in {"clean.floatingip", "clean.group", "clean.key", "clean.keydir"}
    PROVE  Contract!Next
<1>t. TypeOK /\ Stock /\ OnTrack /\ Stack /\ Sound
  BY DEF Kept, Stock, IInv
<1>b. Phase = "tearing"
  BY PhaseIs DEF CleanupPoints
<1>p. Phase' = Phase /\ result' = result
  BY <1>t, <1>b, PhaseStep DEF Exits, Returns
<1>m. Machines' = Machines
  BY <1>t, MachinesStep
<1>k. /\ pc = "clean.floatingip" => fip # "kept"
      /\ pc = "clean.group" => sg # "kept"
      /\ pc = "clean.key" => key # "kept"
  BY DEF Kept, Bound, KeptAfter, InstanceCleanup
<1>1. CASE pc = "clean.floatingip"
  <2>1. ReleaseFloatingIP
    BY <1>1, StartStep DEF StartsAt
  <2>2. /\ UNCHANGED <<sg, key, keydir, image>>
        /\ \/ fip' = fip \/ fip' = "gone"
           \/ fip = "available" /\ fip' = "kept"
    BY <2>1 DEF ReleaseFloatingIP, SetFloatingIP, cloud
  <2>3. \/ HeldKinds' = HeldKinds
        \/ "floating_ip" \in HeldKinds /\ HeldKinds' = HeldKinds \ {"floating_ip"}
    BY <2>2 DEF HeldKinds
  <2>k. \/ KeptKinds' = KeptKinds
        \/ /\ HeldKinds' = HeldKinds \ {"floating_ip"} /\ "floating_ip" \in HeldKinds
           /\ KeptKinds' = KeptKinds \cup {"floating_ip"}
    BY <1>1, <1>k, <2>2 DEF HeldKinds, KeptKinds
  <2> QED BY <1>b, <1>p, <1>m, <2>2, <2>3, <2>k, Keeps
<1>2. CASE pc = "clean.group"
  <2>1. DeleteSecurityGroup
    BY <1>2, StartStep DEF StartsAt
  <2>2. /\ UNCHANGED <<fip, key, keydir, image>>
        /\ \/ sg' = sg \/ sg' = "gone"
           \/ sg = "exists" /\ sg' = "kept"
    BY <2>1 DEF DeleteSecurityGroup, SetSecurityGroup, cloud
  <2>3. \/ HeldKinds' = HeldKinds
        \/ /\ "security_group" \in HeldKinds /\ sg = "exists"
           /\ HeldKinds' = HeldKinds \ {"security_group"}
    BY <2>2 DEF HeldKinds
  <2>k. \/ KeptKinds' = KeptKinds
        \/ /\ HeldKinds' = HeldKinds \ {"security_group"} /\ "security_group" \in HeldKinds
           /\ KeptKinds' = KeptKinds \cup {"security_group"}
    BY <1>2, <1>k, <2>2 DEF HeldKinds, KeptKinds
  <2>4. sg = "exists" => Machines = {}
    <3>1. (\E i \in Subnets : Standing(i)) => lost = "instance"
      BY <1>2, <1>t DEF Stock, InstanceStock, InstanceCleanup, Building, StepNames, InnerPoints
    <3> QED BY <3>1 DEF Machines, Kept, Bound
  <2> QED BY <1>b, <1>p, <1>m, <2>2, <2>3, <2>k, <2>4, Keeps
<1>3. CASE pc = "clean.key"
  <2>1. DeleteKey
    BY <1>3, StartStep DEF StartsAt
  <2>2. /\ UNCHANGED <<fip, sg, keydir, image>>
        /\ \/ key' = key \/ key' = "gone"
           \/ key = "exists" /\ key' = "kept"
    BY <2>1 DEF DeleteKey, SetKey, cloud
  <2>3. \/ HeldKinds' = HeldKinds
        \/ "ssh_key" \in HeldKinds /\ HeldKinds' = HeldKinds \ {"ssh_key"}
    BY <2>2 DEF HeldKinds
  <2>k. \/ KeptKinds' = KeptKinds
        \/ /\ HeldKinds' = HeldKinds \ {"ssh_key"} /\ "ssh_key" \in HeldKinds
           /\ KeptKinds' = KeptKinds \cup {"ssh_key"}
    BY <1>3, <1>k, <2>2 DEF HeldKinds, KeptKinds
  <2> QED BY <1>b, <1>p, <1>m, <2>2, <2>3, <2>k, Keeps
<1>4. CASE pc = "clean.keydir"
  <2>1. RemoveKeyDirectory
    BY <1>4, StartStep DEF StartsAt
  <2>2. /\ UNCHANGED <<fip, sg, key, image>>
        /\ keydir' = keydir \/ keydir' = FALSE
    BY <2>1 DEF RemoveKeyDirectory, cloud
  <2>3. \/ HeldKinds' = HeldKinds
        \/ "key_files" \in HeldKinds /\ HeldKinds' = HeldKinds \ {"key_files"}
    BY <2>2 DEF HeldKinds
  <2>k. KeptKinds' = KeptKinds
    BY <2>2 DEF KeptKinds
  <2> QED BY <1>b, <1>p, <1>m, <2>2, <2>3, <2>k, Keeps
<1> QED BY <1>1, <1>2, <1>3, <1>4

\* Every other step changes the phase at most; Run returns, or the process
\* dies.
LEMMA BuildKeeps ==
    ASSUME Kept, Build
    PROVE  Contract!Next
<1>t. TypeOK /\ Stock /\ IInv /\ OnTrack /\ Stack /\ Sound
  BY DEF Kept, Stock, IInv
<1>1. CASE pc \in {"createSshKeyPair", "createSshKeyVPC", "createInstance", "getIP",
                   "createSecurityGroupRules", "captureImage.create"}
  BY <1>1, BuildTakes
<1>2. CASE pc \in {"clean.floatingip", "clean.group", "clean.key", "clean.keydir"}
  BY <1>2, CleanupGivesBack
<1>3. CASE pc \notin {"createSshKeyPair", "createSshKeyVPC", "createInstance", "getIP",
                      "createSecurityGroupRules", "captureImage.create",
                      "clean.floatingip", "clean.group", "clean.key", "clean.keydir"}
  <2>1. UNCHANGED <<fip, sg, key, keydir, image>>
    BY <1>3, <1>t, FrameStep
    DEF Frame, At, CreateSshKeyPair, CreateSshKeyVPC, CreateFloatingIP, OpenSecurityGroup,
        CreateImage, ReleaseFloatingIP, DeleteSecurityGroup, DeleteKey, RemoveKeyDirectory
  <2>2. HeldKinds' = HeldKinds /\ KeptKinds' = KeptKinds
    BY <2>1 DEF HeldKinds, KeptKinds
  <2>3. Machines' = Machines
    BY <1>3, <1>t, MachinesStep
  <2>4. CASE /\ Phase' = Phase \/ (Phase = "building" /\ Phase' = "tearing")
             /\ result' = result
    BY <2>1, <2>2, <2>3, <2>4, Keeps
  <2>5. CASE Exits /\ Phase = "building" /\ Phase' = "ended"
    <3>1. result' = result
      BY <2>5 DEF Exits
    <3>2. Contract!Die
      BY <2>1, <2>2, <2>3, <2>5, <3>1 DEF Contract!Die, Phase, Machines, HeldKinds, KeptKinds
    <3> QED BY <3>2 DEF Contract!Next
  <2>6. CASE Returns /\ Phase = "tearing" /\ Phase' = "ended"
    <3>1. CASE panicking
      <4>1. Contract!Die
        BY <2>1, <2>2, <2>3, <2>6, <3>1 DEF Returns, Contract!Die, Phase, Machines, HeldKinds, KeptKinds
      <4> QED BY <4>1 DEF Contract!Next
    <3>2. CASE result' = "error"
      <4>1. Contract!Return
        BY <2>1, <2>2, <2>3, <2>6, <3>2 DEF Contract!Return, Phase, Machines, HeldKinds, KeptKinds
      <4> QED BY <4>1 DEF Contract!Next
    <3>3. CASE ~panicking /\ result' = "artifact"
      <4>1. pc = "finish" /\ bag.error = "none" /\ bag.image_id /\ lost = "none"
        BY <2>6, <3>3, <1>t DEF Returns, BuildSucceeded, Sound
      <4>2. deferred = 0 /\ pc \notin Building \cup InstanceCleanup
        BY <4>1, <1>t, Registered DEF TypeOK, Building, StepNames, InnerPoints, InstanceCleanup
      <4>3. image = "available"
        BY <3>3, <4>1 DEF Kept, Stock, ImageStock
      <4>4. Machines = {}
        BY <3>3, <4>1, <4>2 DEF Kept, Stock, InstanceStock, Machines
      <4>5. HeldKinds = {}
        <5>1. fip \notin {"pending", "available"}
          BY <3>3, <4>1, <4>2 DEF Kept, Stock, AddressStock, Held
        <5>2. sg # "exists"
          BY <3>3, <4>1, <4>2 DEF Kept, Stock, GroupStock
        <5>3. key # "exists" /\ ~keydir
          BY <4>1, <4>2 DEF Kept, Stock, KeysStock
        <5> QED BY <5>1, <5>2, <5>3 DEF HeldKinds, KeptKinds
      <4>6. Contract!Return
        BY <2>1, <2>2, <2>3, <2>6, <3>3, <4>3, <4>4, <4>5
        DEF Contract!Return, Phase, Machines, HeldKinds, KeptKinds
      <4> QED BY <4>6 DEF Contract!Next
    <3> QED BY <2>6, <3>1, <3>2, <3>3 DEF Returns
  <2> QED BY <1>t, <2>4, <2>5, <2>6, PhaseStep
<1> QED BY <1>1, <1>2, <1>3

\* What the cloud does of itself: an address comes up, an image settles, a
\* deleted instance goes, in the build only before anything is bound to it.
LEMMA CloudKeeps ==
    ASSUME Kept, CloudMoves
    PROVE  Contract!Next /\ Bound'
<1>t. /\ TypeOK /\ inst \in [Subnets -> InstanceStatus]
      /\ Stock /\ IInv /\ OnTrack /\ Stack /\ Sound
  BY DEF Kept, Stock, IInv, TypeOK, CloudTypeOK
<1>1. UNCHANGED <<pc, keydir, lost, result>>
  BY DEF CloudMoves, history
<1>2. Phase' = Phase
  BY <1>1 DEF Phase
<1>3. ASSUME NEW i \in Subnets, InstanceMoves(i, May("zone"))
      PROVE  Contract!Next /\ Bound'
  <2>1. UNCHANGED <<fip, sg, key, image>> /\ HeldKinds' = HeldKinds /\ KeptKinds' = KeptKinds
    BY <1>1, <1>3 DEF InstanceMoves, HeldKinds, KeptKinds
  <2>2. \A j \in Subnets : inst'[j] = "deleting" => inst[j] = "deleting"
    BY <1>3, <1>t DEF InstanceMoves
  <2>3. Bound'
    BY <1>1, <2>1, <2>2 DEF Kept, Bound, KeptAfter
  <2>4. CASE inst[i] # "deleting"
    <3>1. \A j \in Subnets : Standing(j)' <=> Standing(j)
      BY <1>3, <1>t, <2>4 DEF InstanceMoves, Standing
    <3>2. Machines' = Machines
      BY <3>1 DEF Machines
    <3> QED BY <1>1, <1>2, <2>1, <2>3, <3>2, Keeps
  <2>5. CASE inst[i] = "deleting"
    <3>1. Machines' = {}
      <4>1. \A j \in Subnets : Standing(j) => j = i
        BY <2>5 DEF Kept, Stock, IInv, OnlyTheLast, Standing
      <4>2. inst' = [inst EXCEPT ![i] = "gone"]
        BY <1>3, <2>5 DEF InstanceMoves
      <4> QED BY <1>t, <4>1, <4>2 DEF Machines, Standing
    <3>2. Phase = "building" => pc = "createInstance.gone"
      <4>1. pc \in Points
        BY <1>t DEF TypeOK, RunnerTypeOK
      <4>2. Phase = "building" => pc \in Building
        BY <4>1, PhaseIs DEF Points, Building
      <4> QED BY <2>5, <4>2 DEF Kept, Bound, KeptAfter
    <3>3. pc = "createInstance.gone" => HeldKinds \subseteq {"ssh_key", "key_files"} /\ image = "none"
      <4>1. pc = "createInstance.gone" => pc \in Building /\ deferred = 2
        <5>1. pc = "createInstance.gone" => pc \in Building
          BY DEF Building, InnerPoints
        <5> QED BY <5>1, <1>t, BuildingCleanups DEF FirstSteps, LaterPoints
      <4>2. pc = "createInstance.gone" => fip = "none" /\ sg = "none"
        BY <4>1, <1>t DEF Stock, AddressStock, GroupStock, BeforeGroup, BeforeAddress
      <4>3. pc = "createInstance.gone" => image = "none"
        BY <4>1, <1>t DEF Stock, ImageStock
      <4> QED BY <4>2, <4>3 DEF HeldKinds, KeptKinds
    <3> QED BY <1>1, <1>2, <2>1, <2>3, <3>1, <3>2, <3>3, Keeps
  <2> QED BY <2>4, <2>5
<1>4. CASE FloatingIPMoves
  <2>1. Machines' = Machines /\ HeldKinds' = HeldKinds /\ KeptKinds' = KeptKinds /\ UNCHANGED <<inst, sg, image>>
    BY <1>1, <1>4 DEF FloatingIPMoves, Machines, HeldKinds, KeptKinds, Standing
  <2>2. Bound'
    BY <1>1, <1>4, <2>1 DEF FloatingIPMoves, Kept, Bound, KeptAfter
  <2> QED BY <1>1, <1>2, <2>1, <2>2, Keeps
<1>5. CASE ImageMoves(May("zone"))
  <2>1. /\ Machines' = Machines /\ HeldKinds' = HeldKinds /\ KeptKinds' = KeptKinds /\ UNCHANGED <<inst, sg, fip, key>>
        /\ image = "pending" /\ image' \in {"available", "failed"}
    BY <1>1, <1>5 DEF ImageMoves, Machines, HeldKinds, KeptKinds, Standing
  <2>2. Bound'
    BY <1>1, <2>1 DEF Kept, Bound, KeptAfter
  <2> QED BY <1>1, <1>2, <2>1, <2>2, Keeps
<1> QED BY <1>3, <1>4, <1>5 DEF CloudMoves

-----------------------------------------------------------------------------
LEMMA InitKept == Init => Kept /\ Contract!Init
<1> SUFFICES ASSUME Init PROVE Kept /\ Contract!Init
  OBVIOUS
<1>1. Stock
  BY InitStock
<1>2. /\ inst = [i \in Subnets |-> "none"] /\ fip = "none" /\ sg = "none"
      /\ key = "none" /\ image = "none" /\ ~keydir /\ lost = "none" /\ result = "none"
  BY DEF Init, CloudInit
<1>3. Bound
  BY <1>2 DEF Bound, KeptAfter
<1>4. Machines = {} /\ HeldKinds = {} /\ KeptKinds = {}
  BY <1>2 DEF Machines, Standing, HeldKinds, KeptKinds
<1>5. Phase \in {"building", "tearing"}
  <2>1. pc \in {"Greeting", "finish"}
    BY DEF Init, Steps, SshSteps, WinRMSteps
  <2> QED BY <2>1, PhaseIs DEF Building, StepNames, CleanupPoints
<1> QED BY <1>1, <1>2, <1>3, <1>4, <1>5 DEF Kept, Contract!Init, Phase, Machines, HeldKinds, KeptKinds

LEMMA StepKept == Kept /\ [Next]_vars => Kept' /\ [Contract!Next]_(Contract!vars)
<1> SUFFICES ASSUME Kept, [Next]_vars
             PROVE  Kept' /\ [Contract!Next]_(Contract!vars)
  OBVIOUS
<1>1. Stock'
  BY StepStock DEF Kept
<1>2. CASE Build
  BY <1>1, <1>2, BoundStep, BuildKeeps DEF Kept
<1>3. CASE CloudMoves
  BY <1>1, <1>3, CloudKeeps DEF Kept
<1>4. CASE Cancel \/ Ended \/ UNCHANGED vars
  <2>1. UNCHANGED <<inst, fip, sg, key, image, pc, keydir, lost, result>>
    BY <1>4 DEF Cancel, Ended, vars, cloud, history
  <2>2. Bound'
    BY <2>1 DEF Kept, Bound, KeptAfter
  <2>3. Phase' = Phase /\ Machines' = Machines /\ HeldKinds' = HeldKinds /\ KeptKinds' = KeptKinds
    BY <2>1 DEF Phase, Machines, Standing, HeldKinds, KeptKinds
  <2>4. UNCHANGED Contract!vars
    BY <2>1, <2>3 DEF Contract!vars, Phase, Machines, HeldKinds, KeptKinds
  <2> QED BY <1>1, <2>2, <2>4 DEF Kept
<1> QED BY <1>2, <1>3, <1>4 DEF Next

\* The builder keeps the contract a packer core and the owner of the account
\* rely on: one machine at a time, nothing taken once the tear-down has begun,
\* the group given back after the instance, an artifact only when nothing is
\* left but what is kept.  The safety part of ContractKept.
THEOREM ContractSafety == Spec => Contract!Init /\ [][Contract!Next]_(Contract!vars)
<1> QED BY InitKept, StepKept, PTL DEF Spec
=============================================================================
