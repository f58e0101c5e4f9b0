------------------------- MODULE VpcCleanup_proofs -------------------------
(***************************************************************************)
(* Proofs about VpcBuild, continued: what the Cleanups give back.  An      *)
(* artifact stands for an image with nothing temporary left, a failed      *)
(* build cleans up, the keys never outlive the run, an instance that       *)
(* stands is recorded, and no step works on one that is gone.  All of them *)
(* follow from one inductive invariant, Stock, which says for every        *)
(* resource at which points of the run it may exist, and which entry of    *)
(* the state bag, and which registered Cleanup, will give it back.         *)
(***************************************************************************)
EXTENDS VpcBuild_proofs

-----------------------------------------------------------------------------
(* Where the run is. *)

Building == StepNames \cup InnerPoints

\* The step a point of the build belongs to.
StepOf(p) ==
    CASE p \in CreatePoints -> "createInstance"
      [] p = "waitforInstance.retrieve" -> "waitforInstance"
      [] p \in {"getIP.wait", "getIP.inventory"} -> "getIP"
      [] p \in {"createSecurityGroupRules.rules", "createSecurityGroupRules.attach"} ->
             "createSecurityGroupRules"
      [] p \in {"rebootInstance.wait", "rebootInstance.retrieve"} -> "rebootInstance"
      [] p \in {"captureImage.wait", "captureImage.create", "captureImage.tag",
                "captureImage.available"} -> "captureImage"
      [] OTHER -> p

\* The place of the current step in the list.
Listed == Steps(cfg.comm)
Place == Len(Listed) - Len(todo)

\* While it builds, the runner is at a step of the list and has not started
\* the steps after it.  One step is listed twice: the Cleanups tell which.
OnTrack ==
    pc \in Building =>
        /\ Place \in 1..Len(Listed)
        /\ \A n \in 1..Len(todo) : todo[n] = Listed[Place + n]
        /\ StepOf(pc) = Listed[Place]
        /\ pc = "CreateVPCServiceInstance" => (deferred = 0 <=> Place = 2)

FirstSteps == {"Greeting", "verifyInput", "getSubnetInfo", "getBaseImageID",
               "createSshKeyPair"}

LaterPoints == {"CreateVPCServiceInstance", "waitforInstance", "waitforInstance.retrieve",
    "getIP", "getIP.wait", "getIP.inventory", "createSecurityGroupRules",
    "createSecurityGroupRules.rules", "createSecurityGroupRules.attach",
    "waitWinRM", "StepConnect", "StepProvision", "rebootInstance",
    "rebootInstance.wait", "rebootInstance.retrieve", "captureImage",
    "captureImage.wait", "captureImage.create", "captureImage.tag",
    "captureImage.available"}

InstanceCleanup == {"clean.floatingip", "clean.instance", "clean.gone",
                    "clean.rule", "clean.group"}

\* The Cleanups registered at each point.
Stack ==
    \/ deferred = 0 /\ pc \in FirstSteps \cup {"CreateVPCServiceInstance"}
    \/ deferred = 1 /\ pc = "createSshKeyVPC"
    \/ deferred = 2 /\ pc \in CreatePoints
    \/ deferred = 3 /\ pc \in LaterPoints
    \/ deferred = 2 /\ pc \in InstanceCleanup
    \/ deferred = 1 /\ pc = "clean.key"
    \/ deferred = 0 /\ pc \in {"clean.keydir", "finish", "returned", "crashed"}
    \/ pc = "exited"

\* What has not happened while the build goes on, or before it has ended.
Sound ==
    /\ pc \in Building => ~panicking /\ lost = "none" /\ bag.error # "cleanup"
    /\ pc \in InstanceCleanup => bag.error # "cleanup"
    /\ pc = "exited" => bag.error # "none"
    /\ pc = "returned" => ~panicking
    /\ pc = "crashed" => panicking
    /\ pc # "returned" => result = "none"
    /\ bag.error = "none" /\ ~panicking => lost = "none"
    /\ result = "artifact" => bag.error = "none" /\ bag.image_id

-----------------------------------------------------------------------------
(* The resources. *)

\* A later Cleanup, the current one, or nothing gives it back.
KeysStock ==
    /\ keydir => deferred >= 1 \/ pc = "clean.keydir" \/ bag.error = "cleanup"
    /\ key = "exists" /\ lost # "ssh_key" =>
           /\ bag.vpc_ssh_key
           /\ deferred >= 2 \/ pc = "clean.key" \/ bag.error = "cleanup"

\* No instance is asked for yet.
BeforeInstance == pc \in Building /\ deferred <= 1

\* The steps after stepCreateInstance, and its waits.
HasInstance ==
    \/ pc \in Building /\ deferred = 3
    \/ pc \in CreatePoints \ {"createInstance"}

InstanceStock ==
    /\ BeforeInstance => TheInstance = 0 /\ \A i \in Subnets : ~Standing(i)
    /\ TheInstance \in Subnets => inst[TheInstance] # "none"
    /\ StandingIsRecorded
    /\ NilInstance =>
           \/ pc \in {"getIP", "clean.floatingip", "clean.instance"}
           \/ panicking \/ bag.error = "cleanup"
    /\ HasInstance \/ pc = "clean.gone" => TheInstance \in Subnets \cup {NilPointer}
    /\ NilInstance => pc # "clean.gone"
    /\ pc \in CreatePoints \ {"createInstance"} => TheInstance = attempt
    /\ HasInstance /\ TheInstance \in Subnets =>
           inst[TheInstance] \notin {"deleting", "gone"} \/ pc = "createInstance.gone"
    /\ pc = "captureImage.create" => inst[TheInstance] = "stopped"
    /\ (\E i \in Subnets : Standing(i)) /\ lost # "instance" =>
           \/ pc \in Building \cup {"clean.floatingip", "clean.instance", "clean.gone", "exited"}
           \/ pc \notin InstanceCleanup /\ (panicking \/ bag.error = "cleanup")

Held == fip \in {"pending", "available"}

BeforeAddress ==
    \/ pc \in Building /\ deferred < 3
    \/ pc \in {"waitforInstance", "waitforInstance.retrieve", "getIP"}

AddressStock ==
    /\ BeforeAddress => fip = "none" /\ ~bag.floating_ip
    /\ cfg.vsi_interface = "private" => fip = "none"
    /\ Held /\ lost # "floating_ip" => bag.floating_ip_id
    /\ bag.floating_ip => fip # "pending" /\ lost # "floating_ip"
    /\ Held /\ ~bag.floating_ip => pc = "getIP.wait" \/ bag.error # "none"
    /\ Held /\ bag.floating_ip =>
           \/ pc \in Building \cup {"clean.floatingip", "exited"}
           \/ panicking \/ bag.error = "cleanup"

BeforeGroup ==
    BeforeAddress \/ pc \in {"getIP.wait", "getIP.inventory", "createSecurityGroupRules"}

GroupStock ==
    /\ BeforeGroup => sg = "none" /\ rules = {}
    /\ sg = "exists" /\ lost # "security_group" =>
           /\ ~cfg.security_group_id /\ bag.security_group_id /\ bag.security_group_name
           /\ \/ pc \in Building \cup InstanceCleanup \cup {"exited"}
              \/ panicking \/ bag.error = "cleanup"
    /\ pc = "createSecurityGroupRules.rules" =>
           bag.security_group_id /\ (cfg.security_group_id \/ sg = "exists")
    /\ rules # {} => cfg.security_group_id \/ sg \in {"exists", "kept"}
    /\ 1 \in rules /\ lost # "rule" =>
           /\ bag.security_group_rule_id /\ bag.security_group_id
           /\ \/ pc \in Building \cup {"clean.floatingip", "clean.instance", "clean.gone",
                                       "clean.rule", "exited"}
              \/ panicking \/ bag.error = "cleanup"
    /\ lost = "rule" => panicking

ImageStock ==
    /\ pc \in Building =>
           \/ image = "none" /\ ~bag.image_id
           \/ pc \in {"captureImage.tag", "captureImage.available"}
    /\ pc \in {"captureImage.tag", "captureImage.available"} => image # "none"
    /\ pc = "captureImage.available" => (cfg.image_tags => tagged)
    /\ bag.image_id /\ bag.error = "none" /\ ~panicking =>
           \/ pc \in {"captureImage.tag", "captureImage.available"}
           \/ image = "available" /\ (cfg.image_tags => tagged)

Stock ==
    /\ IInv
    /\ OnTrack /\ Stack /\ Sound
    /\ KeysStock /\ InstanceStock /\ AddressStock /\ GroupStock /\ ImageStock

-----------------------------------------------------------------------------
(* The steps follow each other as they are listed. *)

\* Step q is listed after step s; d Cleanups are registered when s starts.
Succeeds(s, d, q) ==
    \/ s = "Greeting" /\ q = "CreateVPCServiceInstance"
    \/ s = "CreateVPCServiceInstance" /\ d = 0 /\ q = "verifyInput"
    \/ s = "verifyInput" /\ q = "getSubnetInfo"
    \/ s = "getSubnetInfo" /\ q = "getBaseImageID"
    \/ s = "getBaseImageID" /\ q = "createSshKeyPair"
    \/ s = "createSshKeyPair" /\ q = "createSshKeyVPC"
    \/ s = "createSshKeyVPC" /\ q = "createInstance"
    \/ s = "createInstance" /\ q = "waitforInstance"
    \/ s = "waitforInstance" /\ q = "getIP"
    \/ s = "getIP" /\ q = "createSecurityGroupRules"
    \/ s = "createSecurityGroupRules" /\ q \in {"waitWinRM", "StepConnect"}
    \/ s = "waitWinRM" /\ q = "StepConnect"
    \/ s = "StepConnect" /\ q = "StepProvision"
    \/ s = "StepProvision" /\ q = "CreateVPCServiceInstance"
    \/ s = "CreateVPCServiceInstance" /\ d # 0 /\ q = "rebootInstance"
    \/ s = "rebootInstance" /\ q = "captureImage"

\* The two lists, looked up place by place.
LEMMA Succession ==
    ASSUME NEW k \in 1..Len(Listed), k < Len(Listed), NEW d,
           Listed[k] = "CreateVPCServiceInstance" => (d = 0 <=> k = 2)
    PROVE  /\ Succeeds(Listed[k], d, Listed[k + 1])
           /\ Listed[k + 1] = "CreateVPCServiceInstance" =>
                  (k + 1 = 2 <=> Listed[k] = "Greeting")
<1>1. CASE Listed = SshSteps
  <2>1. k \in 1..15 /\ Len(SshSteps) = 16
    BY <1>1 DEF SshSteps
  <2> QED BY <2>1, <1>1 DEF SshSteps, Succeeds
<1>2. CASE Listed = WinRMSteps
  <2>1. k \in 1..16 /\ Len(WinRMSteps) = 17
    BY <1>2 DEF WinRMSteps
  <2> QED BY <2>1, <1>2 DEF WinRMSteps, Succeeds
<1>3. CASE Listed = <<>>
  BY <1>3
<1> QED BY <1>1, <1>2, <1>3 DEF Listed, Steps

\* The first four cases of Stack are the build's.
LEMMA BuildingCleanups ==
    ASSUME Stack, pc \in Building
    PROVE  \/ deferred = 0 /\ pc \in FirstSteps \cup {"CreateVPCServiceInstance"}
           \/ deferred = 1 /\ pc = "createSshKeyVPC"
           \/ deferred = 2 /\ pc \in CreatePoints
           \/ deferred = 3 /\ pc \in LaterPoints
BY DEF Stack, Building, StepNames, InnerPoints, InstanceCleanup

\* A step that ends well leaves the runner at the next one, in its place, or
\* at the Cleanups.
LEMMA NextStep ==
    ASSUME RunnerTypeOK, OnTrack, Stack, pc \in Building, UNCHANGED cfg,
           NEW d \in 0..3, Continues(d),
           deferred = 3 => d = 3,
           StepOf(pc) \in FirstSteps \ {"createSshKeyPair"} => d = 0
    PROVE  \/ Unwind(d) /\ UNCHANGED panicking
           \/ /\ Succeeds(StepOf(pc), deferred, pc')
              /\ pc' \in StepNames /\ deferred' = d
              /\ OnTrack'
              /\ UNCHANGED panicking
<1>t. todo \in Seq(StepNames)
  BY DEF RunnerTypeOK
<1>1. CASE cancelled \/ todo = <<>>
  BY <1>1 DEF Continues
<1>2. CASE ~(cancelled \/ todo = <<>>)
  <2>1. /\ pc' = Head(todo) /\ todo' = Tail(todo) /\ deferred' = d
        /\ UNCHANGED panicking /\ todo # <<>>
    BY <1>2 DEF Continues
  <2>2. /\ Len(todo) \in Nat \ {0}
        /\ Len(todo') = Len(todo) - 1
        /\ pc' = todo[1] /\ pc' \in StepNames
        /\ \A n \in 1..Len(todo') : todo'[n] = todo[n + 1] /\ n + 1 \in 1..Len(todo)
    BY <2>1, <1>t
  <2>3. Listed' = Listed /\ Len(Listed) \in Nat
    <3>1. Listed \in Seq(StepNames)
      BY StepsType DEF Listed
    <3> QED BY <3>1 DEF Listed
  <2>4. /\ Place \in 1..Len(Listed)
        /\ StepOf(pc) = Listed[Place]
        /\ \A n \in 1..Len(todo) : todo[n] = Listed[Place + n]
        /\ Place < Len(Listed)
    BY <2>2, <2>3 DEF OnTrack, Place
  <2>5. Place' = Place + 1 /\ pc' = Listed[Place + 1]
    <3>1. 1 \in 1..Len(todo)
      BY <2>2
    <3> QED BY <3>1, <2>2, <2>3, <2>4 DEF Place
  <2>6. StepOf(pc) = "CreateVPCServiceInstance" => pc = "CreateVPCServiceInstance"
    BY DEF StepOf, CreatePoints
  <2>7. /\ Succeeds(StepOf(pc), deferred, pc')
        /\ pc' = "CreateVPCServiceInstance" => (Place' = 2 <=> StepOf(pc) = "Greeting")
    <3>1. Listed[Place] = "CreateVPCServiceInstance" => (deferred = 0 <=> Place = 2)
      BY <2>4, <2>6 DEF OnTrack
    <3>2. /\ Succeeds(Listed[Place], deferred, Listed[Place + 1])
          /\ Listed[Place + 1] = "CreateVPCServiceInstance" =>
                 (Place + 1 = 2 <=> Listed[Place] = "Greeting")
      BY <3>1, <2>4, Succession
    <3> QED BY <3>2, <2>4, <2>5
  <2>8. StepOf(pc)' = pc'
    BY <2>2 DEF StepOf, StepNames, CreatePoints
  <2>9. \A n \in 1..Len(todo') : todo'[n] = Listed'[Place' + n]
    <3>1. TAKE n \in 1..Len(todo')
    <3>2. todo'[n] = Listed[Place + (n + 1)]
      BY <2>2, <2>4
    <3>3. Place + (n + 1) = Place' + n
      BY <2>2, <2>4, <2>5
    <3> QED BY <3>2, <3>3, <2>3
  <2>10. pc' = "CreateVPCServiceInstance" => (deferred' = 0 <=> Place' = 2)
    <3>1. CASE StepOf(pc) = "Greeting"
      BY <3>1, <2>1, <2>7 DEF FirstSteps
    <3>2. CASE StepOf(pc) = "StepProvision"
      <4>1. pc = "StepProvision"
        BY <3>2 DEF StepOf, CreatePoints
      <4>2. deferred = 3
        BY <4>1, BuildingCleanups DEF FirstSteps, CreatePoints
      <4> QED BY <3>2, <4>2, <2>1, <2>7
    <3> QED BY <3>1, <3>2, <2>7 DEF Succeeds
  <2>11. OnTrack'
    BY <2>2, <2>3, <2>4, <2>5, <2>8, <2>9, <2>10 DEF OnTrack
  <2> QED BY <2>1, <2>2, <2>7, <2>11
<1> QED BY <1>1, <1>2

-----------------------------------------------------------------------------
(* The flow of control: what a step of the build, or of a Cleanup, may do  *)
(* to the place of the run, the registered Cleanups and the record of what *)
(* went wrong.  Every proof about a resource goes by these five cases.     *)

\* The point q of the build comes after the point p.
Advances(p, d, q) ==
    \/ /\ p \notin {"createInstance", "waitforInstance", "getIP",
                    "createSecurityGroupRules"}
       /\ Succeeds(p, d, q)
    \/ p = "createInstance" /\ q = "createInstance.wait"
    \/ p = "createInstance.wait" /\ q \in {"createInstance.delete", "waitforInstance"}
    \/ p = "createInstance.delete" /\ q = "createInstance.gone"
    \/ p = "createInstance.gone" /\ q = "createInstance"
    \/ p = "waitforInstance" /\ q = "waitforInstance.retrieve"
    \/ p = "waitforInstance.retrieve" /\ q = "getIP"
    \/ p = "getIP" /\ q \in {"getIP.wait", "getIP.inventory"}
    \/ p = "getIP.wait" /\ q = "getIP.inventory"
    \/ p = "getIP.inventory" /\ q = "createSecurityGroupRules"
    \/ p = "createSecurityGroupRules" /\ q = "createSecurityGroupRules.rules"
    \/ /\ p = "createSecurityGroupRules.rules"
       /\ q \in {"createSecurityGroupRules.rules", "createSecurityGroupRules.attach"}
    \/ p = "createSecurityGroupRules.attach" /\ q \in {"waitWinRM", "StepConnect"}
    \/ p = "StepConnect" /\ q = "StepConnect"
    \/ p = "rebootInstance" /\ q \in {"rebootInstance.wait", "rebootInstance.retrieve"}
    \/ p = "rebootInstance.wait" /\ q = "rebootInstance.retrieve"
    \/ p = "rebootInstance.retrieve" /\ q = "captureImage"
    \/ p = "captureImage" /\ q \in {"captureImage.wait", "captureImage.create"}
    \/ p = "captureImage.wait" /\ q = "captureImage.create"
    \/ p = "captureImage.create" /\ q \in {"captureImage.tag", "captureImage.available"}
    \/ p = "captureImage.tag" /\ q = "captureImage.available"

\* The points at which the Run of a step may return ActionContinue.
LastPoints == Building \
    {"createInstance", "createInstance.delete", "createInstance.gone",
     "waitforInstance", "getIP", "getIP.wait", "createSecurityGroupRules",
     "createSecurityGroupRules.rules", "rebootInstance.wait", "captureImage",
     "captureImage.wait", "captureImage.create", "captureImage.tag"}

\* The Cleanups registered once the Run of the current step has returned.
Top == IF pc \in {"createSshKeyPair", "createSshKeyVPC"} \cup CreatePoints
       THEN deferred + 1 ELSE deferred

\* From one point of the build to the next.
Onward ==
    /\ pc \in Building /\ pc' \in Building
    /\ Advances(pc, deferred, pc')
    /\ deferred' >= deferred
    /\ OnTrack' /\ Stack'
    /\ UNCHANGED panicking

\* The Run of a step ends well.
LEMMA StepEnds ==
    ASSUME RunnerTypeOK, OnTrack, Stack, UNCHANGED cfg,
           pc \in LastPoints, Continues(Top)
    PROVE  Onward \/ (Unwind(Top) /\ UNCHANGED panicking)
<1>1. pc \in Building
  BY DEF LastPoints
<1>2. deferred \in 0..3 /\ Top \in 0..3 /\ Top >= deferred
  BY <1>1, BuildingCleanups DEF Top, FirstSteps, CreatePoints, LaterPoints
<1>3. /\ deferred = 3 => Top = 3
      /\ StepOf(pc) \in FirstSteps \ {"createSshKeyPair"} => Top = 0
  <2>1. deferred = 3 => Top = 3
    BY <1>1, BuildingCleanups DEF Top, FirstSteps, CreatePoints, LaterPoints
  <2>2. StepOf(pc) \in FirstSteps \ {"createSshKeyPair"} => pc \in FirstSteps \ {"createSshKeyPair"}
    BY DEF StepOf, FirstSteps, CreatePoints
  <2>3. pc \in FirstSteps \ {"createSshKeyPair"} => Top = 0
    BY <1>1, BuildingCleanups DEF Top, FirstSteps, CreatePoints, LaterPoints
  <2> QED BY <2>1, <2>2, <2>3
<1>4. CASE Unwind(Top) /\ UNCHANGED panicking
  BY <1>4
<1>5. CASE /\ Succeeds(StepOf(pc), deferred, pc')
           /\ pc' \in StepNames /\ deferred' = Top
           /\ OnTrack'
           /\ UNCHANGED panicking
  <2>1. Advances(pc, deferred, pc')
    <3>1. StepOf(pc') = pc'
      BY <1>5 DEF StepOf, StepNames, CreatePoints
    <3> QED BY <3>1, <1>5
      DEF LastPoints, Building, StepNames, InnerPoints, StepOf, CreatePoints, Succeeds, Advances
  <2>2. Stack'
    <3>1. CASE deferred = 0 /\ pc \in FirstSteps \cup {"CreateVPCServiceInstance"}
      BY <3>1, <1>5, <2>1 DEF Advances, Succeeds, Stack, Top, FirstSteps, CreatePoints
    <3>2. CASE deferred = 1 /\ pc = "createSshKeyVPC"
      BY <3>2, <1>5, <2>1 DEF Advances, Succeeds, Stack, Top, CreatePoints
    <3>3. CASE deferred = 2 /\ pc \in CreatePoints
      BY <3>3, <1>5, <2>1 DEF Advances, Succeeds, Stack, Top, CreatePoints, LaterPoints, LastPoints
    <3>4. CASE deferred = 3 /\ pc \in LaterPoints
      BY <3>4, <1>5, <2>1 DEF Advances, Succeeds, Stack, Top, CreatePoints, LaterPoints
    <3> QED BY <1>1, <3>1, <3>2, <3>3, <3>4, BuildingCleanups
  <2> QED BY <1>1, <1>2, <1>5, <2>1, <2>2 DEF Onward, Building
<1> QED BY <1>1, <1>2, <1>3, <1>4, <1>5, NextStep

\* A step goes on inside its Run.
LEMMA StepGoesOn ==
    ASSUME RunnerTypeOK, OnTrack, Stack, UNCHANGED cfg, pc \in Building,
           NEW q \in Building, GoTo(q), Advances(pc, deferred, q),
           StepOf(q) = StepOf(pc),
           pc = "CreateVPCServiceInstance" <=> q = "CreateVPCServiceInstance"
    PROVE  Onward
<1>1. pc' = q /\ UNCHANGED <<todo, deferred, panicking>>
  BY DEF GoTo, runner
<1>2. OnTrack'
  BY <1>1 DEF OnTrack, Place, Listed
<1>3. Stack'
  <2>1. CASE deferred = 0 /\ pc \in FirstSteps \cup {"CreateVPCServiceInstance"}
    BY <2>1, <1>1 DEF Advances, Succeeds, Stack, FirstSteps, CreatePoints, StepOf
  <2>2. CASE deferred = 1 /\ pc = "createSshKeyVPC"
    BY <2>2, <1>1 DEF Advances, Succeeds, Stack, CreatePoints, StepOf
  <2>3. CASE deferred = 2 /\ pc \in CreatePoints
    BY <2>3, <1>1 DEF Advances, Succeeds, Stack, CreatePoints, StepOf
  <2>4. CASE deferred = 3 /\ pc \in LaterPoints
    BY <2>4, <1>1 DEF Advances, Succeeds, Stack, LaterPoints
  <2> QED BY <2>1, <2>2, <2>3, <2>4, BuildingCleanups
<1> QED BY <1>1, <1>2, <1>3 DEF Onward, RunnerTypeOK

\* The build goes on and nothing has gone wrong, but for credentials that
\* StepConnect asks for again.
GoesOn ==
    /\ Onward
    /\ UNCHANGED <<lost, result>>
    /\ \/ bag'.error = bag.error
       \/ pc = "StepConnect" /\ bag'.error = "run"

\* The build turns to its Cleanups: it halts, is cancelled, panics or is done.
TurnsAround ==
    /\ pc \in Building
    /\ Unwind(Top)
    /\ panicking' \in {panicking, TRUE}
    /\ bag'.error \in {bag.error, "run"}
    /\ lost' = lost \/ bag'.error = "run" \/ panicking'
    /\ lost' = "rule" => panicking'
    /\ UNCHANGED result

\* The process ends where it is.
Exits ==
    /\ pc = "StepConnect" /\ pc' = "exited"
    /\ bag'.error = "run"
    /\ UNCHANGED <<runner, lost, result>>

\* From one request of stepCreateInstance.Cleanup to the next.
NextRequest(p, q) ==
    \/ p = "clean.floatingip" /\ q = "clean.instance"
    \/ p = "clean.instance" /\ q \in {"clean.gone", "clean.rule"}
    \/ p = "clean.gone" /\ q = "clean.rule"
    \/ p = "clean.rule" /\ q = "clean.group"

\* A Cleanup asks for the next thing, or is over; it is over before its last
\* request only with an error or a panic.
CleansUp ==
    /\ pc \in CleanupPoints \ {"finish"}
    /\ bag' \in {bag, [bag EXCEPT !.error = "cleanup"]}
    /\ panicking' \in {panicking, TRUE}
    /\ \/ NextRequest(pc, pc') /\ bag' = bag /\ UNCHANGED runner
       \/ /\ Unwind(deferred)
          /\ pc \in {"clean.floatingip", "clean.instance", "clean.gone", "clean.rule"} =>
                 panicking' \/ bag'.error = "cleanup"
    /\ UNCHANGED <<lost, result>>

Returns ==
    /\ pc = "finish"
    /\ IF panicking
       THEN pc' = "crashed" /\ UNCHANGED result
       ELSE /\ pc' = "returned"
            /\ result' = IF BuildSucceeded THEN "artifact" ELSE "error"
    /\ UNCHANGED <<runner, lost, bag>>

Flow == GoesOn \/ TurnsAround \/ Exits \/ CleansUp \/ Returns

\* The ways a step that changes neither the configuration nor the result ends
\* or goes on, with d Cleanups registered then.
LEMMA Endings ==
    ASSUME RunnerTypeOK, OnTrack, Stack, Sound, pc \in Building,
           UNCHANGED <<cfg, result>>, NEW d, d = Top
    PROVE  /\ /\ Continues(d) /\ lost' = lost /\ bag'.error = bag.error
              /\ pc \in LastPoints
              => Flow
           /\ Halts(d) /\ bag'.error = "run" /\ lost' # "rule" => Flow
           /\ Halts(d) /\ bag'.error = bag.error /\ lost' = lost => Flow
           /\ d = deferred /\ Panics /\ bag'.error = bag.error => Flow
<1>1. lost = "none" /\ ~panicking
  BY DEF Sound
<1>2. ASSUME Continues(d), lost' = lost, bag'.error = bag.error, pc \in LastPoints
      PROVE  Flow
  <2>1. Onward \/ (Unwind(Top) /\ UNCHANGED panicking)
    BY <1>2, StepEnds
  <2> QED BY <1>1, <1>2, <2>1 DEF Flow, GoesOn, TurnsAround
<1>3. Halts(d) => Unwind(Top) /\ UNCHANGED panicking
  BY DEF Halts
<1>4. d = deferred /\ Panics => Unwind(Top) /\ panicking' = TRUE
  BY DEF Panics
<1> QED BY <1>1, <1>2, <1>3, <1>4 DEF Flow, TurnsAround

\* The points a step goes on to inside its Run.
LEMMA GoingOn ==
    ASSUME RunnerTypeOK, OnTrack, Stack, UNCHANGED <<cfg, lost, result>>,
           pc \in Building, bag'.error = bag.error,
           NEW q \in Building, GoTo(q), Advances(pc, deferred, q), StepOf(q) = StepOf(pc),
           pc = "CreateVPCServiceInstance" <=> q = "CreateVPCServiceInstance"
    PROVE  Flow
<1>1. Onward
  BY StepGoesOn
<1> QED BY <1>1 DEF Flow, GoesOn

\* The ways a request of a Cleanup ends.
LEMMA CleaningUp ==
    ASSUME TypeOK, pc \in CleanupPoints \ {"finish"}, UNCHANGED <<lost, result>>
    PROVE  /\ \A q : NextRequest(pc, q) /\ GoTo(q) /\ bag' = bag => Flow
           /\ CleanupGivesUp => Flow
           /\ Panics /\ bag' = bag => Flow
           /\ /\ NextCleanup /\ bag' = bag
              /\ pc \in {"clean.group", "clean.key", "clean.keydir"}
              => Flow
<1>1. ASSUME NEW q, NextRequest(pc, q), GoTo(q), bag' = bag PROVE Flow
  BY <1>1 DEF Flow, CleansUp, GoTo, runner
<1>2. ASSUME CleanupGivesUp PROVE Flow
  <2>1. bag' = [bag EXCEPT !.error = "cleanup"] /\ bag'.error = "cleanup"
    BY <1>2 DEF CleanupGivesUp, PutCleanupError, TypeOK, RestTypeOK, Bag
  <2> QED BY <1>2, <2>1 DEF CleanupGivesUp, NextCleanup, Flow, CleansUp
<1>3. ASSUME Panics, bag' = bag PROVE Flow
  BY <1>3 DEF Panics, Flow, CleansUp
<1>4. ASSUME NextCleanup, bag' = bag, pc \in {"clean.group", "clean.key", "clean.keydir"}
      PROVE  Flow
  BY <1>4 DEF NextCleanup, Flow, CleansUp
<1> QED BY <1>1, <1>2, <1>3, <1>4

\* Every step of Build is one of the five.  One step per action.
LEMMA FlowStep ==
    ASSUME TypeOK, OnTrack, Stack, Sound, Build
    PROVE  Flow
<1> USE DEF At
<1>t. TypeOK /\ RunnerTypeOK /\ UNCHANGED cfg /\ bag \in Bag
  BY DEF TypeOK, RestTypeOK, Build
<1>o. lost = "none" \/ pc \notin Building
  BY DEF Sound
<1>h. UNCHANGED history => UNCHANGED <<lost, result>>
  BY DEF history
<1>r. PutError => bag'.error = "run"
  BY <1>t DEF PutError, Bag
<1>p. \A f, v : f # "error" /\ Put(f, v) => bag'.error = bag.error
  BY <1>t DEF Put, Bag
<1>1. CASE Greeting
  <2>0. UNCHANGED result
    BY <1>1 DEF Greeting, Checks, history
  <2>1. pc = "Greeting" /\ pc \in Building
    BY <1>1 DEF Greeting, Checks, Building, StepNames, InnerPoints
  <2>2. Top = deferred
    BY <2>1 DEF Top, CreatePoints
  <2>3. /\ Continues(deferred) /\ lost' = lost /\ bag'.error = bag.error => Flow
        /\ Halts(deferred) /\ bag'.error = "run" /\ lost' # "rule" => Flow
    BY <1>t, <2>0, <2>1, <2>2, Endings DEF LastPoints
  <2> QED BY <1>1, <1>o, <1>h, <1>r, <1>p, <2>1, <2>3 DEF Greeting, Checks, Fails
<1>2. CASE CreateVPCServiceInstance
  <2>0. UNCHANGED result
    BY <1>2 DEF CreateVPCServiceInstance, Checks, history
  <2>1. pc = "CreateVPCServiceInstance" /\ pc \in Building
    BY <1>2 DEF CreateVPCServiceInstance, Checks, Building, StepNames, InnerPoints
  <2>2. Top = deferred
    BY <2>1 DEF Top, CreatePoints
  <2>3. /\ Continues(deferred) /\ lost' = lost /\ bag'.error = bag.error => Flow
        /\ Halts(deferred) /\ bag'.error = "run" /\ lost' # "rule" => Flow
    BY <1>t, <2>0, <2>1, <2>2, Endings DEF LastPoints
  <2> QED BY <1>2, <1>o, <1>h, <1>r, <1>p, <2>1, <2>3 DEF CreateVPCServiceInstance, Checks, Fails
<1>3. CASE VerifyInput
  <2>0. UNCHANGED result
    BY <1>3 DEF VerifyInput, Checks, history
  <2>1. pc = "verifyInput" /\ pc \in Building
    BY <1>3 DEF VerifyInput, Checks, Building, StepNames, InnerPoints
  <2>2. Top = deferred
    BY <2>1 DEF Top, CreatePoints
  <2>3. /\ Continues(deferred) /\ lost' = lost /\ bag'.error = bag.error => Flow
        /\ Halts(deferred) /\ bag'.error = "run" /\ lost' # "rule" => Flow
    BY <1>t, <2>0, <2>1, <2>2, Endings DEF LastPoints
  <2> QED BY <1>3, <1>o, <1>h, <1>r, <1>p, <2>1, <2>3 DEF VerifyInput, Checks, Fails
<1>4. CASE GetSubnetInfo
  <2>0. UNCHANGED result
    BY <1>4 DEF GetSubnetInfo, Checks, history
  <2>1. pc = "getSubnetInfo" /\ pc \in Building
    BY <1>4 DEF GetSubnetInfo, Checks, Building, StepNames, InnerPoints
  <2>2. Top = deferred
    BY <2>1 DEF Top, CreatePoints
  <2>3. /\ Continues(deferred) /\ lost' = lost /\ bag'.error = bag.error => Flow
        /\ Halts(deferred) /\ bag'.error = "run" /\ lost' # "rule" => Flow
    BY <1>t, <2>0, <2>1, <2>2, Endings DEF LastPoints
  <2> QED BY <1>4, <1>o, <1>h, <1>r, <1>p, <2>1, <2>3 DEF GetSubnetInfo, Checks, Fails
<1>5. CASE GetBaseImageID
  <2>0. UNCHANGED result
    BY <1>5 DEF GetBaseImageID, Checks, history
  <2>1. pc = "getBaseImageID" /\ pc \in Building
    BY <1>5 DEF GetBaseImageID, Checks, Building, StepNames, InnerPoints
  <2>2. Top = deferred
    BY <2>1 DEF Top, CreatePoints
  <2>3. /\ Continues(deferred) /\ lost' = lost /\ bag'.error = bag.error => Flow
        /\ Halts(deferred) /\ bag'.error = "run" /\ lost' # "rule" => Flow
    BY <1>t, <2>0, <2>1, <2>2, Endings DEF LastPoints
  <2> QED BY <1>5, <1>o, <1>h, <1>r, <1>p, <2>1, <2>3 DEF GetBaseImageID, Checks, Fails
<1>6. CASE WaitWinRM
  <2>0. UNCHANGED result
    BY <1>6 DEF WaitWinRM, Checks, history
  <2>1. pc = "waitWinRM" /\ pc \in Building
    BY <1>6 DEF WaitWinRM, Checks, Building, StepNames, InnerPoints
  <2>2. Top = deferred
    BY <2>1 DEF Top, CreatePoints
  <2>3. /\ Continues(deferred) /\ lost' = lost /\ bag'.error = bag.error => Flow
        /\ Halts(deferred) /\ bag'.error = "run" /\ lost' # "rule" => Flow
    BY <1>t, <2>0, <2>1, <2>2, Endings DEF LastPoints
  <2> QED BY <1>6, <1>o, <1>h, <1>r, <1>p, <2>1, <2>3 DEF WaitWinRM, Checks, Fails
<1>7. CASE CreateSshKeyPair
  <2>0. UNCHANGED result
    BY <1>7 DEF CreateSshKeyPair, history
  <2>1. pc = "createSshKeyPair" /\ pc \in Building
    BY <1>7 DEF CreateSshKeyPair, Building, StepNames, InnerPoints
  <2>2. Top = 1
    BY <2>1, BuildingCleanups DEF Top, FirstSteps, CreatePoints, LaterPoints
  <2>3. /\ Continues(1) /\ lost' = lost /\ bag'.error = bag.error => Flow
        /\ Halts(1) /\ bag'.error = "run" /\ lost' # "rule" => Flow
    BY <1>t, <2>0, <2>1, <2>2, Endings DEF LastPoints
  <2> QED BY <1>7, <1>o, <1>h, <1>r, <1>p, <2>1, <2>3 DEF CreateSshKeyPair, Fails
<1>8. CASE CreateSshKeyVPC
  <2>0. UNCHANGED result
    BY <1>8 DEF CreateSshKeyVPC, history
  <2>1. pc = "createSshKeyVPC" /\ pc \in Building
    BY <1>8 DEF CreateSshKeyVPC, Building, StepNames, InnerPoints
  <2>2. Top = 2
    BY <2>1, BuildingCleanups DEF Top, FirstSteps, CreatePoints, LaterPoints
  <2>3. /\ Continues(2) /\ lost' = lost /\ bag'.error = bag.error => Flow
        /\ Halts(2) /\ bag'.error = "run" /\ lost' # "rule" => Flow
    BY <1>t, <2>0, <2>1, <2>2, Endings DEF LastPoints
  <2> QED BY <1>8, <1>o, <1>h, <1>r, <1>p, <2>1, <2>3 DEF CreateSshKeyVPC, Fails
<1>9. CASE CreateInstance
  <2>0. UNCHANGED result
    BY <1>9 DEF CreateInstance, history
  <2>1. pc = "createInstance" /\ pc \in Building
    BY <1>9 DEF CreateInstance, Building, StepNames, InnerPoints
  <2>2. Top = 3
    BY <2>1, BuildingCleanups DEF Top, FirstSteps, CreatePoints, LaterPoints
  <2>3. Halts(3) /\ bag'.error = "run" /\ lost' # "rule" => Flow
    BY <1>t, <2>0, <2>1, <2>2, Endings
  <2>4. GoTo("createInstance.wait") /\ lost' = lost /\ bag'.error = bag.error => Flow
    BY <1>t, <2>0, <2>1, GoingOn DEF Building, StepNames, InnerPoints, Advances, StepOf, CreatePoints
  <2> QED BY <1>9, <1>o, <1>h, <1>r, <1>p, <2>1, <2>3, <2>4 DEF CreateInstance, Fails
<1>10. CASE AwaitStart
  <2>0. UNCHANGED result
    BY <1>10 DEF AwaitStart, history
  <2>1. pc = "createInstance.wait" /\ pc \in Building
    BY <1>10 DEF AwaitStart, Building, StepNames, InnerPoints
  <2>2. Top = 3
    BY <2>1, BuildingCleanups DEF Top, FirstSteps, CreatePoints, LaterPoints
  <2>3. /\ Continues(3) /\ lost' = lost /\ bag'.error = bag.error => Flow
        /\ Halts(3) /\ bag'.error = "run" /\ lost' # "rule" => Flow
    BY <1>t, <2>0, <2>1, <2>2, Endings DEF LastPoints
  <2>4. GoTo("createInstance.delete") /\ lost' = lost /\ bag'.error = bag.error => Flow
    BY <1>t, <2>0, <2>1, GoingOn DEF Building, StepNames, InnerPoints, Advances, StepOf, CreatePoints
  <2> QED BY <1>10, <1>o, <1>h, <1>r, <1>p, <2>1, <2>3, <2>4 DEF AwaitStart, Fails
<1>11. CASE DeleteFailedInstance
  <2>0. UNCHANGED result
    BY <1>11 DEF DeleteFailedInstance, history
  <2>1. pc = "createInstance.delete" /\ pc \in Building
    BY <1>11 DEF DeleteFailedInstance, Building, StepNames, InnerPoints
  <2>2. Top = 3
    BY <2>1, BuildingCleanups DEF Top, FirstSteps, CreatePoints, LaterPoints
  <2>3. Halts(3) /\ bag'.error = "run" /\ lost' # "rule" => Flow
    BY <1>t, <2>0, <2>1, <2>2, Endings
  <2>4. GoTo("createInstance.gone") /\ lost' = lost /\ bag'.error = bag.error => Flow
    BY <1>t, <2>0, <2>1, GoingOn DEF Building, StepNames, InnerPoints, Advances, StepOf, CreatePoints
  <2> QED BY <1>11, <1>o, <1>h, <1>r, <1>p, <2>1, <2>3, <2>4 DEF DeleteFailedInstance, Fails
<1>12. CASE AwaitFailedInstanceGone
  <2>0. UNCHANGED result
    BY <1>12 DEF AwaitFailedInstanceGone, history
  <2>1. pc = "createInstance.gone" /\ pc \in Building
    BY <1>12 DEF AwaitFailedInstanceGone, Building, StepNames, InnerPoints
  <2>2. Top = 3
    BY <2>1, BuildingCleanups DEF Top, FirstSteps, CreatePoints, LaterPoints
  <2>3. Halts(3) /\ bag'.error = "run" /\ lost' # "rule" => Flow
    BY <1>t, <2>0, <2>1, <2>2, Endings
  <2>4. GoTo("createInstance") /\ lost' = lost /\ bag'.error = bag.error => Flow
    BY <1>t, <2>0, <2>1, GoingOn DEF Building, StepNames, InnerPoints, Advances, StepOf, CreatePoints
  <2> QED BY <1>12, <1>o, <1>h, <1>r, <1>p, <2>1, <2>3, <2>4 DEF AwaitFailedInstanceGone, Fails
<1>13. CASE WaitforInstance
  <2>0. UNCHANGED result
    BY <1>13 DEF WaitforInstance, history
  <2>1. pc = "waitforInstance" /\ pc \in Building
    BY <1>13 DEF WaitforInstance, Building, StepNames, InnerPoints
  <2>2. Top = deferred
    BY <2>1 DEF Top, CreatePoints
  <2>3. Halts(deferred) /\ bag'.error = "run" /\ lost' # "rule" => Flow
    BY <1>t, <2>0, <2>1, <2>2, Endings
  <2>4. GoTo("waitforInstance.retrieve") /\ lost' = lost /\ bag'.error = bag.error => Flow
    BY <1>t, <2>0, <2>1, GoingOn DEF Building, StepNames, InnerPoints, Advances, StepOf, CreatePoints
  <2> QED BY <1>13, <1>o, <1>h, <1>r, <1>p, <2>1, <2>3, <2>4 DEF WaitforInstance, Fails
<1>14. CASE RetrieveInstance
  <2>0. UNCHANGED result
    BY <1>14 DEF RetrieveInstance, history
  <2>1. pc = "waitforInstance.retrieve" /\ pc \in Building
    BY <1>14 DEF RetrieveInstance, Building, StepNames, InnerPoints
  <2>2. Top = deferred
    BY <2>1 DEF Top, CreatePoints
  <2>3. /\ Continues(deferred) /\ lost' = lost /\ bag'.error = bag.error => Flow
        /\ Halts(deferred) /\ bag'.error = "run" /\ lost' # "rule" => Flow
    BY <1>t, <2>0, <2>1, <2>2, Endings DEF LastPoints
  <2> QED BY <1>14, <1>o, <1>h, <1>r, <1>p, <2>1, <2>3 DEF RetrieveInstance, Fails
<1>15. CASE GetPrivateIP
  <2>0. UNCHANGED result
    BY <1>15 DEF GetPrivateIP, history
  <2>1. pc = "getIP" /\ pc \in Building
    BY <1>15 DEF GetPrivateIP, Building, StepNames, InnerPoints
  <2>2. Top = deferred
    BY <2>1 DEF Top, CreatePoints
  <2>3. Panics /\ bag'.error = bag.error => Flow
    BY <1>t, <2>0, <2>1, <2>2, Endings
  <2>4. GoTo("getIP.inventory") /\ lost' = lost /\ bag'.error = bag.error => Flow
    BY <1>t, <2>0, <2>1, GoingOn DEF Building, StepNames, InnerPoints, Advances, StepOf, CreatePoints
  <2> QED BY <1>15, <1>o, <1>h, <1>r, <1>p, <2>1, <2>3, <2>4 DEF GetPrivateIP, Fails
<1>16. CASE CreateFloatingIP
  <2>0. UNCHANGED result
    BY <1>16 DEF CreateFloatingIP, history
  <2>1. pc = "getIP" /\ pc \in Building
    BY <1>16 DEF CreateFloatingIP, Building, StepNames, InnerPoints
  <2>2. Top = deferred
    BY <2>1 DEF Top, CreatePoints
  <2>3. /\ Halts(deferred) /\ bag'.error = "run" /\ lost' # "rule" => Flow
        /\ Panics /\ bag'.error = bag.error => Flow
    BY <1>t, <2>0, <2>1, <2>2, Endings
  <2>4. GoTo("getIP.wait") /\ lost' = lost /\ bag'.error = bag.error => Flow
    BY <1>t, <2>0, <2>1, GoingOn DEF Building, StepNames, InnerPoints, Advances, StepOf, CreatePoints
  <2> QED BY <1>16, <1>o, <1>h, <1>r, <1>p, <2>1, <2>3, <2>4 DEF CreateFloatingIP, Fails
<1>17. CASE AwaitFloatingIP
  <2>0. UNCHANGED result
    BY <1>17 DEF AwaitFloatingIP, history
  <2>1. pc = "getIP.wait" /\ pc \in Building
    BY <1>17 DEF AwaitFloatingIP, Building, StepNames, InnerPoints
  <2>2. Top = deferred
    BY <2>1 DEF Top, CreatePoints
  <2>3. Halts(deferred) /\ bag'.error = "run" /\ lost' # "rule" => Flow
    BY <1>t, <2>0, <2>1, <2>2, Endings
  <2>4. GoTo("getIP.inventory") /\ lost' = lost /\ bag'.error = bag.error => Flow
    BY <1>t, <2>0, <2>1, GoingOn DEF Building, StepNames, InnerPoints, Advances, StepOf, CreatePoints
  <2> QED BY <1>17, <1>o, <1>h, <1>r, <1>p, <2>1, <2>3, <2>4 DEF AwaitFloatingIP, Fails
<1>18. CASE WriteInventory
  <2>0. UNCHANGED result
    BY <1>18 DEF WriteInventory, history
  <2>1. pc = "getIP.inventory" /\ pc \in Building
    BY <1>18 DEF WriteInventory, Building, StepNames, InnerPoints
  <2>2. Top = deferred
    BY <2>1 DEF Top, CreatePoints
  <2>3. /\ Continues(deferred) /\ lost' = lost /\ bag'.error = bag.error => Flow
        /\ Halts(deferred) /\ bag'.error = "run" /\ lost' # "rule" => Flow
    BY <1>t, <2>0, <2>1, <2>2, Endings DEF LastPoints
  <2> QED BY <1>18, <1>o, <1>h, <1>r, <1>p, <2>1, <2>3 DEF WriteInventory, Fails
<1>19. CASE OpenSecurityGroup
  <2>0. UNCHANGED result
    BY <1>19 DEF OpenSecurityGroup, history
  <2>1. pc = "createSecurityGroupRules" /\ pc \in Building
    BY <1>19 DEF OpenSecurityGroup, Building, StepNames, InnerPoints
  <2>2. Top = deferred
    BY <2>1 DEF Top, CreatePoints
  <2>3. Halts(deferred) /\ bag'.error = "run" /\ lost' # "rule" => Flow
    BY <1>t, <2>0, <2>1, <2>2, Endings
  <2>4. GoTo("createSecurityGroupRules.rules") /\ lost' = lost /\ bag'.error = bag.error => Flow
    BY <1>t, <2>0, <2>1, GoingOn DEF Building, StepNames, InnerPoints, Advances, StepOf, CreatePoints
  <2>5. /\ [bag EXCEPT !.security_group_id = TRUE, !.error = "run"].error = "run"
        /\ [bag EXCEPT !.security_group_id = TRUE, !.security_group_name = TRUE].error = bag.error
    BY <1>t DEF Bag
  <2> QED BY <1>19, <1>o, <1>h, <1>r, <1>p, <2>1, <2>3, <2>4, <2>5 DEF OpenSecurityGroup, Fails
<1>21. CASE RulesDone
  <2>0. UNCHANGED result
    BY <1>21 DEF RulesDone, history
  <2>1. pc = "createSecurityGroupRules.rules" /\ pc \in Building
    BY <1>21 DEF RulesDone, Building, StepNames, InnerPoints
  <2>2. Top = deferred
    BY <2>1 DEF Top, CreatePoints
  <2>3. GoTo("createSecurityGroupRules.attach") /\ lost' = lost /\ bag'.error = bag.error => Flow
    BY <1>t, <2>0, <2>1, GoingOn DEF Building, StepNames, InnerPoints, Advances, StepOf, CreatePoints
  <2> QED BY <1>21, <1>o, <1>h, <1>r, <1>p, <2>1, <2>3 DEF RulesDone, Fails
<1>22. CASE AttachInterface
  <2>0. UNCHANGED result
    BY <1>22 DEF AttachInterface, history
  <2>1. pc = "createSecurityGroupRules.attach" /\ pc \in Building
    BY <1>22 DEF AttachInterface, Building, StepNames, InnerPoints
  <2>2. Top = deferred
    BY <2>1 DEF Top, CreatePoints
  <2>3. /\ Continues(deferred) /\ lost' = lost /\ bag'.error = bag.error => Flow
        /\ Halts(deferred) /\ bag'.error = "run" /\ lost' # "rule" => Flow
    BY <1>t, <2>0, <2>1, <2>2, Endings DEF LastPoints
  <2> QED BY <1>22, <1>o, <1>h, <1>r, <1>p, <2>1, <2>3 DEF AttachInterface, Fails
<1>23. CASE Connect
  <2>0. UNCHANGED result
    BY <1>23 DEF Connect, history
  <2>1. pc = "StepConnect" /\ pc \in Building
    BY <1>23 DEF Connect, Building, StepNames, InnerPoints
  <2>2. Top = deferred
    BY <2>1 DEF Top, CreatePoints
  <2>3. /\ Continues(deferred) /\ lost' = lost /\ bag'.error = bag.error => Flow
        /\ Halts(deferred) /\ bag'.error = "run" /\ lost' # "rule" => Flow
        /\ Halts(deferred) /\ bag'.error = bag.error /\ lost' = lost => Flow
    BY <1>t, <2>0, <2>1, <2>2, Endings DEF LastPoints
  <2> QED BY <1>23, <1>o, <1>h, <1>r, <1>p, <2>1, <2>3 DEF Connect, Fails
<1>26. CASE Provision
  <2>0. UNCHANGED result
    BY <1>26 DEF Provision, history
  <2>1. pc = "StepProvision" /\ pc \in Building
    BY <1>26 DEF Provision, Building, StepNames, InnerPoints
  <2>2. Top = deferred
    BY <2>1 DEF Top, CreatePoints
  <2>3. /\ Continues(deferred) /\ lost' = lost /\ bag'.error = bag.error => Flow
        /\ Halts(deferred) /\ bag'.error = "run" /\ lost' # "rule" => Flow
        /\ Halts(deferred) /\ bag'.error = bag.error /\ lost' = lost => Flow
    BY <1>t, <2>0, <2>1, <2>2, Endings DEF LastPoints
  <2> QED BY <1>26, <1>o, <1>h, <1>r, <1>p, <2>1, <2>3 DEF Provision, Fails
<1>27. CASE RebootInstance
  <2>0. UNCHANGED result
    BY <1>27 DEF RebootInstance, history
  <2>1. pc = "rebootInstance" /\ pc \in Building
    BY <1>27 DEF RebootInstance, Building, StepNames, InnerPoints
  <2>2. Top = deferred
    BY <2>1 DEF Top, CreatePoints
  <2>3. /\ Continues(deferred) /\ lost' = lost /\ bag'.error = bag.error => Flow
        /\ Halts(deferred) /\ bag'.error = "run" /\ lost' # "rule" => Flow
    BY <1>t, <2>0, <2>1, <2>2, Endings DEF LastPoints
  <2>4. GoTo("rebootInstance.wait") /\ lost' = lost /\ bag'.error = bag.error => Flow
    BY <1>t, <2>0, <2>1, GoingOn DEF Building, StepNames, InnerPoints, Advances, StepOf, CreatePoints
  <2>5. GoTo("rebootInstance.retrieve") /\ lost' = lost /\ bag'.error = bag.error => Flow
    BY <1>t, <2>0, <2>1, GoingOn DEF Building, StepNames, InnerPoints, Advances, StepOf, CreatePoints
  <2> QED BY <1>27, <1>o, <1>h, <1>r, <1>p, <2>1, <2>3, <2>4, <2>5 DEF RebootInstance, Fails
<1>28. CASE AwaitReboot
  <2>0. UNCHANGED result
    BY <1>28 DEF AwaitReboot, history
  <2>1. pc = "rebootInstance.wait" /\ pc \in Building
    BY <1>28 DEF AwaitReboot, Building, StepNames, InnerPoints
  <2>2. Top = deferred
    BY <2>1 DEF Top, CreatePoints
  <2>3. Halts(deferred) /\ bag'.error = "run" /\ lost' # "rule" => Flow
    BY <1>t, <2>0, <2>1, <2>2, Endings
  <2>4. GoTo("rebootInstance.retrieve") /\ lost' = lost /\ bag'.error = bag.error => Flow
    BY <1>t, <2>0, <2>1, GoingOn DEF Building, StepNames, InnerPoints, Advances, StepOf, CreatePoints
  <2> QED BY <1>28, <1>o, <1>h, <1>r, <1>p, <2>1, <2>3, <2>4 DEF AwaitReboot, Fails
<1>29. CASE RetrieveRebooted
  <2>0. UNCHANGED result
    BY <1>29 DEF RetrieveRebooted, history
  <2>1. pc = "rebootInstance.retrieve" /\ pc \in Building
    BY <1>29 DEF RetrieveRebooted, Building, StepNames, InnerPoints
  <2>2. Top = deferred
    BY <2>1 DEF Top, CreatePoints
  <2>3. /\ Continues(deferred) /\ lost' = lost /\ bag'.error = bag.error => Flow
        /\ Halts(deferred) /\ bag'.error = "run" /\ lost' # "rule" => Flow
    BY <1>t, <2>0, <2>1, <2>2, Endings DEF LastPoints
  <2> QED BY <1>29, <1>o, <1>h, <1>r, <1>p, <2>1, <2>3 DEF RetrieveRebooted, Fails
<1>30. CASE StopInstance
  <2>0. UNCHANGED result
    BY <1>30 DEF StopInstance, history
  <2>1. pc = "captureImage" /\ pc \in Building
    BY <1>30 DEF StopInstance, Building, StepNames, InnerPoints
  <2>2. Top = deferred
    BY <2>1 DEF Top, CreatePoints
  <2>3. Halts(deferred) /\ bag'.error = "run" /\ lost' # "rule" => Flow
    BY <1>t, <2>0, <2>1, <2>2, Endings
  <2>4. GoTo("captureImage.wait") /\ lost' = lost /\ bag'.error = bag.error => Flow
    BY <1>t, <2>0, <2>1, GoingOn DEF Building, StepNames, InnerPoints, Advances, StepOf, CreatePoints
  <2>5. GoTo("captureImage.create") /\ lost' = lost /\ bag'.error = bag.error => Flow
    BY <1>t, <2>0, <2>1, GoingOn DEF Building, StepNames, InnerPoints, Advances, StepOf, CreatePoints
  <2> QED BY <1>30, <1>o, <1>h, <1>r, <1>p, <2>1, <2>3, <2>4, <2>5 DEF StopInstance, Fails
<1>31. CASE AwaitStopped
  <2>0. UNCHANGED result
    BY <1>31 DEF AwaitStopped, history
  <2>1. pc = "captureImage.wait" /\ pc \in Building
    BY <1>31 DEF AwaitStopped, Building, StepNames, InnerPoints
  <2>2. Top = deferred
    BY <2>1 DEF Top, CreatePoints
  <2>3. Halts(deferred) /\ bag'.error = "run" /\ lost' # "rule" => Flow
    BY <1>t, <2>0, <2>1, <2>2, Endings
  <2>4. GoTo("captureImage.create") /\ lost' = lost /\ bag'.error = bag.error => Flow
    BY <1>t, <2>0, <2>1, GoingOn DEF Building, StepNames, InnerPoints, Advances, StepOf, CreatePoints
  <2> QED BY <1>31, <1>o, <1>h, <1>r, <1>p, <2>1, <2>3, <2>4 DEF AwaitStopped, Fails
<1>32. CASE CreateImage
  <2>0. UNCHANGED result
    BY <1>32 DEF CreateImage, history
  <2>1. pc = "captureImage.create" /\ pc \in Building
    BY <1>32 DEF CreateImage, Building, StepNames, InnerPoints
  <2>2. Top = deferred
    BY <2>1 DEF Top, CreatePoints
  <2>3. Halts(deferred) /\ bag'.error = "run" /\ lost' # "rule" => Flow
    BY <1>t, <2>0, <2>1, <2>2, Endings
  <2>4. GoTo("captureImage.tag") /\ lost' = lost /\ bag'.error = bag.error => Flow
    BY <1>t, <2>0, <2>1, GoingOn DEF Building, StepNames, InnerPoints, Advances, StepOf, CreatePoints
  <2>5. GoTo("captureImage.available") /\ lost' = lost /\ bag'.error = bag.error => Flow
    BY <1>t, <2>0, <2>1, GoingOn DEF Building, StepNames, InnerPoints, Advances, StepOf, CreatePoints
  <2> QED BY <1>32, <1>o, <1>h, <1>r, <1>p, <2>1, <2>3, <2>4, <2>5 DEF CreateImage, Fails
<1>33. CASE AttachTags
  <2>0. UNCHANGED result
    BY <1>33 DEF AttachTags, history
  <2>1. pc = "captureImage.tag" /\ pc \in Building
    BY <1>33 DEF AttachTags, Building, StepNames, InnerPoints
  <2>2. Top = deferred
    BY <2>1 DEF Top, CreatePoints
  <2>3. Halts(deferred) /\ bag'.error = "run" /\ lost' # "rule" => Flow
    BY <1>t, <2>0, <2>1, <2>2, Endings
  <2>4. GoTo("captureImage.available") /\ lost' = lost /\ bag'.error = bag.error => Flow
    BY <1>t, <2>0, <2>1, GoingOn DEF Building, StepNames, InnerPoints, Advances, StepOf, CreatePoints
  <2> QED BY <1>33, <1>o, <1>h, <1>r, <1>p, <2>1, <2>3, <2>4 DEF AttachTags, Fails
<1>34. CASE AwaitImage
  <2>0. UNCHANGED result
    BY <1>34 DEF AwaitImage, history
  <2>1. pc = "captureImage.available" /\ pc \in Building
    BY <1>34 DEF AwaitImage, Building, StepNames, InnerPoints
  <2>2. Top = deferred
    BY <2>1 DEF Top, CreatePoints
  <2>3. /\ Continues(deferred) /\ lost' = lost /\ bag'.error = bag.error => Flow
        /\ Halts(deferred) /\ bag'.error = "run" /\ lost' # "rule" => Flow
    BY <1>t, <2>0, <2>1, <2>2, Endings DEF LastPoints
  <2> QED BY <1>34, <1>o, <1>h, <1>r, <1>p, <2>1, <2>3 DEF AwaitImage, Fails
<1>20. CASE CreateRule
  <2>0. UNCHANGED result
    BY <1>20 DEF CreateRule, history
  <2>1. pc = "createSecurityGroupRules.rules" /\ pc \in Building
    BY <1>20 DEF CreateRule, Building, InnerPoints
  <2>2. Top = deferred
    BY <2>1 DEF Top, CreatePoints
  <2>3. Panics /\ bag'.error = bag.error => Flow
    BY <1>t, <2>0, <2>1, <2>2, Endings
  <2>4. GoTo("createSecurityGroupRules.rules") /\ lost' = lost /\ bag'.error = bag.error => Flow
    BY <1>t, <2>0, <2>1, GoingOn DEF Building, StepNames, InnerPoints, Advances, StepOf, CreatePoints
  <2>5. UNCHANGED <<pc, runner>> => GoTo("createSecurityGroupRules.rules")
    BY <2>1 DEF GoTo
  <2>6. [bag EXCEPT !.security_group_rule_id = @ \/ nrule = 0].error = bag.error
    BY <1>t DEF Bag
  <2> QED BY <1>20, <1>o, <2>1, <2>3, <2>4, <2>5, <2>6 DEF CreateRule
<1>24. CASE SshKeyUnreadable
  BY <1>24, <1>r DEF SshKeyUnreadable, Flow, Exits, GoTo, history
<1>25. CASE WinRMCredentialsMissing
  <2>1. pc = "StepConnect" /\ pc \in Building
    BY <1>25 DEF WinRMCredentialsMissing, Building, StepNames
  <2>2. GoTo("StepConnect") => Onward
    BY <1>t, <2>1, StepGoesOn DEF Building, StepNames, Advances, StepOf, CreatePoints
  <2> QED BY <1>25, <1>r, <2>1, <2>2 DEF WinRMCredentialsMissing, Flow, GoesOn, Exits, GoTo, history
<1>35. CASE ReleaseFloatingIP
  <2>1. pc \in CleanupPoints \ {"finish"} /\ UNCHANGED <<lost, result>>
    BY <1>35 DEF ReleaseFloatingIP, CleanupPoints, history
  <2> QED BY <1>35, <1>t, <2>1, CleaningUp DEF ReleaseFloatingIP, NextRequest
<1>36. CASE DeleteInstance
  <2>1. pc \in CleanupPoints \ {"finish"} /\ UNCHANGED <<lost, result>>
    BY <1>36 DEF DeleteInstance, CleanupPoints, history
  <2> QED BY <1>36, <1>t, <2>1, CleaningUp DEF DeleteInstance, NextRequest
<1>37. CASE AwaitInstanceGone
  <2>1. pc \in CleanupPoints \ {"finish"} /\ UNCHANGED <<lost, result>>
    BY <1>37 DEF AwaitInstanceGone, CleanupPoints, history
  <2> QED BY <1>37, <1>t, <2>1, CleaningUp DEF AwaitInstanceGone, NextRequest
<1>38. CASE DeleteRule
  <2>1. pc \in CleanupPoints \ {"finish"} /\ UNCHANGED <<lost, result>>
    BY <1>38 DEF DeleteRule, CleanupPoints, history
  <2> QED BY <1>38, <1>t, <2>1, CleaningUp DEF DeleteRule, NextRequest
<1>39. CASE DeleteSecurityGroup
  <2>1. pc \in CleanupPoints \ {"finish"} /\ UNCHANGED <<lost, result>>
    BY <1>39 DEF DeleteSecurityGroup, CleanupPoints, history
  <2> QED BY <1>39, <1>t, <2>1, CleaningUp DEF DeleteSecurityGroup, NextRequest
<1>40. CASE DeleteKey
  <2>1. pc \in CleanupPoints \ {"finish"} /\ UNCHANGED <<lost, result>>
    BY <1>40 DEF DeleteKey, CleanupPoints, history
  <2> QED BY <1>40, <1>t, <2>1, CleaningUp DEF DeleteKey, NextRequest
<1>41. CASE RemoveKeyDirectory
  <2>1. pc \in CleanupPoints \ {"finish"} /\ UNCHANGED <<lost, result>>
    BY <1>41 DEF RemoveKeyDirectory, CleanupPoints, history
  <2> QED BY <1>41, <1>t, <2>1, CleaningUp DEF RemoveKeyDirectory, NextRequest
<1>42. CASE Finish
  BY <1>42 DEF Finish, Flow, GoTo, Returns
<1> QED
  BY <1>1, <1>2, <1>3, <1>4, <1>5, <1>6, <1>7, <1>8, <1>9, <1>10, <1>11, <1>12, <1>13, <1>14, <1>15, <1>16, <1>17, <1>18, <1>19, <1>20, <1>21, <1>22, <1>23, <1>24, <1>25, <1>26, <1>27, <1>28, <1>29, <1>30, <1>31, <1>32, <1>33, <1>34, <1>35, <1>36, <1>37, <1>38, <1>39, <1>40, <1>41, <1>42
     DEF Build, CreateSteps, BakeSteps, CleanupSteps

\* Where d registered Cleanups are entered.
LEMMA Unwound ==
    ASSUME NEW d \in 0..3, Unwind(d)
    PROVE  /\ \/ d = 0 /\ pc' = "finish" /\ deferred' = 0
              \/ d = 1 /\ pc' = "clean.keydir" /\ deferred' = 0
              \/ d = 2 /\ pc' = "clean.key" /\ deferred' = 1
              \/ d = 3 /\ pc' = "clean.floatingip" /\ deferred' = 2
           /\ pc' \notin Building
BY DEF Unwind, CleanupEntry, Building, StepNames, InnerPoints

\* How many are registered when the build turns around, or a Cleanup is over.
LEMMA Registered ==
    ASSUME RunnerTypeOK, Stack
    PROVE  /\ deferred \in 0..3
           /\ pc \in Building => Top \in 0..3 /\ Top >= deferred
           /\ pc \in Building /\ pc = "createSshKeyPair" => Top = 1
           /\ pc \in Building /\ pc = "createSshKeyVPC" => Top = 2
           /\ pc \in CreatePoints \cup LaterPoints => Top = 3 \/ pc = "CreateVPCServiceInstance"
           /\ pc \in InstanceCleanup => deferred = 2
           /\ pc = "clean.key" => deferred = 1
           /\ pc \in {"clean.keydir", "finish"} => deferred = 0
<1>1. deferred \in 0..3
  BY DEF RunnerTypeOK
<1>2. pc \in Building => Top \in 0..3 /\ Top >= deferred
  BY <1>1, BuildingCleanups DEF Top, FirstSteps, CreatePoints, LaterPoints
<1>3. /\ pc = "createSshKeyPair" => deferred = 0
      /\ pc = "createSshKeyVPC" => deferred = 1
      /\ pc \in CreatePoints => deferred = 2
      /\ pc \in LaterPoints => deferred = 3 \/ pc = "CreateVPCServiceInstance"
      /\ pc \in InstanceCleanup => deferred = 2
      /\ pc = "clean.key" => deferred = 1
      /\ pc \in {"clean.keydir", "finish"} => deferred = 0
  BY DEF Stack, FirstSteps, CreatePoints, LaterPoints, InstanceCleanup
<1>4. pc \in CreatePoints \cup LaterPoints => Top = 3 \/ pc = "CreateVPCServiceInstance"
  BY <1>3 DEF Top, CreatePoints, LaterPoints
<1>5. /\ pc = "createSshKeyPair" => Top = 1
      /\ pc = "createSshKeyVPC" => Top = 2
  BY <1>3 DEF Top
<1> QED BY <1>1, <1>2, <1>3, <1>4, <1>5

\* A Cleanup that is over leaves the run at the one registered before it.
LEMMA CleanedUp ==
    ASSUME RunnerTypeOK, Stack, CleansUp
    PROVE  /\ UNCHANGED <<lost, result>>
           /\ bag' \in {bag, [bag EXCEPT !.error = "cleanup"]}
           /\ panicking' \in {panicking, TRUE}
           /\ \/ /\ pc \in InstanceCleanup /\ NextRequest(pc, pc')
                 /\ bag' = bag /\ UNCHANGED runner
              \/ /\ pc \in InstanceCleanup /\ pc' = "clean.key" /\ deferred = 2 /\ deferred' = 1
                 /\ pc = "clean.group" \/ panicking' \/ bag'.error = "cleanup"
              \/ pc = "clean.key" /\ pc' = "clean.keydir" /\ deferred = 1 /\ deferred' = 0
              \/ pc = "clean.keydir" /\ pc' = "finish" /\ deferred = 0 /\ deferred' = 0
<1>1. pc \in InstanceCleanup \/ pc = "clean.key" \/ pc = "clean.keydir"
  BY DEF CleansUp, CleanupPoints, InstanceCleanup
<1>2. CASE NextRequest(pc, pc') /\ bag' = bag /\ UNCHANGED runner
  BY <1>2 DEF CleansUp, NextRequest, InstanceCleanup
<1>3. CASE Unwind(deferred)
  <2>1. /\ pc \in InstanceCleanup => deferred = 2 /\ pc' = "clean.key" /\ deferred' = 1
        /\ pc = "clean.key" => deferred = 1 /\ pc' = "clean.keydir" /\ deferred' = 0
        /\ pc = "clean.keydir" => deferred = 0 /\ pc' = "finish" /\ deferred' = 0
    BY <1>3, Unwound, Registered
  <2>2. pc \in InstanceCleanup => pc = "clean.group" \/ panicking' \/ bag'.error = "cleanup"
    BY <2>1 DEF CleansUp, InstanceCleanup, NextRequest
  <2> QED BY <1>1, <2>1, <2>2 DEF CleansUp
<1> QED BY <1>2, <1>3 DEF CleansUp

-----------------------------------------------------------------------------
(* Every step keeps the invariant, part by part.  First the control.       *)

LEMMA ControlStep ==
    ASSUME TypeOK, OnTrack, Stack, Sound, Build
    PROVE  OnTrack' /\ Stack' /\ Sound'
<1>t. RunnerTypeOK /\ bag \in Bag
  BY DEF TypeOK, RestTypeOK
<1>e. [bag EXCEPT !.error = "cleanup"].error = "cleanup"
  BY <1>t DEF Bag
<1>p. /\ \A p \in Building : p \notin InstanceCleanup \cup {"exited", "returned", "crashed"}
      /\ \A p \in InstanceCleanup \cup {"clean.key", "clean.keydir", "finish", "exited",
                                        "returned", "crashed"} : p \notin Building
  BY DEF Building, StepNames, InnerPoints, InstanceCleanup
<1>1. CASE GoesOn
  <2>1. pc \in Building /\ pc' \in Building /\ OnTrack' /\ Stack' /\ UNCHANGED <<panicking, lost, result>>
    BY <1>1 DEF GoesOn, Onward
  <2>2. bag'.error \in {bag.error, "run"}
    BY <1>1 DEF GoesOn
  <2> QED BY <2>1, <2>2, <1>p DEF Sound
<1>2. CASE TurnsAround
  <2>1. /\ pc' \in {"finish", "clean.keydir", "clean.key", "clean.floatingip"}
        /\ pc' \notin Building
        /\ Stack'
    BY <1>2, <1>t, Unwound, Registered DEF TurnsAround, Stack, InstanceCleanup
  <2>2. pc \in Building /\ bag'.error \in {bag.error, "run"} /\ panicking' \in {panicking, TRUE}
        /\ (lost' = lost \/ bag'.error = "run" \/ panicking') /\ result' = result
    BY <1>2 DEF TurnsAround
  <2> QED BY <2>1, <2>2, <1>p DEF OnTrack, Sound, InstanceCleanup
<1>3. CASE Exits
  BY <1>3, <1>p DEF Exits, OnTrack, Stack, Sound, runner, Building, StepNames
<1>4. CASE CleansUp
  <2>1. pc' \in InstanceCleanup \cup {"clean.key", "clean.keydir", "finish"} /\ Stack'
    BY <1>4, <1>t, CleanedUp, Registered DEF Stack, NextRequest, InstanceCleanup, runner
  <2>2. Sound'
    BY <1>4, <1>t, <1>e, <1>p, <2>1, CleanedUp DEF Sound, InstanceCleanup, runner
  <2> QED BY <2>1, <2>2, <1>p DEF OnTrack
<1>5. CASE Returns
  BY <1>5, <1>t, <1>p, Registered
     DEF Returns, OnTrack, Stack, Sound, runner, BuildSucceeded, InstanceCleanup
<1> QED BY <1>1, <1>2, <1>3, <1>4, <1>5, FlowStep DEF Flow

-----------------------------------------------------------------------------
(* What each action leaves alone: for every resource and every entry of    *)
(* the bag, the actions that may change it.                                *)

SameEntries ==
    /\ bag'.image_id = bag.image_id
    /\ bag'.instance_data = bag.instance_data
    /\ bag'.floating_ip = bag.floating_ip
    /\ bag'.floating_ip_id = bag.floating_ip_id
    /\ bag'.security_group_id = bag.security_group_id
    /\ bag'.security_group_name = bag.security_group_name
    /\ bag'.security_group_rule_id = bag.security_group_rule_id
    /\ bag'.vpc_ssh_key = bag.vpc_ssh_key

Frame ==
    /\ key' = key \/ CreateSshKeyVPC \/ DeleteKey
    /\ keydir' = keydir \/ CreateSshKeyPair \/ RemoveKeyDirectory
    /\ \/ inst' = inst \/ CreateInstance \/ DeleteFailedInstance \/ RebootInstance
       \/ StopInstance \/ DeleteInstance
    /\ fip' = fip \/ CreateFloatingIP \/ ReleaseFloatingIP
    /\ sg' = sg \/ OpenSecurityGroup \/ DeleteSecurityGroup
    /\ rules' = rules \/ CreateRule \/ DeleteRule \/ DeleteSecurityGroup \/ OpenSecurityGroup
    /\ attached' = attached \/ AttachInterface
    /\ image' = image \/ CreateImage
    /\ tagged' = tagged \/ AttachTags
    /\ attempt' = attempt \/ CreateInstance
    /\ bag'.image_id = bag.image_id \/ CreateImage
    /\ \/ bag'.instance_data = bag.instance_data
       \/ CreateInstance \/ AwaitFailedInstanceGone \/ RetrieveInstance
    /\ bag'.floating_ip = bag.floating_ip \/ GetPrivateIP \/ AwaitFloatingIP
    /\ bag'.floating_ip_id = bag.floating_ip_id \/ CreateFloatingIP
    /\ bag'.security_group_id = bag.security_group_id \/ OpenSecurityGroup
    /\ bag'.security_group_name = bag.security_group_name \/ OpenSecurityGroup
    /\ bag'.security_group_rule_id = bag.security_group_rule_id \/ CreateRule
    /\ bag'.vpc_ssh_key = bag.vpc_ssh_key \/ CreateSshKeyVPC
    /\ lost' = "floating_ip" => lost = "floating_ip" \/ CreateFloatingIP
    /\ lost' = "instance" => lost = "instance" \/ CreateInstance

\* One step per action.
LEMMA FrameStep == ASSUME TypeOK, Build PROVE Frame
<1> USE DEF Fails, CleanupGivesUp
<1>b. bag \in Bag
  BY DEF TypeOK, RestTypeOK
<1>e. bag' = bag \/ PutError \/ PutCleanupError => SameEntries
  BY <1>b DEF PutError, PutCleanupError, SameEntries, Bag
<1>1. CASE Greeting
  BY <1>1, <1>e DEF Greeting, Checks, SameEntries, Frame, cloud, history
<1>2. CASE CreateVPCServiceInstance
  BY <1>2, <1>e DEF CreateVPCServiceInstance, Checks, SameEntries, Frame, cloud, history
<1>3. CASE VerifyInput
  BY <1>3, <1>e DEF VerifyInput, Checks, SameEntries, Frame, cloud, history
<1>4. CASE GetSubnetInfo
  BY <1>4, <1>e DEF GetSubnetInfo, Checks, SameEntries, Frame, cloud, history
<1>5. CASE GetBaseImageID
  BY <1>5, <1>e DEF GetBaseImageID, Checks, SameEntries, Frame, cloud, history
<1>6. CASE WaitWinRM
  BY <1>6, <1>e DEF WaitWinRM, Checks, SameEntries, Frame, cloud, history
<1>7. CASE CreateSshKeyPair
  BY <1>7, <1>e DEF CreateSshKeyPair, SameEntries, Frame, cloud, history
<1>8. CASE CreateSshKeyVPC
  BY <1>8, <1>b, <1>e DEF CreateSshKeyVPC, SetKey, Put, Bag, SameEntries, Frame, cloud, history
<1>9. CASE CreateInstance
  BY <1>9, <1>b, <1>e DEF CreateInstance, SetInstance, Put, Bag, SameEntries, Frame, cloud, history
<1>10. CASE AwaitStart
  BY <1>10, <1>e DEF AwaitStart, SameEntries, Frame, cloud, history
<1>11. CASE DeleteFailedInstance
  BY <1>11, <1>e DEF DeleteFailedInstance, SetInstance, SameEntries, Frame, cloud, history
<1>12. CASE AwaitFailedInstanceGone
  BY <1>12, <1>b, <1>e DEF AwaitFailedInstanceGone, Put, Bag, SameEntries, Frame, cloud, history
<1>13. CASE WaitforInstance
  BY <1>13, <1>e DEF WaitforInstance, SameEntries, Frame, cloud, history
<1>14. CASE RetrieveInstance
  BY <1>14, <1>b, <1>e DEF RetrieveInstance, Put, Bag, SameEntries, Frame, cloud, history
<1>15. CASE GetPrivateIP
  BY <1>15, <1>b, <1>e DEF GetPrivateIP, Put, Bag, SameEntries, Frame, cloud, history
<1>16. CASE CreateFloatingIP
  BY <1>16, <1>b, <1>e DEF CreateFloatingIP, SetFloatingIP, Put, Bag, SameEntries, Frame, cloud, history
<1>17. CASE AwaitFloatingIP
  BY <1>17, <1>b, <1>e DEF AwaitFloatingIP, Put, Bag, SameEntries, Frame, cloud, history
<1>18. CASE WriteInventory
  BY <1>18, <1>e DEF WriteInventory, SameEntries, Frame, cloud, history
<1>19. CASE OpenSecurityGroup
  BY <1>19, <1>b, <1>e DEF OpenSecurityGroup, SetSecurityGroup, Put, Bag, SameEntries, Frame, cloud, history
<1>20. CASE CreateRule
  BY <1>20, <1>b, <1>e DEF CreateRule, SetRules, Put, Bag, SameEntries, Frame, cloud, history
<1>21. CASE RulesDone
  BY <1>21, <1>e DEF RulesDone, SameEntries, Frame, cloud, history
<1>22. CASE AttachInterface
  BY <1>22, <1>e DEF AttachInterface, Attach, SameEntries, Frame, cloud, history
<1>23. CASE Connect
  BY <1>23, <1>e DEF Connect, SameEntries, Frame, cloud, history
<1>24. CASE SshKeyUnreadable
  BY <1>24, <1>e DEF SshKeyUnreadable, SameEntries, Frame, cloud, history
<1>25. CASE WinRMCredentialsMissing
  BY <1>25, <1>e DEF WinRMCredentialsMissing, SameEntries, Frame, cloud, history
<1>26. CASE Provision
  BY <1>26, <1>e DEF Provision, SameEntries, Frame, cloud, history
<1>27. CASE RebootInstance
  BY <1>27, <1>e DEF RebootInstance, SetInstance, SameEntries, Frame, cloud, history
<1>28. CASE AwaitReboot
  BY <1>28, <1>e DEF AwaitReboot, SameEntries, Frame, cloud, history
<1>29. CASE RetrieveRebooted
  BY <1>29, <1>e DEF RetrieveRebooted, SameEntries, Frame, cloud, history
<1>30. CASE StopInstance
  BY <1>30, <1>e DEF StopInstance, SetInstance, SameEntries, Frame, cloud, history
<1>31. CASE AwaitStopped
  BY <1>31, <1>e DEF AwaitStopped, SameEntries, Frame, cloud, history
<1>32. CASE CreateImage
  BY <1>32, <1>b, <1>e DEF CreateImage, CreateImageFrom, Put, Bag, SameEntries, Frame, cloud, history
<1>33. CASE AttachTags
  BY <1>33, <1>e DEF AttachTags, TagImage, SameEntries, Frame, cloud, history
<1>34. CASE AwaitImage
  BY <1>34, <1>e DEF AwaitImage, SameEntries, Frame, cloud, history
<1>35. CASE ReleaseFloatingIP
  BY <1>35, <1>e DEF ReleaseFloatingIP, SetFloatingIP, SameEntries, Frame, cloud, history
<1>36. CASE DeleteInstance
  BY <1>36, <1>e DEF DeleteInstance, SetInstance, SameEntries, Frame, cloud, history
<1>37. CASE AwaitInstanceGone
  BY <1>37, <1>e DEF AwaitInstanceGone, SameEntries, Frame, cloud, history
<1>38. CASE DeleteRule
  BY <1>38, <1>e DEF DeleteRule, SetRules, SameEntries, Frame, cloud, history
<1>39. CASE DeleteSecurityGroup
  BY <1>39, <1>e DEF DeleteSecurityGroup, SetSecurityGroup, SameEntries, Frame, cloud, history
<1>40. CASE DeleteKey
  BY <1>40, <1>e DEF DeleteKey, SetKey, SameEntries, Frame, cloud, history
<1>41. CASE RemoveKeyDirectory
  BY <1>41, <1>e DEF RemoveKeyDirectory, SameEntries, Frame, cloud, history
<1>42. CASE Finish
  BY <1>42, <1>e DEF Finish, SameEntries, Frame, cloud, history
<1> QED
  BY <1>1, <1>2, <1>3, <1>4, <1>5, <1>6, <1>7, <1>8, <1>9, <1>10, <1>11, <1>12, <1>13, <1>14, <1>15, <1>16, <1>17, <1>18, <1>19, <1>20, <1>21, <1>22, <1>23, <1>24, <1>25, <1>26, <1>27, <1>28, <1>29, <1>30, <1>31, <1>32, <1>33, <1>34, <1>35, <1>36, <1>37, <1>38, <1>39, <1>40, <1>41, <1>42
     DEF Build, CreateSteps, BakeSteps, CleanupSteps

\* The actions that start at each point.
StartsAt ==
    /\ pc = "Greeting" => Greeting
    /\ pc = "CreateVPCServiceInstance" => CreateVPCServiceInstance
    /\ pc = "verifyInput" => VerifyInput
    /\ pc = "getSubnetInfo" => GetSubnetInfo
    /\ pc = "getBaseImageID" => GetBaseImageID
    /\ pc = "waitWinRM" => WaitWinRM
    /\ pc = "createSshKeyPair" => CreateSshKeyPair
    /\ pc = "createSshKeyVPC" => CreateSshKeyVPC
    /\ pc = "createInstance" => CreateInstance
    /\ pc = "createInstance.wait" => AwaitStart
    /\ pc = "createInstance.delete" => DeleteFailedInstance
    /\ pc = "createInstance.gone" => AwaitFailedInstanceGone
    /\ pc = "waitforInstance" => WaitforInstance
    /\ pc = "waitforInstance.retrieve" => RetrieveInstance
    /\ pc = "getIP" => GetPrivateIP \/ CreateFloatingIP
    /\ pc = "getIP.wait" => AwaitFloatingIP
    /\ pc = "getIP.inventory" => WriteInventory
    /\ pc = "createSecurityGroupRules" => OpenSecurityGroup
    /\ pc = "createSecurityGroupRules.rules" => CreateRule \/ RulesDone
    /\ pc = "createSecurityGroupRules.attach" => AttachInterface
    /\ pc = "StepConnect" => Connect \/ SshKeyUnreadable \/ WinRMCredentialsMissing
    /\ pc = "StepProvision" => Provision
    /\ pc = "rebootInstance" => RebootInstance
    /\ pc = "rebootInstance.wait" => AwaitReboot
    /\ pc = "rebootInstance.retrieve" => RetrieveRebooted
    /\ pc = "captureImage" => StopInstance
    /\ pc = "captureImage.wait" => AwaitStopped
    /\ pc = "captureImage.create" => CreateImage
    /\ pc = "captureImage.tag" => AttachTags
    /\ pc = "captureImage.available" => AwaitImage
    /\ pc = "clean.floatingip" => ReleaseFloatingIP
    /\ pc = "clean.instance" => DeleteInstance
    /\ pc = "clean.gone" => AwaitInstanceGone
    /\ pc = "clean.rule" => DeleteRule
    /\ pc = "clean.group" => DeleteSecurityGroup
    /\ pc = "clean.key" => DeleteKey
    /\ pc = "clean.keydir" => RemoveKeyDirectory
    /\ pc = "finish" => Finish

\* An action starts at one point only.
LEMMA StartStep == ASSUME Build PROVE StartsAt
<1> USE DEF At, StartsAt
<1>1. CASE Greeting
  BY <1>1 DEF Greeting, Checks
<1>2. CASE CreateVPCServiceInstance
  BY <1>2 DEF CreateVPCServiceInstance, Checks
<1>3. CASE VerifyInput
  BY <1>3 DEF VerifyInput, Checks
<1>4. CASE GetSubnetInfo
  BY <1>4 DEF GetSubnetInfo, Checks
<1>5. CASE GetBaseImageID
  BY <1>5 DEF GetBaseImageID, Checks
<1>6. CASE WaitWinRM
  BY <1>6 DEF WaitWinRM, Checks
<1>7. CASE CreateSshKeyPair
  BY <1>7 DEF CreateSshKeyPair
<1>8. CASE CreateSshKeyVPC
  BY <1>8 DEF CreateSshKeyVPC
<1>9. CASE CreateInstance
  BY <1>9 DEF CreateInstance
<1>10. CASE AwaitStart
  BY <1>10 DEF AwaitStart
<1>11. CASE DeleteFailedInstance
  BY <1>11 DEF DeleteFailedInstance
<1>12. CASE AwaitFailedInstanceGone
  BY <1>12 DEF AwaitFailedInstanceGone
<1>13. CASE WaitforInstance
  BY <1>13 DEF WaitforInstance
<1>14. CASE RetrieveInstance
  BY <1>14 DEF RetrieveInstance
<1>15. CASE GetPrivateIP
  BY <1>15 DEF GetPrivateIP
<1>16. CASE CreateFloatingIP
  BY <1>16 DEF CreateFloatingIP
<1>17. CASE AwaitFloatingIP
  BY <1>17 DEF AwaitFloatingIP
<1>18. CASE WriteInventory
  BY <1>18 DEF WriteInventory
<1>19. CASE OpenSecurityGroup
  BY <1>19 DEF OpenSecurityGroup
<1>20. CASE CreateRule
  BY <1>20 DEF CreateRule
<1>21. CASE RulesDone
  BY <1>21 DEF RulesDone
<1>22. CASE AttachInterface
  BY <1>22 DEF AttachInterface
<1>23. CASE Connect
  BY <1>23 DEF Connect
<1>24. CASE SshKeyUnreadable
  BY <1>24 DEF SshKeyUnreadable
<1>25. CASE WinRMCredentialsMissing
  BY <1>25 DEF WinRMCredentialsMissing
<1>26. CASE Provision
  BY <1>26 DEF Provision
<1>27. CASE RebootInstance
  BY <1>27 DEF RebootInstance
<1>28. CASE AwaitReboot
  BY <1>28 DEF AwaitReboot
<1>29. CASE RetrieveRebooted
  BY <1>29 DEF RetrieveRebooted
<1>30. CASE StopInstance
  BY <1>30 DEF StopInstance
<1>31. CASE AwaitStopped
  BY <1>31 DEF AwaitStopped
<1>32. CASE CreateImage
  BY <1>32 DEF CreateImage
<1>33. CASE AttachTags
  BY <1>33 DEF AttachTags
<1>34. CASE AwaitImage
  BY <1>34 DEF AwaitImage
<1>35. CASE ReleaseFloatingIP
  BY <1>35 DEF ReleaseFloatingIP
<1>36. CASE DeleteInstance
  BY <1>36 DEF DeleteInstance
<1>37. CASE AwaitInstanceGone
  BY <1>37 DEF AwaitInstanceGone
<1>38. CASE DeleteRule
  BY <1>38 DEF DeleteRule
<1>39. CASE DeleteSecurityGroup
  BY <1>39 DEF DeleteSecurityGroup
<1>40. CASE DeleteKey
  BY <1>40 DEF DeleteKey
<1>41. CASE RemoveKeyDirectory
  BY <1>41 DEF RemoveKeyDirectory
<1>42. CASE Finish
  BY <1>42 DEF Finish
<1> QED
  BY <1>1, <1>2, <1>3, <1>4, <1>5, <1>6, <1>7, <1>8, <1>9, <1>10, <1>11, <1>12, <1>13, <1>14, <1>15, <1>16, <1>17, <1>18, <1>19, <1>20, <1>21, <1>22, <1>23, <1>24, <1>25, <1>26, <1>27, <1>28, <1>29, <1>30, <1>31, <1>32, <1>33, <1>34, <1>35, <1>36, <1>37, <1>38, <1>39, <1>40, <1>41, <1>42
     DEF Build, CreateSteps, BakeSteps, CleanupSteps

-----------------------------------------------------------------------------
(* What follows from Flow and is asked for again and again.                *)

LEMMA FlowFacts ==
    ASSUME TypeOK, OnTrack, Stack, Sound, Build
    PROVE  /\ panicking => panicking'
           /\ bag.error = "cleanup" => bag'.error = "cleanup"
           /\ bag.error # "none" => bag'.error # "none"
           /\ lost # "none" => lost' = lost
           /\ lost' = "rule" => lost = "rule" \/ panicking'
           /\ pc' \in Building =>
                  /\ pc \in Building /\ Advances(pc, deferred, pc')
                  /\ deferred' >= deferred /\ UNCHANGED <<panicking, lost>>
           /\ pc \in Building /\ pc' \notin Building =>
                  /\ pc' \in {"finish", "clean.keydir", "clean.key", "clean.floatingip", "exited"}
                  /\ pc' = "clean.floatingip" \/ deferred < 2
                     \/ (pc = "StepConnect" /\ pc' = "exited" /\ bag'.error # "none")
           /\ pc \notin Building => pc' \notin Building \cup {"clean.floatingip", "exited"}
           /\ pc \in InstanceCleanup =>
                  \/ NextRequest(pc, pc') /\ bag' = bag /\ UNCHANGED <<panicking, lost>>
                  \/ /\ pc' = "clean.key"
                     /\ pc = "clean.group" \/ panicking' \/ bag'.error = "cleanup"
           /\ pc \notin Building \cup InstanceCleanup => pc' \notin InstanceCleanup
           /\ pc \in Building \cup CleanupPoints
<1>r. lost' = "rule" => lost = "rule" \/ panicking'
  BY FlowStep DEF Flow, GoesOn, TurnsAround, Exits, CleansUp, Returns
<1>0. pc \in Building \cup CleanupPoints
  BY FlowStep DEF Flow, GoesOn, Onward, TurnsAround, Exits, CleansUp, Returns,
                  CleanupPoints, Building, StepNames
<1>t. RunnerTypeOK /\ bag \in Bag /\ Flow
  BY FlowStep DEF TypeOK, RestTypeOK
<1>e. [bag EXCEPT !.error = "cleanup"].error = "cleanup"
  BY <1>t DEF Bag
<1>b. pc \in Building => /\ pc \notin InstanceCleanup
                         /\ lost = "none" /\ ~panicking /\ bag.error # "cleanup"
  BY DEF Sound, Building, StepNames, InnerPoints, InstanceCleanup
<1>n. {"clean.floatingip", "clean.instance", "clean.gone", "clean.rule", "clean.group",
       "clean.key", "clean.keydir", "finish", "exited", "returned", "crashed"} \cap Building = {}
  BY DEF Building, StepNames, InnerPoints
<1>1. CASE GoesOn
  <2>1. /\ pc \in Building /\ pc' \in Building /\ Advances(pc, deferred, pc')
        /\ deferred' >= deferred /\ UNCHANGED <<panicking, lost>>
        /\ bag'.error = bag.error \/ bag'.error = "run"
    BY <1>1 DEF GoesOn, Onward
  <2> QED BY <2>1, <1>b, <1>0, <1>r
<1>2. CASE TurnsAround
  <2>1. /\ pc \in Building /\ Unwind(Top) /\ Top \in 0..3
        /\ bag'.error = bag.error \/ bag'.error = "run"
    BY <1>2, <1>t, Registered DEF TurnsAround
  <2>2. deferred < 2 \/ Top = 3
    BY <2>1, BuildingCleanups DEF Top, FirstSteps, CreatePoints, LaterPoints
  <2> QED BY <2>1, <2>2, <1>b, <1>0, <1>r, Unwound
<1>3. CASE Exits
  <2>1. pc \in Building
    BY <1>3 DEF Exits, Building, StepNames
  <2> QED BY <2>1, <1>3, <1>b, <1>n, <1>0, <1>r DEF Exits
<1>4. CASE CleansUp
  <2>1. /\ pc \notin Building /\ pc' \notin Building \cup {"clean.floatingip", "exited"}
        /\ pc \notin InstanceCleanup => pc' \notin InstanceCleanup
    <3>1. pc \in {"clean.floatingip", "clean.instance", "clean.gone", "clean.rule",
                 "clean.group", "clean.key", "clean.keydir"}
      BY <1>4 DEF CleansUp, CleanupPoints
    <3>2. pc' \in {"clean.instance", "clean.gone", "clean.rule", "clean.group",
                  "clean.key", "clean.keydir", "finish"}
      BY <1>4, <1>t, CleanedUp DEF NextRequest
    <3>3. pc \notin InstanceCleanup => pc' \notin InstanceCleanup
      <4>0. RunnerTypeOK /\ Stack /\ CleansUp
        BY <1>4, <1>t
      <4>1. pc \notin InstanceCleanup => pc' = "clean.keydir" \/ pc' = "finish"
        BY <4>0, CleanedUp
      <4> QED BY <4>1 DEF InstanceCleanup
    <3> QED BY <3>1, <3>2, <3>3, <1>n
  <2>2. /\ panicking => panicking'
        /\ bag.error = "cleanup" => bag'.error = "cleanup"
        /\ bag.error # "none" => bag'.error # "none"
        /\ lost' = lost
    <3>1. /\ bag' = bag \/ bag' = [bag EXCEPT !.error = "cleanup"]
          /\ panicking' = panicking \/ panicking' = TRUE
          /\ lost' = lost
      BY <1>4 DEF CleansUp
    <3>2. bag'.error = bag.error \/ bag'.error = "cleanup"
      BY <3>1, <1>e
    <3>3. panicking => panicking'
      BY <3>1
    <3> QED BY <3>1, <3>2, <3>3
  <2>3. pc \in InstanceCleanup =>
            \/ NextRequest(pc, pc') /\ bag' = bag /\ UNCHANGED <<panicking, lost>>
            \/ /\ pc' = "clean.key"
               /\ pc = "clean.group" \/ panicking' \/ bag'.error = "cleanup"
    BY <1>4, <1>t, CleanedUp DEF InstanceCleanup, runner
  <2> QED BY <2>1, <2>2, <2>3, <1>0, <1>r
<1>5. CASE Returns
  BY <1>5, <1>n, <1>0, <1>r DEF Returns, runner, InstanceCleanup
<1> QED BY <1>0, <1>r, <1>t, <1>1, <1>2, <1>3, <1>4, <1>5 DEF Flow

-----------------------------------------------------------------------------
(* The parts of the invariant that are about resources, one lemma each:    *)
(* the actions that change the resource, then all others, by Flow.         *)

\* The SSH key and the private key file.
LEMMA KeysStep ==
    ASSUME TypeOK, OnTrack, Stack, Sound, KeysStock, Build
    PROVE  KeysStock'
<1>t. RunnerTypeOK /\ bag \in Bag /\ deferred \in 0..3 /\ deferred' \in 0..3 /\ Flow
  BY FlowStep, RunnerType DEF TypeOK, RunnerTypeOK, RestTypeOK
<1>f. Frame
  BY FrameStep
<1>e. /\ \A x : [bag EXCEPT !.error = x].vpc_ssh_key = bag.vpc_ssh_key
      /\ [bag EXCEPT !.error = "cleanup"].error = "cleanup"
  BY <1>t DEF Bag
<1>d. ASSUME GoesOn \/ TurnsAround \/ Exits
      PROVE  /\ deferred >= 1 => deferred' >= 1
             /\ deferred >= 2 => deferred' >= 2
             /\ pc \notin {"clean.key", "clean.keydir"} /\ bag.error # "cleanup"
             /\ lost = "none"
  <2>1. pc \in Building
    BY <1>d DEF GoesOn, Onward, TurnsAround, Exits, Building, StepNames
  <2>5. pc \notin {"clean.key", "clean.keydir"} /\ bag.error # "cleanup" /\ lost = "none"
    BY <2>1 DEF Sound, Building, StepNames, InnerPoints
  <2>2. CASE GoesOn
    BY <2>2, <2>5, <1>t DEF GoesOn, Onward
  <2>3. CASE TurnsAround
    <3>1. Unwind(Top) /\ Top \in 0..3
      BY <2>1, <2>3, <1>t, Registered DEF TurnsAround
    <3>2. /\ deferred >= 1 => Top >= 2
          /\ deferred >= 2 => Top = 3
      BY <2>1, BuildingCleanups DEF Top, FirstSteps, CreatePoints, LaterPoints
    <3> QED BY <3>1, <3>2, <1>t, <2>5, Unwound
  <2>4. CASE Exits
    BY <2>4, <2>5 DEF Exits, runner
  <2> QED BY <1>d, <2>2, <2>3, <2>4
<1>1. CASE CreateSshKeyPair
  <2>1. pc = "createSshKeyPair" /\ deferred = 0
    BY <1>1 DEF CreateSshKeyPair, At, Stack, FirstSteps, CreatePoints, LaterPoints, InstanceCleanup
  <2>2. key' = key /\ lost' = lost /\ bag'.vpc_ssh_key = bag.vpc_ssh_key
    BY <1>1, <1>f DEF CreateSshKeyPair, Frame, At, CreateSshKeyVPC, DeleteKey, history
  <2>3. deferred' >= 1 \/ pc' = "clean.keydir"
    BY <1>1, <1>t, Unwound DEF CreateSshKeyPair, Continues, Fails, Halts
  <2>4. ~(key = "exists" /\ lost # "ssh_key")
    BY <2>1 DEF KeysStock, Sound, Building, StepNames
  <2> QED BY <2>1, <2>2, <2>3, <2>4 DEF KeysStock
<1>2. CASE CreateSshKeyVPC
  <2>1. pc = "createSshKeyVPC" /\ deferred = 1 /\ pc \in Building
    BY <1>2 DEF CreateSshKeyVPC, At, Stack, FirstSteps, CreatePoints, LaterPoints, InstanceCleanup,
                Building, StepNames
  <2>2. keydir' = keydir
    BY <1>2 DEF CreateSshKeyVPC
  <2>3. deferred' >= 1 /\ (deferred' >= 2 \/ pc' = "clean.key")
    <3>1. Continues(2) \/ Halts(2)
      BY <1>2 DEF CreateSshKeyVPC, Fails
    <3> QED BY <3>1, Unwound DEF Continues, Halts
  <2>4. key # "exists"
    BY <2>1 DEF KeysStock, Sound, Building, StepNames
  <2>5. Put("vpc_ssh_key", TRUE) => bag'.vpc_ssh_key = TRUE
    BY <1>t DEF Put, Bag
  <2>6. key' = key \/ lost' = "ssh_key" \/ bag'.vpc_ssh_key = TRUE
    BY <1>2, <2>5 DEF CreateSshKeyVPC, cloud
  <2> QED BY <2>2, <2>3, <2>4, <2>6 DEF KeysStock
<1>3. CASE DeleteKey
  <2>1. pc = "clean.key" /\ keydir' = keydir /\ lost' = lost
    BY <1>3 DEF DeleteKey, At, history
  <2>2. CASE CleansUp
    <3>1. pc' = "clean.keydir"
      BY <2>1, <2>2, <1>t, CleanedUp DEF InstanceCleanup
    <3>2. bag'.error = "cleanup" \/ ~(key' = "exists" /\ lost' # "ssh_key")
      BY <1>3, <1>e, <2>1, CleanedUp, <1>t, <2>2 DEF DeleteKey, CleanupGivesUp, PutCleanupError, KeysStock, SetKey, cloud
    <3>3. key' = "exists" => key = "exists"
      BY <1>3 DEF DeleteKey, SetKey, cloud
    <3>4. bag'.vpc_ssh_key = bag.vpc_ssh_key
      BY <2>1, <1>f DEF Frame, CreateSshKeyVPC, At
    <3> QED BY <3>1, <3>2, <3>3, <3>4, <2>1 DEF KeysStock
  <2>3. pc \notin Building
    BY <2>1 DEF Building, StepNames, InnerPoints
  <2> QED BY <1>t, <2>1, <2>2, <2>3 DEF Flow, GoesOn, Onward, TurnsAround, Exits, Returns
<1>4. CASE RemoveKeyDirectory
  <2>1. pc = "clean.keydir" /\ key' = key /\ lost' = lost /\ deferred = 0
    BY <1>4, <1>t, Registered DEF RemoveKeyDirectory, At, history, cloud
  <2>2. ~keydir' \/ bag'.error = "cleanup"
    BY <1>4, <1>e DEF RemoveKeyDirectory, CleanupGivesUp, PutCleanupError
  <2>3. bag'.vpc_ssh_key = bag.vpc_ssh_key /\ (bag.error = "cleanup" => bag'.error = "cleanup")
    BY <1>4, <1>e DEF RemoveKeyDirectory, CleanupGivesUp, PutCleanupError
  <2> QED BY <2>1, <2>2, <2>3 DEF KeysStock
<1>5. CASE ~(CreateSshKeyPair \/ CreateSshKeyVPC \/ DeleteKey \/ RemoveKeyDirectory)
  <2>1. key' = key /\ keydir' = keydir /\ bag'.vpc_ssh_key = bag.vpc_ssh_key
    BY <1>5, <1>f DEF Frame
  <2>2. CASE GoesOn \/ TurnsAround \/ Exits
    BY <2>1, <2>2, <1>d DEF KeysStock
  <2>3. CASE CleansUp
    <3>1. lost' = lost /\ (bag.error = "cleanup" => bag'.error = "cleanup")
      BY <2>3, <1>t, <1>e, CleanedUp
    <3>2. pc # "clean.key" /\ pc # "clean.keydir"
      BY <1>5, StartStep DEF StartsAt
    <3> QED BY <2>1, <2>3, <3>1, <3>2, <1>t, CleanedUp DEF KeysStock, runner
  <2>4. CASE Returns
    BY <2>1, <2>4 DEF Returns, runner, KeysStock
  <2> QED BY <1>t, <2>2, <2>3, <2>4 DEF Flow
<1> QED BY <1>1, <1>2, <1>3, <1>4, <1>5

\* A step that finds an instance follows one that found it, or its creation.
LEMMA InstanceFound ==
    ASSUME TypeOK, OnTrack, Stack, Sound, Build
    PROVE  /\ HasInstance' => HasInstance \/ pc = "createInstance"
           /\ BeforeInstance' => BeforeInstance
           /\ pc \in CreatePoints \cup LaterPoints \/ ~HasInstance
<1>1. deferred \in 0..3 /\ deferred' \in 0..3
  BY RunnerType DEF TypeOK, RunnerTypeOK
<1>2. BeforeInstance' => BeforeInstance
  BY <1>1, FlowFacts DEF BeforeInstance
<1>3. pc \in CreatePoints \cup LaterPoints \/ ~HasInstance
  BY BuildingCleanups DEF HasInstance
<1>4. ASSUME HasInstance' PROVE HasInstance \/ pc = "createInstance"
  <2>1. pc' \in Building
    BY <1>4 DEF HasInstance, CreatePoints, Building, StepNames, InnerPoints
  <2>2. pc \in Building /\ Advances(pc, deferred, pc')
    BY <2>1, FlowFacts
  <2>3. /\ pc' \in (CreatePoints \ {"createInstance"}) \cup LaterPoints
        /\ pc' = "CreateVPCServiceInstance" => deferred' = 3
    <3>1. Stack'
      BY ControlStep
    <3>2. deferred' = 3 => pc' \in LaterPoints
      BY <2>1, <3>1 DEF Stack, Building, StepNames, InnerPoints
    <3>3. deferred' = 3 \/ pc' \in CreatePoints \ {"createInstance"}
      BY <1>4 DEF HasInstance
    <3> QED BY <3>2, <3>3 DEF CreatePoints
  <2>4. CASE deferred = 0 /\ pc \in FirstSteps \cup {"CreateVPCServiceInstance"}
    <3>1. pc' = "CreateVPCServiceInstance" /\ pc = "Greeting"
      BY <2>2, <2>3, <2>4 DEF Advances, Succeeds, FirstSteps, CreatePoints, LaterPoints
    <3>2. deferred' # 3
      <4>1. Greeting /\ deferred = 0
        BY <3>1, <2>4, StartStep DEF StartsAt
      <4>2. deferred' = 0 \/ Unwind(0)
        BY <4>1 DEF Greeting, Checks, Continues, Fails, Halts
      <4> QED BY <4>2, Unwound
    <3> QED BY <3>1, <3>2, <2>3
  <2>5. CASE deferred = 1 /\ pc = "createSshKeyVPC"
    BY <2>2, <2>3, <2>5 DEF Advances, Succeeds, CreatePoints, LaterPoints
  <2>6. CASE deferred = 2 /\ pc \in CreatePoints
    BY <2>6 DEF HasInstance
  <2>7. CASE deferred = 3 /\ pc \in LaterPoints
    BY <2>2, <2>7 DEF HasInstance
  <2> QED BY <2>2, <2>4, <2>5, <2>6, <2>7, BuildingCleanups
<1> QED BY <1>2, <1>3, <1>4

\* The points whose request changes the instance, or the bag's entry of it.
TouchPoints == {"createInstance", "createInstance.delete", "createInstance.gone",
    "waitforInstance.retrieve", "rebootInstance", "captureImage", "clean.instance"}

LEMMA InstanceUntouched ==
    ASSUME IInv, OnTrack, Stack, Sound, InstanceStock, Build, pc \notin TouchPoints
    PROVE  InstanceStock'
<1>t. TypeOK /\ TypeOK' /\ deferred \in 0..3
  BY StepType DEF IInv, TypeOK, RunnerTypeOK, Next
<1>f. inst' = inst /\ attempt' = attempt /\ bag'.instance_data = bag.instance_data
  BY <1>t, FrameStep
  DEF Frame, TouchPoints, At, CreateInstance, DeleteFailedInstance, AwaitFailedInstanceGone,
      RetrieveInstance, RebootInstance, StopInstance, DeleteInstance
<1>s. /\ \A i \in Subnets : Standing(i)' <=> Standing(i)
      /\ NilInstance' <=> NilInstance
      /\ TheInstance' = TheInstance
  BY <1>f DEF Standing, NilInstance, TheInstance
<1>m. /\ panicking => panicking'
      /\ bag.error = "cleanup" => bag'.error = "cleanup"
      /\ lost # "none" => lost' = lost
      /\ pc' \in Building => pc \in Building /\ Advances(pc, deferred, pc')
  BY <1>t, FlowFacts
<1>h. /\ HasInstance' => HasInstance
      /\ BeforeInstance' => BeforeInstance
  BY <1>t, InstanceFound DEF TouchPoints
<1>1. /\ BeforeInstance' => TheInstance' = 0 /\ \A i \in Subnets : ~Standing(i)'
      /\ TheInstance' \in Subnets => inst'[TheInstance'] # "none"
  BY <1>f, <1>s, <1>h DEF InstanceStock
<1>2. StandingIsRecorded'
  BY <1>f, <1>s, <1>m DEF InstanceStock, StandingIsRecorded
<1>3. NilInstance' => \/ pc' \in {"getIP", "clean.floatingip", "clean.instance"}
                      \/ panicking' \/ bag'.error = "cleanup"
  <2>1. CASE NilInstance /\ pc = "getIP"
    <3>1. Panics
      BY <2>1, StartStep DEF StartsAt, GetPrivateIP, CreateFloatingIP
    <3> QED BY <3>1 DEF Panics
  <2>2. CASE NilInstance /\ pc = "clean.floatingip"
    <3>1. NextRequest(pc, pc') \/ panicking' \/ bag'.error = "cleanup"
      BY <2>2, <1>t, FlowFacts DEF InstanceCleanup
    <3> QED BY <3>1, <2>2 DEF NextRequest
  <2>3. CASE NilInstance /\ (panicking \/ bag.error = "cleanup")
    BY <2>3, <1>m
  <2> QED BY <1>s, <2>1, <2>2, <2>3 DEF InstanceStock, TouchPoints
<1>4. /\ HasInstance' \/ pc' = "clean.gone" => TheInstance' \in Subnets \cup {NilPointer}
      /\ NilInstance' => pc' # "clean.gone"
  <2>1. pc' # "clean.gone"
    <3>1. pc' \notin Building \/ pc' # "clean.gone"
      BY DEF Building, StepNames, InnerPoints
    <3>2. pc' = "clean.gone" => pc \in InstanceCleanup
      BY <1>t, <3>1, FlowFacts DEF InstanceCleanup
    <3>3. pc' = "clean.gone" => NextRequest(pc, pc')
      BY <1>t, <3>2, FlowFacts
    <3> QED BY <3>3 DEF NextRequest, TouchPoints
  <2> QED BY <2>1, <1>f, <1>s, <1>h DEF InstanceStock
<1>5. pc' \in CreatePoints \ {"createInstance"} => TheInstance' = attempt'
  <2>1. pc' \in CreatePoints \ {"createInstance"} => pc \in CreatePoints \ {"createInstance"}
    <3>1. pc' \in CreatePoints => pc' \in Building
      BY DEF CreatePoints, Building, StepNames, InnerPoints
    <3> QED BY <3>1, <1>m DEF CreatePoints, Advances, Succeeds, TouchPoints
  <2> QED BY <2>1, <1>f, <1>s DEF InstanceStock
<1>6. HasInstance' /\ TheInstance' \in Subnets =>
          inst'[TheInstance'] \notin {"deleting", "gone"} \/ pc' = "createInstance.gone"
  BY <1>f, <1>s, <1>h DEF InstanceStock, TouchPoints
<1>7. pc' = "captureImage.create" => inst'[TheInstance'] = "stopped"
  <2>1. pc' = "captureImage.create" => pc = "captureImage.wait"
    <3>1. pc' = "captureImage.create" => pc' \in Building
      BY DEF Building, InnerPoints
    <3> QED BY <3>1, <1>m DEF Advances, Succeeds, TouchPoints
  <2>2. ASSUME pc = "captureImage.wait", pc' = "captureImage.create"
        PROVE  inst[TheInstance] = "stopped"
    <3>1. AwaitStopped
      BY <2>2, StartStep DEF StartsAt
    <3>2. Unwind(deferred) => pc' # "captureImage.create"
      BY <1>t, Unwound DEF Building, InnerPoints
    <3> QED BY <2>2, <3>1, <3>2 DEF AwaitStopped, Fails, Halts
  <2> QED BY <2>1, <2>2, <1>f, <1>s
<1>8. (\E i \in Subnets : Standing(i)') /\ lost' # "instance" =>
          \/ pc' \in Building \cup {"clean.floatingip", "clean.instance", "clean.gone", "exited"}
          \/ pc' \notin InstanceCleanup /\ (panicking' \/ bag'.error = "cleanup")
  <2> SUFFICES ASSUME NEW i \in Subnets, Standing(i), lost # "instance", pc' \notin Building
               PROVE  \/ pc' \in {"clean.floatingip", "clean.instance", "clean.gone", "exited"}
                      \/ pc' \notin InstanceCleanup /\ (panicking' \/ bag'.error = "cleanup")
    BY <1>s, <1>m
  <2>1. CASE pc \in Building
    <3>1. ~BeforeInstance
      BY DEF InstanceStock
    <3>2. ~(deferred < 2)
      BY <2>1, <3>1, <1>t DEF BeforeInstance
    <3> QED BY <2>1, <3>2, <1>t, FlowFacts
  <2>2. CASE pc = "clean.floatingip"
    <3>1. NextRequest(pc, pc') \/ (pc' = "clean.key" /\ (panicking' \/ bag'.error = "cleanup"))
      BY <2>2, <1>t, FlowFacts DEF InstanceCleanup
    <3> QED BY <3>1, <2>2 DEF NextRequest, InstanceCleanup
  <2>3. CASE pc = "clean.gone"
    <3>1. AwaitInstanceGone
      BY <2>3, StartStep DEF StartsAt
    <3>2. TheInstance = i
      BY <2>3 DEF InstanceStock, StandingIsRecorded, TheInstance, NilInstance
    <3>3. inst[TheInstance] # "gone"
      BY <3>2 DEF Standing
    <3>4. CleanupGivesUp
      BY <3>1, <3>3 DEF AwaitInstanceGone
    <3>5. bag'.error = "cleanup"
      BY <3>4, <1>t DEF CleanupGivesUp, PutCleanupError, TypeOK, RestTypeOK, Bag
    <3>6. pc' = "clean.key"
      BY <2>3, <3>4, <1>t, Registered, Unwound DEF CleanupGivesUp, NextCleanup, InstanceCleanup, TypeOK
    <3> QED BY <3>5, <3>6 DEF InstanceCleanup
  <2>4. CASE pc \notin Building \cup InstanceCleanup /\ (panicking \/ bag.error = "cleanup")
    BY <2>4, <1>m, <1>t, FlowFacts
  <2>5. pc \in Building \/ pc \in {"clean.floatingip", "clean.gone"}
        \/ (pc \notin Building \cup InstanceCleanup /\ (panicking \/ bag.error = "cleanup"))
    <3>1. pc \in Building \cup CleanupPoints
      BY <1>t, FlowFacts
    <3>2. pc # "exited"
      BY <3>1 DEF Building, StepNames, InnerPoints, CleanupPoints
    <3> QED BY <3>2 DEF InstanceStock, TouchPoints
  <2> QED BY <2>1, <2>2, <2>3, <2>4, <2>5
<1> QED BY <1>1, <1>2, <1>3, <1>4, <1>5, <1>6, <1>7, <1>8 DEF InstanceStock

\* What the first request of stepCreateInstance.Cleanup needs to know.
LEMMA InstanceHandedOver ==
    ASSUME pc' = "clean.floatingip", StandingIsRecorded',
           TheInstance' \in Subnets => inst'[TheInstance'] # "none"
    PROVE  InstanceStock'
BY DEF InstanceStock, BeforeInstance, HasInstance, CreatePoints, Building, StepNames, InnerPoints

\* The requests of the capacity fallback.
LEMMA InstanceCreated ==
    ASSUME IInv, OnTrack, Stack, Sound, InstanceStock, Build,
           pc \in {"createInstance", "createInstance.delete", "createInstance.gone"}
    PROVE  InstanceStock'
<1>t. /\ TypeOK /\ TypeOK' /\ bag \in Bag /\ cfg \in ConfigSpace
      /\ inst \in [Subnets -> InstanceStatus]
      /\ attempt \in 0..MaxSubnets /\ attempt' \in 0..MaxSubnets
  BY StepType, BuildAssumption DEF IInv, TypeOK, RestTypeOK, CloudTypeOK, Next
<1>n. /\ NilPointer \notin Nat /\ Subnets \subseteq Nat /\ 0 \notin Subnets
      /\ MaxSubnets \in Nat
  BY BuildAssumption, CloudAssumption DEF Subnets
<1>b. /\ pc \in Building /\ deferred = 2 /\ lost = "none" /\ ~panicking
      /\ bag.error # "cleanup"
      /\ pc \notin {"getIP", "clean.floatingip", "clean.instance"}
  <2>1. pc \in Building
    BY DEF Building, StepNames, InnerPoints
  <2>2. deferred = 2
    BY <2>1, BuildingCleanups DEF FirstSteps, LaterPoints
  <2> QED BY <2>1, <2>2 DEF Sound
<1>i. TheInstance \in {0, attempt} /\ ~NilInstance
  BY <1>b DEF IInv, OnlyTheLast, InstanceStock, TheInstance, NilInstance
<1>s. \A k \in Subnets : Standing(k) => k = attempt
  BY DEF IInv, OnlyTheLast
<1>u. Unwind(3) => pc' = "clean.floatingip" /\ deferred' = 2
  BY Unwound
<1>e. \A x : /\ [bag EXCEPT !.error = x].instance_data = bag.instance_data
             /\ [bag EXCEPT !.instance_data = x].instance_data = x
  BY <1>t DEF Bag
<1>1. CASE pc = "createInstance"
  <2>1. CreateInstance
    BY <1>1, StartStep DEF StartsAt
  <2>2. /\ \A k \in Subnets : ~Standing(k)
        /\ TheInstance = 0
    BY <1>1, <1>i DEF IInv, OnlyTheLast, TheInstance, NilInstance
  <2>3. CASE attempt' = attempt
    <3>1. UNCHANGED inst /\ bag'.instance_data = bag.instance_data /\ pc' = "clean.floatingip"
      <4>1. attempt + 1 # attempt
        BY <1>t, <1>n
      <4>2. Fails(3) /\ UNCHANGED cloud
        BY <2>1, <2>3, <4>1 DEF CreateInstance
      <4> QED BY <4>2, <1>u, <1>e DEF Fails, Halts, PutError, cloud
    <3> QED BY <3>1, <2>2, <1>n, InstanceHandedOver DEF StandingIsRecorded, Standing, TheInstance
  <2>4. CASE attempt' = attempt + 1
    <3>1. /\ attempt' \in Subnets
          /\ inst' = [inst EXCEPT ![attempt'] = "starting"]
          /\ \/ bag'.instance_data = attempt' /\ pc' = "createInstance.wait" /\ deferred' = 2
             \/ lost' = "instance" /\ pc' = "clean.floatingip"
                /\ bag'.instance_data = bag.instance_data
      <4>1. attempt' \in Subnets /\ attempt' # attempt
        BY <2>4, <1>t, <1>n DEF Subnets
      <4>2. /\ SetInstance(attempt', "starting")
            /\ \/ Put("instance_data", attempt') /\ GoTo("createInstance.wait")
               \/ lost' = "instance" /\ Fails(3)
        BY <2>1, <2>4, <4>1 DEF CreateInstance
      <4> QED BY <4>1, <4>2, <1>b, <1>u, <1>e
        DEF SetInstance, Fails, Halts, PutError, Put, GoTo, runner
    <3>2. /\ inst'[attempt'] = "starting"
          /\ \A k \in Subnets : Standing(k)' => k = attempt'
      BY <3>1, <2>2, <1>t DEF Standing
    <3>3. CASE bag'.instance_data = attempt' /\ pc' = "createInstance.wait" /\ deferred' = 2
      <4>1. TheInstance' = attempt' /\ ~NilInstance' /\ TheInstance' \in Subnets
        BY <3>1, <3>3, <1>n DEF TheInstance, NilInstance
      <4>2. StandingIsRecorded'
        BY <3>2, <3>3 DEF StandingIsRecorded
      <4>3. pc' \in Building
        BY <3>3 DEF Building, InnerPoints
      <4> QED BY <3>2, <3>3, <4>1, <4>2, <4>3 DEF InstanceStock, BeforeInstance
    <3>4. CASE /\ lost' = "instance" /\ pc' = "clean.floatingip"
               /\ bag'.instance_data = bag.instance_data
      BY <3>4, <2>2, <1>n, InstanceHandedOver DEF StandingIsRecorded, TheInstance
    <3> QED BY <3>1, <3>3, <3>4
  <2> QED BY <2>1, <2>3, <2>4 DEF CreateInstance
<1>2. CASE pc = "createInstance.delete"
  <2>1. DeleteFailedInstance
    BY <1>2, StartStep DEF StartsAt
  <2>2. TheInstance = attempt /\ TheInstance \in Subnets
    BY <1>2, <1>i DEF InstanceStock, HasInstance, CreatePoints, NilInstance, TheInstance
  <2>3. attempt' = attempt /\ TheInstance' = TheInstance /\ ~NilInstance'
    BY <2>1, <1>i, <1>e DEF DeleteFailedInstance, TheInstance, NilInstance, Fails, PutError
  <2>4. /\ \/ inst' = inst
           \/ inst' = [inst EXCEPT ![attempt] = "deleting"]
        /\ \/ pc' = "createInstance.gone" /\ deferred' = 2
           \/ pc' = "clean.floatingip"
    BY <2>1, <1>b, <1>u DEF DeleteFailedInstance, SetInstance, cloud, GoTo, Fails, Halts, runner
  <2>5. /\ \A k \in Subnets : Standing(k)' => k = attempt
        /\ inst'[attempt] # "none"
    <3>1. inst[attempt] # "none"
      BY <2>2 DEF InstanceStock
    <3> QED BY <2>2, <2>4, <3>1, <1>s, <1>t DEF Standing
  <2>6. StandingIsRecorded'
    BY <2>2, <2>3, <2>5 DEF StandingIsRecorded, TheInstance
  <2>7. CASE pc' = "clean.floatingip"
    BY <2>2, <2>3, <2>5, <2>6, <2>7, InstanceHandedOver
  <2>8. CASE pc' = "createInstance.gone" /\ deferred' = 2
    <3>1. pc' \in Building
      BY <2>8 DEF Building, InnerPoints
    <3> QED BY <2>2, <2>3, <2>5, <2>6, <2>8, <3>1 DEF InstanceStock, BeforeInstance
  <2> QED BY <2>4, <2>7, <2>8
<1>3. CASE pc = "createInstance.gone"
  <2>1. AwaitFailedInstanceGone
    BY <1>3, StartStep DEF StartsAt
  <2>2. TheInstance = attempt /\ TheInstance \in Subnets
    BY <1>3, <1>i DEF InstanceStock, HasInstance, CreatePoints, NilInstance, TheInstance
  <2>3. inst' = inst /\ attempt' = attempt
    BY <2>1 DEF AwaitFailedInstanceGone, cloud
  <2>4. CASE inst[attempt] = "gone" /\ bag'.instance_data = 0 /\ pc' = "createInstance" /\ deferred' = 2
    <3>1. \A k \in Subnets : ~Standing(k)'
      BY <2>3, <2>4, <1>s DEF Standing
    <3>2. TheInstance' = 0 /\ ~NilInstance' /\ ~HasInstance' /\ pc' \notin CreatePoints \ {"createInstance"}
      BY <2>4, <1>n DEF TheInstance, NilInstance, HasInstance, CreatePoints
    <3> QED BY <2>4, <3>1, <3>2, <1>n DEF InstanceStock, StandingIsRecorded
  <2>5. CASE bag'.instance_data = bag.instance_data /\ pc' = "clean.floatingip"
    <3>1. StandingIsRecorded'
      BY <2>2, <2>3, <2>5, <1>s DEF StandingIsRecorded, Standing, TheInstance
    <3> QED BY <2>2, <2>3, <2>5, <3>1, InstanceHandedOver DEF InstanceStock, TheInstance
  <2> QED BY <2>1, <2>4, <2>5, <1>u, <1>e, <1>b
    DEF AwaitFailedInstanceGone, Put, GoTo, runner, Fails, PutError, Halts
<1> QED BY <1>1, <1>2, <1>3

\* The requests of the steps that use the instance.
LEMMA InstanceUsed ==
    ASSUME IInv, OnTrack, Stack, Sound, InstanceStock, Build,
           pc \in {"waitforInstance.retrieve", "rebootInstance", "captureImage"}
    PROVE  InstanceStock'
<1>t. /\ TypeOK /\ TypeOK' /\ bag \in Bag /\ deferred' \in 0..3
      /\ inst \in [Subnets -> InstanceStatus]
  BY StepType DEF IInv, TypeOK, RestTypeOK, CloudTypeOK, RunnerTypeOK, Next
<1>n. NilPointer \notin Nat /\ Subnets \subseteq Nat /\ 0 \notin Subnets
  BY BuildAssumption, CloudAssumption DEF Subnets
<1>b. /\ pc \in Building /\ deferred = 3 /\ HasInstance
      /\ TheInstance \in Subnets /\ ~NilInstance
      /\ inst[TheInstance] \notin {"none", "deleting", "gone"}
  <2>1. pc \in Building
    BY DEF Building, StepNames, InnerPoints
  <2>2. deferred = 3
    BY <2>1, BuildingCleanups DEF FirstSteps, CreatePoints
  <2>3. ~NilInstance
    BY <2>1 DEF InstanceStock, Sound
  <2>4. HasInstance
    BY <2>1, <2>2 DEF HasInstance
  <2>5. TheInstance \in Subnets
    BY <2>3, <2>4 DEF InstanceStock, NilInstance, TheInstance
  <2> QED BY <2>1, <2>2, <2>3, <2>4, <2>5 DEF InstanceStock
<1>c. /\ pc' = "clean.floatingip" \/ (pc' \in Building /\ Advances(pc, deferred, pc') /\ deferred' = 3)
      /\ lost' = lost \/ lost = "none"
  BY <1>t, <1>b, FlowFacts DEF Sound
<1>e. \A x : [bag EXCEPT !.error = x].instance_data = bag.instance_data
  BY <1>t DEF Bag
<1>p. pc' # "clean.floatingip" =>
          /\ pc' \in {"getIP", "rebootInstance.wait", "rebootInstance.retrieve",
                      "captureImage", "captureImage.wait", "captureImage.create"}
          /\ ~BeforeInstance' /\ HasInstance'
  BY <1>c DEF Advances, Succeeds, BeforeInstance, HasInstance
<1>1. CASE pc = "waitforInstance.retrieve"
  <2>1. RetrieveInstance
    BY <1>1, StartStep DEF StartsAt
  <2>2. inst' = inst /\ lost' = lost
    BY <2>1 DEF RetrieveInstance, cloud, history
  <2>3. bag'.instance_data = bag.instance_data \/ bag'.instance_data = NilPointer
    BY <2>1, <1>t DEF RetrieveInstance, Put, Bag
  <2>4. StandingIsRecorded'
    BY <2>2, <2>3, <1>b DEF InstanceStock, StandingIsRecorded, Standing
  <2>5. TheInstance' \in Subnets => inst'[TheInstance'] \notin {"none", "deleting", "gone"}
    BY <2>2, <2>3, <1>b, <1>n DEF TheInstance, Subnets
  <2>6. CASE pc' = "clean.floatingip"
    BY <2>4, <2>5, <2>6, InstanceHandedOver
  <2>7. CASE pc' # "clean.floatingip"
    <3>1. pc' = "getIP"
      BY <1>1, <1>c, <2>7 DEF Advances, Succeeds
    <3>2. TheInstance' \in Subnets \cup {NilPointer}
      BY <2>3, <1>b DEF TheInstance
    <3>3. pc' \in Building
      BY <3>1 DEF Building, StepNames
    <3> QED BY <1>p, <2>4, <2>5, <2>7, <3>1, <3>2, <3>3 DEF InstanceStock, CreatePoints
  <2> QED BY <2>6, <2>7
<1>2. CASE pc \in {"rebootInstance", "captureImage"}
  <2>1. RebootInstance \/ StopInstance
    BY <1>2, StartStep DEF StartsAt
  <2>2. bag'.instance_data = bag.instance_data /\ lost' = lost
    BY <2>1, <1>e DEF RebootInstance, StopInstance, Fails, PutError, history
  <2>3. /\ \/ inst' = inst
           \/ \E x \in {"running", "restarting", "stopping", "stopped"} :
                  inst' = [inst EXCEPT ![TheInstance] = x]
    BY <2>1 DEF RebootInstance, StopInstance, SetInstance, cloud
  <2>4. /\ TheInstance' = TheInstance /\ ~NilInstance'
        /\ inst'[TheInstance'] \notin {"none", "deleting", "gone"}
        /\ \A k \in Subnets : Standing(k)' => Standing(k)
    BY <2>2, <2>3, <1>b, <1>t DEF TheInstance, NilInstance, Standing
  <2>5. StandingIsRecorded'
    BY <2>2, <2>4 DEF InstanceStock, StandingIsRecorded
  <2>6. CASE pc' = "clean.floatingip"
    BY <2>4, <2>5, <2>6, InstanceHandedOver
  <2>7. CASE pc' # "clean.floatingip"
    <3>1. pc' = "captureImage.create" => inst'[TheInstance'] = "stopped"
      <4>1. ASSUME pc' = "captureImage.create" PROVE SetInstance(TheInstance, "stopped")
        <5>1. pc = "captureImage"
          BY <1>2, <4>1, <1>c, <2>7 DEF Advances, Succeeds
        <5>2. StopInstance
          BY <5>1, StartStep DEF StartsAt
        <5>3. ~Fails(deferred)
          BY <4>1, <1>b, Unwound DEF Fails, Halts
        <5> QED BY <4>1, <5>2, <5>3 DEF StopInstance, GoTo
      <4> QED BY <4>1, <2>4, <1>b, <1>t DEF SetInstance
    <3>2. pc' \in Building /\ pc' \notin CreatePoints \cup {"clean.gone"}
      BY <1>p, <2>7 DEF CreatePoints, Building, StepNames, InnerPoints
    <3> QED BY <1>p, <1>b, <2>4, <2>5, <2>7, <3>1, <3>2 DEF InstanceStock
  <2> QED BY <2>6, <2>7
<1> QED BY <1>1, <1>2

\* The request that gives the instance back.
LEMMA InstanceDeleted ==
    ASSUME IInv, OnTrack, Stack, Sound, InstanceStock, Build, pc = "clean.instance"
    PROVE  InstanceStock'
<1>t. /\ TypeOK /\ TypeOK' /\ bag \in Bag /\ RunnerTypeOK
      /\ inst \in [Subnets -> InstanceStatus]
  BY StepType DEF IInv, TypeOK, RestTypeOK, CloudTypeOK, Next
<1>n. NilPointer \notin Nat /\ Subnets \subseteq Nat /\ 0 \notin Subnets
  BY BuildAssumption, CloudAssumption DEF Subnets
<1>1. DeleteInstance
  BY StartStep DEF StartsAt
<1>2. deferred = 2 /\ pc \in InstanceCleanup
  BY <1>t, Registered DEF InstanceCleanup
<1>3. Unwind(deferred) => pc' = "clean.key"
  BY <1>2, Unwound
<1>4. /\ bag'.instance_data = bag.instance_data /\ lost' = lost
      /\ TheInstance' = TheInstance /\ (NilInstance' <=> NilInstance)
  <2>1. bag'.instance_data = bag.instance_data /\ lost' = lost
    BY <1>1, <1>t DEF DeleteInstance, CleanupGivesUp, PutCleanupError, Bag, history
  <2> QED BY <2>1 DEF TheInstance, NilInstance
<1>5. \/ inst' = inst
      \/ TheInstance \in Subnets /\ inst' = [inst EXCEPT ![TheInstance] = "deleting"]
         /\ inst[TheInstance] # "gone"
  BY <1>1 DEF DeleteInstance, SetInstance, cloud
<1>6. /\ \A k \in Subnets : Standing(k)' => Standing(k)
      /\ TheInstance' \in Subnets => inst'[TheInstance'] # "none"
  BY <1>4, <1>5, <1>t DEF InstanceStock, Standing
<1>7. StandingIsRecorded'
  BY <1>4, <1>6 DEF InstanceStock, StandingIsRecorded
<1>8. /\ pc' \in {"clean.gone", "clean.rule", "clean.key"}
      /\ ~HasInstance' /\ ~BeforeInstance'
      /\ pc' \notin CreatePoints \cup {"captureImage.create"}
  <2>1. pc' \in {"clean.gone", "clean.rule", "clean.key"}
    BY <1>1, <1>3 DEF DeleteInstance, GoTo, Panics, CleanupGivesUp, NextCleanup
  <2> QED BY <2>1 DEF HasInstance, BeforeInstance, CreatePoints, Building, StepNames, InnerPoints
<1>9. \/ pc' = "clean.gone" /\ TheInstance \in Subnets
      \/ pc' = "clean.rule" /\ TheInstance = 0
      \/ pc' = "clean.key" /\ (panicking' \/ bag'.error = "cleanup")
  <2>1. PutCleanupError => bag'.error = "cleanup"
    BY <1>t DEF PutCleanupError, Bag
  <2> QED BY <1>1, <1>3, <2>1 DEF DeleteInstance, GoTo, Panics, CleanupGivesUp, NextCleanup
<1>10. pc' = "clean.rule" => \A k \in Subnets : ~Standing(k)' \/ lost' = "instance"
  BY <1>4, <1>6, <1>9, <1>n DEF InstanceStock, StandingIsRecorded, TheInstance, Subnets
<1>11. ~NilInstance \/ TheInstance = NilPointer
  BY DEF NilInstance, TheInstance
<1> QED BY <1>4, <1>6, <1>7, <1>8, <1>9, <1>10, <1>11, <1>n DEF InstanceStock, InstanceCleanup, Subnets

LEMMA InstanceStep ==
    ASSUME IInv, OnTrack, Stack, Sound, InstanceStock, Build
    PROVE  InstanceStock'
BY InstanceUntouched, InstanceCreated, InstanceUsed, InstanceDeleted DEF TouchPoints

\* What has not been created yet had not been created before.
LEMMA CreatedLater ==
    ASSUME TypeOK, OnTrack, Stack, Sound, Build
    PROVE  /\ BeforeAddress' => BeforeAddress
           /\ BeforeGroup' => BeforeGroup
           /\ pc \in Building /\ pc' \notin Building =>
                  BeforeAddress \/ pc' \in {"clean.floatingip", "exited"}
<1>1. deferred \in 0..3 /\ deferred' \in 0..3
  BY RunnerType DEF TypeOK, RunnerTypeOK
<1>2. ASSUME BeforeAddress' PROVE BeforeAddress
  <2>1. pc' \in Building
    BY <1>2 DEF BeforeAddress, Building, StepNames, InnerPoints
  <2>2. pc \in Building /\ Advances(pc, deferred, pc') /\ deferred' >= deferred
    BY <2>1, FlowFacts
  <2>3. CASE deferred' < 3
    BY <1>1, <2>2, <2>3 DEF BeforeAddress
  <2>4. CASE pc' \in {"waitforInstance", "waitforInstance.retrieve", "getIP"}
    <3>1. pc \in CreatePoints \cup {"waitforInstance", "waitforInstance.retrieve"}
      BY <2>2, <2>4 DEF Advances, Succeeds, CreatePoints
    <3>2. pc \in CreatePoints => deferred = 2
      BY <2>2, BuildingCleanups DEF FirstSteps, CreatePoints, LaterPoints
    <3> QED BY <2>2, <3>1, <3>2 DEF BeforeAddress
  <2> QED BY <1>2, <2>3, <2>4 DEF BeforeAddress
<1>3. ASSUME BeforeGroup', ~BeforeAddress' PROVE BeforeGroup
  <2>1. pc' \in {"getIP.wait", "getIP.inventory", "createSecurityGroupRules"}
    BY <1>3 DEF BeforeGroup
  <2>2. pc' \in Building
    BY <2>1 DEF Building, StepNames, InnerPoints
  <2>3. Advances(pc, deferred, pc')
    BY <2>2, FlowFacts
  <2>4. pc \in {"getIP", "getIP.wait", "getIP.inventory"}
    BY <2>1, <2>3 DEF Advances, Succeeds
  <2> QED BY <2>4 DEF BeforeGroup, BeforeAddress
<1>4. pc \in Building /\ pc' \notin Building =>
          BeforeAddress \/ pc' \in {"clean.floatingip", "exited"}
  <2>1. pc \in Building /\ deferred < 2 => BeforeAddress
    BY <1>1 DEF BeforeAddress
  <2> QED BY <2>1, FlowFacts
<1> QED BY <1>2, <1>3, <1>4 DEF BeforeGroup

\* The floating IP.
LEMMA AddressStep ==
    ASSUME TypeOK, OnTrack, Stack, Sound, AddressStock, Build
    PROVE  AddressStock'
<1>t. RunnerTypeOK /\ bag \in Bag /\ cfg' = cfg
  BY DEF TypeOK, RestTypeOK, Build
<1>m. /\ panicking => panicking'
      /\ bag.error = "cleanup" => bag'.error = "cleanup"
      /\ bag.error # "none" => bag'.error # "none"
      /\ lost # "none" => lost' = lost
  BY FlowFacts
<1>e. \A x : /\ [bag EXCEPT !.error = x].error = x
             /\ [bag EXCEPT !.error = x].floating_ip = bag.floating_ip
             /\ [bag EXCEPT !.error = x].floating_ip_id = bag.floating_ip_id
             /\ [bag EXCEPT !.floating_ip = TRUE].floating_ip = TRUE
             /\ [bag EXCEPT !.floating_ip = TRUE].floating_ip_id = bag.floating_ip_id
             /\ [bag EXCEPT !.floating_ip_id = TRUE].floating_ip_id = TRUE
             /\ [bag EXCEPT !.floating_ip_id = TRUE].floating_ip = bag.floating_ip
  BY <1>t DEF Bag
<1>u. pc \in Building /\ deferred = 3 => (Unwind(deferred) => pc' = "clean.floatingip")
  BY Unwound
<1>b. pc \in {"getIP", "getIP.wait"} => pc \in Building /\ deferred = 3 /\ lost = "none"
  <2>1. pc \in {"getIP", "getIP.wait"} => pc \in Building
    BY DEF Building, StepNames, InnerPoints
  <2>2. pc \in {"getIP", "getIP.wait"} => deferred = 3
    BY <2>1, BuildingCleanups DEF FirstSteps, CreatePoints
  <2> QED BY <2>1, <2>2 DEF Sound
<1>k. ASSUME NEW p \in {"getIP.wait", "getIP.inventory"}, pc \in {"getIP", "getIP.wait"}, GoTo(p)
      PROVE  ~BeforeAddress' /\ pc' = p /\ pc' \in Building
  BY <1>k, <1>b DEF GoTo, runner, BeforeAddress, Building, InnerPoints
<1>c. pc' = "clean.floatingip" => ~BeforeAddress'
  BY DEF BeforeAddress, Building, StepNames, InnerPoints
<1>1. CASE pc = "getIP"
  <2>1. fip = "none" /\ ~bag.floating_ip
    BY <1>1 DEF AddressStock, BeforeAddress
  <2>2. CASE GetPrivateIP
    <3>1. fip' = "none"
      BY <2>1, <2>2 DEF GetPrivateIP, cloud
    <3>2. ~BeforeAddress' /\ lost' = lost
      BY <1>1, <1>b, <1>c, <1>k, <1>u, <2>2 DEF GetPrivateIP, Panics, history
    <3> QED BY <1>1, <1>b, <3>1, <3>2 DEF AddressStock, Held
  <2>3. CASE CreateFloatingIP
    <3>1. cfg.vsi_interface # "private" /\ bag'.floating_ip = bag.floating_ip
      BY <2>3, <1>e DEF CreateFloatingIP, Put, Fails, PutError
    <3>2. CASE fip' = fip
      <4>1. fip' = "none"
        BY <2>1, <3>2
      <4>2. ~BeforeAddress' \/ (pc' = "clean.floatingip")
        BY <1>1, <1>b, <1>c, <1>k, <1>u, <2>3 DEF CreateFloatingIP, Panics, Fails, Halts
      <4> QED BY <2>1, <3>1, <4>1, <4>2, <1>c DEF AddressStock, Held
    <3>3. CASE /\ fip' = "pending" /\ bag'.floating_ip_id /\ pc' = "getIP.wait"
               /\ lost' = lost /\ ~BeforeAddress'
      BY <3>1, <3>3, <2>1, <1>t DEF AddressStock, Held
    <3>4. CASE /\ fip' = "pending" /\ lost' = "floating_ip" /\ bag'.error = "run"
               /\ pc' = "clean.floatingip"
      BY <3>1, <3>4, <2>1, <1>c, <1>t DEF AddressStock, Held
    <3> QED BY <1>1, <1>b, <1>k, <1>u, <1>e, <2>3, <3>2, <3>3, <3>4
      DEF CreateFloatingIP, SetFloatingIP, Put, Fails, PutError, Halts, cloud
  <2> QED BY <1>1, <2>2, <2>3, StartStep DEF StartsAt
<1>2. CASE pc = "getIP.wait"
  <2>1. AwaitFloatingIP
    BY <1>2, StartStep DEF StartsAt
  <2>2. fip' = fip /\ lost' = lost /\ bag'.floating_ip_id = bag.floating_ip_id
    BY <2>1, <1>e DEF AwaitFloatingIP, cloud, history, Put, Fails, PutError
  <2>3. CASE /\ fip = "available" /\ bag'.floating_ip = TRUE /\ pc' = "getIP.inventory"
             /\ ~BeforeAddress' /\ pc' \in Building
    BY <2>2, <2>3, <1>2, <1>t, <1>b DEF AddressStock, Held
  <2>4. CASE bag'.floating_ip = bag.floating_ip /\ bag'.error = "run" /\ pc' = "clean.floatingip"
    BY <2>2, <2>4, <1>c, <1>t DEF AddressStock, Held
  <2> QED BY <1>2, <2>1, <2>3, <2>4, <1>b, <1>k, <1>u, <1>e
    DEF AwaitFloatingIP, Put, Fails, PutError, Halts
<1>3. CASE pc = "clean.floatingip"
  <2>1. ReleaseFloatingIP
    BY <1>3, StartStep DEF StartsAt
  <2>2. lost' = lost /\ bag'.floating_ip_id = bag.floating_ip_id /\ bag'.floating_ip = bag.floating_ip
    BY <2>1, <1>e DEF ReleaseFloatingIP, CleanupGivesUp, PutCleanupError, history
  <2>3. ~BeforeAddress'
    <3>1. pc' \notin Building
      BY <1>3, FlowFacts DEF Building, StepNames, InnerPoints
    <3> QED BY <3>1 DEF BeforeAddress, Building, StepNames, InnerPoints
  <2>4. fip' \in {fip, "gone", "kept"}
    BY <2>1 DEF ReleaseFloatingIP, SetFloatingIP, cloud
  <2>5. cfg.vsi_interface = "private" => fip' = fip
    BY <2>1 DEF ReleaseFloatingIP, cloud
  <2>6. Held' /\ bag.floating_ip => panicking' \/ bag'.error = "cleanup"
    <3>1. ASSUME Held', bag.floating_ip
          PROVE  cfg.vsi_interface = "public" /\ bag.floating_ip_id /\ fip = "available"
      <4>1. Held /\ fip # "pending" /\ lost # "floating_ip"
        BY <3>1, <2>4 DEF Held, AddressStock
      <4>2. cfg.vsi_interface \in {"public", "private"}
        BY BuildAssumption DEF TypeOK, RestTypeOK, ConfigSpace
      <4> QED BY <4>1, <4>2 DEF Held, AddressStock
    <3>2. PutCleanupError => bag'.error = "cleanup"
      BY <1>e DEF PutCleanupError
    <3>3. SetFloatingIP("gone") \/ SetFloatingIP("kept") => ~Held'
      BY DEF SetFloatingIP, Held
    <3> QED BY <2>1, <3>1, <3>2, <3>3 DEF ReleaseFloatingIP, CleanupGivesUp, Panics
  <2>7. Held' => Held
    BY <2>4 DEF Held
  <2>8. ~(Held /\ ~bag.floating_ip) \/ bag.error # "none"
    BY <1>3 DEF AddressStock
  <2> QED BY <2>2, <2>3, <2>4, <2>5, <2>6, <2>7, <2>8, <1>m, <1>t DEF AddressStock
<1>4. CASE pc \notin {"getIP", "getIP.wait", "clean.floatingip"}
  <2>1. /\ fip' = fip /\ bag'.floating_ip = bag.floating_ip
        /\ bag'.floating_ip_id = bag.floating_ip_id
    BY <1>4, FrameStep
    DEF Frame, At, CreateFloatingIP, ReleaseFloatingIP, GetPrivateIP, AwaitFloatingIP
  <2>2. Held' <=> Held
    BY <2>1 DEF Held
  <2>3. lost' = "floating_ip" => lost = "floating_ip"
    BY <1>4, FrameStep DEF Frame, At, CreateFloatingIP
  <2>4. Held /\ bag.floating_ip => \/ pc' \in Building \cup {"clean.floatingip", "exited"}
                                   \/ panicking' \/ bag'.error = "cleanup"
    <3>1. Held => ~BeforeAddress
      BY DEF Held, AddressStock
    <3>2. pc # "exited"
      BY FlowFacts DEF Building, StepNames, InnerPoints, CleanupPoints
    <3> QED BY <1>4, <1>m, <3>1, <3>2, CreatedLater DEF AddressStock
  <2> QED BY <1>4, <1>m, <1>t, <2>1, <2>2, <2>3, <2>4, CreatedLater DEF AddressStock
<1> QED BY <1>1, <1>2, <1>3, <1>4

\* The security group and its rules.  First the steps that change neither.
LEMMA GroupUntouched ==
    ASSUME TypeOK, OnTrack, Stack, Sound, GroupStock, Build,
           pc \notin {"createSecurityGroupRules", "createSecurityGroupRules.rules",
                      "clean.rule", "clean.group"}
    PROVE  GroupStock'
<1>t. cfg' = cfg
  BY DEF Build
<1>m. /\ panicking => panicking'
      /\ bag.error = "cleanup" => bag'.error = "cleanup"
      /\ lost # "none" => lost' = lost
      /\ lost' = "rule" => lost = "rule" \/ panicking'
      /\ pc # "exited"
  BY FlowFacts DEF Building, StepNames, InnerPoints, CleanupPoints
<1>f. /\ sg' = sg /\ rules' = rules
      /\ bag'.security_group_id = bag.security_group_id
      /\ bag'.security_group_name = bag.security_group_name
      /\ bag'.security_group_rule_id = bag.security_group_rule_id
  BY FrameStep DEF Frame, At, OpenSecurityGroup, DeleteSecurityGroup, CreateRule, DeleteRule
<1>1. BeforeGroup' => sg' = "none" /\ rules' = {}
  BY <1>f, CreatedLater DEF GroupStock
<1>2. ASSUME pc \in Building \cup InstanceCleanup \cup {"exited"} \/ panicking \/ bag.error = "cleanup",
             ~BeforeAddress
      PROVE  \/ pc' \in Building \cup InstanceCleanup \cup {"exited"}
             \/ panicking' \/ bag'.error = "cleanup"
  <2>1. CASE pc \in Building
    BY <2>1, <1>2, CreatedLater DEF InstanceCleanup
  <2>2. CASE pc \in InstanceCleanup
    BY <2>2, FlowFacts DEF NextRequest, InstanceCleanup
  <2>3. CASE panicking \/ bag.error = "cleanup"
    BY <2>3, <1>m
  <2> QED BY <1>2, <1>m, <2>1, <2>2, <2>3
<1>3. sg' = "exists" /\ lost' # "security_group" =>
          /\ ~cfg'.security_group_id /\ bag'.security_group_id /\ bag'.security_group_name
          /\ \/ pc' \in Building \cup InstanceCleanup \cup {"exited"}
             \/ panicking' \/ bag'.error = "cleanup"
  <2>1. sg = "exists" => ~BeforeAddress
    BY DEF GroupStock, BeforeGroup
  <2> QED BY <1>t, <1>m, <1>f, <1>2, <2>1 DEF GroupStock
<1>4. pc' # "createSecurityGroupRules.rules"
  <2>1. pc' = "createSecurityGroupRules.rules" => pc' \in Building
    BY DEF Building, InnerPoints
  <2>2. pc' = "createSecurityGroupRules.rules" => Advances(pc, deferred, pc')
    BY <2>1, FlowFacts
  <2> QED BY <2>2 DEF Advances, Succeeds
<1>5. rules' # {} => cfg'.security_group_id \/ sg' \in {"exists", "kept"}
  BY <1>t, <1>f DEF GroupStock
<1>6. 1 \in rules' /\ lost' # "rule" =>
          /\ bag'.security_group_rule_id /\ bag'.security_group_id
          /\ \/ pc' \in Building \cup {"clean.floatingip", "clean.instance", "clean.gone",
                                       "clean.rule", "exited"}
             \/ panicking' \/ bag'.error = "cleanup"
  <2> SUFFICES ASSUME 1 \in rules, lost # "rule"
               PROVE  /\ bag.security_group_rule_id /\ bag.security_group_id
                      /\ \/ pc' \in Building \cup {"clean.floatingip", "clean.instance",
                                                   "clean.gone", "clean.rule", "exited"}
                         \/ panicking' \/ bag'.error = "cleanup"
    BY <1>t, <1>m, <1>f
  <2>1. CASE pc \in Building
    <3>1. ~BeforeAddress
      BY DEF GroupStock, BeforeGroup
    <3> QED BY <2>1, <3>1, CreatedLater DEF GroupStock
  <2>2. CASE pc \in {"clean.floatingip", "clean.instance", "clean.gone"}
    <3>1. \/ NextRequest(pc, pc')
          \/ panicking' \/ bag'.error = "cleanup"
      BY <2>2, FlowFacts DEF InstanceCleanup
    <3>2. NextRequest(pc, pc') => pc' \in {"clean.instance", "clean.gone", "clean.rule"}
      BY <2>2 DEF NextRequest
    <3> QED BY <3>1, <3>2 DEF GroupStock
  <2>3. CASE panicking \/ bag.error = "cleanup"
    BY <2>3, <1>m DEF GroupStock
  <2> QED BY <2>1, <2>2, <2>3, <1>m DEF GroupStock
<1>7. lost' = "rule" => panicking'
  BY <1>m DEF GroupStock
<1> QED BY <1>1, <1>3, <1>4, <1>5, <1>6, <1>7 DEF GroupStock

\* The requests that create the group and its rules.
LEMMA GroupCreated ==
    ASSUME TypeOK, OnTrack, Stack, Sound, GroupStock, Build,
           pc \in {"createSecurityGroupRules", "createSecurityGroupRules.rules"}
    PROVE  GroupStock'
<1>t. bag \in Bag /\ cfg' = cfg /\ nrule \in Nat /\ rules \subseteq Nat
  BY CloudAssumption DEF TypeOK, RestTypeOK, CloudTypeOK, Build
<1>b. pc \in Building /\ deferred = 3 /\ lost = "none"
  <2>1. pc \in Building
    BY DEF Building, StepNames, InnerPoints
  <2>2. deferred = 3
    BY <2>1, BuildingCleanups DEF FirstSteps, CreatePoints
  <2> QED BY <2>1, <2>2 DEF Sound
<1>u. Unwind(deferred) => pc' = "clean.floatingip"
  BY <1>b, Unwound
<1>c. ~BeforeGroup' /\ pc' \in Building \cup InstanceCleanup
  <2>1. pc' \in Building => Advances(pc, deferred, pc') /\ deferred' = 3
    BY <1>b, FlowFacts, RunnerType DEF TypeOK, RunnerTypeOK
  <2>2. pc' \in Building => pc' \in {"createSecurityGroupRules.rules", "createSecurityGroupRules.attach"}
    BY <2>1 DEF Advances, Succeeds
  <2>3. pc' \notin Building => pc' = "clean.floatingip"
    BY <1>b, FlowFacts
  <2> QED BY <2>1, <2>2, <2>3
    DEF BeforeGroup, BeforeAddress, Building, StepNames, InnerPoints, InstanceCleanup
<1>1. CASE pc = "createSecurityGroupRules"
  <2>1. OpenSecurityGroup
    BY <1>1, StartStep DEF StartsAt
  <2>2. sg = "none" /\ rules = {}
    BY <1>1 DEF GroupStock, BeforeGroup
  <2>3. rules' = {} /\ lost' # "rule"
    BY <2>1, <2>2, <1>b DEF OpenSecurityGroup, SetSecurityGroup, cloud
  <2>4. CASE cfg.security_group_id
    <3>1. sg' = "none"
      BY <2>1, <2>2, <2>4 DEF OpenSecurityGroup, cloud
    <3>2. bag'.security_group_id = TRUE
      BY <2>1, <2>4, <1>t DEF OpenSecurityGroup, Put, Bag
    <3> QED BY <1>t, <1>c, <2>2, <2>3, <2>4, <3>1, <3>2 DEF GroupStock
  <2>5. CASE ~cfg.security_group_id
    <3>1. CASE sg' = "exists" /\ bag'.security_group_id = TRUE /\ bag'.security_group_name = TRUE
      BY <1>t, <1>c, <2>3, <2>5, <3>1 DEF GroupStock
    <3>2. CASE sg' = "none" /\ pc' = "clean.floatingip"
      BY <1>t, <1>c, <2>3, <3>2 DEF GroupStock
    <3>3. CASE lost' = "security_group" /\ pc' = "clean.floatingip"
      BY <1>t, <1>c, <2>3, <3>3 DEF GroupStock
    <3>4. bag' = [bag EXCEPT !.security_group_id = TRUE, !.security_group_name = TRUE] =>
              bag'.security_group_id = TRUE /\ bag'.security_group_name = TRUE
      BY <1>t DEF Bag
    <3>5. \/ /\ SetSecurityGroup("exists")
             /\ bag' = [bag EXCEPT !.security_group_id = TRUE, !.security_group_name = TRUE]
          \/ Fails(deferred) /\ UNCHANGED cloud
          \/ Fails(deferred) /\ lost' = "security_group"
      BY <2>1, <2>5 DEF OpenSecurityGroup
    <3>6. /\ SetSecurityGroup("exists") => sg' = "exists"
          /\ Fails(deferred) => pc' = "clean.floatingip"
          /\ UNCHANGED cloud => sg' = "none"
      BY <2>2, <1>u DEF SetSecurityGroup, Fails, Halts, cloud
    <3> QED BY <3>1, <3>2, <3>3, <3>4, <3>5, <3>6
  <2> QED BY <2>4, <2>5
<1>2. CASE pc = "createSecurityGroupRules.rules"
  <2>1. CreateRule \/ RulesDone
    BY <1>2, StartStep DEF StartsAt
  <2>2. bag.security_group_id /\ (cfg.security_group_id \/ sg = "exists")
    BY <1>2 DEF GroupStock
  <2>3. /\ sg' = sg
        /\ bag'.security_group_id = bag.security_group_id
        /\ bag'.security_group_name = bag.security_group_name
    BY <2>1, <1>t DEF CreateRule, RulesDone, SetRules, cloud, Bag
  <2>4. lost' = "none" \/ (lost' = "rule" /\ panicking')
    BY <2>1, <1>b DEF CreateRule, RulesDone, Panics, history
  <2>5. 1 \in rules' /\ lost' # "rule" => bag'.security_group_rule_id
    <3>1. CASE rules' = rules /\ bag'.security_group_rule_id = bag.security_group_rule_id
      BY <3>1, <1>b DEF GroupStock
    <3>2. CASE /\ rules' = rules \cup {nrule + 1}
               /\ bag'.security_group_rule_id = (bag.security_group_rule_id \/ nrule = 0)
      <4>1. 1 \in rules' => 1 \in rules \/ nrule = 0
        BY <3>2, <1>t
      <4>2. 1 \in rules => bag.security_group_rule_id
        BY <1>b DEF GroupStock
      <4> QED BY <3>2, <4>1, <4>2
    <3>3. CASE lost' = "rule"
      BY <3>3
    <3>4. bag' = [bag EXCEPT !.security_group_rule_id = @ \/ nrule = 0] =>
              bag'.security_group_rule_id = (bag.security_group_rule_id \/ nrule = 0)
      BY <1>t DEF Bag
    <3> QED BY <2>1, <3>1, <3>2, <3>3, <3>4 DEF CreateRule, RulesDone, SetRules, cloud
  <2>6. pc' \in Building \cup {"clean.floatingip"}
    BY <1>b, FlowFacts
  <2> QED BY <1>t, <1>b, <1>c, <2>2, <2>3, <2>4, <2>5, <2>6 DEF GroupStock
<1> QED BY <1>1, <1>2

\* The requests that give them back.
LEMMA GroupDeleted ==
    ASSUME TypeOK, OnTrack, Stack, Sound, GroupStock, Build,
           pc \in {"clean.rule", "clean.group"}
    PROVE  GroupStock'
<1>t. bag \in Bag /\ cfg' = cfg /\ RunnerTypeOK
  BY DEF TypeOK, RestTypeOK, Build
<1>m. /\ panicking => panicking'
      /\ bag.error = "cleanup" => bag'.error = "cleanup"
  BY FlowFacts
<1>e. /\ bag' = bag \/ PutCleanupError =>
             /\ bag'.security_group_id = bag.security_group_id
             /\ bag'.security_group_name = bag.security_group_name
             /\ bag'.security_group_rule_id = bag.security_group_rule_id
      /\ PutCleanupError => bag'.error = "cleanup"
  BY <1>t DEF PutCleanupError, Bag
<1>u. deferred = 2 /\ (Unwind(deferred) => pc' = "clean.key")
  <2>1. deferred = 2
    BY <1>t, Registered DEF InstanceCleanup
  <2> QED BY <2>1, Unwound
<1>c. pc' \in {"clean.group", "clean.key"} => ~BeforeGroup' /\ pc' # "createSecurityGroupRules.rules"
  BY DEF BeforeGroup, BeforeAddress, Building, StepNames, InnerPoints
<1>1. CASE pc = "clean.rule"
  <2>1. DeleteRule
    BY <1>1, StartStep DEF StartsAt
  <2>2. /\ sg' = sg /\ lost' = lost
        /\ bag' = bag \/ PutCleanupError
        /\ rules' \subseteq rules \/ (1 \in rules /\ rules' = (rules \ {1}) \cup {0})
        /\ pc' = "clean.group" \/ (pc' = "clean.key" /\ bag'.error = "cleanup")
    BY <2>1, <1>e, <1>u
    DEF DeleteRule, SetRules, CleanupGivesUp, NextCleanup, GoTo, cloud, history
  <2>3. pc' = "clean.group" => 1 \notin rules' \/ lost = "rule"
    <3>1. 1 \in rules /\ lost # "rule" => bag.security_group_rule_id /\ bag.security_group_id
      BY DEF GroupStock
    <3> QED BY <2>1, <3>1, <1>u DEF DeleteRule, SetRules, CleanupGivesUp, NextCleanup, cloud
  <2>4. rules' # {} => rules # {}
    BY <2>2
  <2> QED BY <1>1, <1>t, <1>m, <1>e, <1>c, <2>2, <2>3, <2>4 DEF GroupStock, InstanceCleanup
<1>2. CASE pc = "clean.group"
  <2>1. DeleteSecurityGroup
    BY <1>2, StartStep DEF StartsAt
  <2>2. /\ lost' = lost
        /\ bag' = bag \/ PutCleanupError
        /\ \/ sg' = "gone" /\ rules' = {}
           \/ sg' = "kept" /\ rules' = rules
           \/ sg' = sg /\ rules' \subseteq rules
        /\ pc' = "clean.key"
    BY <2>1, <1>u
    DEF DeleteSecurityGroup, SetSecurityGroup, CleanupGivesUp, NextCleanup, cloud, history
  <2>3. sg' = "exists" /\ lost # "security_group" => bag'.error = "cleanup"
    <3>1. CASE ~cfg.security_group_id /\ bag.security_group_name /\ bag.security_group_id
      BY <2>1, <3>1, <1>e DEF DeleteSecurityGroup, SetSecurityGroup, CleanupGivesUp
    <3>2. CASE ~(~cfg.security_group_id /\ bag.security_group_name /\ bag.security_group_id)
      BY <2>2, <3>2 DEF GroupStock
    <3> QED BY <3>1, <3>2
  <2>4. 1 \in rules /\ lost # "rule" => panicking \/ bag.error = "cleanup"
    BY <1>2 DEF GroupStock, Building, StepNames, InnerPoints
  <2>5. rules' # {} => rules # {} /\ sg' \in {sg, "kept"}
    BY <2>2
  <2> QED BY <1>t, <1>m, <1>e, <1>c, <2>2, <2>3, <2>4, <2>5 DEF GroupStock
<1> QED BY <1>1, <1>2

LEMMA GroupStep ==
    ASSUME TypeOK, OnTrack, Stack, Sound, GroupStock, Build
    PROVE  GroupStock'
BY GroupUntouched, GroupCreated, GroupDeleted

\* The image.
LEMMA ImageStep ==
    ASSUME TypeOK, OnTrack, Stack, Sound, ImageStock, Build
    PROVE  ImageStock'
<1>t. bag \in Bag /\ cfg' = cfg
  BY DEF TypeOK, RestTypeOK, Build
<1>m. /\ panicking => panicking'
      /\ bag.error # "none" => bag'.error # "none"
      /\ pc' \in Building => pc \in Building /\ Advances(pc, deferred, pc')
  BY FlowFacts
<1>e. /\ \A x : [bag EXCEPT !.error = x].error = x
      /\ [bag EXCEPT !.image_id = TRUE].image_id = TRUE
  BY <1>t DEF Bag
<1>p. /\ {"captureImage.tag", "captureImage.available", "captureImage.create"} \subseteq Building
      /\ pc \in {"captureImage.create", "captureImage.tag", "captureImage.available"} => deferred = 3
  <2>1. {"captureImage.tag", "captureImage.available", "captureImage.create"} \subseteq Building
    BY DEF Building, InnerPoints
  <2>2. pc \in {"captureImage.create", "captureImage.tag", "captureImage.available"} => deferred = 3
    BY <2>1, BuildingCleanups DEF FirstSteps, CreatePoints
  <2> QED BY <2>1, <2>2
<1>f. ASSUME Fails(deferred), deferred = 3
      PROVE  ImageStock'
  <2>1. bag'.error = "run"
    BY <1>f, <1>e DEF Fails, PutError
  <2>2. pc' = "clean.floatingip" /\ pc' \notin Building
    BY <1>f, Unwound DEF Fails, Halts
  <2> QED BY <2>1, <2>2 DEF ImageStock
<1>1. CASE pc = "captureImage.create"
  <2>1. CreateImage /\ deferred = 3
    BY <1>1, <1>p, StartStep DEF StartsAt
  <2>2. ASSUME CreateImageFrom, Put("image_id", TRUE),
               GoTo(IF cfg.image_tags THEN "captureImage.tag" ELSE "captureImage.available")
        PROVE  ImageStock'
    <3>1. image' # "none" /\ pc' \in {"captureImage.tag", "captureImage.available"}
          /\ (pc' = "captureImage.available" => ~cfg'.image_tags)
      BY <2>2, <1>t DEF CreateImageFrom, GoTo
    <3> QED BY <3>1 DEF ImageStock
  <2> QED BY <2>1, <2>2, <1>f DEF CreateImage
<1>2. CASE pc = "captureImage.tag"
  <2>1. AttachTags /\ deferred = 3
    BY <1>2, <1>p, StartStep DEF StartsAt
  <2>2. ASSUME TagImage, GoTo("captureImage.available") PROVE ImageStock'
    <3>1. image' = image /\ tagged' = TRUE /\ pc' = "captureImage.available"
      BY <2>2 DEF TagImage, GoTo
    <3> QED BY <1>2, <3>1 DEF ImageStock
  <2> QED BY <2>1, <2>2, <1>f DEF AttachTags
<1>3. CASE pc = "captureImage.available"
  <2>1. AwaitImage /\ deferred = 3
    BY <1>3, <1>p, StartStep DEF StartsAt
  <2>2. ASSUME image = "available", UNCHANGED cloud PROVE ImageStock'
    <3>1. pc' \notin Building
      BY <1>3, <1>m DEF Advances, Succeeds
    <3>2. image' = "available" /\ tagged' = tagged
      BY <2>2 DEF cloud
    <3>3. cfg'.image_tags => tagged'
      BY <1>3, <1>t, <3>2 DEF ImageStock
    <3> QED BY <1>p, <3>1, <3>2, <3>3 DEF ImageStock
  <2> QED BY <2>1, <2>2, <1>f DEF AwaitImage
<1>4. CASE pc \notin {"captureImage.create", "captureImage.tag", "captureImage.available"}
  <2>1. image' = image /\ tagged' = tagged /\ bag'.image_id = bag.image_id
    BY <1>4, FrameStep DEF Frame, At, CreateImage, AttachTags
  <2>2. pc' \notin {"captureImage.tag", "captureImage.available"}
    BY <1>4, <1>m, <1>p DEF Advances, Succeeds
  <2> QED BY <1>4, <1>m, <1>t, <2>1, <2>2 DEF ImageStock
<1> QED BY <1>1, <1>2, <1>3, <1>4

-----------------------------------------------------------------------------
(* Everything else that happens, the start of a run, and the theorems.     *)

\* What the cloud does between two requests, and a cancelled context, change
\* nothing the parts depend on: no instance comes to stand, none that is in
\* use is deleted, a stopped one stays stopped.
LEMMA OutsideStep ==
    ASSUME Stock, CloudMoves \/ Cancel \/ Ended \/ UNCHANGED vars
    PROVE  /\ OnTrack' /\ Stack' /\ Sound'
           /\ KeysStock' /\ InstanceStock' /\ AddressStock' /\ GroupStock' /\ ImageStock'
<1>1. UNCHANGED <<cfg, pc, todo, deferred, panicking, attempt, nrule, bag, keydir, lost, result>>
  BY DEF CloudMoves, Cancel, Ended, vars, runner, history
<1>2. /\ sg' = sg /\ rules' = rules /\ key' = key /\ tagged' = tagged
      /\ fip' = fip \/ (fip = "pending" /\ fip' = "available")
      /\ image' = image \/ (image = "pending" /\ image' \in {"available", "failed"})
      /\ inst' = inst \/ \E i \in Subnets : InstanceMoves(i, May("zone"))
  BY DEF CloudMoves, Cancel, Ended, vars, cloud, InstanceMoves, FloatingIPMoves, ImageMoves
<1>3. \A i \in Subnets :
          /\ Standing(i)' => Standing(i)
          /\ inst[i] # "none" => inst'[i] # "none"
          /\ inst[i] \notin {"deleting", "gone"} => inst'[i] \notin {"deleting", "gone"}
          /\ inst[i] = "stopped" => inst'[i] = "stopped"
  <2>1. inst \in [Subnets -> InstanceStatus]
    BY DEF Stock, IInv, TypeOK, CloudTypeOK
  <2>2. TAKE i \in Subnets
  <2>3. CASE inst' = inst
    BY <2>3 DEF Standing
  <2>4. CASE \E j \in Subnets : InstanceMoves(j, May("zone"))
    BY <2>1, <2>4 DEF InstanceMoves, Standing
  <2> QED BY <1>2, <2>3, <2>4
<1>4. OnTrack' /\ Stack' /\ Sound'
  <2>1. OnTrack'
    BY <1>1 DEF Stock, OnTrack, Place, Listed
  <2>2. Stack' /\ Sound'
    BY <1>1 DEF Stock, Stack, Sound
  <2> QED BY <2>1, <2>2
<1>5. KeysStock' /\ GroupStock'
  BY <1>1, <1>2 DEF Stock, KeysStock, GroupStock, BeforeGroup, BeforeAddress
<1>6. InstanceStock'
  <2>1. /\ NilInstance' <=> NilInstance
        /\ TheInstance' = TheInstance
        /\ HasInstance' <=> HasInstance
        /\ BeforeInstance' <=> BeforeInstance
    BY <1>1 DEF NilInstance, TheInstance, HasInstance, BeforeInstance
  <2>2. StandingIsRecorded'
    BY <1>1, <1>3 DEF Stock, InstanceStock, StandingIsRecorded
  <2>3. pc = "captureImage.create" => TheInstance \in Subnets
    <3>1. pc = "captureImage.create" => pc \in Building /\ deferred = 3
      <4>1. "captureImage.create" \in Building
        BY DEF Building, InnerPoints
      <4> QED BY <4>1, BuildingCleanups DEF Stock, FirstSteps, CreatePoints
    <3>2. pc = "captureImage.create" => HasInstance /\ ~NilInstance
      BY <3>1 DEF HasInstance, Stock, Sound, InstanceStock
    <3> QED BY <3>2 DEF Stock, InstanceStock, NilInstance, TheInstance
  <2> QED BY <1>1, <1>3, <2>1, <2>2, <2>3 DEF Stock, InstanceStock
<1>7. AddressStock'
  BY <1>1, <1>2 DEF Stock, AddressStock, Held, BeforeAddress
<1>8. ImageStock'
  BY <1>1, <1>2 DEF Stock, ImageStock
<1> QED BY <1>4, <1>5, <1>6, <1>7, <1>8

\* A run starts with nothing, at the first step of its list.
LEMMA InitStock == Init => Stock
<1> SUFFICES ASSUME Init PROVE Stock
  OBVIOUS
<1>1. /\ inst = [i \in Subnets |-> "none"] /\ fip = "none" /\ sg = "none" /\ rules = {}
      /\ key = "none" /\ image = "none" /\ ~keydir
      /\ deferred = 0 /\ panicking = FALSE /\ lost = "none" /\ result = "none"
      /\ bag.error = "none" /\ ~bag.image_id /\ bag.instance_data = 0 /\ ~bag.floating_ip
  BY DEF Init, CloudInit
<1>2. /\ Steps(cfg.comm) = <<>> => pc = "finish" /\ todo = <<>>
      /\ Steps(cfg.comm) # <<>> =>
             pc = Head(Steps(cfg.comm)) /\ todo = Tail(Steps(cfg.comm))
  BY DEF Init
<1>3. OnTrack /\ pc \in {"Greeting", "finish"}
  <2>1. CASE Listed = SshSteps
    <3>1. pc = "Greeting" /\ todo = Tail(SshSteps) /\ Len(SshSteps) = 16
      BY <1>2, <2>1 DEF SshSteps, Listed
    <3>2. Place = 1 /\ \A n \in 1..Len(todo) : todo[n] = Listed[1 + n]
      BY <2>1, <3>1 DEF SshSteps, Place
    <3> QED BY <2>1, <3>1, <3>2 DEF OnTrack, StepOf, CreatePoints, SshSteps
  <2>2. CASE Listed = WinRMSteps
    <3>1. pc = "Greeting" /\ todo = Tail(WinRMSteps) /\ Len(WinRMSteps) = 17
      BY <1>2, <2>2 DEF WinRMSteps, Listed
    <3>2. Place = 1 /\ \A n \in 1..Len(todo) : todo[n] = Listed[1 + n]
      BY <2>2, <3>1 DEF WinRMSteps, Place
    <3> QED BY <2>2, <3>1, <3>2 DEF OnTrack, StepOf, CreatePoints, WinRMSteps
  <2>3. CASE Listed = <<>>
    BY <1>2, <2>3 DEF OnTrack, Listed, Building, StepNames, InnerPoints
  <2> QED BY <2>1, <2>2, <2>3 DEF Listed, Steps
<1>4. Stack /\ Sound
  BY <1>1, <1>3 DEF Stack, Sound, FirstSteps, InstanceCleanup, Building, StepNames, InnerPoints
<1>5. KeysStock /\ AddressStock /\ GroupStock /\ ImageStock
  BY <1>1, <1>3 DEF KeysStock, AddressStock, Held, GroupStock, ImageStock
<1>6. InstanceStock
  <2>1. \A i \in Subnets : ~Standing(i)
    BY <1>1 DEF Standing
  <2>2. TheInstance = 0 /\ 0 \notin Subnets /\ ~NilInstance /\ ~HasInstance
    BY <1>1, <1>3, BuildAssumption, CloudAssumption
    DEF TheInstance, NilInstance, Subnets, HasInstance, CreatePoints
  <2> QED BY <1>3, <2>1, <2>2 DEF InstanceStock, StandingIsRecorded, CreatePoints
<1> QED BY <1>3, <1>4, <1>5, <1>6, InitInv DEF Stock

\* Every step, and every stutter, keeps the invariant.
LEMMA StepStock == Stock /\ [Next]_vars => Stock'
<1> SUFFICES ASSUME Stock, [Next]_vars PROVE Stock'
  OBVIOUS
<1>1. IInv'
  BY StepInv DEF Stock
<1>2. CASE Build
  <2>1. TypeOK /\ IInv /\ OnTrack /\ Stack /\ Sound
    BY DEF Stock, IInv
  <2>2. OnTrack' /\ Stack' /\ Sound'
    BY <1>2, <2>1, ControlStep
  <2>3. KeysStock' /\ AddressStock' /\ GroupStock' /\ ImageStock'
    BY <1>2, <2>1, KeysStep, AddressStep, GroupStep, ImageStep DEF Stock
  <2>4. InstanceStock'
    BY <1>2, <2>1, InstanceStep DEF Stock
  <2> QED BY <1>1, <2>2, <2>3, <2>4 DEF Stock
<1>3. CASE CloudMoves \/ Cancel \/ Ended \/ UNCHANGED vars
  BY <1>1, <1>3, OutsideStep DEF Stock
<1> QED BY <1>2, <1>3 DEF Next

\* The inductive invariant of every build, for any configurations, faults,
\* number of candidate subnets and of rules.  Fairness is not used.
THEOREM StockInvariance == Spec => []Stock
<1> QED BY InitStock, StepStock, PTL DEF Spec

\* What the Cleanups leave of the group and its rules.
LEMMA GroupLeft ==
    ASSUME Stock, pc \notin Building \cup InstanceCleanup \cup {"exited"},
           ~panicking, bag.error # "cleanup", lost = "none"
    PROVE  sg # "exists" /\ OnlyLaterRulesLeft
<1>1. sg # "exists" /\ 1 \notin rules
  BY DEF Stock, GroupStock, InstanceCleanup
<1>2. rules \subseteq 0..MaxRemotes
  BY DEF Stock, IInv, TypeOK, CloudTypeOK
<1>3. ~cfg.security_group_id /\ sg # "kept" => rules = {}
  BY <1>1 DEF Stock, GroupStock
<1> QED BY <1>1, <1>2, <1>3 DEF OnlyLaterRulesLeft

\* An artifact stands for an available image with its tags, and for a run that
\* left nothing of its own behind but what is kept and the later rules in a
\* group of the user's (buildResultError, the Cleanups).
THEOREM ArtifactIsComplete == Spec => []ImageContract
<1>1. Stock => ImageContract
  <2> SUFFICES ASSUME Stock, result = "artifact"
               PROVE  /\ image = "available" /\ (cfg.image_tags => tagged)
                      /\ \A i \in Subnets : ~Standing(i)
                      /\ fip \in {"none", "gone", "kept"}
                      /\ sg # "exists"
                      /\ OnlyLaterRulesLeft
                      /\ key # "exists"
                      /\ ~keydir
    BY DEF ImageContract
  <2>1. /\ pc = "returned" /\ bag.error = "none" /\ bag.image_id
        /\ ~panicking /\ lost = "none"
    BY DEF Stock, Sound
  <2>2. deferred = 0 /\ pc \notin Building \cup InstanceCleanup
    BY <2>1, BuildingCleanups
    DEF Stock, Stack, LaterPoints, CreatePoints, FirstSteps, InstanceCleanup, Building, StepNames, InnerPoints
  <2>3. image = "available" /\ (cfg.image_tags => tagged)
    BY <2>1 DEF Stock, ImageStock
  <2>4. \A i \in Subnets : ~Standing(i)
    BY <2>1, <2>2 DEF Stock, InstanceStock
  <2>5. fip \in {"none", "gone", "kept"}
    BY <2>1, <2>2 DEF Stock, IInv, TypeOK, CloudTypeOK, AddressStock, Held
  <2>6. sg # "exists" /\ OnlyLaterRulesLeft
    BY <2>1, <2>2, GroupLeft
  <2>7. key # "exists" /\ ~keydir
    BY <2>1, <2>2 DEF Stock, KeysStock
  <2> QED BY <2>3, <2>4, <2>5, <2>6, <2>7
<1> QED BY <1>1, StockInvariance, PTL

\* A build that fails cleans up as well: instance, address, group and rules
\* (stepCreateInstance.Cleanup).
THEOREM FailureCleansUp == Spec => []CleanOnFailure
<1>1. Stock => CleanOnFailure
  <2> SUFFICES ASSUME Stock, pc = "returned", bag.error # "cleanup", lost = "none"
               PROVE  /\ \A i \in Subnets : ~Standing(i)
                      /\ bag.floating_ip => fip \in {"none", "gone", "kept"}
                      /\ sg # "exists"
                      /\ OnlyLaterRulesLeft
    BY DEF CleanOnFailure
  <2>1. ~panicking
    BY DEF Stock, Sound
  <2>2. pc \notin Building \cup InstanceCleanup
    BY DEF InstanceCleanup, Building, StepNames, InnerPoints
  <2>3. \A i \in Subnets : ~Standing(i)
    BY <2>1, <2>2 DEF Stock, InstanceStock
  <2>4. bag.floating_ip => fip \in {"none", "gone", "kept"}
    BY <2>1, <2>2 DEF Stock, IInv, TypeOK, CloudTypeOK, AddressStock, Held
  <2>5. sg # "exists" /\ OnlyLaterRulesLeft
    BY <2>1, <2>2, GroupLeft
  <2> QED BY <2>3, <2>4, <2>5
<1> QED BY <1>1, StockInvariance, PTL

\* The SSH key and the private key file go even when a panic ends the process,
\* or the key is kept (stepCreateSshKeyVPC.Cleanup, stepCreateSshKeyPair.Cleanup).
THEOREM KeysAreRemoved == Spec => []KeysNeverOutliveTheRun
<1>1. Stock => KeysNeverOutliveTheRun
  <2> SUFFICES ASSUME Stock, pc \in {"returned", "crashed"}, bag.error # "cleanup",
                      lost # "ssh_key"
               PROVE  key # "exists" /\ ~keydir
    BY DEF KeysNeverOutliveTheRun
  <2>1. deferred = 0
    BY DEF Stock, Stack, LaterPoints, CreatePoints, FirstSteps, InstanceCleanup
  <2> QED BY <2>1 DEF Stock, KeysStock
<1> QED BY <1>1, StockInvariance, PTL

\* Whatever stands in the cloud is in the state bag, where the Cleanup looks
\* for it (stepCreateInstance).
THEOREM NothingUnrecorded == Spec => []StandingIsRecorded
<1>1. Stock => StandingIsRecorded
  BY DEF Stock, InstanceStock
<1> QED BY <1>1, StockInvariance, PTL

\* No step works on an instance that is gone or going, and the one that is
\* captured has stopped.
THEOREM NeverPulledAway == Spec => []InstanceInUse
<1>1. Stock => InstanceInUse
  <2> SUFFICES ASSUME Stock
               PROVE  /\ pc \in {"waitforInstance", "StepConnect", "StepProvision",
                                 "captureImage", "captureImage.wait", "captureImage.create"} =>
                             /\ TheInstance \in Subnets
                             /\ inst[TheInstance] \notin {"none", "deleting", "gone"}
                      /\ pc = "captureImage.create" => inst[TheInstance] = "stopped"
    BY DEF InstanceInUse
  <2>1. ASSUME pc \in {"waitforInstance", "StepConnect", "StepProvision",
                       "captureImage", "captureImage.wait", "captureImage.create"}
        PROVE  /\ TheInstance \in Subnets
               /\ inst[TheInstance] \notin {"none", "deleting", "gone"}
    <3>1. pc \in Building
      BY <2>1 DEF Building, StepNames, InnerPoints
    <3>2. HasInstance
      BY <2>1, <3>1, BuildingCleanups DEF HasInstance, Stock, FirstSteps, CreatePoints
    <3>3. ~NilInstance
      BY <2>1, <3>1 DEF Stock, Sound, InstanceStock
    <3>4. TheInstance \in Subnets
      BY <3>2, <3>3 DEF Stock, InstanceStock, NilInstance, TheInstance
    <3> QED BY <2>1, <3>2, <3>4 DEF Stock, InstanceStock
  <2> QED BY <2>1 DEF Stock, InstanceStock
<1> QED BY <1>1, StockInvariance, PTL
=============================================================================
