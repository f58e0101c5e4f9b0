--------------------------- MODULE VpcBuild_proofs ---------------------------
(***************************************************************************)
(* Proofs about VpcBuild, for every set of configurations, every set of    *)
(* faults and any number of subnets and remotes: the type invariant, and   *)
(* that at most one instance stands.                                       *)
(***************************************************************************)
EXTENDS VpcBuild, TLAPS

-----------------------------------------------------------------------------
(* The lists of steps. *)

\* The steps Run lists for a communicator are steps.
LEMMA StepsType == ASSUME NEW c PROVE Steps(c) \in Seq(StepNames)
<1>1. SshSteps \in Seq(StepNames)
  BY DEF SshSteps, StepNames
<1>2. WinRMSteps \in Seq(StepNames)
  BY DEF WinRMSteps, StepNames
<1>3. <<>> \in Seq(StepNames)
  OBVIOUS
<1> QED BY <1>1, <1>2, <1>3 DEF Steps

\* Wherever a step or a Cleanup leaves the runner, it is a point of the run.
LEMMA RunnerMoves ==
    ASSUME RunnerTypeOK, NEW d \in 0..3
    PROVE  /\ Continues(d) => RunnerTypeOK'
           /\ Halts(d) => RunnerTypeOK'
           /\ Panics => RunnerTypeOK'
           /\ \A p \in Points : GoTo(p) => RunnerTypeOK'
           /\ UNCHANGED <<pc, runner>> => RunnerTypeOK'
<1> USE DEF RunnerTypeOK
<1>1. ASSUME NEW n \in 0..3, Unwind(n)
      PROVE  pc' \in Points /\ deferred' \in 0..3 /\ todo' = todo
  <2>1. CASE n = 0
    BY <1>1, <2>1 DEF Unwind, Points, CleanupPoints
  <2>2. CASE n # 0
    <3>1. CleanupEntry[n] \in CleanupPoints
      BY <2>2 DEF CleanupEntry, CleanupPoints
    <3> QED BY <1>1, <2>2, <3>1 DEF Unwind, Points
  <2> QED BY <2>1, <2>2
<1>2. ASSUME Continues(d) PROVE RunnerTypeOK'
  <2>1. CASE cancelled \/ todo = <<>>
    BY <1>1, <1>2, <2>1 DEF Continues
  <2>2. CASE ~(cancelled \/ todo = <<>>)
    <3>1. pc' = Head(todo) /\ todo' = Tail(todo) /\ deferred' = d /\ panicking' = panicking
      BY <1>2, <2>2 DEF Continues
    <3>2. Head(todo) \in StepNames /\ Tail(todo) \in Seq(StepNames)
      BY <2>2
    <3> QED BY <3>1, <3>2 DEF Points
  <2> QED BY <2>1, <2>2
<1>3. ASSUME Halts(d) PROVE RunnerTypeOK'
  BY <1>1, <1>3 DEF Halts
<1>4. ASSUME Panics PROVE RunnerTypeOK'
  BY <1>1, <1>4 DEF Panics
<1>5. ASSUME NEW p \in Points, GoTo(p) PROVE RunnerTypeOK'
  BY <1>5 DEF GoTo, runner
<1>6. ASSUME UNCHANGED <<pc, runner>> PROVE RunnerTypeOK'
  BY <1>6 DEF runner
<1> QED BY <1>2, <1>3, <1>4, <1>5, <1>6

-----------------------------------------------------------------------------
(* Type correctness, in the three parts of TypeOK: the runner, the cloud   *)
(* and the rest.  One step per action of Build.                            *)

\* No action leaves the points, or unwinds the stack past its bottom.
LEMMA RunnerType == RunnerTypeOK /\ Build => RunnerTypeOK'
<1> SUFFICES ASSUME RunnerTypeOK, Build PROVE RunnerTypeOK'
  OBVIOUS
<1> USE DEF Fails
<1>r. deferred \in 0..3
  BY DEF RunnerTypeOK
<1>p. InnerPoints \subseteq Points /\ CleanupPoints \subseteq Points /\ EndPoints \subseteq Points /\ "createInstance" \in Points
  BY DEF Points, StepNames
<1>1. CASE Greeting
  BY <1>1, <1>r, RunnerMoves DEF Greeting, Checks
<1>2. CASE CreateVPCServiceInstance
  BY <1>2, <1>r, RunnerMoves DEF CreateVPCServiceInstance, Checks
<1>3. CASE VerifyInput
  BY <1>3, <1>r, RunnerMoves DEF VerifyInput, Checks
<1>4. CASE GetSubnetInfo
  BY <1>4, <1>r, RunnerMoves DEF GetSubnetInfo, Checks
<1>5. CASE GetBaseImageID
  BY <1>5, <1>r, RunnerMoves DEF GetBaseImageID, Checks
<1>6. CASE WaitWinRM
  BY <1>6, <1>r, RunnerMoves DEF WaitWinRM, Checks
<1>7. CASE CreateSshKeyPair
  BY <1>7, <1>r, RunnerMoves DEF CreateSshKeyPair
<1>8. CASE CreateSshKeyVPC
  <2>1. Continues(2) \/ Halts(2)
    BY <1>8 DEF CreateSshKeyVPC
  <2> QED BY <2>1, RunnerMoves
<1>9. CASE CreateInstance
  BY <1>9, <1>r, RunnerMoves, <1>p DEF CreateInstance, InnerPoints, CleanupPoints, EndPoints
<1>10. CASE AwaitStart
  BY <1>10, <1>r, RunnerMoves, <1>p DEF AwaitStart, InnerPoints, CleanupPoints, EndPoints
<1>11. CASE DeleteFailedInstance
  BY <1>11, <1>r, RunnerMoves, <1>p DEF DeleteFailedInstance, InnerPoints, CleanupPoints, EndPoints
<1>12. CASE AwaitFailedInstanceGone
  BY <1>12, <1>r, RunnerMoves, <1>p DEF AwaitFailedInstanceGone, InnerPoints, CleanupPoints, EndPoints
<1>13. CASE WaitforInstance
  BY <1>13, <1>r, RunnerMoves, <1>p DEF WaitforInstance, InnerPoints, CleanupPoints, EndPoints
<1>14. CASE RetrieveInstance
  BY <1>14, <1>r, RunnerMoves DEF RetrieveInstance
<1>15. CASE GetPrivateIP
  BY <1>15, <1>r, RunnerMoves, <1>p DEF GetPrivateIP, InnerPoints, CleanupPoints, EndPoints
<1>16. CASE CreateFloatingIP
  BY <1>16, <1>r, RunnerMoves, <1>p DEF CreateFloatingIP, InnerPoints, CleanupPoints, EndPoints
<1>17. CASE AwaitFloatingIP
  BY <1>17, <1>r, RunnerMoves, <1>p DEF AwaitFloatingIP, InnerPoints, CleanupPoints, EndPoints
<1>18. CASE WriteInventory
  BY <1>18, <1>r, RunnerMoves DEF WriteInventory
<1>19. CASE OpenSecurityGroup
  BY <1>19, <1>r, RunnerMoves, <1>p DEF OpenSecurityGroup, InnerPoints, CleanupPoints, EndPoints
<1>20. CASE CreateRule
  BY <1>20, <1>r, RunnerMoves DEF CreateRule
<1>21. CASE RulesDone
  BY <1>21, <1>r, RunnerMoves, <1>p DEF RulesDone, InnerPoints, CleanupPoints, EndPoints
<1>22. CASE AttachInterface
  BY <1>22, <1>r, RunnerMoves DEF AttachInterface
<1>23. CASE Connect
  BY <1>23, <1>r, RunnerMoves DEF Connect
<1>24. CASE SshKeyUnreadable
  BY <1>24, <1>r, RunnerMoves, <1>p DEF SshKeyUnreadable, InnerPoints, CleanupPoints, EndPoints
<1>25. CASE WinRMCredentialsMissing
  <2>1. PICK p \in {"StepConnect", "exited"} : GoTo(p)
    BY <1>25 DEF WinRMCredentialsMissing
  <2>2. p \in Points
    BY DEF Points, StepNames, EndPoints
  <2> QED BY <2>1, <2>2, <1>r, RunnerMoves
<1>26. CASE Provision
  BY <1>26, <1>r, RunnerMoves DEF Provision
<1>27. CASE RebootInstance
  BY <1>27, <1>r, RunnerMoves, <1>p DEF RebootInstance, InnerPoints, CleanupPoints, EndPoints
<1>28. CASE AwaitReboot
  BY <1>28, <1>r, RunnerMoves, <1>p DEF AwaitReboot, InnerPoints, CleanupPoints, EndPoints
<1>29. CASE RetrieveRebooted
  BY <1>29, <1>r, RunnerMoves DEF RetrieveRebooted
<1>30. CASE StopInstance
  BY <1>30, <1>r, RunnerMoves, <1>p DEF StopInstance, InnerPoints, CleanupPoints, EndPoints
<1>31. CASE AwaitStopped
  BY <1>31, <1>r, RunnerMoves, <1>p DEF AwaitStopped, InnerPoints, CleanupPoints, EndPoints
<1>32. CASE CreateImage
  BY <1>32, <1>r, RunnerMoves, <1>p DEF CreateImage, InnerPoints, CleanupPoints, EndPoints
<1>33. CASE AttachTags
  BY <1>33, <1>r, RunnerMoves, <1>p DEF AttachTags, InnerPoints, CleanupPoints, EndPoints
<1>34. CASE AwaitImage
  BY <1>34, <1>r, RunnerMoves DEF AwaitImage
<1>35. CASE ReleaseFloatingIP
  BY <1>35, <1>r, RunnerMoves, <1>p DEF ReleaseFloatingIP, CleanupGivesUp, NextCleanup, Halts, InnerPoints, CleanupPoints, EndPoints
<1>36. CASE DeleteInstance
  BY <1>36, <1>r, RunnerMoves, <1>p DEF DeleteInstance, CleanupGivesUp, NextCleanup, Halts, InnerPoints, CleanupPoints, EndPoints
<1>37. CASE AwaitInstanceGone
  BY <1>37, <1>r, RunnerMoves, <1>p DEF AwaitInstanceGone, CleanupGivesUp, NextCleanup, Halts, InnerPoints, CleanupPoints, EndPoints
<1>38. CASE DeleteRule
  BY <1>38, <1>r, RunnerMoves, <1>p DEF DeleteRule, CleanupGivesUp, NextCleanup, Halts, InnerPoints, CleanupPoints, EndPoints
<1>39. CASE DeleteSecurityGroup
  BY <1>39, <1>r, RunnerMoves DEF DeleteSecurityGroup, CleanupGivesUp, NextCleanup, Halts
<1>40. CASE DeleteKey
  BY <1>40, <1>r, RunnerMoves DEF DeleteKey, CleanupGivesUp, NextCleanup, Halts
<1>41. CASE RemoveKeyDirectory
  BY <1>41, <1>r, RunnerMoves DEF RemoveKeyDirectory, CleanupGivesUp, NextCleanup, Halts
<1>42. CASE Finish
  BY <1>42, <1>r, RunnerMoves, <1>p DEF Finish, InnerPoints, CleanupPoints, EndPoints
<1> QED
  BY <1>1, <1>2, <1>3, <1>4, <1>5, <1>6, <1>7, <1>8, <1>9, <1>10, <1>11, <1>12, <1>13, <1>14, <1>15, <1>16, <1>17, <1>18, <1>19, <1>20, <1>21, <1>22, <1>23, <1>24, <1>25, <1>26, <1>27, <1>28, <1>29, <1>30, <1>31, <1>32, <1>33, <1>34, <1>35, <1>36, <1>37, <1>38, <1>39, <1>40, <1>41, <1>42
     DEF Build, CreateSteps, BakeSteps, CleanupSteps

\* Every request, accepted, keeps the types of the cloud's resources.
LEMMA CloudEffects ==
    ASSUME CloudTypeOK
    PROVE  /\ \A i, s : s \in InstanceStatus /\ SetInstance(i, s) => CloudTypeOK'
           /\ \A s \in {"none", "pending", "available", "gone", "kept"} :
                  SetFloatingIP(s) => CloudTypeOK'
           /\ \A s \in {"none", "exists", "gone", "kept"} : SetSecurityGroup(s) => CloudTypeOK'
           /\ \A r \in SUBSET (0..MaxRemotes) : SetRules(r) => CloudTypeOK'
           /\ \A s \in {"none", "exists", "gone", "kept"} : SetKey(s) => CloudTypeOK'
           /\ Attach => CloudTypeOK'
           /\ CreateImageFrom => CloudTypeOK'
           /\ TagImage => CloudTypeOK'
           /\ UNCHANGED cloud => CloudTypeOK'
<1> USE DEF CloudTypeOK
<1>1. ASSUME NEW i, NEW s \in InstanceStatus, SetInstance(i, s) PROVE CloudTypeOK'
  BY <1>1 DEF SetInstance
<1>2. ASSUME NEW s \in {"none", "pending", "available", "gone", "kept"}, SetFloatingIP(s)
      PROVE  CloudTypeOK'
  BY <1>2 DEF SetFloatingIP
<1>3. ASSUME NEW s \in {"none", "exists", "gone", "kept"}, SetSecurityGroup(s) PROVE CloudTypeOK'
  BY <1>3 DEF SetSecurityGroup
<1>4. ASSUME NEW r \in SUBSET (0..MaxRemotes), SetRules(r) PROVE CloudTypeOK'
  BY <1>4 DEF SetRules
<1>5. ASSUME NEW s \in {"none", "exists", "gone", "kept"}, SetKey(s) PROVE CloudTypeOK'
  BY <1>5 DEF SetKey
<1>6. Attach => CloudTypeOK'
  BY DEF Attach
<1>7. CreateImageFrom => CloudTypeOK'
  BY DEF CreateImageFrom
<1>8. TagImage => CloudTypeOK'
  BY DEF TagImage
<1>9. UNCHANGED cloud => CloudTypeOK'
  BY DEF cloud
<1> QED BY <1>1, <1>2, <1>3, <1>4, <1>5, <1>6, <1>7, <1>8, <1>9

\* What the assumption says of the configuration and its bounds.
LEMMA CfgType ==
    ASSUME RestTypeOK
    PROVE  /\ cfg.subnets \in 1..MaxSubnets
           /\ cfg.remotes \in 1..MaxRemotes
           /\ MaxSubnets \in Nat /\ MaxRemotes \in Nat
<1>1. cfg \in ConfigSpace
  BY BuildAssumption DEF RestTypeOK
<1> QED BY <1>1, CloudAssumption DEF ConfigSpace, Subnets

\* Every request leaves the cloud in one of its states.
LEMMA CloudType == CloudTypeOK /\ RestTypeOK /\ Build => CloudTypeOK'
<1> SUFFICES ASSUME CloudTypeOK, RestTypeOK, Build PROVE CloudTypeOK'
  OBVIOUS
<1>s. {"starting", "running", "restarting", "stopping", "stopped", "deleting"}
          \subseteq InstanceStatus
  BY DEF InstanceStatus
<1>u. UNCHANGED cloud => CloudTypeOK'
  BY CloudEffects
<1>1. CASE \/ Greeting \/ CreateVPCServiceInstance \/ VerifyInput
         \/ GetSubnetInfo \/ GetBaseImageID \/ WaitWinRM
         \/ CreateSshKeyPair \/ AwaitStart \/ AwaitFailedInstanceGone
         \/ WaitforInstance \/ RetrieveInstance \/ GetPrivateIP
         \/ AwaitFloatingIP \/ WriteInventory \/ RulesDone
         \/ Connect \/ SshKeyUnreadable \/ WinRMCredentialsMissing
         \/ Provision \/ AwaitReboot \/ RetrieveRebooted
         \/ AwaitStopped \/ AwaitImage \/ AwaitInstanceGone
         \/ RemoveKeyDirectory \/ Finish
  <2>1. UNCHANGED cloud
    BY <1>1 DEF Checks, Greeting, CreateVPCServiceInstance, VerifyInput, GetSubnetInfo,
       GetBaseImageID, WaitWinRM, CreateSshKeyPair, AwaitStart,
       AwaitFailedInstanceGone, WaitforInstance, RetrieveInstance, GetPrivateIP,
       AwaitFloatingIP, WriteInventory, RulesDone, Connect,
       SshKeyUnreadable, WinRMCredentialsMissing, Provision, AwaitReboot,
       RetrieveRebooted, AwaitStopped, AwaitImage, AwaitInstanceGone,
       RemoveKeyDirectory, Finish
  <2> QED BY <2>1, <1>u
<1>2. CASE CreateSshKeyVPC
  BY <1>2, <1>s, <1>u, CloudEffects DEF CreateSshKeyVPC, CloudTypeOK
<1>3. CASE CreateInstance
  BY <1>3, <1>s, <1>u, CloudEffects DEF CreateInstance
<1>4. CASE DeleteFailedInstance
  BY <1>4, <1>s, <1>u, CloudEffects DEF DeleteFailedInstance
<1>5. CASE CreateFloatingIP
  BY <1>5, <1>s, <1>u, CloudEffects DEF CreateFloatingIP, CloudTypeOK
<1>6. CASE OpenSecurityGroup
  BY <1>6, <1>s, <1>u, CloudEffects DEF OpenSecurityGroup, CloudTypeOK
<1>7. CASE CreateRule
  <2>1. CASE UNCHANGED cloud
    BY <2>1, <1>u
  <2>2. CASE ~UNCHANGED cloud
    <3>1. nrule < cfg.remotes /\ SetRules(rules \cup {nrule + 1})
      BY <1>7, <2>2 DEF CreateRule
    <3>2. nrule + 1 \in 0..MaxRemotes
      BY <3>1, CfgType DEF RestTypeOK
    <3> QED BY <3>1, <3>2, CloudEffects DEF CloudTypeOK
  <2> QED BY <2>1, <2>2
<1>8. CASE AttachInterface
  BY <1>8, <1>s, <1>u, CloudEffects DEF AttachInterface
<1>9. CASE RebootInstance
  BY <1>9, <1>s, <1>u, CloudEffects DEF RebootInstance
<1>10. CASE StopInstance
  BY <1>10, <1>s, <1>u, CloudEffects DEF StopInstance
<1>11. CASE CreateImage
  BY <1>11, <1>s, <1>u, CloudEffects DEF CreateImage
<1>12. CASE AttachTags
  BY <1>12, <1>s, <1>u, CloudEffects DEF AttachTags
<1>13. CASE ReleaseFloatingIP
  BY <1>13, <1>s, <1>u, CloudEffects DEF ReleaseFloatingIP, CloudTypeOK
<1>14. CASE DeleteInstance
  BY <1>14, <1>s, <1>u, CloudEffects DEF DeleteInstance
<1>15. CASE DeleteRule
  <2>1. rules \subseteq 0..MaxRemotes
    BY DEF CloudTypeOK
  <2>2. 0 \in 0..MaxRemotes
    BY CloudAssumption
  <2>3. (rules \ {1}) \cup {0} \subseteq 0..MaxRemotes /\ rules \ {1} \subseteq 0..MaxRemotes
    BY <2>1, <2>2
  <2> QED BY <1>15, <1>u, <2>1, <2>3, CloudEffects DEF DeleteRule
<1>16. CASE DeleteSecurityGroup
  BY <1>16, <1>s, <1>u, CloudEffects DEF DeleteSecurityGroup, CloudTypeOK
<1>17. CASE DeleteKey
  BY <1>17, <1>s, <1>u, CloudEffects DEF DeleteKey, CloudTypeOK
<1> QED
  BY <1>1, <1>2, <1>3, <1>4, <1>5, <1>6, <1>7, <1>8, <1>9, <1>10, <1>11, <1>12, <1>13, <1>14, <1>15, <1>16, <1>17
     DEF Build, CreateSteps, BakeSteps, CleanupSteps

\* Every entry a step puts is of its type.
LEMMA BagPuts ==
    ASSUME NEW b \in Bag
    PROVE  /\ \A e \in {"none", "run", "cleanup"} : [b EXCEPT !.error = e] \in Bag
           /\ \A i \in (0..MaxSubnets) \cup {NilPointer} :
                  [b EXCEPT !.instance_data = i] \in Bag
           /\ [b EXCEPT !.vpc_ssh_key = TRUE] \in Bag
           /\ [b EXCEPT !.floating_ip = TRUE] \in Bag
           /\ [b EXCEPT !.floating_ip_id = TRUE] \in Bag
           /\ [b EXCEPT !.image_id = TRUE] \in Bag
           /\ [b EXCEPT !.security_group_id = TRUE] \in Bag
           /\ [b EXCEPT !.security_group_id = TRUE, !.error = "run"] \in Bag
           /\ [b EXCEPT !.security_group_id = TRUE, !.security_group_name = TRUE] \in Bag
<1>1. ASSUME NEW e \in {"none", "run", "cleanup"} PROVE [b EXCEPT !.error = e] \in Bag
  BY DEF Bag
<1>2. ASSUME NEW i \in (0..MaxSubnets) \cup {NilPointer}
      PROVE  [b EXCEPT !.instance_data = i] \in Bag
  BY DEF Bag
<1>3. [b EXCEPT !.vpc_ssh_key = TRUE] \in Bag
  BY DEF Bag
<1>4. [b EXCEPT !.floating_ip = TRUE] \in Bag
  BY DEF Bag
<1>5. [b EXCEPT !.floating_ip_id = TRUE] \in Bag
  BY DEF Bag
<1>6. [b EXCEPT !.image_id = TRUE] \in Bag
  BY DEF Bag
<1>7. [b EXCEPT !.security_group_id = TRUE] \in Bag
  BY DEF Bag
<1>8. [b EXCEPT !.security_group_id = TRUE, !.error = "run"] \in Bag
  BY DEF Bag
<1>9. [b EXCEPT !.security_group_id = TRUE, !.security_group_name = TRUE] \in Bag
  BY DEF Bag
<1> QED BY <1>1, <1>2, <1>3, <1>4, <1>5, <1>6, <1>7, <1>8, <1>9

\* The state bag, the counters and the history keep their types.
LEMMA RestType == RestTypeOK /\ Build => RestTypeOK'
<1> SUFFICES ASSUME RestTypeOK, Build PROVE RestTypeOK'
  OBVIOUS
<1> USE DEF Fails, Put, PutError, PutCleanupError, CleanupGivesUp
<1>t. bag \in Bag
  BY DEF RestTypeOK
<1>b. [bag EXCEPT !.error = "run"] \in Bag /\ [bag EXCEPT !.error = "cleanup"] \in Bag
  BY <1>t, BagPuts
<1>i. \A i \in (0..MaxSubnets) \cup {NilPointer} : [bag EXCEPT !.instance_data = i] \in Bag
  BY <1>t, BagPuts, Zenon
<1>n. [bag EXCEPT !.instance_data = 0] \in Bag
      /\ [bag EXCEPT !.instance_data = NilPointer] \in Bag
  BY <1>i, CloudAssumption
<1>p. /\ [bag EXCEPT !.vpc_ssh_key = TRUE] \in Bag
      /\ [bag EXCEPT !.floating_ip = TRUE] \in Bag
      /\ [bag EXCEPT !.floating_ip_id = TRUE] \in Bag
      /\ [bag EXCEPT !.image_id = TRUE] \in Bag
  BY <1>t, BagPuts
<1>g. /\ [bag EXCEPT !.security_group_id = TRUE] \in Bag
      /\ [bag EXCEPT !.security_group_id = TRUE, !.error = "run"] \in Bag
      /\ [bag EXCEPT !.security_group_id = TRUE, !.security_group_name = TRUE] \in Bag
  BY <1>t, BagPuts
<1>f. UNCHANGED <<cfg, cancelled>>
  BY DEF Build
<1>1. CASE Greeting
  BY <1>1, <1>b, <1>f DEF Greeting, Checks, RestTypeOK, history
<1>2. CASE CreateVPCServiceInstance
  BY <1>2, <1>b, <1>f DEF CreateVPCServiceInstance, Checks, RestTypeOK, history
<1>3. CASE VerifyInput
  BY <1>3, <1>b, <1>f DEF VerifyInput, Checks, RestTypeOK, history
<1>4. CASE GetSubnetInfo
  BY <1>4, <1>b, <1>f DEF GetSubnetInfo, Checks, RestTypeOK, history
<1>5. CASE GetBaseImageID
  BY <1>5, <1>b, <1>f DEF GetBaseImageID, Checks, RestTypeOK, history
<1>6. CASE WaitWinRM
  BY <1>6, <1>b, <1>f DEF WaitWinRM, Checks, RestTypeOK, history
<1>7. CASE CreateSshKeyPair
  BY <1>7, <1>b, <1>f DEF CreateSshKeyPair, RestTypeOK, history
<1>8. CASE CreateSshKeyVPC
  BY <1>8, <1>b, <1>p, <1>f DEF CreateSshKeyVPC, RestTypeOK, history
<1>9. CASE CreateInstance
  <2>1. attempt + 1 \in 1..MaxSubnets
    BY <1>9, CfgType DEF CreateInstance, RestTypeOK
  <2>2. [bag EXCEPT !.instance_data = attempt + 1] \in Bag
    BY <1>i, <2>1, CloudAssumption
  <2> QED BY <1>9, <1>b, <1>f, <2>1, <2>2, CloudAssumption DEF CreateInstance, RestTypeOK, history
<1>10. CASE AwaitStart
  BY <1>10, <1>b, <1>f DEF AwaitStart, RestTypeOK, history
<1>11. CASE DeleteFailedInstance
  BY <1>11, <1>b, <1>f DEF DeleteFailedInstance, RestTypeOK, history
<1>12. CASE AwaitFailedInstanceGone
  BY <1>12, <1>b, <1>n, <1>f DEF AwaitFailedInstanceGone, RestTypeOK, history
<1>13. CASE WaitforInstance
  BY <1>13, <1>b, <1>f DEF WaitforInstance, RestTypeOK, history
<1>14. CASE RetrieveInstance
  BY <1>14, <1>b, <1>n, <1>f DEF RetrieveInstance, RestTypeOK, history
<1>15. CASE GetPrivateIP
  BY <1>15, <1>b, <1>p, <1>f DEF GetPrivateIP, RestTypeOK, history
<1>16. CASE CreateFloatingIP
  BY <1>16, <1>b, <1>p, <1>f DEF CreateFloatingIP, RestTypeOK, history
<1>17. CASE AwaitFloatingIP
  BY <1>17, <1>b, <1>p, <1>f DEF AwaitFloatingIP, RestTypeOK, history
<1>18. CASE WriteInventory
  BY <1>18, <1>b, <1>f DEF WriteInventory, RestTypeOK, history
<1>19. CASE OpenSecurityGroup
  BY <1>19, <1>b, <1>g, <1>f DEF OpenSecurityGroup, RestTypeOK, history
<1>20. CASE CreateRule
  <2>1. nrule + 1 \in 0..MaxRemotes
    BY <1>20, CfgType DEF CreateRule, RestTypeOK
  <2>2. [bag EXCEPT !.security_group_rule_id = @ \/ nrule = 0] \in Bag
    BY <1>t DEF Bag
  <2> QED BY <1>20, <1>b, <1>f, <2>1, <2>2 DEF CreateRule, RestTypeOK, history
<1>21. CASE RulesDone
  BY <1>21, <1>b, <1>f DEF RulesDone, RestTypeOK, history
<1>22. CASE AttachInterface
  BY <1>22, <1>b, <1>f DEF AttachInterface, RestTypeOK, history
<1>23. CASE Connect
  BY <1>23, <1>b, <1>f DEF Connect, RestTypeOK, history
<1>24. CASE SshKeyUnreadable
  BY <1>24, <1>b, <1>f DEF SshKeyUnreadable, RestTypeOK, history
<1>25. CASE WinRMCredentialsMissing
  BY <1>25, <1>b, <1>f DEF WinRMCredentialsMissing, RestTypeOK, history
<1>26. CASE Provision
  BY <1>26, <1>b, <1>f DEF Provision, RestTypeOK, history
<1>27. CASE RebootInstance
  BY <1>27, <1>b, <1>f DEF RebootInstance, RestTypeOK, history
<1>28. CASE AwaitReboot
  BY <1>28, <1>b, <1>f DEF AwaitReboot, RestTypeOK, history
<1>29. CASE RetrieveRebooted
  BY <1>29, <1>b, <1>f DEF RetrieveRebooted, RestTypeOK, history
<1>30. CASE StopInstance
  BY <1>30, <1>b, <1>f DEF StopInstance, RestTypeOK, history
<1>31. CASE AwaitStopped
  BY <1>31, <1>b, <1>f DEF AwaitStopped, RestTypeOK, history
<1>32. CASE CreateImage
  BY <1>32, <1>b, <1>p, <1>f DEF CreateImage, RestTypeOK, history
<1>33. CASE AttachTags
  BY <1>33, <1>b, <1>f DEF AttachTags, RestTypeOK, history
<1>34. CASE AwaitImage
  BY <1>34, <1>b, <1>f DEF AwaitImage, RestTypeOK, history
<1>35. CASE ReleaseFloatingIP
  BY <1>35, <1>b, <1>f DEF ReleaseFloatingIP, RestTypeOK, history
<1>36. CASE DeleteInstance
  BY <1>36, <1>b, <1>f DEF DeleteInstance, RestTypeOK, history
<1>37. CASE AwaitInstanceGone
  BY <1>37, <1>b, <1>f DEF AwaitInstanceGone, RestTypeOK, history
<1>38. CASE DeleteRule
  BY <1>38, <1>b, <1>f DEF DeleteRule, RestTypeOK, history
<1>39. CASE DeleteSecurityGroup
  BY <1>39, <1>b, <1>f DEF DeleteSecurityGroup, RestTypeOK, history
<1>40. CASE DeleteKey
  BY <1>40, <1>b, <1>f DEF DeleteKey, RestTypeOK, history
<1>41. CASE RemoveKeyDirectory
  BY <1>41, <1>b, <1>f DEF RemoveKeyDirectory, RestTypeOK, history
<1>42. CASE Finish
  BY <1>42, <1>b, <1>f DEF Finish, RestTypeOK, history
<1> QED
  BY <1>1, <1>2, <1>3, <1>4, <1>5, <1>6, <1>7, <1>8, <1>9, <1>10, <1>11, <1>12, <1>13, <1>14, <1>15, <1>16, <1>17, <1>18, <1>19, <1>20, <1>21, <1>22, <1>23, <1>24, <1>25, <1>26, <1>27, <1>28, <1>29, <1>30, <1>31, <1>32, <1>33, <1>34, <1>35, <1>36, <1>37, <1>38, <1>39, <1>40, <1>41, <1>42
     DEF Build, CreateSteps, BakeSteps, CleanupSteps

\* A run starts in a state of the right type.
LEMMA InitType == Init => TypeOK
<1> SUFFICES ASSUME Init PROVE TypeOK
  OBVIOUS
<1>1. CloudTypeOK
  BY DEF Init, CloudInit, CloudTypeOK, InstanceStatus
<1>2. RunnerTypeOK
  <2>1. Steps(cfg.comm) \in Seq(StepNames)
    BY StepsType
  <2>0. deferred \in 0..3
    BY DEF Init
  <2>p. panicking \in BOOLEAN
    BY Zenon DEF Init
  <2>2. CASE Steps(cfg.comm) = <<>>
    <3>1. pc = "finish" /\ todo = <<>>
      BY <2>2 DEF Init
    <3> QED BY <2>0, <2>p, <3>1 DEF RunnerTypeOK, Points, CleanupPoints
  <2>3. CASE Steps(cfg.comm) # <<>>
    <3>1. Head(Steps(cfg.comm)) \in StepNames /\ Tail(Steps(cfg.comm)) \in Seq(StepNames)
      BY <2>1, <2>3
    <3>2. pc = Head(Steps(cfg.comm)) /\ todo = Tail(Steps(cfg.comm))
      BY <2>3 DEF Init
    <3> QED BY <2>0, <2>p, <3>1, <3>2 DEF RunnerTypeOK, Points
  <2> QED BY <2>2, <2>3
<1>3. RestTypeOK
  <2>1. bag \in Bag
    BY CloudAssumption DEF Init, Bag
  <2>2. /\ cfg \in Configs /\ attempt = 0 /\ nrule = 0 /\ lost = "none" /\ result = "none"
    BY DEF Init
  <2>3. cancelled \in BOOLEAN /\ keydir \in BOOLEAN /\ rebooted \in BOOLEAN
    BY Zenon DEF Init
  <2> QED BY <2>1, <2>2, <2>3, CloudAssumption DEF RestTypeOK
<1> QED BY <1>1, <1>2, <1>3 DEF TypeOK

\* The cloud's own moves end in statuses it has.
LEMMA CloudMovesType == CloudTypeOK /\ CloudMoves => CloudTypeOK'
<1> SUFFICES ASSUME CloudTypeOK, CloudMoves PROVE CloudTypeOK'
  OBVIOUS
<1>1. CASE \E k \in Subnets : InstanceMoves(k, May("zone"))
  BY <1>1 DEF InstanceMoves, CloudTypeOK, InstanceStatus
<1>2. CASE FloatingIPMoves
  BY <1>2 DEF FloatingIPMoves, CloudTypeOK
<1>3. CASE ImageMoves(May("zone"))
  BY <1>3 DEF ImageMoves, CloudTypeOK
<1> QED BY <1>1, <1>2, <1>3 DEF CloudMoves

\* Every step, and every stutter, keeps the type.
LEMMA StepType == TypeOK /\ [Next]_vars => TypeOK'
<1> SUFFICES ASSUME TypeOK, [Next]_vars PROVE TypeOK'
  OBVIOUS
<1> USE DEF TypeOK
<1>1. CASE Build
  BY <1>1, CloudType, RunnerType, RestType
<1>2. CASE Cancel
  BY <1>2 DEF Cancel, CloudTypeOK, RunnerTypeOK, RestTypeOK, cloud, runner, history
<1>3. CASE CloudMoves
  <2>1. CloudTypeOK'
    BY <1>3, CloudMovesType
  <2>2. RunnerTypeOK' /\ RestTypeOK'
    BY <1>3 DEF CloudMoves, RunnerTypeOK, RestTypeOK, runner, history
  <2> QED BY <2>1, <2>2
<1>4. CASE UNCHANGED vars
  BY <1>4 DEF vars, CloudTypeOK, RunnerTypeOK, RestTypeOK, cloud, runner, history
<1> QED BY <1>1, <1>2, <1>3, <1>4 DEF Next, Ended

\* Type correctness of every build: each variable keeps its type, and the
\* Cleanup stack is never unwound past its bottom.
THEOREM TypeCorrect == Spec => []TypeOK
<1> QED BY InitType, StepType, PTL DEF Spec

-----------------------------------------------------------------------------
(* At most one instance stands.  AtMostOneInstance is not inductive: the   *)
(* step that creates the next instance must know that the last is gone,    *)
(* which holds where stepCreateInstance is entered, and that the runner    *)
(* never enters it again.  A later request names the instance of the bag,  *)
(* which is the last one created, or none.                                 *)

\* stepCreateInstance is still to come.
CreatePending == \E n \in 1..Len(todo) : todo[n] = "createInstance"

CreatePoints == {"createInstance", "createInstance.wait", "createInstance.delete",
                 "createInstance.gone"}

\* It comes once.
CreatedOnce ==
    /\ pc \in CreatePoints => ~CreatePending
    /\ \A m, n \in 1..Len(todo) :
           todo[m] = "createInstance" /\ todo[n] = "createInstance" => m = n

OnlyTheLast ==
    /\ \A k \in Subnets : Standing(k) => k = attempt
    /\ bag.instance_data \in {0, attempt, NilPointer}
    /\ CreatePending \/ pc = "createInstance" =>
           /\ \A k \in Subnets : ~Standing(k)
           /\ bag.instance_data \in {0, NilPointer}

IInv == TypeOK /\ CreatedOnce /\ OnlyTheLast

\* What a move of the runner does to the steps still to come.
KeepsOrder ==
    /\ CreatePending' => CreatePending
    /\ pc' = "createInstance" => CreatePending
    /\ CreatedOnce'

\* Whichever way a step ends, the steps still to come keep their order.
LEMMA RunnerOrder ==
    ASSUME RunnerTypeOK, CreatedOnce, NEW d \in 0..3
    PROVE  /\ Continues(d) => KeepsOrder
           /\ Halts(d) => KeepsOrder
           /\ Panics => KeepsOrder
           /\ \A p \in Points \ CreatePoints : GoTo(p) => KeepsOrder
           /\ UNCHANGED <<pc, runner>> /\ pc # "createInstance" => KeepsOrder
<1>t. todo \in Seq(StepNames) /\ deferred \in 0..3
  BY DEF RunnerTypeOK
<1>s. ASSUME UNCHANGED todo, pc' \notin CreatePoints PROVE KeepsOrder
  BY <1>s DEF KeepsOrder, CreatedOnce, CreatePending, CreatePoints
<1>1. ASSUME NEW n \in 0..3, Unwind(n) PROVE KeepsOrder
  <2>1. pc' \in CleanupPoints /\ UNCHANGED todo
    BY <1>1 DEF Unwind, CleanupEntry, CleanupPoints
  <2>2. CleanupPoints \cap CreatePoints = {}
    BY DEF CleanupPoints, CreatePoints
  <2> QED BY <2>1, <2>2, <1>s
<1>2. ASSUME Continues(d) PROVE KeepsOrder
  <2>1. CASE cancelled \/ todo = <<>>
    BY <1>1, <1>2, <2>1 DEF Continues
  <2>2. CASE ~(cancelled \/ todo = <<>>)
    <3>1. pc' = Head(todo) /\ todo' = Tail(todo) /\ todo # <<>>
      BY <1>2, <2>2 DEF Continues
    <3>2. /\ Len(todo) \in Nat \ {0}
          /\ Len(todo') = Len(todo) - 1
          /\ pc' = todo[1]
          /\ \A n \in 1..Len(todo') : todo'[n] = todo[n + 1] /\ n + 1 \in 1..Len(todo)
      BY <3>1, <1>t
    <3>3. CreatePending' => CreatePending
      BY <3>2 DEF CreatePending
    <3>4. pc' = "createInstance" => CreatePending
      <4>1. 1 \in 1..Len(todo)
        BY <3>2
      <4> QED BY <3>2, <4>1 DEF CreatePending
    <3>5. pc' \in CreatePoints => pc' = "createInstance"
      BY <3>1, <1>t, Head(todo) \in StepNames DEF StepNames, CreatePoints
    <3>6. \A n \in 1..Len(todo') : 1 \in 1..Len(todo) /\ n + 1 # 1
      BY <3>2
    <3>7. pc' = "createInstance" => ~CreatePending'
      BY <3>2, <3>6 DEF CreatePending, CreatedOnce
    <3>8. \A m, n \in 1..Len(todo') :
              todo'[m] = "createInstance" /\ todo'[n] = "createInstance" => m = n
      <4>1. SUFFICES ASSUME NEW m \in 1..Len(todo'), NEW n \in 1..Len(todo'),
                            todo'[m] = "createInstance", todo'[n] = "createInstance"
                     PROVE  m = n
        OBVIOUS
      <4>2. m + 1 = n + 1
        BY <4>1, <3>2 DEF CreatedOnce
      <4> QED BY <4>2, <3>2
    <3> QED BY <3>3, <3>4, <3>5, <3>7, <3>8 DEF KeepsOrder, CreatedOnce
  <2> QED BY <2>1, <2>2
<1>3. ASSUME Halts(d) PROVE KeepsOrder
  BY <1>1, <1>3 DEF Halts
<1>4. ASSUME Panics PROVE KeepsOrder
  BY <1>1, <1>4, <1>t DEF Panics
<1>5. ASSUME NEW p \in Points \ CreatePoints, GoTo(p) PROVE KeepsOrder
  BY <1>5, <1>s DEF GoTo, runner
<1>6. ASSUME UNCHANGED <<pc, runner>>, pc # "createInstance" PROVE KeepsOrder
  BY <1>6 DEF runner, KeepsOrder, CreatedOnce, CreatePending
<1> QED BY <1>2, <1>3, <1>4, <1>5, <1>6

\* Inside stepCreateInstance nothing is taken from the steps to come.
LEMMA CreateOrder ==
    ASSUME CreatedOnce, pc \in CreatePoints, NEW p, GoTo(p)
    PROVE  CreatedOnce' /\ ~CreatePending' /\ ~CreatePending
BY DEF GoTo, runner, CreatedOnce, CreatePending

\* Outside of it, the step order is kept by every action.
LEMMA OrderStep ==
    ASSUME RunnerTypeOK, CreatedOnce, Build, pc \notin CreatePoints
    PROVE  KeepsOrder
<1> USE DEF Fails, At
<1>r. deferred \in 0..3
  BY DEF RunnerTypeOK
<1>g. (InnerPoints \cup CleanupPoints \cup EndPoints) \ CreatePoints \subseteq Points \ CreatePoints
  BY DEF Points
<1>1. CASE Greeting
  BY <1>1, <1>r, RunnerOrder DEF Greeting, Checks
<1>2. CASE CreateVPCServiceInstance
  BY <1>2, <1>r, RunnerOrder DEF CreateVPCServiceInstance, Checks
<1>3. CASE VerifyInput
  BY <1>3, <1>r, RunnerOrder DEF VerifyInput, Checks
<1>4. CASE GetSubnetInfo
  BY <1>4, <1>r, RunnerOrder DEF GetSubnetInfo, Checks
<1>5. CASE GetBaseImageID
  BY <1>5, <1>r, RunnerOrder DEF GetBaseImageID, Checks
<1>6. CASE WaitWinRM
  BY <1>6, <1>r, RunnerOrder DEF WaitWinRM, Checks
<1>7. CASE CreateSshKeyPair
  BY <1>7, <1>r, RunnerOrder DEF CreateSshKeyPair
<1>8. CASE CreateSshKeyVPC
  <2>1. Continues(2) \/ Halts(2)
    BY <1>8 DEF CreateSshKeyVPC
  <2> QED BY <2>1, RunnerOrder
<1>9. CASE WaitforInstance
  BY <1>9, <1>r, <1>g, RunnerOrder DEF WaitforInstance, InnerPoints, CleanupPoints, EndPoints, CreatePoints
<1>10. CASE RetrieveInstance
  BY <1>10, <1>r, RunnerOrder DEF RetrieveInstance
<1>11. CASE GetPrivateIP
  BY <1>11, <1>r, <1>g, RunnerOrder DEF GetPrivateIP, InnerPoints, CleanupPoints, EndPoints, CreatePoints
<1>12. CASE CreateFloatingIP
  BY <1>12, <1>r, <1>g, RunnerOrder DEF CreateFloatingIP, InnerPoints, CleanupPoints, EndPoints, CreatePoints
<1>13. CASE AwaitFloatingIP
  BY <1>13, <1>r, <1>g, RunnerOrder DEF AwaitFloatingIP, InnerPoints, CleanupPoints, EndPoints, CreatePoints
<1>14. CASE WriteInventory
  BY <1>14, <1>r, RunnerOrder DEF WriteInventory
<1>15. CASE OpenSecurityGroup
  BY <1>15, <1>r, <1>g, RunnerOrder DEF OpenSecurityGroup, InnerPoints, CleanupPoints, EndPoints, CreatePoints
<1>16. CASE CreateRule
  BY <1>16, <1>r, RunnerOrder DEF CreateRule, InnerPoints, CleanupPoints, EndPoints, CreatePoints
<1>17. CASE RulesDone
  BY <1>17, <1>r, <1>g, RunnerOrder DEF RulesDone, InnerPoints, CleanupPoints, EndPoints, CreatePoints
<1>18. CASE AttachInterface
  BY <1>18, <1>r, RunnerOrder DEF AttachInterface
<1>19. CASE Connect
  BY <1>19, <1>r, RunnerOrder DEF Connect
<1>20. CASE SshKeyUnreadable
  BY <1>20, <1>r, <1>g, RunnerOrder DEF SshKeyUnreadable, InnerPoints, CleanupPoints, EndPoints, CreatePoints
<1>21. CASE WinRMCredentialsMissing
  <2>1. PICK p \in {"StepConnect", "exited"} : GoTo(p)
    BY <1>21 DEF WinRMCredentialsMissing
  <2>2. p \in Points \ CreatePoints
    BY DEF Points, StepNames, EndPoints, CreatePoints
  <2> QED BY <2>1, <2>2, <1>r, RunnerOrder
<1>22. CASE Provision
  BY <1>22, <1>r, RunnerOrder DEF Provision
<1>23. CASE RebootInstance
  BY <1>23, <1>r, <1>g, RunnerOrder DEF RebootInstance, InnerPoints, CleanupPoints, EndPoints, CreatePoints
<1>24. CASE AwaitReboot
  BY <1>24, <1>r, <1>g, RunnerOrder DEF AwaitReboot, InnerPoints, CleanupPoints, EndPoints, CreatePoints
<1>25. CASE RetrieveRebooted
  BY <1>25, <1>r, RunnerOrder DEF RetrieveRebooted
<1>26. CASE StopInstance
  BY <1>26, <1>r, <1>g, RunnerOrder DEF StopInstance, InnerPoints, CleanupPoints, EndPoints, CreatePoints
<1>27. CASE AwaitStopped
  BY <1>27, <1>r, <1>g, RunnerOrder DEF AwaitStopped, InnerPoints, CleanupPoints, EndPoints, CreatePoints
<1>28. CASE CreateImage
  BY <1>28, <1>r, <1>g, RunnerOrder DEF CreateImage, InnerPoints, CleanupPoints, EndPoints, CreatePoints
<1>29. CASE AttachTags
  BY <1>29, <1>r, <1>g, RunnerOrder DEF AttachTags, InnerPoints, CleanupPoints, EndPoints, CreatePoints
<1>30. CASE AwaitImage
  BY <1>30, <1>r, RunnerOrder DEF AwaitImage
<1>31. CASE ReleaseFloatingIP
  BY <1>31, <1>r, <1>g, RunnerOrder DEF ReleaseFloatingIP, CleanupGivesUp, NextCleanup, Halts, InnerPoints, CleanupPoints, EndPoints, CreatePoints
<1>32. CASE DeleteInstance
  BY <1>32, <1>r, <1>g, RunnerOrder DEF DeleteInstance, CleanupGivesUp, NextCleanup, Halts, InnerPoints, CleanupPoints, EndPoints, CreatePoints
<1>33. CASE AwaitInstanceGone
  BY <1>33, <1>r, <1>g, RunnerOrder DEF AwaitInstanceGone, CleanupGivesUp, NextCleanup, Halts, InnerPoints, CleanupPoints, EndPoints, CreatePoints
<1>34. CASE DeleteRule
  BY <1>34, <1>r, <1>g, RunnerOrder DEF DeleteRule, CleanupGivesUp, NextCleanup, Halts, InnerPoints, CleanupPoints, EndPoints, CreatePoints
<1>35. CASE DeleteSecurityGroup
  BY <1>35, <1>r, RunnerOrder DEF DeleteSecurityGroup, CleanupGivesUp, NextCleanup, Halts
<1>36. CASE DeleteKey
  BY <1>36, <1>r, RunnerOrder DEF DeleteKey, CleanupGivesUp, NextCleanup, Halts
<1>37. CASE RemoveKeyDirectory
  BY <1>37, <1>r, RunnerOrder DEF RemoveKeyDirectory, CleanupGivesUp, NextCleanup, Halts
<1>38. CASE Finish
  BY <1>38, <1>r, <1>g, RunnerOrder DEF Finish, InnerPoints, CleanupPoints, EndPoints, CreatePoints
<1>39. CASE CreateInstance \/ AwaitStart \/ DeleteFailedInstance \/ AwaitFailedInstanceGone
  BY <1>39 DEF CreateInstance, AwaitStart, DeleteFailedInstance, AwaitFailedInstanceGone, CreatePoints
<1> QED
  BY <1>1, <1>2, <1>3, <1>4, <1>5, <1>6, <1>7, <1>8, <1>9, <1>10, <1>11, <1>12, <1>13, <1>14, <1>15, <1>16, <1>17, <1>18, <1>19, <1>20, <1>21, <1>22, <1>23, <1>24, <1>25, <1>26, <1>27, <1>28, <1>29, <1>30, <1>31, <1>32, <1>33, <1>34, <1>35, <1>36, <1>37, <1>38, <1>39
     DEF Build, CreateSteps, BakeSteps, CleanupSteps

\* An action that changes no instance but the recorded one.
TouchesOnlyTheRecorded ==
    /\ \E s \in InstanceStatus : inst' \in {inst, [inst EXCEPT ![TheInstance] = s]}
    /\ attempt' = attempt
    /\ bag'.instance_data \in {bag.instance_data, NilPointer}

\* What a step outside stepCreateInstance may do to the instances.
LEMMA TouchesStep ==
    ASSUME TypeOK, Build, pc \notin CreatePoints
    PROVE  TouchesOnlyTheRecorded
<1> USE DEF Fails, Put, PutError, PutCleanupError, CleanupGivesUp, TouchesOnlyTheRecorded
<1>b. bag \in Bag
  BY DEF TypeOK, RestTypeOK
<1>e. \A e : [bag EXCEPT !.error = e].instance_data = bag.instance_data
  BY <1>b DEF Bag
<1>p. /\ [bag EXCEPT !.vpc_ssh_key = TRUE].instance_data = bag.instance_data
      /\ [bag EXCEPT !.floating_ip = TRUE].instance_data = bag.instance_data
      /\ [bag EXCEPT !.floating_ip_id = TRUE].instance_data = bag.instance_data
      /\ [bag EXCEPT !.image_id = TRUE].instance_data = bag.instance_data
  BY <1>b DEF Bag
<1>n. [bag EXCEPT !.instance_data = NilPointer].instance_data = NilPointer
  BY <1>b DEF Bag
<1>g. /\ [bag EXCEPT !.security_group_id = TRUE].instance_data = bag.instance_data
      /\ [bag EXCEPT !.security_group_id = TRUE, !.error = "run"].instance_data
             = bag.instance_data
      /\ [bag EXCEPT !.security_group_id = TRUE, !.security_group_name = TRUE].instance_data
             = bag.instance_data
      /\ [bag EXCEPT !.security_group_rule_id = @ \/ nrule = 0].instance_data
             = bag.instance_data
  BY <1>b DEF Bag
<1>s. {"running", "restarting", "stopping", "stopped", "deleting"} \subseteq InstanceStatus
  BY DEF InstanceStatus
<1>c. UNCHANGED cloud => inst' = inst
  BY DEF cloud
<1>u. inst' = inst => \E s \in InstanceStatus : inst' \in {inst, [inst EXCEPT ![TheInstance] = s]}
  BY DEF InstanceStatus
<1>1. CASE Greeting
  BY <1>1, <1>e, <1>p, <1>n, <1>g, <1>c, <1>u DEF Greeting, Checks
<1>2. CASE CreateVPCServiceInstance
  BY <1>2, <1>e, <1>p, <1>n, <1>g, <1>c, <1>u DEF CreateVPCServiceInstance, Checks
<1>3. CASE VerifyInput
  BY <1>3, <1>e, <1>p, <1>n, <1>g, <1>c, <1>u DEF VerifyInput, Checks
<1>4. CASE GetSubnetInfo
  BY <1>4, <1>e, <1>p, <1>n, <1>g, <1>c, <1>u DEF GetSubnetInfo, Checks
<1>5. CASE GetBaseImageID
  BY <1>5, <1>e, <1>p, <1>n, <1>g, <1>c, <1>u DEF GetBaseImageID, Checks
<1>6. CASE WaitWinRM
  BY <1>6, <1>e, <1>p, <1>n, <1>g, <1>c, <1>u DEF WaitWinRM, Checks
<1>7. CASE CreateSshKeyPair
  BY <1>7, <1>e, <1>p, <1>n, <1>g, <1>c, <1>u DEF CreateSshKeyPair
<1>8. CASE CreateSshKeyVPC
  BY <1>8, <1>e, <1>p, <1>n, <1>g, <1>c, <1>u DEF CreateSshKeyVPC, SetKey
<1>9. CASE WaitforInstance
  BY <1>9, <1>e, <1>p, <1>n, <1>g, <1>c, <1>u DEF WaitforInstance
<1>10. CASE RetrieveInstance
  BY <1>10, <1>e, <1>p, <1>n, <1>g, <1>c, <1>u DEF RetrieveInstance
<1>11. CASE GetPrivateIP
  BY <1>11, <1>e, <1>p, <1>n, <1>g, <1>c, <1>u DEF GetPrivateIP
<1>12. CASE CreateFloatingIP
  BY <1>12, <1>e, <1>p, <1>n, <1>g, <1>c, <1>u DEF CreateFloatingIP, SetFloatingIP
<1>13. CASE AwaitFloatingIP
  BY <1>13, <1>e, <1>p, <1>n, <1>g, <1>c, <1>u DEF AwaitFloatingIP
<1>14. CASE WriteInventory
  BY <1>14, <1>e, <1>p, <1>n, <1>g, <1>c, <1>u DEF WriteInventory
<1>15. CASE OpenSecurityGroup
  BY <1>15, <1>e, <1>p, <1>n, <1>g, <1>c, <1>u DEF OpenSecurityGroup, SetSecurityGroup
<1>16. CASE CreateRule
  BY <1>16, <1>e, <1>p, <1>n, <1>g, <1>c, <1>u DEF CreateRule, SetRules
<1>17. CASE RulesDone
  BY <1>17, <1>e, <1>p, <1>n, <1>g, <1>c, <1>u DEF RulesDone
<1>18. CASE AttachInterface
  BY <1>18, <1>e, <1>p, <1>n, <1>g, <1>c, <1>u DEF AttachInterface, Attach
<1>19. CASE Connect
  BY <1>19, <1>e, <1>p, <1>n, <1>g, <1>c, <1>u DEF Connect
<1>20. CASE SshKeyUnreadable
  BY <1>20, <1>e, <1>p, <1>n, <1>g, <1>c, <1>u DEF SshKeyUnreadable
<1>21. CASE WinRMCredentialsMissing
  BY <1>21, <1>e, <1>p, <1>n, <1>g, <1>c, <1>u DEF WinRMCredentialsMissing
<1>22. CASE Provision
  BY <1>22, <1>e, <1>p, <1>n, <1>g, <1>c, <1>u DEF Provision
<1>23. CASE AwaitReboot
  BY <1>23, <1>e, <1>p, <1>n, <1>g, <1>c, <1>u DEF AwaitReboot
<1>24. CASE RetrieveRebooted
  BY <1>24, <1>e, <1>p, <1>n, <1>g, <1>c, <1>u DEF RetrieveRebooted
<1>25. CASE AwaitStopped
  BY <1>25, <1>e, <1>p, <1>n, <1>g, <1>c, <1>u DEF AwaitStopped
<1>26. CASE CreateImage
  BY <1>26, <1>e, <1>p, <1>n, <1>g, <1>c, <1>u DEF CreateImage, CreateImageFrom
<1>27. CASE AttachTags
  BY <1>27, <1>e, <1>p, <1>n, <1>g, <1>c, <1>u DEF AttachTags, TagImage
<1>28. CASE AwaitImage
  BY <1>28, <1>e, <1>p, <1>n, <1>g, <1>c, <1>u DEF AwaitImage
<1>29. CASE ReleaseFloatingIP
  <2>1. inst' = inst
    BY <1>29, <1>c DEF ReleaseFloatingIP, SetFloatingIP
  <2>2. attempt' = attempt /\ bag' \in {bag, [bag EXCEPT !.error = "cleanup"]}
    BY <1>29 DEF ReleaseFloatingIP
  <2> QED BY <2>1, <2>2, <1>e, <1>u
<1>30. CASE AwaitInstanceGone
  BY <1>30, <1>e, <1>p, <1>n, <1>g, <1>c, <1>u DEF AwaitInstanceGone
<1>31. CASE DeleteRule
  <2>1. inst' = inst
    BY <1>31, <1>c DEF DeleteRule, SetRules
  <2>2. attempt' = attempt /\ bag' \in {bag, [bag EXCEPT !.error = "cleanup"]}
    BY <1>31 DEF DeleteRule
  <2> QED BY <2>1, <2>2, <1>e, <1>u
<1>32. CASE DeleteSecurityGroup
  <2>1. inst' = inst
    BY <1>32, <1>c DEF DeleteSecurityGroup, SetSecurityGroup
  <2>2. attempt' = attempt /\ bag' \in {bag, [bag EXCEPT !.error = "cleanup"]}
    BY <1>32 DEF DeleteSecurityGroup
  <2> QED BY <2>1, <2>2, <1>e, <1>u
<1>33. CASE DeleteKey
  <2>1. inst' = inst
    BY <1>33, <1>c DEF DeleteKey, SetKey
  <2>2. attempt' = attempt /\ bag' \in {bag, [bag EXCEPT !.error = "cleanup"]}
    BY <1>33 DEF DeleteKey
  <2> QED BY <2>1, <2>2, <1>e, <1>u
<1>34. CASE RemoveKeyDirectory
  BY <1>34, <1>e, <1>p, <1>n, <1>g, <1>c, <1>u DEF RemoveKeyDirectory
<1>35. CASE Finish
  BY <1>35, <1>e, <1>p, <1>n, <1>g, <1>c, <1>u DEF Finish
<1>36. CASE RebootInstance
  BY <1>36, <1>e, <1>c, <1>s DEF RebootInstance, SetInstance
<1>37. CASE StopInstance
  BY <1>37, <1>e, <1>c, <1>s DEF StopInstance, SetInstance
<1>38. CASE DeleteInstance
  BY <1>38, <1>e, <1>c, <1>s DEF DeleteInstance, SetInstance
<1>39. CASE CreateInstance \/ AwaitStart \/ DeleteFailedInstance \/ AwaitFailedInstanceGone
  BY <1>39 DEF At, CreateInstance, AwaitStart, DeleteFailedInstance, AwaitFailedInstanceGone, CreatePoints
<1> QED
  BY <1>1, <1>2, <1>3, <1>4, <1>5, <1>6, <1>7, <1>8, <1>9, <1>10, <1>11, <1>12, <1>13, <1>14, <1>15, <1>16, <1>17, <1>18, <1>19, <1>20, <1>21, <1>22, <1>23, <1>24, <1>25, <1>26, <1>27, <1>28, <1>29, <1>30, <1>31, <1>32, <1>33, <1>34, <1>35, <1>36, <1>37, <1>38, <1>39
     DEF Build, CreateSteps, BakeSteps, CleanupSteps

\* Every step but those of stepCreateInstance keeps OnlyTheLast.
LEMMA OutsideCreate ==
    ASSUME IInv, Build, pc \notin CreatePoints
    PROVE  CreatedOnce' /\ OnlyTheLast'
<1>1. KeepsOrder
  BY OrderStep DEF IInv, TypeOK
<1>2. TouchesOnlyTheRecorded
  BY TouchesStep DEF IInv
<1>3. PICK s \in InstanceStatus : inst' \in {inst, [inst EXCEPT ![TheInstance] = s]}
  BY <1>2 DEF TouchesOnlyTheRecorded
<1>t. inst \in [Subnets -> InstanceStatus]
  BY DEF IInv, TypeOK, CloudTypeOK
<1>4. \A k \in Subnets : k # TheInstance => inst'[k] = inst[k]
  BY <1>3, <1>t
<1>5. ASSUME NEW k \in Subnets, Standing(k)' PROVE k = attempt'
  <2>1. CASE k = TheInstance
    BY <2>1, <1>2, BuildAssumption, CloudAssumption
       DEF IInv, OnlyTheLast, TheInstance, TouchesOnlyTheRecorded, Subnets
  <2>2. CASE k # TheInstance
    BY <2>2, <1>2, <1>4, <1>5 DEF IInv, OnlyTheLast, Standing, TouchesOnlyTheRecorded
  <2> QED BY <2>1, <2>2
<1>6. bag'.instance_data \in {0, attempt', NilPointer}
  BY <1>2 DEF IInv, OnlyTheLast, TouchesOnlyTheRecorded
<1>7. ASSUME CreatePending' \/ pc' = "createInstance"
      PROVE  /\ \A k \in Subnets : ~Standing(k)'
             /\ bag'.instance_data \in {0, NilPointer}
  <2>1. CreatePending
    BY <1>1, <1>7 DEF KeepsOrder
  <2>2. (\A k \in Subnets : ~Standing(k)) /\ bag.instance_data \in {0, NilPointer}
    BY <2>1 DEF IInv, OnlyTheLast
  <2>3. TheInstance \notin Subnets
    BY <2>2, BuildAssumption, CloudAssumption DEF TheInstance, Subnets
  <2> QED BY <2>2, <2>3, <1>2, <1>4 DEF Standing, TouchesOnlyTheRecorded
<1> QED BY <1>1, <1>5, <1>6, <1>7 DEF KeepsOrder, OnlyTheLast

\* The steps of stepCreateInstance: a new instance only where none stands.
LEMMA InsideCreate ==
    ASSUME IInv, Build, pc \in CreatePoints
    PROVE  CreatedOnce' /\ OnlyTheLast'
<1> USE DEF At, Fails, Put, PutError
<1>t. /\ inst \in [Subnets -> InstanceStatus]
      /\ attempt \in 0..MaxSubnets
      /\ bag \in Bag
      /\ RunnerTypeOK
      /\ deferred \in 0..3
      /\ MaxSubnets \in Nat
  BY CloudAssumption DEF IInv, TypeOK, CloudTypeOK, RestTypeOK, RunnerTypeOK
<1>o. CreatedOnce /\ ~CreatePending /\ OnlyTheLast
  BY DEF IInv, CreatedOnce
<1>e. [bag EXCEPT !.error = "run"].instance_data = bag.instance_data
  BY <1>t DEF Bag
<1>i. \A v : [bag EXCEPT !.instance_data = v].instance_data = v
  BY <1>t DEF Bag
<1>h. Halts(3) \/ Continues(3) => CreatedOnce' /\ ~CreatePending' /\ pc' # "createInstance"
  BY <1>o, <1>t, RunnerOrder DEF KeepsOrder
<1>g. ASSUME NEW p, GoTo(p) PROVE CreatedOnce' /\ ~CreatePending' /\ pc' = p
  BY <1>g, <1>o, CreateOrder DEF GoTo
<1>l. ASSUME ~CreatePending', pc' # "createInstance",
             \A k \in Subnets : Standing(k)' => k = attempt',
             bag'.instance_data \in {0, attempt', NilPointer}
      PROVE  OnlyTheLast'
  BY <1>l DEF OnlyTheLast
<1>1. CASE CreateInstance
  <2>0. \A k \in Subnets : ~Standing(k)
    BY <1>1, <1>o DEF CreateInstance, OnlyTheLast
  <2>1. bag.instance_data \in {0, NilPointer}
    BY <1>1, <1>o DEF CreateInstance, OnlyTheLast
  <2>2. CreatedOnce' /\ ~CreatePending' /\ pc' # "createInstance"
    BY <1>1, <1>h, <1>g DEF CreateInstance
  <2>3. CASE attempt' = attempt + 1 /\ SetInstance(attempt + 1, "starting")
    <3>1. \A k \in Subnets : Standing(k)' => k = attempt'
      BY <2>0, <2>3, <1>t DEF SetInstance, Standing
    <3>2. bag'.instance_data \in {0, attempt', NilPointer}
      BY <1>1, <2>1, <2>3, <1>e, <1>i DEF CreateInstance
    <3> QED BY <2>2, <3>1, <3>2, <1>l
  <2>4. CASE UNCHANGED <<cloud, attempt>>
    <3>1. \A k \in Subnets : Standing(k)' => k = attempt'
      BY <2>0, <2>4 DEF cloud, Standing
    <3>2. bag'.instance_data \in {0, attempt', NilPointer}
      BY <1>1, <2>1, <2>4, <1>e, <1>i DEF CreateInstance
    <3> QED BY <2>2, <3>1, <3>2, <1>l
  <2> QED BY <1>1, <2>3, <2>4 DEF CreateInstance
<1>2. CASE AwaitStart
  <2>1. CreatedOnce' /\ ~CreatePending' /\ pc' # "createInstance"
    BY <1>2, <1>h, <1>g DEF AwaitStart
  <2>2. UNCHANGED <<inst, attempt>> /\ bag'.instance_data = bag.instance_data
    BY <1>2, <1>e DEF AwaitStart, cloud
  <2> QED BY <2>1, <2>2, <1>o, <1>l DEF OnlyTheLast, Standing
<1>3. CASE DeleteFailedInstance
  <2>1. CreatedOnce' /\ ~CreatePending' /\ pc' # "createInstance"
    BY <1>3, <1>h, <1>g DEF DeleteFailedInstance
  <2>2. UNCHANGED attempt /\ bag'.instance_data = bag.instance_data
    BY <1>3, <1>e DEF DeleteFailedInstance
  <2>3. \A k \in Subnets : k # attempt => inst'[k] = inst[k]
    BY <1>3, <1>t DEF DeleteFailedInstance, SetInstance, cloud
  <2> QED BY <2>1, <2>2, <2>3, <1>o, <1>l DEF OnlyTheLast, Standing
<1>4. CASE AwaitFailedInstanceGone
  <2>1. UNCHANGED <<inst, attempt>>
    BY <1>4 DEF AwaitFailedInstanceGone, cloud
  <2>2. CASE inst[attempt] = "gone" /\ Put("instance_data", 0) /\ GoTo("createInstance")
    <3>1. \A k \in Subnets : ~Standing(k)
      BY <2>2, <1>o DEF OnlyTheLast, Standing
    <3>2. (\A k \in Subnets : ~Standing(k)') /\ bag'.instance_data = 0
      BY <3>1, <2>1, <2>2, <1>i DEF Standing
    <3> QED BY <2>2, <3>2, <1>g DEF OnlyTheLast
  <2>3. CASE Fails(3)
    <3>1. CreatedOnce' /\ ~CreatePending' /\ pc' # "createInstance"
      BY <2>3, <1>h
    <3>2. bag'.instance_data = bag.instance_data
      BY <2>3, <1>e
    <3> QED BY <2>1, <3>1, <3>2, <1>o, <1>l DEF OnlyTheLast, Standing
  <2> QED BY <1>4, <2>2, <2>3 DEF AwaitFailedInstanceGone
<1>5. CreateInstance \/ AwaitStart \/ DeleteFailedInstance \/ AwaitFailedInstanceGone
  BY DEF Build, CreateSteps, BakeSteps, CleanupSteps, CreatePoints, Checks,
         Greeting, CreateVPCServiceInstance, VerifyInput,
         GetSubnetInfo, GetBaseImageID, WaitWinRM, CreateSshKeyPair,
         CreateSshKeyVPC, WaitforInstance, RetrieveInstance,
         GetPrivateIP, CreateFloatingIP, AwaitFloatingIP,
         WriteInventory, OpenSecurityGroup, CreateRule, RulesDone,
         AttachInterface, Connect, SshKeyUnreadable,
         WinRMCredentialsMissing, Provision, RebootInstance,
         AwaitReboot, RetrieveRebooted, StopInstance, AwaitStopped,
         CreateImage, AttachTags, AwaitImage, ReleaseFloatingIP,
         DeleteInstance, AwaitInstanceGone, DeleteRule,
         DeleteSecurityGroup, DeleteKey, RemoveKeyDirectory, Finish
<1> QED BY <1>1, <1>2, <1>3, <1>4, <1>5

\* Nothing stands when a run starts.
LEMMA InitInv == Init => IInv
<1> SUFFICES ASSUME Init PROVE IInv
  OBVIOUS
<1>1. TypeOK
  BY InitType
<1>2. /\ inst = [k \in Subnets |-> "none"]
      /\ attempt = 0
      /\ bag.instance_data = 0
  BY DEF Init, CloudInit
<1>3. OnlyTheLast
  BY <1>2 DEF OnlyTheLast, Standing
<1>4. CreatedOnce
  <2>1. CASE cfg.comm = "ssh"
    <3>1. pc = "Greeting" /\ todo = Tail(SshSteps)
      BY <2>1 DEF Init, Steps, SshSteps
    <3> QED BY <3>1 DEF CreatedOnce, CreatePoints, SshSteps
  <2>2. CASE cfg.comm = "winrm"
    <3>1. pc = "Greeting" /\ todo = Tail(WinRMSteps)
      BY <2>2 DEF Init, Steps, WinRMSteps
    <3> QED BY <3>1 DEF CreatedOnce, CreatePoints, WinRMSteps
  <2>3. CASE cfg.comm \notin {"ssh", "winrm"}
    <3>1. pc = "finish" /\ todo = <<>>
      BY <2>3 DEF Init, Steps
    <3> QED BY <3>1 DEF CreatedOnce, CreatePending, CreatePoints
  <2> QED BY <2>1, <2>2, <2>3
<1> QED BY <1>1, <1>3, <1>4 DEF IInv

\* Every step, and every stutter, keeps the invariant.
LEMMA StepInv == IInv /\ [Next]_vars => IInv'
<1> SUFFICES ASSUME IInv, [Next]_vars PROVE IInv'
  OBVIOUS
<1>1. TypeOK'
  BY StepType DEF IInv
<1>2. CreatedOnce' /\ OnlyTheLast'
  <2>1. CASE Build
    BY <2>1, InsideCreate, OutsideCreate
  <2>2. CASE CloudMoves
    <3>1. UNCHANGED <<pc, todo, attempt, bag>>
      BY <2>2 DEF CloudMoves, runner
    <3>2. \A k \in Subnets : Standing(k)' => Standing(k)
      <4>1. CASE \E k \in Subnets : InstanceMoves(k, May("zone"))
        BY <4>1 DEF IInv, TypeOK, CloudTypeOK, InstanceMoves, Standing
      <4>2. CASE UNCHANGED inst
        BY <4>2 DEF Standing
      <4> QED BY <2>2, <4>1, <4>2 DEF CloudMoves, FloatingIPMoves, ImageMoves
    <3> QED BY <3>1, <3>2 DEF IInv, CreatedOnce, OnlyTheLast, CreatePending
  <2>3. CASE Cancel \/ UNCHANGED vars
    <3>1. UNCHANGED <<pc, todo, attempt, bag, inst>>
      BY <2>3 DEF Cancel, vars, cloud, runner
    <3> QED BY <3>1 DEF IInv, CreatedOnce, OnlyTheLast, CreatePending, Standing
  <2> QED BY <2>1, <2>2, <2>3 DEF Next, Ended
<1> QED BY <1>1, <1>2 DEF IInv

\* The inductive invariant of every build: the next instance is created only
\* when the last is gone.  Fairness is not used.
THEOREM Invariance == Spec => []IInv
<1> QED BY InitInv, StepInv, PTL DEF Spec

\* The capacity fallback, and whatever fails around it, never leaves two
\* instances standing at once (createInstance, deleteInstanceAndWait).
THEOREM OneInstance == Spec => []AtMostOneInstance
<1>1. IInv => AtMostOneInstance
  BY DEF IInv, OnlyTheLast, AtMostOneInstance
<1> QED BY <1>1, Invariance, PTL

=============================================================================
