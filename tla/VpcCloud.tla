------------------------------ MODULE VpcCloud ------------------------------
(***************************************************************************)
(* The cloud resources of one VPC build, as the builder's requests create, *)
(* change and delete them and as the cloud moves them on its own.  The     *)
(* cloud is not part of the repository: it is modelled from how the steps  *)
(* of builder/ibmcloud/vpc call it and from the statuses they compare.     *)
(*                                                                         *)
(* "kept" is a resource that still stands although its deletion was        *)
(* answered without an error: the status of the answer was not 204.        *)
(***************************************************************************)
EXTENDS Naturals, FiniteSets

CONSTANTS
    MaxSubnets,   \* bound: candidate subnets, hence instances a build creates
    MaxRemotes    \* bound: security group rules a build creates

ASSUME CloudAssumption ==
    /\ MaxSubnets \in Nat \ {0}
    /\ MaxRemotes \in Nat \ {0}

VARIABLES
    inst,      \* status of the instance created in the i-th candidate subnet
    fip,       \* the floating IP
    sg,        \* the security group the build creates for itself
    attached,  \* the instance's network interface is bound to the group
    rules,     \* the build's rules that exist in the group it uses; 0 is the
               \* first one once it is kept
    key,       \* the VPC SSH key
    image,     \* the captured image
    tagged     \* the image carries the tags the user asked for

cloud == <<inst, fip, sg, attached, rules, key, image, tagged>>

Subnets == 1..MaxSubnets

InstanceStatus == {"none", "starting", "running", "restarting", "stopping",
                   "stopped", "failed", "failed_capacity", "deleting", "gone"}

CloudTypeOK ==
    /\ inst \in [Subnets -> InstanceStatus]
    /\ fip \in {"none", "pending", "available", "gone", "kept"}
    /\ sg \in {"none", "exists", "gone", "kept"}
    /\ attached \in BOOLEAN
    /\ rules \in SUBSET (0..MaxRemotes)
    /\ key \in {"none", "exists", "gone", "kept"}
    /\ image \in {"none", "pending", "available", "failed"}
    /\ tagged \in BOOLEAN

CloudInit ==
    /\ inst = [i \in Subnets |-> "none"]
    /\ fip = "none"
    /\ sg = "none"
    /\ attached = FALSE
    /\ rules = {}
    /\ key = "none"
    /\ image = "none"
    /\ tagged = FALSE

\* An instance the account still holds (and pays for).
Standing(i) == inst[i] \notin {"none", "gone"}

-----------------------------------------------------------------------------
(* What the cloud does between two requests. *)

\* A started instance comes up, or fails, for want of capacity or otherwise;
\* a rebooted one comes back or fails; a stopped or deleted one goes down.
InstanceMoves(i, zoneFaults) ==
    /\ \/ inst[i] \in {"starting", "restarting"} /\ inst' = [inst EXCEPT ![i] = "running"]
       \/ inst[i] = "stopping" /\ inst' = [inst EXCEPT ![i] = "stopped"]
       \/ inst[i] = "deleting" /\ inst' = [inst EXCEPT ![i] = "gone"]
       \/ /\ zoneFaults
          /\ inst[i] \in {"starting", "restarting"}
          /\ inst' = [inst EXCEPT ![i] = "failed"]
       \/ /\ zoneFaults
          /\ inst[i] = "starting"
          /\ inst' = [inst EXCEPT ![i] = "failed_capacity"]
    /\ UNCHANGED <<fip, sg, attached, rules, key, image, tagged>>

FloatingIPMoves ==
    /\ fip = "pending"
    /\ fip' = "available"
    /\ UNCHANGED <<inst, sg, attached, rules, key, image, tagged>>

ImageMoves(zoneFaults) ==
    /\ image = "pending"
    /\ image' \in IF zoneFaults THEN {"available", "failed"} ELSE {"available"}
    /\ UNCHANGED <<inst, fip, sg, attached, rules, key, tagged>>

-----------------------------------------------------------------------------
(* What a request that is accepted does. *)

SetInstance(i, s) ==
    /\ inst' = [inst EXCEPT ![i] = s]
    /\ UNCHANGED <<fip, sg, attached, rules, key, image, tagged>>

SetFloatingIP(s) ==
    /\ fip' = s
    /\ UNCHANGED <<inst, sg, attached, rules, key, image, tagged>>

\* A deleted group takes its rules with it.
SetSecurityGroup(s) ==
    /\ sg' = s
    /\ rules' = IF s = "gone" THEN {} ELSE rules
    /\ UNCHANGED <<inst, fip, attached, key, image, tagged>>

SetRules(r) ==
    /\ rules' = r
    /\ UNCHANGED <<inst, fip, sg, attached, key, image, tagged>>

Attach ==
    /\ attached' = TRUE
    /\ UNCHANGED <<inst, fip, sg, rules, key, image, tagged>>

SetKey(s) ==
    /\ key' = s
    /\ UNCHANGED <<inst, fip, sg, attached, rules, image, tagged>>

CreateImageFrom ==
    /\ image' = "pending"
    /\ UNCHANGED <<inst, fip, sg, attached, rules, key, tagged>>

TagImage ==
    /\ tagged' = TRUE
    /\ UNCHANGED <<inst, fip, sg, attached, rules, key, image>>

\* The cloud refuses to delete a group an instance is still attached to.
GroupInUse == attached /\ \E i \in Subnets : Standing(i)
=============================================================================
