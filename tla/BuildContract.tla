--------------------------- MODULE BuildContract ---------------------------
(***************************************************************************)
(* What a packer core, and the owner of the cloud account, may rely on     *)
(* when they run a builder: temporary resources are taken while the build  *)
(* runs, one instance at a time and one of every other kind; they are only *)
(* given back once the build is being torn down, the instance before the   *)
(* group it is attached to; and an artifact is only reported when the      *)
(* image is available and nothing temporary is left but what was kept: a   *)
(* resource that stays although its deletion was answered without an error *)
(* is promised to nobody, and an artifact says nothing of it.              *)
(***************************************************************************)
EXTENDS Naturals

CONSTANT Instances    \* the instances a build may create

Kinds == {"floating_ip", "security_group", "ssh_key", "key_files"}

VARIABLES
    phase,      \* "building", "tearing" down, or "ended"
    machines,   \* instances that stand in the account
    held,       \* the other temporary resources that exist
    kept,       \* those of them that stay after a deletion without an error
    image,      \* the captured image
    outcome     \* what Run returned; "none" if it never did

vars == <<phase, machines, held, kept, image, outcome>>

Init ==
    /\ phase \in {"building", "tearing"}    \* a build may have no steps
    /\ machines = {}
    /\ held = {}
    /\ kept = {}
    /\ image = "none"
    /\ outcome = "none"

\* Nothing is taken once the tear-down has begun, nor after the capture.
MayTake == phase = "building" /\ image = "none"

TakeMachine(i) ==
    /\ MayTake
    /\ machines = {}
    /\ machines' = {i}
    /\ UNCHANGED <<held, kept, image, outcome>>

Take(k) ==
    /\ MayTake
    /\ held' = held \cup {k}
    /\ UNCHANGED <<machines, kept, image, outcome>>

\* The fallback may lose an instance during the build, but only before
\* anything is bound to it.
LoseMachine ==
    /\ \/ phase # "building"
       \/ held \subseteq {"ssh_key", "key_files"} /\ image = "none"
    /\ machines' = {}
    /\ UNCHANGED <<held, kept, image, outcome>>

LetGo(k) ==
    /\ k \in held
    /\ phase = "tearing"
    /\ k = "security_group" => machines = {}
    /\ held' = held \ {k}
    /\ UNCHANGED <<machines, image, outcome>>

GiveBack(k) == LetGo(k) /\ UNCHANGED kept

\* What is on the builder's own disk is not kept.
Keep(k) == LetGo(k) /\ k # "key_files" /\ kept' = kept \cup {k}

\* The capture needs the machine; the image then becomes available or fails.
Capture ==
    /\ phase = "building" /\ machines # {}
    /\ image = "none" /\ image' = "pending"
    /\ UNCHANGED <<machines, held, kept, outcome>>

Settle ==
    /\ image = "pending" /\ image' \in {"available", "failed"}
    /\ UNCHANGED <<machines, held, kept, outcome>>

\* A step may end the building phase and change a resource at once: the last
\* request of the build, lost or not, and the tear-down after it.
Turn ==
    /\ phase' \in {phase} \cup (IF phase = "building" THEN {"tearing"} ELSE {})

Works ==
    /\ \/ \E i \in Instances : TakeMachine(i)
       \/ \E k \in Kinds : Take(k)
       \/ LoseMachine
       \/ \E k \in Kinds : GiveBack(k) \/ Keep(k)
       \/ Capture
       \/ Settle
       \/ UNCHANGED <<machines, held, kept, image, outcome>>
    /\ Turn

\* Run returns; the artifact is a promise.  The process may also die.
Return ==
    /\ phase = "tearing" /\ phase' = "ended"
    /\ \/ machines = {} /\ held = {} /\ image = "available" /\ outcome' = "artifact"
       \/ outcome' = "error"
    /\ UNCHANGED <<machines, held, kept, image>>

Die ==
    /\ phase # "ended" /\ phase' = "ended"
    /\ UNCHANGED <<machines, held, kept, image, outcome>>

Next == Works \/ Return \/ Die

Spec == Init /\ [][Next]_vars /\ WF_vars(Return \/ Die)
=============================================================================
