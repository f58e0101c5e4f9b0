----------------------------- MODULE MCVpcBuild -----------------------------
(***************************************************************************)
(* Small instances of VpcBuild.  A configuration set is one shape varied   *)
(* in the fields a run is about.                                           *)
(***************************************************************************)
EXTENDS VpcBuild

\* An SSH build with a floating IP and a group of its own, the defaults.
Plain == [comm |-> "ssh", vsi_interface |-> "public", security_group_id |-> FALSE,
          skip_rules |-> FALSE, remotes |-> 1, skip_reboot |-> FALSE,
          subnets |-> 1, image_tags |-> FALSE]

OnePlain == {Plain}
OneReboot == {[Plain EXCEPT !.skip_reboot = TRUE]}

\* The empty build, and every choice that changes which resources there are.
ContractConfigs ==
    {[Plain EXCEPT !.comm = "none"]} \cup
    {[Plain EXCEPT !.comm = c, !.vsi_interface = v, !.security_group_id = g,
                   !.skip_reboot = TRUE, !.subnets = MaxSubnets, !.image_tags = TRUE] :
        c \in {"ssh", "winrm"}, v \in {"public", "private"}, g \in BOOLEAN}

\* One to MaxSubnets candidate zones, with and without the reboot.
FallbackConfigs ==
    {[Plain EXCEPT !.subnets = n, !.vsi_interface = v, !.skip_reboot = r] :
        n \in Subnets, v \in {"public", "private"}, r \in BOOLEAN}

AllConfigs == ConfigSpace
=============================================================================
