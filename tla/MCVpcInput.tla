----------------------------- MODULE MCVpcInput -----------------------------
(***************************************************************************)
(* Small instances of VpcInput: templates that vary one topic around one   *)
(* that is in order, each in the accounts that matter to the topic.        *)
(***************************************************************************)
EXTENDS VpcInput

CONSTANTS s1, s2, s3, g1, g2, v1, v2, rg1, rg2, plain, odd, bare, default, k1, k2

AllSubnets == {s1, s2, s3}
AllSecurityGroups == {g1, g2}
AllVPCs == {v1, v2}
Where == [x \in {s1, s2, s3, g1, g2} |-> IF x \in {s3, g2} THEN v2 ELSE v1]
AllNames == {plain, odd, bare, default}
\* "odd" has letters the cloud does not take, "bare" no others.
Sanitised == [n \in AllNames |-> CASE n = odd -> plain [] n = bare -> "" [] OTHER -> n]
AllGroups == {rg1, rg2}
AllKeys == {k1, k2}

Good == [absent |-> {}, timeout |-> "", subnet_id |-> "", subnet_ids |-> <<s1, s2>>,
         source |-> {"base_image_id"}, boot |-> NoVolume, data |-> NoVolume,
         user_data |-> {}, group_id |-> "", group_name |-> FALSE,
         security_group_id |-> "", image_name |-> "", tags |-> "none",
         encryption_key |-> ""]

There == [file |-> "readable", named |-> <<rg1>>, groups |-> {rg1, rg2},
          volume |-> "unattached", snapshot |-> "bootable", base_image |-> TRUE,
          catalog |-> TRUE, keys |-> {k1}, security_groups |-> {g1}, images |-> {}, outage |-> FALSE]

\* Every combination of a volume's settings, at and around the bounds.
SomeVolumes ==
    [capacity : {0, 9, 10, 32000, 32001}, profile : {"", "5iops-tier", "sdp", "custom", "other"},
     iops : {-1, 0, 1}, bandwidth : {-1, 0, 1}]

OneOf == {{s} : s \in Sources}

VolumeTemplates ==
    {[Good EXCEPT !.source = s, !.boot = b] : s \in OneOf, b \in SomeVolumes}
    \cup {[Good EXCEPT !.data = d] : d \in SomeVolumes}

SourceTemplates ==
    {[Good EXCEPT !.source = s, !.user_data = u] :
        s \in {{}, {"snapshot", "boot_volume"}} \cup OneOf, u \in SUBSET {"file", "string"}}
    \cup {[Good EXCEPT !.absent = {"region"}], [Good EXCEPT !.timeout = "text"]}

NetworkTemplates ==
    {[Good EXCEPT !.subnet_id = i, !.subnet_ids = l, !.security_group_id = g] :
        i \in {"", s1}, l \in {<<>>, <<s1>>, <<s1, s2>>, <<s2, s3>>, <<s1, s3>>, <<s1, "">>},
        g \in {"", g1, g2}}

GroupTemplates ==
    {[Good EXCEPT !.group_id = i, !.group_name = n, !.source = s, !.encryption_key = k] :
        i \in {"", rg1, rg2}, n \in BOOLEAN, s \in {{"base_image_name"}, {"snapshot"}},
        k \in {"", "malformed", k1, k2}}

NameTemplates ==
    {[Good EXCEPT !.image_name = n, !.tags = t] :
        n \in {"", plain, odd, bare}, t \in {"none", "some", "blank"}}

\* The account with one thing amiss.
Amiss ==
    {[There EXCEPT !.file = f] : f \in {"unreadable", "missing"}}
    \cup {[There EXCEPT !.volume = v] : v \in {"attached", "data", "missing"}}
    \cup {[There EXCEPT !.outage = TRUE], [There EXCEPT !.snapshot = "data"],
          [There EXCEPT !.base_image = FALSE],
          [There EXCEPT !.catalog = FALSE], [There EXCEPT !.images = {plain}],
          [There EXCEPT !.groups = {rg1}], [There EXCEPT !.named = <<>>],
          [There EXCEPT !.named = <<rg2, rg1>>]}

Of(templates, accounts) == [template : templates, account : accounts]

AllCases ==
    Of(VolumeTemplates, {There})
    \cup Of(NetworkTemplates, {There, [There EXCEPT !.security_groups = {g1, g2}]})
    \cup Of(SourceTemplates \cup GroupTemplates \cup NameTemplates, {There} \cup Amiss)

NamedGroupOnly ==
    Of({[Good EXCEPT !.group_name = TRUE, !.source = s] : s \in OneOf}, {There})
=============================================================================
