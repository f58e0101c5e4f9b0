--------------------------- MODULE MCClassicBuild ---------------------------
(***************************************************************************)
(* Small instances of ClassicBuild: one build with everything that may go  *)
(* wrong, the other without steps, and two real builds with nothing going  *)
(* wrong but what they do to each other.                                   *)
(***************************************************************************)
EXTENDS ClassicBuild

CONSTANTS b1, b2, n1, n2

Two == {b1, b2}
TwoNames == {n1, n2}

\* An SSH build of an operating system with a flavor, the defaults.
Plain == [comm |-> "ssh", image_name |-> n1, image_type |-> "", upload |-> FALSE,
          timeout |-> "", account |-> TRUE,
          given |-> {"instance_flavor", "base_os_code"}]

NoSteps == [Plain EXCEPT !.comm = "none"]

\* By size, with a disk or without, from an operating system or an image; the
\* VLAN with and without the security groups.
Givens ==
    {{"instance_flavor", "base_os_code", "user_data_file_path"},
     {"instance_cpu", "instance_memory", "instance_disk_capacity", "base_os_code",
      "public_vlan_id", "public_security_groups"},
     {"instance_cpu", "instance_memory", "base_image_id", "public_vlan_id"},
     {"instance_cpu", "base_os_code"}}

Pair(t, u, taken, file, faults) ==
    [template |-> [b \in Two |-> IF b = b1 THEN t ELSE u], taken |-> taken,
     inventory |-> file, faults |-> faults]

BySize == {"instance_cpu", "instance_memory", "instance_disk_capacity", "base_os_code"}

\* One build and every fault, and the few in which a property asks for fewer.
Alone ==
    {Pair([Plain EXCEPT !.comm = c, !.given = g, !.upload = TRUE], NoSteps, {n}, TRUE,
          FaultKinds \ {"hang"}) :
        c \in {"ssh", "winrm"}, g \in Givens, n \in TwoNames}
    \cup {Pair([Plain EXCEPT !.comm = c, !.upload = TRUE], NoSteps, {}, i, f) :
            c \in {"ssh", "winrm"}, i \in BOOLEAN, f \in {{}, {"cancel"}, {"hang", "api"}}}

\* Two builds, of one name or two.  Nothing goes wrong, but that the requests of
\* builds of two names may not be answered; the inventory is shared when one of
\* them is a WinRM build.
Together ==
    {Pair([Plain EXCEPT !.given = BySize], [Plain EXCEPT !.comm = c, !.image_name = n], {},
          c = "winrm", IF n = n1 THEN {} ELSE {"hang"}) :
        c \in {"ssh", "winrm"}, n \in TwoNames}

AllScenarios == {s \in Alone \cup Together : \A b \in Two : Accepts(s.template[b], TRUE)}
=============================================================================
