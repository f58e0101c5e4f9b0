---------------------------- MODULE ClassicInput ----------------------------
(***************************************************************************)
(* The templates of the classic builder: what Config.Prepare accepts and   *)
(* which of an accepted template's settings SoftlayerClient.CreateInstance *)
(* puts into the request.  A setting that is a number or a text counts as  *)
(* given or not given.                                                     *)
(***************************************************************************)
EXTENDS Naturals, FiniteSets

CONSTANT Names    \* image names

Settings == {"instance_flavor", "instance_cpu", "instance_memory",
             "instance_disk_capacity", "public_vlan_id", "public_security_groups",
             "base_image_id", "base_os_code", "user_data_file_path"}

Templates ==
    [comm : {"ssh", "winrm", "none"},
     image_name : Names \cup {""},
     image_type : {"", "standard", "flex"},
     upload : BOOLEAN,                    \* upload_to_datacenters is not empty
     timeout : {"", "duration", "text"},  \* instance_state_timeout
     account : BOOLEAN,                   \* username and api_key
     given : SUBSET Settings]

Sizes == {"instance_cpu", "instance_memory", "instance_disk_capacity"}

\* Config.Prepare; readable: the user data file can be read.
Accepts(t, readable) ==
    /\ t.account
    /\ t.image_name # ""
    /\ t.image_type \in {"", "standard"}     \* "" becomes "standard"
    /\ t.timeout # "text"                    \* "" becomes ten minutes
    /\ "instance_flavor" \in t.given <=> t.given \cap Sizes = {}
    /\ "base_image_id" \in t.given <=> "base_os_code" \notin t.given
    /\ "user_data_file_path" \in t.given => readable

\* The settings the request carries.  The disk goes with an operating system
\* and no flavor, the VLAN and the security groups only with each other.
Request(t) ==
    t.given
      \ ((IF {"public_vlan_id", "public_security_groups"} \subseteq t.given
          THEN {} ELSE {"public_vlan_id", "public_security_groups"})
         \cup (IF "base_image_id" \in t.given THEN {"instance_disk_capacity"} ELSE {}))
=============================================================================
