--------------------------- MODULE MCImageExport ---------------------------
(***************************************************************************)
(* Small instances of ImageExport: chains of one block of every kind, and  *)
(* of two blocks that differ in whose image they export.                   *)
(***************************************************************************)
EXTENDS ImageExport

Block == [image_id |-> FALSE, api_key |-> FALSE, region |-> FALSE,
          vpc_endpoint_url |-> FALSE, storage_bucket_name |-> TRUE,
          storage_bucket_crn |-> FALSE, format |-> "qcow2",
          image_export_job_name |-> "users", export_timeout |-> <<720>>]

\* Whose image, and how completely the credentials are given.
Credentials ==
    {[Block EXCEPT !.image_id = i, !.api_key = k, !.region = r, !.vpc_endpoint_url = e] :
        i \in BOOLEAN, k \in BOOLEAN, r \in BOOLEAN, e \in BOOLEAN}

Buckets ==
    {[c EXCEPT !.storage_bucket_name = n, !.storage_bucket_crn = b] :
        c \in Credentials, n \in BOOLEAN, b \in BOOLEAN}

\* Around the boundary of a minute; 0 also stands for a text that is no duration.
Timeouts == {-5, 0, 5, 59, 60, 720}

\* What a template may say of the timeout, the format and the name.
JobOptions ==
    {[Block EXCEPT !.export_timeout = t, !.format = f, !.image_export_job_name = n] :
        t \in {<<>>} \cup {<<d>> : d \in Timeouts}, f \in {"", "vhd"}, n \in {"", "users"}}

Chains == {<<c>> : c \in Buckets \cup JobOptions} \cup (Credentials \X Credentials)
=============================================================================
