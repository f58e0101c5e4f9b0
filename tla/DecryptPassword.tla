-------------------------- MODULE DecryptPassword --------------------------
(***************************************************************************)
(* IBMCloudClient.DecryptPassword in several VPC builds at once, each with *)
(* the communicator winrm and no password given.  Every build has its own  *)
(* key pair, in a directory of its own; the encrypted passwords all go     *)
(* through the one file data/decoded_pwd.txt.                              *)
(***************************************************************************)
EXTENDS Naturals, FiniteSets

CONSTANTS
    Builds,
    MaxCalls,            \* bound: calls of a build, the repeated ones included
    ImplicitRejection,   \* openssl answers a wrong key with a random text
    None                 \* no build

ASSUME DecryptAssumption ==
    /\ IsFiniteSet(Builds)
    /\ MaxCalls \in Nat
    /\ ImplicitRejection \in BOOLEAN
    /\ None \notin Builds

\* A file is known by a member of Builds, whichever is free when it is made.
VARIABLES
    dir,       \* data/ exists
    path,      \* the file at data/decoded_pwd.txt, or None
    content,   \* whose encrypted password is in each file, or None
    pc,        \* the point of each build's call
    handle,    \* the file each build has open
    calls,     \* how often each build has called
    failed,    \* history: which builds' calls have failed, and why
    password,  \* the password a build has: its own, or "garbage"
    met        \* history: the builds whose calls a build's call overlapped

vars == <<dir, path, content, pc, handle, calls, failed, password, met>>

Idle == {"idle", "returned", "given up"}
Calling == {"create", "write", "decrypt", "remove file", "remove directory"}

Init ==
    /\ dir = FALSE
    /\ path = None
    /\ content = [b \in Builds |-> None]
    /\ pc = [b \in Builds |-> "idle"]
    /\ handle = [b \in Builds |-> None]
    /\ calls = [b \in Builds |-> 0]
    /\ failed = {}
    /\ password = [b \in Builds |-> "none"]
    /\ met = [b \in Builds |-> {}]

TypeOK ==
    /\ dir \in BOOLEAN
    /\ path \in Builds \cup {None}
    /\ content \in [Builds -> Builds \cup {None}]
    /\ pc \in [Builds -> Idle \cup Calling]
    /\ handle \in [Builds -> Builds \cup {None}]
    /\ calls \in [Builds -> 0..MaxCalls]
    /\ failed \subseteq Builds \X {"local", "shared"}
    /\ password \in [Builds -> {"none", "own", "garbage"}]
    /\ met \in [Builds -> SUBSET Builds]

Goes(b, p) == pc' = [pc EXCEPT ![b] = p]

\* The others whose call is under way.
Others(b) == {c \in Builds \ {b} : pc[c] \in Calling}

\* The call begins with os.Mkdir, whose error is ignored.
MakeDirectory(b) ==
    /\ pc[b] = "idle"
    /\ calls[b] < MaxCalls
    /\ Goes(b, "create")
    /\ calls' = [calls EXCEPT ![b] = @ + 1]
    /\ dir' = TRUE
    /\ met' = [c \in Builds |-> IF c = b THEN met[c] \cup Others(b)
                                ELSE IF c \in Others(b) THEN met[c] \cup {b} ELSE met[c]]
    /\ UNCHANGED <<path, content, handle, failed, password>>

\* The call returns an error and leaves everything where it is: winRMConfig
\* has no configuration, and is asked again or not.
CallFails(b, why) ==
    /\ failed' = failed \cup {<<b, why>>}
    /\ \E p \in {"idle", "given up"} : Goes(b, p)
    /\ UNCHANGED <<dir, path, content, handle, calls, password, met>>

\* Mutant: an existing data/ is an error.
CreateFileInNewDirectory(b) ==
    /\ pc[b] = "create"
    /\ IF path = None
       THEN /\ path' = b
            /\ handle' = [handle EXCEPT ![b] = b]
            /\ content' = [content EXCEPT ![b] = None]
            /\ Goes(b, "write")
            /\ UNCHANGED <<dir, calls, failed, password, met>>
       ELSE CallFails(b, "shared")

\* The files no build has open; one that lost its name may still be open.
Unused == Builds \ {handle[c] : c \in Builds}

\* os.Create empties the file that is there, or makes one.
CreateFile(b) ==
    /\ pc[b] = "create"
    /\ \/ /\ dir
          /\ \E f \in IF path = None THEN Unused ELSE {path} :
                 /\ path' = f
                 /\ handle' = [handle EXCEPT ![b] = f]
                 /\ content' = [content EXCEPT ![f] = None]
          /\ Goes(b, "write")
          /\ UNCHANGED <<dir, calls, failed, password, met>>
       \/ ~dir /\ CallFails(b, "shared")
       \/ CallFails(b, "local")

\* Through the handle, whether the file still has its name or not.  A write
\* that fails goes unnoticed until openssl finds nothing: a failure of Decrypt.
WriteFile(b) ==
    /\ pc[b] = "write"
    /\ content' = [content EXCEPT ![handle[b]] = b]
    /\ handle' = [handle EXCEPT ![b] = None]
    /\ Goes(b, "decrypt")
    /\ UNCHANGED <<dir, path, calls, failed, password, met>>

Decrypted(b, text) ==
    /\ password' = [password EXCEPT ![b] = text]
    /\ Goes(b, "remove file")
    /\ UNCHANGED <<dir, path, content, handle, calls, failed, met>>

\* Whose encrypted password the file has, None also when it is gone or empty.
File == IF path = None THEN None ELSE content[path]

\* Mutant: the error of openssl is not looked at.
DecryptUnchecked(b) ==
    /\ pc[b] = "decrypt"
    /\ \/ File = b /\ Decrypted(b, "own")
       \/ Decrypted(b, "garbage")

\* Mutant: an empty output of openssl is a password.
DecryptEmpty(b) ==
    /\ pc[b] = "decrypt"
    /\ \/ File = b /\ Decrypted(b, "own")
       \/ File = None /\ Decrypted(b, "")
       \/ CallFails(b, "local")

\* openssl reads the file by its name, with this build's key, or does not work.
Decrypt(b) ==
    /\ pc[b] = "decrypt"
    /\ \/ File = b /\ Decrypted(b, "own")
       \/ File # b /\ CallFails(b, "shared")
       \/ File \notin {b, None} /\ ImplicitRejection /\ Decrypted(b, "garbage")
       \/ CallFails(b, "local")

\* Mutant: the removal is of the directory alone, which is not empty.
RemoveNoFile(b) ==
    /\ pc[b] = "remove file"
    /\ Goes(b, "remove directory")
    /\ UNCHANGED <<dir, path, content, handle, calls, failed, password, met>>

\* os.RemoveAll, deferred once the password is there, unlinks the file first.
RemoveFile(b) ==
    /\ pc[b] = "remove file"
    /\ path' = None
    /\ Goes(b, "remove directory")
    /\ UNCHANGED <<dir, content, handle, calls, failed, password, met>>

\* The directory, which stays when another build has made a new file in it.
RemoveDirectory(b) ==
    /\ pc[b] = "remove directory"
    /\ dir' = (path # None)
    /\ Goes(b, "returned")
    /\ UNCHANGED <<path, content, handle, calls, failed, password, met>>

Call(b) ==
    \/ MakeDirectory(b) \/ CreateFile(b) \/ WriteFile(b)
    \/ Decrypt(b) \/ RemoveFile(b) \/ RemoveDirectory(b)

Next == \E b \in Builds : Call(b)

Spec == Init /\ [][Next]_vars

-----------------------------------------------------------------------------
(* Properties. *)

\* A build that gets a password has its own, whatever the others do to the
\* file, unless openssl answers the wrong key with a text; and then another
\* build's call was under way during one of its own.
OwnPassword ==
    \A b \in Builds : password[b] = "garbage" => ImplicitRejection /\ met[b] # {}

\* Where openssl and the disk work, a build's call fails only over another
\* build's call that one of its own overlaps, never over what earlier calls,
\* failed ones included, have left in data/.
AloneSucceeds == \A b \in Builds : <<b, "shared">> \in failed => met[b] # {}

\* When no call is under way, the encrypted password and its directory are
\* there only if a call failed: calls that succeed leave nothing, in whatever
\* order their removals fall among each other's steps.
CleanAfterSuccess ==
    (\A b \in Builds : pc[b] \in Idle) /\ (dir \/ path # None) => failed # {}
=============================================================================
