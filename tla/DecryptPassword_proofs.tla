----------------------- MODULE DecryptPassword_proofs -----------------------
(***************************************************************************)
(* What DecryptPassword guarantees whatever the number of builds: the four *)
(* safety properties follow from one fact, that a build whose calls overlap *)
(* no other's finds the directory and the file as it left them.            *)
(***************************************************************************)
EXTENDS DecryptPassword, TLAPS

\* Calls under way at once know of each other.
Overlap ==
    \A b, c \in Builds :
        b # c /\ pc[b] \in Calling /\ pc[c] \in Calling => c \in met[b]

\* What a build that has met no other finds at each point of its call.
Undisturbed ==
    \A b \in Builds : met[b] = {} =>
        /\ pc[b] = "create" => dir
        /\ pc[b] = "write" => path # None /\ handle[b] = path
        /\ pc[b] = "decrypt" => path # None /\ content[path] = b

Holding == {"write", "decrypt", "remove file"}

\* Until a call fails, the file and the directory are some call's to remove.
ToBeRemoved ==
    failed = {} =>
        /\ path # None => \E b \in Builds : pc[b] \in Holding
        /\ dir => \E b \in Builds : pc[b] \in Calling

\* No order of the removals leaves the file without its directory.
FileInDirectory == path # None => dir

IInv ==
    /\ TypeOK /\ FileInDirectory
    /\ Overlap /\ Undisturbed /\ ToBeRemoved
    /\ OwnPassword /\ AloneSucceeds

-----------------------------------------------------------------------------
\* The inductive invariant holds before the first call.
LEMMA InitIInv == Init => IInv
<1> SUFFICES ASSUME Init PROVE IInv
  OBVIOUS
<1>1. \A b \in Builds : pc[b] = "idle" /\ password[b] = "none"
  BY DEF Init
<1>2. dir = FALSE /\ path = None /\ failed = {}
  BY DEF Init
<1>3. TypeOK
  <2>1. pc \in [Builds -> Idle \cup Calling]
    BY DEF Init, Idle
  <2>2. calls \in [Builds -> 0..MaxCalls]
    BY DecryptAssumption DEF Init
  <2>3. met \in [Builds -> SUBSET Builds]
    BY DEF Init
  <2>4. dir \in BOOLEAN
    BY <1>2
  <2> QED BY <2>1, <2>2, <2>3, <2>4 DEF Init, TypeOK
<1>4. FileInDirectory /\ ToBeRemoved
  BY <1>2 DEF FileInDirectory, ToBeRemoved
<1>5. Overlap /\ Undisturbed
  BY <1>1 DEF Overlap, Undisturbed, Calling
<1>6. OwnPassword /\ AloneSucceeds
  BY <1>1, <1>2 DEF OwnPassword, AloneSucceeds
<1> QED BY <1>3, <1>4, <1>5, <1>6 DEF IInv

\* A call that fails keeps the types.
LEMMA FailsType ==
    ASSUME TypeOK, NEW b \in Builds, NEW why \in {"local", "shared"}, CallFails(b, why)
    PROVE  TypeOK'
<1>1. PICK p \in {"idle", "given up"} : pc' = [pc EXCEPT ![b] = p]
  BY DEF CallFails, Goes
<1>2. pc' \in [Builds -> Idle \cup Calling]
  BY <1>1 DEF TypeOK, Idle
<1>3. <<b, why>> \in Builds \X {"local", "shared"}
  OBVIOUS
<1>4. failed' \subseteq Builds \X {"local", "shared"}
  BY <1>3 DEF CallFails, TypeOK
<1> QED BY <1>2, <1>4 DEF TypeOK, CallFails

\* Every step of a call keeps the types.
LEMMA TypeStep ==
    ASSUME TypeOK, NEW b \in Builds, Call(b)
    PROVE  TypeOK'
<1>1. CASE MakeDirectory(b)
  <2>1. calls' \in [Builds -> 0..MaxCalls]
    BY <1>1, DecryptAssumption DEF MakeDirectory, TypeOK
  <2>2. met' \in [Builds -> SUBSET Builds]
    BY <1>1 DEF MakeDirectory, TypeOK, Others
  <2>3. pc' \in [Builds -> Idle \cup Calling] /\ dir' \in BOOLEAN
    BY <1>1 DEF MakeDirectory, TypeOK, Goes, Calling
  <2> QED BY <1>1, <2>1, <2>2, <2>3 DEF MakeDirectory, TypeOK
<1>2. CASE CreateFile(b)
  <2>1. CASE dir /\ Goes(b, "write") /\ UNCHANGED <<dir, calls, failed, password, met>>
    <3>1. CASE \E f \in IF path = None THEN Unused ELSE {path} :
                   /\ path' = f
                   /\ handle' = [handle EXCEPT ![b] = f]
                   /\ content' = [content EXCEPT ![f] = None]
      <4>1. PICK f \in IF path = None THEN Unused ELSE {path} :
                   /\ path' = f
                   /\ handle' = [handle EXCEPT ![b] = f]
                   /\ content' = [content EXCEPT ![f] = None]
        BY <3>1
      <4>2. f \in Builds
        BY <4>1 DEF Unused, TypeOK
      <4> QED BY <2>1, <4>1, <4>2 DEF TypeOK, Goes, Calling
    <3> QED BY <1>2, <2>1, <3>1, FailsType DEF CreateFile
  <2>2. CASE CallFails(b, "shared") \/ CallFails(b, "local")
    BY <2>2, FailsType
  <2> QED BY <1>2, <2>1, <2>2, FailsType DEF CreateFile
<1>3. CASE WriteFile(b)
  BY <1>3 DEF WriteFile, TypeOK, Goes, Calling
<1>4. CASE Decrypt(b)
  <2>1. CASE \E text \in {"own", "garbage"} : Decrypted(b, text)
    BY <2>1 DEF Decrypted, TypeOK, Goes, Calling
  <2>2. CASE CallFails(b, "shared") \/ CallFails(b, "local")
    BY <2>2, FailsType
  <2> QED BY <1>4, <2>1, <2>2 DEF Decrypt
<1>5. CASE RemoveFile(b)
  BY <1>5 DEF RemoveFile, TypeOK, Goes, Calling
<1>6. CASE RemoveDirectory(b)
  BY <1>6 DEF RemoveDirectory, TypeOK, Goes, Idle
<1> QED BY <1>1, <1>2, <1>3, <1>4, <1>5, <1>6 DEF Call

\* A step of b changes no other's point or open file, and only the first step
\* of a call adds to what the calls have met.
LEMMA OwnStep ==
    ASSUME TypeOK, NEW b \in Builds, Call(b)
    PROVE  /\ \A c \in Builds \ {b} : pc'[c] = pc[c] /\ handle'[c] = handle[c]
           /\ \A c \in Builds : met[c] \subseteq met'[c]
           /\ MakeDirectory(b) \/ (pc[b] \in Calling /\ met' = met)
<1>1. CASE MakeDirectory(b)
  BY <1>1 DEF MakeDirectory, Goes, TypeOK
<1>2. CASE CreateFile(b)
  BY <1>2 DEF CreateFile, CallFails, Goes, TypeOK, Calling
<1>3. CASE WriteFile(b) \/ RemoveFile(b) \/ RemoveDirectory(b)
  BY <1>3 DEF WriteFile, RemoveFile, RemoveDirectory, Goes, TypeOK, Calling
<1>4. CASE Decrypt(b)
  BY <1>4 DEF Decrypt, Decrypted, CallFails, Goes, TypeOK, Calling
<1> QED BY <1>1, <1>2, <1>3, <1>4 DEF Call

\* A call that begins while others are under way is recorded on both sides.
LEMMA OverlapStep ==
    ASSUME TypeOK, Overlap, NEW b \in Builds, Call(b)
    PROVE  Overlap'
<1>1. CASE MakeDirectory(b)
  <2> SUFFICES ASSUME NEW c \in Builds, NEW d \in Builds, c # d,
                      pc'[c] \in Calling, pc'[d] \in Calling
               PROVE  d \in met'[c]
    BY DEF Overlap
  <2>1. met' = [e \in Builds |-> IF e = b THEN met[e] \cup Others(b)
                                 ELSE IF e \in Others(b) THEN met[e] \cup {b} ELSE met[e]]
    BY <1>1 DEF MakeDirectory
  <2>2. CASE c = b
    BY <2>1, <2>2, OwnStep DEF Others
  <2>3. CASE d = b
    BY <2>1, <2>3, OwnStep DEF Others
  <2>4. CASE c # b /\ d # b
    BY <2>4, OwnStep DEF Overlap
  <2> QED BY <2>2, <2>3, <2>4
<1>2. CASE pc[b] \in Calling /\ met' = met
  BY <1>2, OwnStep DEF Overlap
<1> QED BY <1>1, <1>2, OwnStep

\* What a build that has met no other finds, only its own steps change.
LEMMA UndisturbedStep ==
    ASSUME TypeOK, FileInDirectory, Overlap, Undisturbed, Overlap', NEW b \in Builds, Call(b)
    PROVE  Undisturbed'
<1> SUFFICES ASSUME NEW c \in Builds, met'[c] = {}
             PROVE  /\ pc'[c] = "create" => dir'
                    /\ pc'[c] = "write" => path' # None /\ handle'[c] = path'
                    /\ pc'[c] = "decrypt" => path' # None /\ content'[path'] = c
  BY DEF Undisturbed
<1>1. met[c] = {}
  BY OwnStep
<1>2. CASE c # b
  <2>1. CASE pc[c] \notin Calling
    BY <1>2, <2>1, OwnStep DEF Calling
  <2>2. CASE pc[c] \in Calling /\ pc[b] \in Calling
    BY <1>1, <1>2, <2>2 DEF Overlap
  <2>3. CASE pc[c] \in Calling /\ MakeDirectory(b)
    <3>1. pc'[b] \in Calling /\ pc'[c] \in Calling
      BY <1>2, <2>3, OwnStep DEF MakeDirectory, Goes, TypeOK, Calling
    <3> QED BY <1>2, <3>1 DEF Overlap
  <2> QED BY <2>1, <2>2, <2>3, OwnStep
<1>3. CASE c = b
  <2>1. CASE MakeDirectory(b)
    BY <1>3, <2>1 DEF MakeDirectory, Goes, TypeOK
  <2>2. CASE CreateFile(b)
    <3>1. CASE \E why \in {"shared", "local"} : CallFails(b, why)
      BY <1>3, <3>1 DEF CallFails, Goes, TypeOK
    <3>2. CASE Goes(b, "write") /\
               \E f \in IF path = None THEN Unused ELSE {path} :
                   /\ path' = f
                   /\ handle' = [handle EXCEPT ![b] = f]
      <4>1. PICK f \in IF path = None THEN Unused ELSE {path} :
                   /\ path' = f
                   /\ handle' = [handle EXCEPT ![b] = f]
        BY <3>2
      <4>2. f # None
        BY <4>1, DecryptAssumption DEF Unused, TypeOK
      <4> QED BY <1>3, <3>2, <4>1, <4>2 DEF Goes, TypeOK
    <3> QED BY <2>2, <3>1, <3>2 DEF CreateFile
  <2>3. CASE WriteFile(b)
    <3>1. path # None /\ handle[b] = path
      BY <1>1, <1>3, <2>3 DEF WriteFile, Undisturbed
    <3> QED BY <1>3, <2>3, <3>1 DEF WriteFile, Goes, TypeOK
  <2>4. CASE Decrypt(b)
    BY <1>3, <2>4 DEF Decrypt, Decrypted, CallFails, Goes, TypeOK
  <2>5. CASE RemoveFile(b) \/ RemoveDirectory(b)
    BY <1>3, <2>5 DEF RemoveFile, RemoveDirectory, Goes, TypeOK
  <2> QED BY <2>1, <2>2, <2>3, <2>4, <2>5 DEF Call
<1> QED BY <1>2, <1>3

\* As long as no call fails, the file passes from one call to another only
\* together with the duty to remove it.
LEMMA ToBeRemovedStep ==
    ASSUME TypeOK, FileInDirectory, ToBeRemoved, NEW b \in Builds, Call(b)
    PROVE  ToBeRemoved' /\ FileInDirectory'
<1>1. CASE MakeDirectory(b)
  <2>1. pc' = [pc EXCEPT ![b] = "create"] /\ pc[b] = "idle"
        /\ dir' = TRUE /\ path' = path /\ failed' = failed
    BY <1>1 DEF MakeDirectory, Goes
  <2>2. pc'[b] \in Calling
    BY <2>1 DEF TypeOK, Calling
  <2>3. \A c \in Builds : pc[c] \in Holding => pc'[c] \in Holding
    BY <2>1 DEF TypeOK, Holding
  <2> QED BY <2>1, <2>2, <2>3 DEF ToBeRemoved, FileInDirectory
<1>2. CASE \E why \in {"local", "shared"} : CallFails(b, why)
  <2>1. PICK why \in {"local", "shared"} : CallFails(b, why)
    BY <1>2
  <2>2. failed' # {} /\ dir' = dir /\ path' = path
    BY <2>1 DEF CallFails
  <2> QED BY <2>2 DEF ToBeRemoved, FileInDirectory
<1>3. CASE CreateFile(b) /\ dir /\ Goes(b, "write") /\ dir' = dir
  <2>1. pc'[b] \in Holding /\ pc'[b] \in Calling
    BY <1>3 DEF Goes, TypeOK, Holding, Calling
  <2> QED BY <1>3, <2>1 DEF ToBeRemoved, FileInDirectory
<1>4. CASE WriteFile(b) \/ \E text : Decrypted(b, text)
  <2>1. pc'[b] \in Holding /\ pc'[b] \in Calling
    BY <1>4 DEF WriteFile, Decrypted, Goes, TypeOK, Holding, Calling
  <2>2. dir' = dir /\ path' = path
    BY <1>4 DEF WriteFile, Decrypted
  <2> QED BY <2>1, <2>2 DEF ToBeRemoved, FileInDirectory
<1>5. CASE RemoveFile(b)
  <2>1. pc'[b] \in Calling /\ path' = None
    BY <1>5 DEF RemoveFile, Goes, TypeOK, Calling
  <2> QED BY <2>1 DEF ToBeRemoved, FileInDirectory
<1>6. CASE RemoveDirectory(b)
  <2>1. path' = path /\ failed' = failed /\ dir' = (path # None)
    BY <1>6 DEF RemoveDirectory
  <2>2. pc[b] = "remove directory" /\ \A c \in Builds \ {b} : pc'[c] = pc[c]
    BY <1>6, OwnStep DEF RemoveDirectory
  <2>3. \A c \in Builds : pc[c] \in Holding => pc'[c] \in Holding /\ pc'[c] \in Calling
    BY <2>2 DEF Holding, Calling
  <2> QED BY <2>1, <2>3 DEF ToBeRemoved, FileInDirectory
<1> QED BY <1>1, <1>2, <1>3, <1>4, <1>5, <1>6 DEF Call, CreateFile, Decrypt

\* A wrong password and a failure over the directory need another's call.
LEMMA HistoryStep ==
    ASSUME TypeOK, Undisturbed, OwnPassword, AloneSucceeds, NEW b \in Builds, Call(b)
    PROVE  OwnPassword' /\ AloneSucceeds'
<1>1. CASE UNCHANGED <<password, failed>>
  BY <1>1, OwnStep DEF OwnPassword, AloneSucceeds, TypeOK
<1>2. CASE CallFails(b, "local")
  BY <1>2, OwnStep DEF CallFails, OwnPassword, AloneSucceeds, TypeOK
<1>3. CASE CallFails(b, "shared") /\ met[b] # {}
  <2>1. failed' = failed \cup {<<b, "shared">>} /\ met' = met /\ password' = password
    BY <1>3 DEF CallFails
  <2> QED BY <1>3, <2>1 DEF OwnPassword, AloneSucceeds, TypeOK
<1>4. CASE Decrypted(b, "own")
  BY <1>4 DEF Decrypted, OwnPassword, AloneSucceeds, TypeOK
<1>5. CASE Decrypted(b, "garbage") /\ ImplicitRejection /\ met[b] # {}
  BY <1>5 DEF Decrypted, OwnPassword, AloneSucceeds, TypeOK
<1>6. CASE CreateFile(b)
  <2>1. CASE ~dir /\ CallFails(b, "shared")
    BY <1>3, <1>6, <2>1 DEF CreateFile, Undisturbed
  <2> QED BY <1>1, <1>2, <1>6, <2>1 DEF CreateFile
<1>7. CASE Decrypt(b)
  <2>1. File # b => met[b] # {}
    BY <1>7 DEF Decrypt, Undisturbed, File
  <2> QED BY <1>2, <1>3, <1>4, <1>5, <1>7, <2>1 DEF Decrypt
<1> QED BY <1>1, <1>6, <1>7 DEF Call, MakeDirectory, WriteFile, RemoveFile, RemoveDirectory

\* The inductive step.
LEMMA NextIInv == IInv /\ [Next]_vars => IInv'
<1> SUFFICES ASSUME IInv, [Next]_vars PROVE IInv'
  OBVIOUS
<1>1. CASE UNCHANGED vars
  BY <1>1 DEF vars, IInv, TypeOK, FileInDirectory, Overlap, Undisturbed, ToBeRemoved,
              OwnPassword, AloneSucceeds
<1>2. ASSUME NEW b \in Builds, Call(b) PROVE IInv'
  BY <1>2, TypeStep, OverlapStep, UndisturbedStep, ToBeRemovedStep, HistoryStep DEF IInv
<1> QED BY <1>1, <1>2 DEF Next

\* IInv is an invariant.
THEOREM Invariance == Spec => []IInv
BY InitIInv, NextIInv, PTL DEF Spec

\* The types are kept, whatever the number of builds and calls.
THEOREM TypeCorrect == Spec => []TypeOK
<1>1. IInv => TypeOK
  BY DEF IInv
<1> QED BY <1>1, Invariance, PTL

\* A wrong password needs implicit rejection and another build's call.
THEOREM PasswordIsOwn == Spec => []OwnPassword
<1>1. IInv => OwnPassword
  BY DEF IInv
<1> QED BY <1>1, Invariance, PTL

\* What earlier calls left in data/ never fails a call.
THEOREM AloneIsSafe == Spec => []AloneSucceeds
<1>1. IInv => AloneSucceeds
  BY DEF IInv
<1> QED BY <1>1, Invariance, PTL

\* Calls that succeed leave nothing behind.
THEOREM SuccessCleans == Spec => []CleanAfterSuccess
<1>1. IInv => CleanAfterSuccess
  BY DEF IInv, ToBeRemoved, CleanAfterSuccess, FileInDirectory, Holding, Calling, Idle
<1> QED BY <1>1, Invariance, PTL
=============================================================================
