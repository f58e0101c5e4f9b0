------------------------- MODULE ClassicBuild_proofs -------------------------
(***************************************************************************)
(* What ClassicBuild guarantees for any number of builds, any templates    *)
(* that Prepare accepts and any faults.  The builds meet only in ssh_keys/, *)
(* in the inventory file and in the list of images: everything else is an  *)
(* invariant of one build that no step of another one can break.           *)
(***************************************************************************)
EXTENDS ClassicBuild, TLAPS

IsSsh(b) == scenario.template[b].comm = "ssh"
IsWinRM(b) == scenario.template[b].comm = "winrm"

StepPoints == StepNames \cup InnerPoints

\* The step a point is in.
StepOf(p) ==
    CASE p \in {"createSshKey.mkdir", "createSshKey.private", "createSshKey.chmod",
                "createSshKey.public", "createSshKey.chmodpub", "createSshKey.upload"} ->
            "createSshKey"
      [] p \in {"grabPublicIP.open", "grabPublicIP.write"} -> "grabPublicIP"
      [] p \in {"captureImage.archive", "captureImage.find", "captureImage.wait",
                "captureImage.copy"} -> "captureImage"
      [] OTHER -> p

\* The place of createInstance among the steps.
First(b) == IF IsSsh(b) THEN 2 ELSE 1

\* The place of grabPublicIP.
Grab(b) == IF IsSsh(b) THEN 4 ELSE 3

\* Where a run is: in the step the runner is at, or in a Cleanup, the ones
\* still to come after it being known.
Position(b) ==
    LET r == run[b] IN
    /\ r.pc \in StepPoints =>
        /\ IsSsh(b) \/ IsWinRM(b)
        /\ r.step \in 1..7 /\ Steps(b)[r.step] = StepOf(r.pc)
        /\ ~r.panicking /\ r.told = {} /\ r.lost = {}
    /\ r.pc \in {"clean.instance", "clean.destroy"} =>
        /\ IsSsh(b) \/ IsWinRM(b)
        /\ r.deferred = IF IsSsh(b) THEN 1 ELSE 0
    /\ r.pc \in {"clean.key", "clean.keydir", "clean.unlink"} => IsSsh(b) /\ r.deferred = 0
    /\ r.pc # "returned" => r.result = "none"
    /\ r.pc = "returned" => ~r.panicking
    /\ r.pc = "returned" =>
        r.result = (CASE r.error # "none" -> "error"
                      [] r.error = "none" /\ r.image_id # Nobody -> "artifact"
                      [] OTHER -> "nothing")

Stands(b) == guest[b] \notin {"none", "gone"}

\* Past the Cleanup of the instance.
Relieved == {"clean.key", "clean.keydir", "clean.unlink", "finish", "returned", "panicked"}

\* An instance that stands is known, or its answer was lost; past its Cleanup
\* the user was told of it.
InstanceKept(b) ==
    LET r == run[b] IN
    /\ Stands(b) => r.instance \/ "instance" \in r.lost
    /\ r.pc \in StepPoints => (r.instance <=> r.step > First(b))
    /\ r.pc \in Relieved /\ Stands(b) => "instance" \in r.told \cup r.lost

\* The same of the key, and of the private key in the directory.
KeyKept(b) ==
    LET r == run[b] IN
    /\ key[b] = "exists" => r.key_id \/ "key" \in r.lost
    /\ key[b] = "exists" \/ r.key_id => IsSsh(b)
    /\ r.pc \in StepPoints /\ r.step = 1 => ~r.key_id
    /\ r.pc \in Relieved \ {"clean.key"} /\ key[b] = "exists" =>
        "key" \in r.told \cup r.lost
    /\ r.pc \in {"finish", "returned", "panicked"} /\ r.key_id /\ id_rsa = b =>
        "keydir" \in r.told /\ r.error # "none"

Done(b) == image[b] \in {"complete", "failed"}

\* The image's identifier is known from the look for it on, and a run leaves
\* the wait behind it only with a finished image, an error or a panic.
ImageKept(b) ==
    LET r == run[b] IN
    /\ r.image_id \in Builds => name(r.image_id) = name(b)
    /\ r.image_id = Earlier => name(b) \in scenario.taken
    /\ r.pc \in StepPoints =>
        (r.image_id # Nobody <=> r.pc \in {"captureImage.wait", "captureImage.copy"})
    /\ r.pc \in {"captureImage.find", "captureImage.wait"} =>
        guest[b] \in {"archiving", "halted"} \/ Done(b)
    /\ r.image_id # Nobody /\ r.error = "none" /\ ~r.panicking
         /\ r.pc \notin {"captureImage.wait", "killed"} => Done(b)
    /\ image[b] = "failed" => May("archive")

\* A run is only unwound for a reason.
Justified(b) ==
    LET r == run[b] IN
    r.pc \in CleanupPoints \cup {"returned"} =>
        \/ r.cancelled \/ r.panicking \/ r.error # "none" \/ r.image_id # Nobody
        \/ Steps(b) = <<>>

DestroyTold(b) == At(b, "clean.destroy") /\ guest[b] \in Busy => "wait" \in run[b].told

BuildInv(b) ==
    /\ Position(b)
    /\ InstanceKept(b) /\ KeyKept(b) /\ ImageKept(b)
    /\ Justified(b) /\ DestroyTold(b)

IInv == TypeOK /\ \A b \in Builds : BuildInv(b)

-----------------------------------------------------------------------------
(* The runner. *)

\* What the runner leaves alone of a run.
Same(s, r) ==
    /\ s.step = r.step /\ s.cancelled = r.cancelled /\ s.panicking = r.panicking
    /\ s.error = r.error /\ s.key_id = r.key_id /\ s.instance = r.instance
    /\ s.image_id = r.image_id /\ s.told = r.told /\ s.lost = r.lost
    /\ s.result = r.result /\ s.address = r.address /\ s.host = r.host

\* The places of Cleanups are points.
LEMMA CleanupsArePoints ==
    ASSUME NEW b
    PROVE  /\ Len(Cleanups(b)) \in 0..2
           /\ \A d \in 1..Len(Cleanups(b)) : Cleanups(b)[d] \in {"clean.key", "clean.instance"}
<1>1. CASE IsSsh(b)
  <2>1. Cleanups(b) = <<"clean.key", "clean.instance">>
    BY <1>1 DEF Cleanups, IsSsh
  <2> QED BY <2>1
<1>2. CASE IsWinRM(b)
  <2>1. Cleanups(b) = <<"clean.instance">>
    BY <1>2 DEF Cleanups, IsWinRM
  <2> QED BY <2>1
<1>3. CASE ~IsSsh(b) /\ ~IsWinRM(b)
  <2>1. Cleanups(b) = <<>>
    BY <1>3 DEF Cleanups, IsSsh, IsWinRM
  <2> QED BY <2>1
<1> QED BY <1>1, <1>2, <1>3

\* Going to a point changes nothing else.
LEMMA GoingTo ==
    ASSUME NEW r \in Runs, NEW p \in Points
    PROVE  To(r, p) \in Runs /\ To(r, p).pc = p /\ Same(To(r, p), r)
BY DEF To, Runs, Same

\* Unwinding enters the last of the registered Cleanups, or comes to the end.
LEMMA Unwinds ==
    ASSUME NEW b, NEW r \in Runs, NEW d \in 0..Len(Cleanups(b))
    PROVE  /\ Unwound(b, r, d) \in Runs
           /\ Unwound(b, r, d).pc = IF d = 0 THEN "finish" ELSE Cleanups(b)[d]
           /\ Unwound(b, r, d).deferred = IF d = 0 THEN 0 ELSE d - 1
           /\ Same(Unwound(b, r, d), r)
<1>1. d \in 0..2 /\ (d # 0 => Cleanups(b)[d] \in {"clean.key", "clean.instance"})
  BY CleanupsArePoints
<1> DEFINE p == IF d = 0 THEN "finish" ELSE Cleanups(b)[d]
           e == IF d = 0 THEN 0 ELSE d - 1
<1>2. p \in Points
  BY <1>1 DEF Points, CleanupPoints
<1>3. e \in 0..2
  BY <1>1
<1>4. Unwound(b, r, d) = [r EXCEPT !.pc = p, !.deferred = e, !.power = "unread"]
  BY DEF Unwound
<1> HIDE DEF p, e
<1>5. /\ Unwound(b, r, d) \in Runs
      /\ Unwound(b, r, d).pc = p /\ Unwound(b, r, d).deferred = e
      /\ Same(Unwound(b, r, d), r)
  BY <1>2, <1>3, <1>4 DEF Runs, Same
<1> QED BY <1>5 DEF p, e

\* Where a run that halts in its n-th step comes to, and where one that panics.
HaltPoint(b, n) == IF IsSsh(b) /\ n = 1 THEN "clean.key" ELSE "clean.instance"
PanicPoint(b, n) ==
    IF n = 1 THEN "finish"
    ELSE IF IsSsh(b) /\ n = 2 THEN "clean.key" ELSE "clean.instance"

\* A run with steps has seven of them, and one Cleanup or two.
LEMMA StepsAndCleanups ==
    ASSUME NEW b, IsSsh(b) \/ IsWinRM(b)
    PROVE  /\ Len(Steps(b)) = 7 /\ Steps(b) # <<>>
           /\ Len(Cleanups(b)) = IF IsSsh(b) THEN 2 ELSE 1
           /\ IsSsh(b) => Cleanups(b)[1] = "clean.key" /\ Cleanups(b)[2] = "clean.instance"
           /\ ~IsSsh(b) => Cleanups(b)[1] = "clean.instance"
<1>1. Len(SshSteps) = 7 /\ SshSteps # <<>> /\ Len(WinRMSteps) = 7 /\ WinRMSteps # <<>>
  BY DEF SshSteps, WinRMSteps
<1>2. CASE IsSsh(b)
  <2>1. Steps(b) = SshSteps /\ Cleanups(b) = <<"clean.key", "clean.instance">>
    BY <1>2 DEF Steps, Cleanups, IsSsh
  <2>2. /\ Len(Cleanups(b)) = 2 /\ Cleanups(b)[1] = "clean.key"
        /\ Cleanups(b)[2] = "clean.instance"
    BY <2>1
  <2> QED BY <1>1, <1>2, <2>1, <2>2
<1>3. CASE ~IsSsh(b)
  <2>1. Steps(b) = WinRMSteps /\ Cleanups(b) = <<"clean.instance">>
    BY <1>3 DEF Steps, Cleanups, IsSsh, IsWinRM
  <2>2. Len(Cleanups(b)) = 1 /\ Cleanups(b)[1] = "clean.instance"
    BY <2>1
  <2> QED BY <1>1, <1>3, <2>1, <2>2
<1> QED BY <1>2, <1>3

\* The Cleanups registered after n steps.
LEMMA RegisteredAfter ==
    ASSUME NEW b, IsSsh(b) \/ IsWinRM(b), NEW n \in 0..7
    PROVE  Registered(b, n) = IF n = 0 THEN 0
                              ELSE IF IsSsh(b) THEN (IF n = 1 THEN 1 ELSE 2) ELSE 1
<1>1. Len(Cleanups(b)) = IF IsSsh(b) THEN 2 ELSE 1
  BY StepsAndCleanups
<1> QED BY <1>1 DEF Registered

\* The last of them after step n, and after the step before it.
LEMMA LastRegistered ==
    ASSUME NEW b, IsSsh(b) \/ IsWinRM(b), NEW n \in 1..7
    PROVE  /\ Registered(b, n) \in 1..Len(Cleanups(b))
           /\ Cleanups(b)[Registered(b, n)] = HaltPoint(b, n)
           /\ Registered(b, n) - 1 =
                IF IsSsh(b) /\ HaltPoint(b, n) = "clean.instance" THEN 1 ELSE 0
           /\ Registered(b, n - 1) \in 0..Len(Cleanups(b))
           /\ Registered(b, n - 1) = 0 => PanicPoint(b, n) = "finish"
           /\ Registered(b, n - 1) # 0 =>
                /\ Cleanups(b)[Registered(b, n - 1)] = PanicPoint(b, n)
                /\ PanicPoint(b, n) # "finish"
                /\ Registered(b, n - 1) - 1 =
                     IF IsSsh(b) /\ PanicPoint(b, n) = "clean.instance" THEN 1 ELSE 0
<1>1. Registered(b, n) = IF IsSsh(b) THEN (IF n = 1 THEN 1 ELSE 2) ELSE 1
  BY RegisteredAfter
<1>2. Registered(b, n - 1) = IF n = 1 THEN 0
                             ELSE IF IsSsh(b) THEN (IF n = 2 THEN 1 ELSE 2) ELSE 1
  BY RegisteredAfter
<1>3. CASE IsSsh(b)
  BY <1>1, <1>2, <1>3, StepsAndCleanups DEF HaltPoint, PanicPoint
<1>4. CASE ~IsSsh(b)
  BY <1>1, <1>2, <1>4, StepsAndCleanups DEF HaltPoint, PanicPoint
<1> QED BY <1>3, <1>4

\* A halt in a step.
LEMMA Halting ==
    ASSUME NEW b, NEW r \in Runs, IsSsh(b) \/ IsWinRM(b), r.step \in 1..7
    PROVE  /\ Halted(b, r) \in Runs /\ Same(Halted(b, r), r)
           /\ Halted(b, r).pc = HaltPoint(b, r.step)
           /\ Halted(b, r).deferred =
                IF IsSsh(b) /\ HaltPoint(b, r.step) = "clean.instance" THEN 1 ELSE 0
<1> DEFINE d == Registered(b, r.step)
<1>0. d \in 1..Len(Cleanups(b)) /\ Len(Cleanups(b)) \in 0..2
  BY LastRegistered, CleanupsArePoints, Zenon
<1>1. d \in 0..Len(Cleanups(b)) /\ d # 0
  BY <1>0
<1>2. Cleanups(b)[d] = HaltPoint(b, r.step)
  BY LastRegistered, Zenon
<1>3. d - 1 = IF IsSsh(b) /\ HaltPoint(b, r.step) = "clean.instance" THEN 1 ELSE 0
  BY LastRegistered, Zenon
<1>4. Halted(b, r) = Unwound(b, r, d)
  BY DEF Halted
<1> HIDE DEF d
<1> QED BY <1>1, <1>2, <1>3, <1>4, Unwinds

\* A panic in a step.
LEMMA Panicking ==
    ASSUME NEW b, NEW r \in Runs, IsSsh(b) \/ IsWinRM(b), r.step \in 1..7
    PROVE  /\ Panicked(b, r) \in Runs /\ Same(Panicked(b, r), [r EXCEPT !.panicking = TRUE])
           /\ Panicked(b, r).pc = PanicPoint(b, r.step)
           /\ Panicked(b, r).pc # "finish" =>
                Panicked(b, r).deferred =
                    IF IsSsh(b) /\ PanicPoint(b, r.step) = "clean.instance" THEN 1 ELSE 0
<1> DEFINE d == Registered(b, r.step - 1)
           q == [r EXCEPT !.panicking = TRUE]
<1>0. q \in Runs
  BY DEF Runs
<1>1. d \in 0..Len(Cleanups(b))
  BY LastRegistered, Zenon
<1>2. d = 0 => PanicPoint(b, r.step) = "finish"
  BY LastRegistered, Zenon
<1>3. d # 0 =>
        /\ Cleanups(b)[d] = PanicPoint(b, r.step)
        /\ PanicPoint(b, r.step) # "finish"
        /\ d - 1 = IF IsSsh(b) /\ PanicPoint(b, r.step) = "clean.instance" THEN 1 ELSE 0
  BY LastRegistered, Zenon
<1>4. Panicked(b, r) = Unwound(b, q, d)
  BY DEF Panicked
<1> HIDE DEF d, q
<1>5. /\ Panicked(b, r) \in Runs /\ Same(Panicked(b, r), q)
      /\ Panicked(b, r).pc = (IF d = 0 THEN "finish" ELSE Cleanups(b)[d])
      /\ Panicked(b, r).deferred = (IF d = 0 THEN 0 ELSE d - 1)
  BY <1>0, <1>1, <1>4, Unwinds
<1> QED BY <1>2, <1>3, <1>5 DEF q

\* A failure is a halt with an error.
LEMMA Failing ==
    ASSUME NEW b, NEW r \in Runs, IsSsh(b) \/ IsWinRM(b), r.step \in 1..7
    PROVE  /\ Failed(b, r) \in Runs /\ Same(Failed(b, r), [r EXCEPT !.error = r.pc])
           /\ Failed(b, r).pc = HaltPoint(b, r.step) /\ Failed(b, r).error = r.pc
           /\ Failed(b, r).deferred =
                IF IsSsh(b) /\ HaltPoint(b, r.step) = "clean.instance" THEN 1 ELSE 0
<1> DEFINE q == [r EXCEPT !.error = r.pc]
<1>1. q \in Runs /\ q.step = r.step /\ q.error = r.pc
  BY DEF Runs
<1>2. Failed(b, r) = Halted(b, q)
  BY DEF Failed
<1> HIDE DEF q
<1>3. /\ Halted(b, q) \in Runs /\ Same(Halted(b, q), q)
      /\ Halted(b, q).pc = HaltPoint(b, r.step)
      /\ Halted(b, q).deferred =
            IF IsSsh(b) /\ HaltPoint(b, r.step) = "clean.instance" THEN 1 ELSE 0
  BY <1>1, Halting, Zenon
<1> QED BY <1>1, <1>2, <1>3 DEF Same, q

\* The steps have points of their own, createInstance and the capture their place.
LEMMA StepsArePoints ==
    ASSUME NEW b, IsSsh(b) \/ IsWinRM(b)
    PROVE  /\ \A n \in 1..7 : Steps(b)[n] \in StepNames /\ StepOf(Steps(b)[n]) = Steps(b)[n]
           /\ \A n \in 1..7 : Steps(b)[n] = "createInstance" <=> n = First(b)
           /\ \A n \in 1..7 : Steps(b)[n] = "captureImage" <=> n = 7
           /\ \A n \in 1..7 : Steps(b)[n] = "createSshKey" <=> n = 1 /\ IsSsh(b)
           /\ \A n \in 1..7 : Steps(b)[n] = "grabPublicIP" <=> n = Grab(b)
<1>1. CASE IsSsh(b)
  <2>1. Steps(b) = SshSteps /\ First(b) = 2 /\ Grab(b) = 4
    BY <1>1 DEF Steps, IsSsh, First, Grab
  <2> QED BY <1>1, <2>1 DEF SshSteps, StepNames, StepOf
<1>2. CASE ~IsSsh(b)
  <2>1. Steps(b) = WinRMSteps /\ First(b) = 1 /\ Grab(b) = 3
    BY <1>2 DEF Steps, IsSsh, IsWinRM, First, Grab
  <2> QED BY <1>2, <2>1 DEF WinRMSteps, StepNames, StepOf
<1> QED BY <1>1, <1>2

\* Where a run goes on that is neither cancelled nor through.
LEMMA Continuing ==
    ASSUME NEW b, NEW r \in Runs, IsSsh(b) \/ IsWinRM(b), r.step \in 1..7
    PROVE  IF r.cancelled \/ r.step = 7
           THEN Continued(b, r) = Halted(b, r)
           ELSE /\ Continued(b, r) \in Runs
                /\ Continued(b, r).step = r.step + 1
                /\ Continued(b, r).pc = Steps(b)[r.step + 1]
                /\ Same([Continued(b, r) EXCEPT !.step = r.step], r)
<1>1. Len(Steps(b)) = 7
  BY StepsAndCleanups
<1>2. CASE r.cancelled \/ r.step = 7
  BY <1>1, <1>2, Zenon DEF Continued
<1>3. CASE ~r.cancelled /\ r.step # 7
  <2> DEFINE p == Steps(b)[r.step + 1]
             n == r.step + 1
  <2>1. \A m \in 1..7 : m # 7 => m + 1 \in 1..7
    OBVIOUS
  <2>2. n \in 1..7
    BY <1>3, <2>1, Zenon
  <2>3. p \in Points
    BY <2>2, StepsArePoints DEF Points
  <2>4. Continued(b, r) = [r EXCEPT !.pc = p, !.step = n, !.power = "unread"]
    BY <1>1, <1>3 DEF Continued
  <2>5. n \in 0..7
    BY <2>2
  <2> HIDE DEF p, n
  <2>6. /\ Continued(b, r) \in Runs /\ Continued(b, r).step = n /\ Continued(b, r).pc = p
        /\ Same([Continued(b, r) EXCEPT !.step = r.step], r)
    BY <2>3, <2>4, <2>5 DEF Runs, Same
  <2> QED BY <1>3, <2>6 DEF p, n
<1> QED BY <1>2, <1>3

-----------------------------------------------------------------------------
(* Steps of a build that change nothing but its run. *)

\* x is the state r of a run, with another error perhaps.
Touched(x, r) ==
    /\ x \in Runs
    /\ x.pc = r.pc /\ x.step = r.step /\ x.cancelled = r.cancelled
    /\ x.panicking = r.panicking /\ x.key_id = r.key_id /\ x.instance = r.instance
    /\ x.image_id = r.image_id /\ x.told = r.told /\ x.lost = r.lost
    /\ x.result = r.result
    /\ x.error = r.error \/ x.error # "none"

\* What a run is given does not change.
LEMMA Given ==
    ASSUME UNCHANGED scenario, NEW b
    PROVE  /\ IsSsh(b)' = IsSsh(b) /\ IsWinRM(b)' = IsWinRM(b)
           /\ Steps(b)' = Steps(b) /\ First(b)' = First(b) /\ name(b)' = name(b)
           /\ \A f : May(f)' = May(f)
BY DEF IsSsh, IsWinRM, Steps, First, name, May, SshSteps, WinRMSteps

\* A run that stays in its step.
LEMMA StaysInStep ==
    ASSUME TypeOK, NEW b \in Builds, BuildInv(b), run[b].pc \in StepPoints,
           UNCHANGED <<scenario, guest, key, image>>,
           NEW x, Touched(x, run[b]),
           NEW p \in StepPoints, StepOf(p) = StepOf(run[b].pc),
           p = run[b].pc \/ {p, run[b].pc} \cap
               {"captureImage.find", "captureImage.wait", "captureImage.copy"} = {},
           run'[b] \in Runs, run'[b].pc = p, Same(run'[b], x)
    PROVE  BuildInv(b)'
<1> DEFINE r == run[b]
           s == run'[b]
<1>1. /\ s.pc = p /\ s.step = r.step /\ s.cancelled = r.cancelled /\ s.panicking = r.panicking
      /\ s.key_id = r.key_id /\ s.instance = r.instance /\ s.image_id = r.image_id
      /\ s.told = r.told /\ s.lost = r.lost /\ s.result = r.result
  BY DEF Same, Touched
<1>2. p \notin CleanupPoints \cup Relieved \cup {"returned", "killed"}
  BY DEF StepPoints, StepNames, InnerPoints, CleanupPoints, Relieved
<1>3. Position(b) /\ InstanceKept(b) /\ KeyKept(b) /\ ImageKept(b)
  BY DEF BuildInv
<1>4. r.pc \notin {"returned"} \cup CleanupPoints
  BY DEF StepPoints, StepNames, InnerPoints, CleanupPoints
<1>5. Position(b)'
  BY <1>1, <1>2, <1>3, <1>4, Given DEF Position, CleanupPoints
<1>6. InstanceKept(b)'
  BY <1>1, <1>2, <1>3, Given DEF InstanceKept, Stands
<1>7. KeyKept(b)'
  BY <1>1, <1>2, <1>3, Given DEF KeyKept, Relieved
<1>8. ImageKept(b)'
  <2>1. p \in {"captureImage.find", "captureImage.wait", "captureImage.copy"} => p = r.pc
    OBVIOUS
  <2>2. r.pc \in {"captureImage.find", "captureImage.wait", "captureImage.copy"} => p = r.pc
    OBVIOUS
  <2>3. /\ p \in {"captureImage.wait", "captureImage.copy"} <=>
              r.pc \in {"captureImage.wait", "captureImage.copy"}
        /\ p \in {"captureImage.find", "captureImage.wait"} <=>
              r.pc \in {"captureImage.find", "captureImage.wait"}
        /\ p = "captureImage.wait" <=> r.pc = "captureImage.wait"
    BY <2>1, <2>2
  <2>4. r.pc # "killed" /\ r.pc \in StepPoints
    BY DEF StepPoints, StepNames, InnerPoints
  <2>5. s.error = "none" => r.error = "none"
    BY DEF Same, Touched
  <2> HIDE DEF r, s
  <2> QED BY <1>1, <1>2, <1>3, <2>3, <2>4, <2>5, Given DEF ImageKept, Done, r, s
<1>9. Justified(b)' /\ DestroyTold(b)'
  BY <1>1, <1>2 DEF Justified, DestroyTold, At, CleanupPoints
<1> QED BY <1>5, <1>6, <1>7, <1>8, <1>9 DEF BuildInv

\* A run that leaves its step for the Cleanups: it failed, was cancelled, or
\* panics.
LEMMA LeavesStep ==
    ASSUME TypeOK, NEW b \in Builds, BuildInv(b), run[b].pc \in StepPoints,
           UNCHANGED <<scenario, guest, key, image>>,
           NEW x, Touched(x, run[b]),
           NEW d \in BOOLEAN,
           run'[b] = IF d THEN Panicked(b, x) ELSE Halted(b, x),
           d \/ x.error # "none" \/ (x.cancelled /\ x.image_id = Nobody)
    PROVE  run'[b] \in Runs /\ BuildInv(b)'
<1> DEFINE r == run[b]
           s == run'[b]
           e == IF d THEN PanicPoint(b, r.step) ELSE HaltPoint(b, r.step)
<1>1. Position(b) /\ InstanceKept(b) /\ KeyKept(b) /\ ImageKept(b)
  BY DEF BuildInv
<1>2. /\ IsSsh(b) \/ IsWinRM(b)
      /\ r.step \in 1..7 /\ ~r.panicking /\ r.told = {} /\ r.lost = {}
  BY <1>1 DEF Position
<1>3. x \in Runs /\ x.step = r.step
  BY DEF Touched
<1>4. CASE ~d
  <2>1. s \in Runs /\ Same(s, x) /\ s.pc = HaltPoint(b, r.step)
        /\ s.deferred = IF IsSsh(b) /\ s.pc = "clean.instance" THEN 1 ELSE 0
    BY <1>2, <1>3, <1>4, Halting
  <2>2. s.pc = "clean.instance" \/ (s.pc = "clean.key" /\ IsSsh(b) /\ r.step = 1)
    BY <2>1 DEF HaltPoint
  <2>3. /\ s.cancelled = r.cancelled /\ s.key_id = r.key_id /\ s.instance = r.instance
        /\ s.image_id = r.image_id /\ s.told = r.told /\ s.lost = r.lost
        /\ s.result = r.result /\ s.error = x.error
    BY <2>1 DEF Same, Touched
  <2>4. r.pc # "returned" /\ s.pc \notin StepPoints
    BY <2>2 DEF StepPoints, StepNames, InnerPoints
  <2>5. Position(b)'
    BY <1>1, <1>2, <2>1, <2>2, <2>3, <2>4, Given DEF Position
  <2>6. InstanceKept(b)'
    <3>1. s.pc \in Relieved => ~r.instance
      BY <1>1, <2>2 DEF InstanceKept, First, Relieved
    <3> QED BY <1>1, <1>2, <2>3, <2>4, <3>1, Given DEF InstanceKept, Stands
  <2>7. KeyKept(b)'
    BY <1>1, <2>2, <2>3, <2>4, Given DEF KeyKept, Relieved
  <2>8. ImageKept(b)'
    <3>1. s.image_id = Nobody \/ s.error # "none"
      BY <1>4, <2>3 DEF Touched
    <3> QED BY <1>1, <2>2, <2>3, <2>4, <3>1, Given DEF ImageKept, Done
  <2>9. Justified(b)' /\ DestroyTold(b)'
    BY <1>4, <2>2, <2>3 DEF Justified, DestroyTold, At, Touched
  <2> QED BY <2>1, <2>5, <2>6, <2>7, <2>8, <2>9 DEF BuildInv
<1>5. CASE d
  <2>1. s \in Runs /\ Same(s, [x EXCEPT !.panicking = TRUE]) /\ s.pc = PanicPoint(b, r.step)
        /\ (s.pc # "finish" =>
              s.deferred = IF IsSsh(b) /\ s.pc = "clean.instance" THEN 1 ELSE 0)
    BY <1>2, <1>3, <1>5, Panicking
  <2>2. \/ s.pc = "clean.instance"
        \/ s.pc = "clean.key" /\ IsSsh(b) /\ r.step = 2
        \/ s.pc = "finish" /\ r.step = 1
    BY <2>1 DEF PanicPoint
  <2>3. /\ s.panicking /\ s.key_id = r.key_id /\ s.instance = r.instance
        /\ s.image_id = r.image_id /\ s.told = r.told /\ s.lost = r.lost
        /\ s.result = r.result
    BY <1>3, <2>1 DEF Same, Touched, Runs
  <2>4. r.pc # "returned" /\ s.pc \notin StepPoints
    BY <2>2 DEF StepPoints, StepNames, InnerPoints
  <2>5. Position(b)'
    BY <1>1, <1>2, <2>1, <2>2, <2>3, <2>4, Given DEF Position
  <2>6. InstanceKept(b)'
    <3>1. s.pc \in Relieved => ~r.instance
      BY <1>1, <2>2 DEF InstanceKept, First, Relieved
    <3> QED BY <1>1, <1>2, <2>3, <2>4, <3>1, Given DEF InstanceKept, Stands
  <2>7. KeyKept(b)'
    <3>1. s.pc = "finish" => ~r.key_id /\ key[b] # "exists"
      BY <1>1, <1>2, <2>2 DEF KeyKept, Relieved
    <3> QED BY <1>1, <2>2, <2>3, <2>4, <3>1, Given DEF KeyKept, Relieved
  <2>8. ImageKept(b)'
    BY <1>1, <2>2, <2>3, <2>4, Given DEF ImageKept, Done
  <2>9. Justified(b)' /\ DestroyTold(b)'
    BY <2>2, <2>3 DEF Justified, DestroyTold, At
  <2> QED BY <2>1, <2>5, <2>6, <2>7, <2>8, <2>9 DEF BuildInv
<1> QED BY <1>4, <1>5

\* A run that goes on to its next step.
LEMMA EntersNext ==
    ASSUME TypeOK, NEW b \in Builds, BuildInv(b), run[b].pc \in StepPoints,
           UNCHANGED <<scenario, guest, key, image>>,
           NEW x, Touched(x, run[b]),
           StepOf(run[b].pc) \notin {"createInstance", "captureImage"},
           run'[b] = Continued(b, x)
    PROVE  run'[b] \in Runs /\ BuildInv(b)'
<1> DEFINE r == run[b]
           s == run'[b]
<1>1. Position(b) /\ InstanceKept(b) /\ KeyKept(b) /\ ImageKept(b)
  BY DEF BuildInv
<1>2. /\ IsSsh(b) \/ IsWinRM(b)
      /\ r.step \in 1..7 /\ ~r.panicking /\ r.told = {} /\ r.lost = {}
      /\ Steps(b)[r.step] = StepOf(r.pc)
  BY <1>1 DEF Position
<1>3. r.step # 7 /\ r.step # First(b)
  BY <1>2, StepsArePoints, Zenon
<1>4. r.image_id = Nobody
  BY <1>1 DEF ImageKept, StepOf
<1>5. x \in Runs /\ x.step = r.step /\ x.image_id = r.image_id /\ x.cancelled = r.cancelled
  BY DEF Touched
<1>6. CASE r.cancelled
  <2>1. s = Halted(b, x)
    BY <1>2, <1>5, <1>6, Continuing, Zenon
  <2> DEFINE d == FALSE
  <2>2. d \in BOOLEAN /\ s = (IF d THEN Panicked(b, x) ELSE Halted(b, x))
    BY <2>1
  <2>3. d \/ x.error # "none" \/ (x.cancelled /\ x.image_id = Nobody)
    BY <1>4, <1>5, <1>6
  <2> HIDE DEF d
  <2> QED BY <2>2, <2>3, LeavesStep
<1>7. CASE ~r.cancelled
  <2>1. /\ s \in Runs /\ s.step = r.step + 1 /\ s.pc = Steps(b)[r.step + 1]
        /\ Same([s EXCEPT !.step = r.step], x)
    <3>1. ~(x.cancelled \/ x.step = 7) /\ x.step \in 1..7
      BY <1>2, <1>3, <1>5, <1>7
    <3>2. /\ Continued(b, x) \in Runs /\ Continued(b, x).step = x.step + 1
          /\ Continued(b, x).pc = Steps(b)[x.step + 1]
          /\ Same([Continued(b, x) EXCEPT !.step = x.step], x)
      BY <1>2, <1>5, <3>1, Continuing, Zenon
    <3> QED BY <1>5, <3>2
  <2>2. \A m \in 1..7 : m # 7 => m + 1 \in 1..7 /\ m + 1 # 1
    OBVIOUS
  <2>3. s.step \in 1..7 /\ s.step # 1
    BY <1>2, <1>3, <2>1, <2>2, Zenon
  <2>4. s.pc \in StepNames /\ Steps(b)[s.step] = s.pc /\ StepOf(s.pc) = s.pc
    <3>1. s.pc = Steps(b)[s.step]
      BY <2>1
    <3>2. /\ Steps(b)[s.step] \in StepNames
          /\ StepOf(Steps(b)[s.step]) = Steps(b)[s.step]
      BY <1>2, <2>3, StepsArePoints, Zenon
    <3> QED BY <3>1, <3>2
  <2>5. /\ s.cancelled = r.cancelled /\ s.key_id = r.key_id /\ s.instance = r.instance
        /\ s.image_id = r.image_id /\ s.told = r.told /\ s.lost = r.lost
        /\ s.result = r.result /\ s.panicking = r.panicking
    BY <2>1 DEF Same, Touched, Runs
  <2>6. s.pc \notin CleanupPoints \cup Relieved \cup InnerPoints
                    \cup {"returned", "killed"}
    BY <2>4 DEF StepNames, CleanupPoints, Relieved, InnerPoints
  <2>7. s.pc \in StepPoints /\ r.pc # "returned"
    BY <2>4 DEF StepPoints, StepNames, InnerPoints
  <2>8. Position(b)'
    BY <1>1, <1>2, <2>3, <2>4, <2>5, <2>6, <2>7, Given, Zenon DEF Position, CleanupPoints
  <2>9. InstanceKept(b)'
    <3>1. First(b) \in {1, 2}
      BY DEF First
    <3>2. \A m \in 1..7, f \in {1, 2} : m # f => (m > f <=> m + 1 > f)
      OBVIOUS
    <3>3. r.step > First(b) <=> s.step > First(b)
      <4>1. r.step > First(b) <=> r.step + 1 > First(b)
        BY <1>2, <1>3, <3>1, <3>2, Zenon
      <4> QED BY <2>1, <4>1, Zenon
    <3> QED BY <1>1, <2>5, <2>6, <2>7, <3>3, Given, Zenon DEF InstanceKept, Stands
  <2>10. KeyKept(b)'
    BY <1>1, <2>3, <2>5, <2>6, Given DEF KeyKept, Relieved
  <2>11. ImageKept(b)'
    <3>1. s.pc \notin {"captureImage.find", "captureImage.wait", "captureImage.copy"}
      BY <2>4 DEF StepNames
    <3>2. s.image_id = Nobody /\ Nobody \notin Builds /\ Nobody # Earlier
      BY <1>4, <2>5, ClassicAssumption
    <3> QED BY <1>1, <3>1, <3>2, Given DEF ImageKept, Done
  <2>12. Justified(b)' /\ DestroyTold(b)'
    BY <2>6 DEF Justified, DestroyTold, At, CleanupPoints
  <2> QED BY <2>1, <2>8, <2>9, <2>10, <2>11, <2>12 DEF BuildInv
<1> QED BY <1>6, <1>7

\* A run whose process is ended.
LEMMA Dies ==
    ASSUME TypeOK, NEW b \in Builds, BuildInv(b),
           run[b].pc \in StepPoints \cup {"clean.instance"},
           UNCHANGED <<scenario, guest, key, image>>,
           NEW x, Touched(x, run[b]), run'[b] = To(x, "killed")
    PROVE  run'[b] \in Runs /\ BuildInv(b)'
<1> DEFINE r == run[b]
           s == run'[b]
<1>1. "killed" \in Points
  BY DEF Points, EndPoints
<1>2. s \in Runs /\ s.pc = "killed" /\ Same(s, x)
  BY <1>1, GoingTo DEF Touched
<1>3. /\ s.key_id = r.key_id /\ s.instance = r.instance /\ s.image_id = r.image_id
      /\ s.told = r.told /\ s.lost = r.lost /\ s.result = r.result
  BY <1>2 DEF Same, Touched
<1>4. r.pc # "returned"
  BY DEF StepPoints, StepNames, InnerPoints
<1>5. Position(b) /\ InstanceKept(b) /\ KeyKept(b) /\ ImageKept(b)
  BY DEF BuildInv
<1>6. s.pc \notin StepPoints \cup CleanupPoints \cup Relieved
  BY <1>2 DEF StepPoints, StepNames, InnerPoints, CleanupPoints, Relieved
<1>7. Position(b)'
  BY <1>2, <1>3, <1>4, <1>5, <1>6, Given DEF Position
<1>8. InstanceKept(b)'
  BY <1>3, <1>5, <1>6, Given DEF InstanceKept, Stands
<1>9. KeyKept(b)'
  BY <1>2, <1>3, <1>5, <1>6, Given DEF KeyKept, Relieved
<1>10. ImageKept(b)'
  BY <1>2, <1>3, <1>5, <1>6, Given DEF ImageKept, Done
<1>11. Justified(b)' /\ DestroyTold(b)'
  BY <1>2, <1>6 DEF Justified, DestroyTold, At
<1> QED BY <1>2, <1>7, <1>8, <1>9, <1>10, <1>11 DEF BuildInv

\* The state of a run, an address or an error more is that state touched.
LEMMA Touching ==
    ASSUME NEW r \in Runs
    PROVE  /\ Touched(r, r)
           /\ \A a \in BOOLEAN : Touched([r EXCEPT !.address = a], r)
           /\ \A h \in Builds \cup {Earlier, Nobody} : Touched([r EXCEPT !.host = h], r)
           /\ Touched([r EXCEPT !.error = "StepConnect"], r)
BY DEF Touched, Runs, Points, StepNames

\* What a step may come to that changes only the run, in one lemma.
LEMMA PlainStep ==
    ASSUME TypeOK, NEW b \in Builds, BuildInv(b), run[b].pc \in StepPoints,
           UNCHANGED <<scenario, guest, key, image>>,
           NEW x, Touched(x, run[b]),
           \/ run'[b] = Failed(b, x)
           \/ run'[b] = Panicked(b, x)
           \/ run'[b] = Halted(b, x) /\ x.cancelled /\ x.image_id = Nobody
           \/ run'[b] = Continued(b, x)
                /\ StepOf(run[b].pc) \notin {"createInstance", "captureImage"}
           \/ \E p \in StepPoints :
                /\ run'[b] = To(x, p) /\ StepOf(p) = StepOf(run[b].pc)
                /\ p = run[b].pc \/ {p, run[b].pc} \cap
                     {"captureImage.find", "captureImage.wait", "captureImage.copy"} = {}
    PROVE  run'[b] \in Runs /\ BuildInv(b)'
<1>1. x \in Runs /\ x.pc = run[b].pc
  BY DEF Touched
<1>2. CASE run'[b] = Failed(b, x)
  <2> DEFINE y == [x EXCEPT !.error = x.pc]
             d == FALSE
  <2>1. y.error # "none" /\ Touched(y, run[b])
    BY <1>1 DEF Touched, Runs, StepPoints, StepNames, InnerPoints
  <2>2. d \in BOOLEAN /\ run'[b] = (IF d THEN Panicked(b, y) ELSE Halted(b, y))
    BY <1>2 DEF Failed
  <2> HIDE DEF y, d
  <2> QED BY <2>1, <2>2, LeavesStep
<1>3. CASE run'[b] = Panicked(b, x)
  <2> DEFINE d == TRUE
  <2>1. d \in BOOLEAN /\ d /\ run'[b] = (IF d THEN Panicked(b, x) ELSE Halted(b, x))
    BY <1>3
  <2> HIDE DEF d
  <2> QED BY <2>1, LeavesStep
<1>4. CASE run'[b] = Halted(b, x) /\ x.cancelled /\ x.image_id = Nobody
  <2> DEFINE d == FALSE
  <2>1. d \in BOOLEAN /\ run'[b] = (IF d THEN Panicked(b, x) ELSE Halted(b, x))
    BY <1>4
  <2> HIDE DEF d
  <2> QED BY <1>4, <2>1, LeavesStep
<1>5. CASE run'[b] = Continued(b, x)
           /\ StepOf(run[b].pc) \notin {"createInstance", "captureImage"}
  BY <1>5, EntersNext
<1>6. CASE \E p \in StepPoints :
             /\ run'[b] = To(x, p) /\ StepOf(p) = StepOf(run[b].pc)
             /\ p = run[b].pc \/ {p, run[b].pc} \cap
                  {"captureImage.find", "captureImage.wait", "captureImage.copy"} = {}
  <2>1. PICK p \in StepPoints :
             /\ run'[b] = To(x, p) /\ StepOf(p) = StepOf(run[b].pc)
             /\ p = run[b].pc \/ {p, run[b].pc} \cap
                  {"captureImage.find", "captureImage.wait", "captureImage.copy"} = {}
    BY <1>6
  <2>2. p \in Points
    BY DEF StepPoints, Points
  <2>3. run'[b] \in Runs /\ run'[b].pc = p /\ Same(run'[b], x)
    BY <1>1, <2>1, <2>2, GoingTo
  <2> QED BY <2>1, <2>3, StaysInStep
<1> QED BY <1>2, <1>3, <1>4, <1>5, <1>6

\* What becomes of a build's run.
LEMMA Becoming ==
    ASSUME TypeOK, NEW b \in Builds, NEW r, Becomes(b, r)
    PROVE  run'[b] = r
BY DEF Becomes, TypeOK

-----------------------------------------------------------------------------
(* The actions of a build. *)

\* The points of the steps, by the step they are in.
LEMMA PointsOfSteps ==
    /\ \A p \in {"createSshKey", "createSshKey.mkdir", "createSshKey.private",
                 "createSshKey.chmod", "createSshKey.public", "createSshKey.chmodpub",
                 "createSshKey.upload"} :
          p \in StepPoints /\ StepOf(p) = "createSshKey"
    /\ \A p \in {"grabPublicIP", "grabPublicIP.open", "grabPublicIP.write"} :
          p \in StepPoints /\ StepOf(p) = "grabPublicIP"
    /\ \A p \in {"captureImage", "captureImage.archive", "captureImage.find",
                 "captureImage.wait", "captureImage.copy"} :
          p \in StepPoints /\ StepOf(p) = "captureImage"
    /\ \A p \in {"createInstance", "waitforInstance", "grabPublicIP", "StepConnect",
                 "StepProvision"} :
          p \in StepPoints /\ StepOf(p) = p
BY DEF StepPoints, StepNames, InnerPoints, StepOf

\* The state of a run.
LEMMA RunType == ASSUME TypeOK, NEW b \in Builds PROVE run[b] \in Runs
BY DEF TypeOK

\* The actions on the key files and the points between them.
KeyFileAction(b) ==
    \/ StatDirectory(b) \/ MakeDirectory(b) \/ WritePrivateKey(b) \/ WritePublicKey(b)
    \/ ChangeMode(b)

KeyFilePoints ==
    {"createSshKey", "createSshKey.mkdir", "createSshKey.private", "createSshKey.chmod",
     "createSshKey.public", "createSshKey.chmodpub", "createSshKey.upload"}

\* The key files.
LEMMA KeyFileSteps ==
    ASSUME TypeOK, NEW b \in Builds, BuildInv(b), UNCHANGED scenario, KeyFileAction(b)
    PROVE  run'[b] \in Runs /\ BuildInv(b)'
<1> DEFINE r == run[b]
<1>1. Touched(r, r)
  BY RunType, Touching
<1>2. UNCHANGED <<guest, key, image>>
  BY DEF KeyFileAction, StatDirectory, MakeDirectory, WritePrivateKey, WritePublicKey,
         ChangeMode, cloud
<1>3. r.pc \in KeyFilePoints
  BY DEF KeyFileAction, StatDirectory, MakeDirectory, WritePrivateKey, WritePublicKey,
         ChangeMode, At, KeyFilePoints
<1>4. run'[b] = Failed(b, r) \/ \E p \in KeyFilePoints : run'[b] = To(r, p)
  <2>1. CASE StatDirectory(b) \/ MakeDirectory(b)
    BY <2>1, Becoming DEF StatDirectory, MakeDirectory, KeyFilePoints
  <2>2. CASE WritePrivateKey(b) \/ WritePublicKey(b)
    BY <2>2, Becoming DEF WritePrivateKey, WritePublicKey, KeyFilePoints
  <2>3. CASE ChangeMode(b)
    BY <2>3, Becoming DEF ChangeMode, KeyFilePoints
  <2> QED BY <2>1, <2>2, <2>3 DEF KeyFileAction
<1>5. r.pc \in StepPoints
  BY <1>3, PointsOfSteps DEF KeyFilePoints
<1>6. CASE run'[b] = Failed(b, r)
  BY <1>1, <1>2, <1>5, <1>6, PlainStep
<1>7. CASE \E p \in KeyFilePoints : run'[b] = To(r, p)
  <2>1. PICK p \in KeyFilePoints : run'[b] = To(r, p)
    BY <1>7
  <2>2. p \in StepPoints /\ StepOf(p) = StepOf(r.pc)
    BY <1>3, PointsOfSteps DEF KeyFilePoints
  <2>3. {p, r.pc} \cap {"captureImage.find", "captureImage.wait", "captureImage.copy"} = {}
    BY <1>3 DEF KeyFilePoints
  <2> QED BY <1>1, <1>2, <1>5, <2>1, <2>2, <2>3, PlainStep
<1> QED BY <1>4, <1>6, <1>7

\* The address, the connection, its credentials and the provisioning.
ConnectAction(b) ==
    \/ GrabPublicIP(b) \/ OpenInventory(b) \/ WriteInventory(b)
    \/ Connect(b) \/ WinRMCredentialsMissing(b) \/ Provision(b)

\* The machine a provisioner works on.
LEMMA HostType == ASSUME TypeOK, NEW b \in Builds PROVE Host(b) \in Builds \cup {Earlier, Nobody}
BY DEF TypeOK, Host

LEMMA ConnectSteps ==
    ASSUME TypeOK, NEW b \in Builds, BuildInv(b), UNCHANGED scenario, ConnectAction(b)
    PROVE  run'[b] \in Runs /\ BuildInv(b)'
<1> DEFINE r == run[b]
<1>1. r \in Runs
  BY RunType
<1>2. UNCHANGED <<guest, key, image>>
  BY DEF ConnectAction, GrabPublicIP, OpenInventory, WriteInventory, Connect,
         WinRMCredentialsMissing, Provision, cloud
<1>3. r.pc \in {"grabPublicIP", "grabPublicIP.open", "grabPublicIP.write", "StepConnect",
                "StepProvision"}
  BY DEF ConnectAction, GrabPublicIP, OpenInventory, WriteInventory, Connect,
         WinRMCredentialsMissing, Provision, At
<1>4. r.pc \in StepPoints /\ StepOf(r.pc) \in {"grabPublicIP", "StepConnect", "StepProvision"}
  BY <1>3, PointsOfSteps
<1>5. r.image_id = Nobody
  BY <1>3, <1>4 DEF BuildInv, ImageKept
<1>6. CASE GrabPublicIP(b) \/ OpenInventory(b) \/ WriteInventory(b)
  <2>1. PICK a \in BOOLEAN :
          LET x == [r EXCEPT !.address = a]
          IN  \/ run'[b] = Continued(b, x) \/ run'[b] = Failed(b, x)
              \/ run'[b] = To(x, "grabPublicIP.open") \/ run'[b] = To(x, "grabPublicIP.write")
    <3>1. CASE GrabPublicIP(b)
      BY <3>1, Becoming DEF GrabPublicIP
    <3>2. CASE OpenInventory(b) \/ WriteInventory(b)
      <4>1. [r EXCEPT !.address = r.address] = r /\ r.address \in BOOLEAN
        BY <1>1 DEF Runs
      <4> QED BY <3>2, <4>1, Becoming DEF OpenInventory, WriteInventory
    <3> QED BY <1>6, <3>1, <3>2
  <2> DEFINE x == [r EXCEPT !.address = a]
  <2>2. Touched(x, r)
    BY <1>1, Touching
  <2>3. \/ run'[b] = Continued(b, x) \/ run'[b] = Failed(b, x)
        \/ \E p \in {"grabPublicIP.open", "grabPublicIP.write"} : run'[b] = To(x, p)
    BY <2>1
  <2> HIDE DEF x
  <2>4. \A p \in {"grabPublicIP.open", "grabPublicIP.write"} :
          p \in StepPoints /\ StepOf(p) = StepOf(r.pc)
    BY <1>6, PointsOfSteps DEF GrabPublicIP, OpenInventory, WriteInventory, At
  <2>5. \A p \in {"grabPublicIP.open", "grabPublicIP.write"} :
          {p, r.pc} \cap {"captureImage.find", "captureImage.wait", "captureImage.copy"} = {}
    BY <1>3
  <2> HIDE DEF r
  <2>6. CASE \E p \in {"grabPublicIP.open", "grabPublicIP.write"} : run'[b] = To(x, p)
    BY <1>2, <1>4, <2>2, <2>4, <2>5, <2>6, PlainStep DEF r
  <2>7. CASE run'[b] = Continued(b, x) \/ run'[b] = Failed(b, x)
    BY <1>2, <1>4, <2>2, <2>7, PlainStep DEF r
  <2> QED BY <2>3, <2>6, <2>7
<1>7. CASE Connect(b) \/ Provision(b)
  <2>1. PICK h \in Builds \cup {Earlier, Nobody} :
          LET x == [r EXCEPT !.host = h]
          IN  \/ run'[b] = Continued(b, x) \/ run'[b] = Failed(b, x)
              \/ run'[b] = Halted(b, x) /\ r.cancelled
    <3>1. [r EXCEPT !.host = r.host] = r /\ r.host \in Builds \cup {Earlier, Nobody}
      BY <1>1 DEF Runs
    <3> QED BY <1>7, <3>1, HostType, Becoming DEF Connect, Provision
  <2> DEFINE x == [r EXCEPT !.host = h]
  <2>2. Touched(x, r)
    BY <1>1, Touching
  <2>3. \/ run'[b] = Continued(b, x) \/ run'[b] = Failed(b, x)
        \/ run'[b] = Halted(b, x) /\ r.cancelled
    BY <2>1
  <2> HIDE DEF x
  <2>4. x.cancelled = r.cancelled /\ x.image_id = Nobody
    BY <1>5, <2>2 DEF Touched
  <2> QED BY <1>2, <1>4, <2>2, <2>3, <2>4, PlainStep
<1>8. CASE WinRMCredentialsMissing(b)
  <2> DEFINE x == [r EXCEPT !.error = "StepConnect"]
  <2>1. Touched(x, r)
    BY <1>1, Touching
  <2>2. r.pc = "StepConnect" /\ (run'[b] = To(x, "StepConnect") \/ run'[b] = To(x, "killed"))
    BY <1>8, Becoming DEF WinRMCredentialsMissing, At
  <2> HIDE DEF x
  <2>3. CASE run'[b] = To(x, "StepConnect")
    BY <1>2, <1>4, <2>1, <2>2, <2>3, PlainStep
  <2>4. CASE run'[b] = To(x, "killed")
    BY <1>2, <1>4, <2>1, <2>4, Dies
  <2> QED BY <2>2, <2>3, <2>4
<1> QED BY <1>6, <1>7, <1>8 DEF ConnectAction

\* A build's invariant survives whatever leaves the build's run and resources
\* alone, and the user's interruption of it.
LEMMA Unmoved ==
    ASSUME NEW b \in Builds, BuildInv(b), UNCHANGED scenario,
           guest'[b] = guest[b], key'[b] = key[b], image'[b] = image[b],
           id_rsa' = b => id_rsa = b,
           run'[b].pc = run[b].pc, run'[b].deferred = run[b].deferred,
           Same([run'[b] EXCEPT !.cancelled = run[b].cancelled], run[b]),
           run[b] \in Runs, run'[b] \in Runs,
           run[b].cancelled => run'[b].cancelled
    PROVE  BuildInv(b)'
<1> DEFINE r == run[b]
           s == run'[b]
<1>1. /\ s.step = r.step /\ s.panicking = r.panicking
      /\ s.error = r.error /\ s.key_id = r.key_id /\ s.instance = r.instance
      /\ s.image_id = r.image_id /\ s.told = r.told /\ s.lost = r.lost
      /\ s.result = r.result
  BY DEF Same, Runs
<1>2. /\ Position(b) /\ InstanceKept(b) /\ KeyKept(b) /\ ImageKept(b)
      /\ Justified(b) /\ DestroyTold(b)
  BY DEF BuildInv
<1> HIDE DEF r, s
<1>3. Position(b)'
  BY <1>1, <1>2, Given, Zenon DEF Position, r, s
<1>4. InstanceKept(b)'
  BY <1>1, <1>2, Given, Zenon DEF InstanceKept, Stands, r, s
<1>5. KeyKept(b)'
  BY <1>1, <1>2, Given DEF KeyKept, Relieved, r, s
<1>6. ImageKept(b)'
  BY <1>1, <1>2, Given DEF ImageKept, Done, r, s
<1>7. Justified(b)' /\ DestroyTold(b)'
  BY <1>1, <1>2, Given DEF Justified, DestroyTold, At, r, s
<1> QED BY <1>3, <1>4, <1>5, <1>6, <1>7 DEF BuildInv

\* The requests of a wait.
LEMMA PowerRead ==
    ASSUME TypeOK, NEW b \in Builds, BuildInv(b), UNCHANGED <<scenario, files, cloud>>,
           NEW v \in {"unread", "on", "off"}, run'[b] = [run[b] EXCEPT !.power = v]
    PROVE  run'[b] \in Runs /\ BuildInv(b)'
<1> DEFINE r == run[b]
           s == run'[b]
<1>1. r \in Runs
  BY RunType
<1>2. s \in Runs
  BY <1>1 DEF Runs
<1>3. s.pc = r.pc /\ s.deferred = r.deferred /\ s.cancelled = r.cancelled
      /\ Same([s EXCEPT !.cancelled = r.cancelled], r)
  BY <1>1 DEF Runs, Same
<1>4. /\ guest'[b] = guest[b] /\ key'[b] = key[b] /\ image'[b] = image[b]
      /\ id_rsa' = b => id_rsa = b
  BY DEF files, keyFiles, cloud
<1> QED BY <1>1, <1>2, <1>3, <1>4, Unmoved

\* The user interrupts.
LEMMA CancelStep ==
    ASSUME TypeOK, NEW b \in Builds, BuildInv(b), UNCHANGED scenario, Cancel(b)
    PROVE  run'[b] \in Runs /\ BuildInv(b)'
<1> DEFINE r == run[b]
           s == run'[b]
<1>1. r \in Runs /\ s = [r EXCEPT !.cancelled = TRUE]
  BY RunType, Becoming DEF Cancel
<1>2. s \in Runs
  BY <1>1 DEF Runs
<1>3. s.pc = r.pc /\ s.deferred = r.deferred /\ s.cancelled
      /\ Same([s EXCEPT !.cancelled = r.cancelled], r)
  BY <1>1 DEF Runs, Same
<1>4. /\ guest'[b] = guest[b] /\ key'[b] = key[b] /\ image'[b] = image[b]
      /\ id_rsa' = b => id_rsa = b
  BY DEF Cancel, files, keyFiles, cloud
<1> QED BY <1>1, <1>2, <1>3, <1>4, Unmoved

\* The cloud moves what a build has there.
LEMMA CloudStep ==
    ASSUME TypeOK, NEW b \in Builds, BuildInv(b), UNCHANGED scenario, CloudMoves(b)
    PROVE  run'[b] \in Runs /\ BuildInv(b)'
<1> DEFINE r == run[b]
<1>0. run' = run /\ UNCHANGED <<files, key>> /\ r \in Runs
  BY RunType DEF CloudMoves
<1>1. /\ Position(b) /\ InstanceKept(b) /\ KeyKept(b) /\ ImageKept(b)
      /\ Justified(b) /\ DestroyTold(b)
  BY DEF BuildInv
<1>2. Stands(b)' <=> Stands(b)
  BY DEF CloudMoves, Stands, TypeOK
<1>3. (guest[b] \in Busy)' => guest[b] \in Busy
  BY DEF CloudMoves, Busy, TypeOK
<1>4. Done(b) => Done(b)'
  BY DEF CloudMoves, Done, TypeOK
<1>5. guest[b] \in {"archiving", "halted"} => guest'[b] \in {"archiving", "halted"} \/ Done(b)'
  BY DEF CloudMoves, Done, TypeOK
<1>6. image'[b] = "failed" => image[b] = "failed" \/ May("archive")
  BY DEF CloudMoves, TypeOK
<1>7. Position(b)'
  BY <1>0, <1>1, Given, Zenon DEF Position
<1>8. InstanceKept(b)'
  BY <1>0, <1>1, <1>2, Given, Zenon DEF InstanceKept
<1>9. KeyKept(b)'
  BY <1>0, <1>1, Given DEF KeyKept, Relieved, files, keyFiles
<1>10. ImageKept(b)'
  BY <1>0, <1>1, <1>4, <1>5, <1>6, Given DEF ImageKept
<1>11. Justified(b)' /\ DestroyTold(b)'
  BY <1>0, <1>1, <1>3, Given DEF Justified, DestroyTold, At
<1> QED BY <1>0, <1>7, <1>8, <1>9, <1>10, <1>11 DEF BuildInv

\* The run ends its last step with a finished image, or with an error.
LEMMA EndsCapture ==
    ASSUME TypeOK, NEW b \in Builds, BuildInv(b), UNCHANGED <<scenario, guest, key, image>>,
           run[b].pc \in {"captureImage.wait", "captureImage.copy"},
           run[b].error = "none" => Done(b),
           run'[b] = Continued(b, run[b])
    PROVE  run'[b] \in Runs /\ BuildInv(b)'
<1> DEFINE r == run[b]
           s == run'[b]
<1>1. Position(b) /\ InstanceKept(b) /\ KeyKept(b) /\ ImageKept(b)
  BY DEF BuildInv
<1>2. r \in Runs /\ r.pc \in StepPoints /\ StepOf(r.pc) = "captureImage" /\ r.pc # "returned"
  BY RunType, PointsOfSteps
<1>3. /\ IsSsh(b) \/ IsWinRM(b)
      /\ r.step \in 1..7 /\ ~r.panicking /\ r.told = {} /\ r.lost = {}
      /\ Steps(b)[r.step] = StepOf(r.pc)
  BY <1>1, <1>2 DEF Position
<1>4. r.step = 7
  <2>1. \A n \in 1..7 : Steps(b)[n] = "captureImage" => n = 7
    BY <1>3, StepsArePoints
  <2>2. Steps(b)[r.step] = "captureImage"
    BY <1>2, <1>3
  <2> HIDE DEF r
  <2> QED BY <1>3, <2>1, <2>2, Zenon
<1>5. s = Halted(b, r)
  <2>1. r.step \in 1..7 /\ (r.cancelled \/ r.step = 7)
    BY <1>3, <1>4
  <2>2. Continued(b, r) = Halted(b, r)
    BY <1>2, <1>3, <2>1, Continuing, Zenon
  <2> QED BY <2>2
<1>6. HaltPoint(b, r.step) = "clean.instance"
  BY <1>4 DEF HaltPoint
<1>7. /\ s \in Runs /\ Same(s, r) /\ s.pc = "clean.instance"
      /\ s.deferred = IF IsSsh(b) THEN 1 ELSE 0
  BY <1>2, <1>3, <1>5, <1>6, Halting
<1>8. /\ s.cancelled = r.cancelled /\ s.panicking = r.panicking /\ s.error = r.error
      /\ s.key_id = r.key_id /\ s.instance = r.instance
      /\ s.image_id = r.image_id /\ s.told = r.told /\ s.lost = r.lost
      /\ s.result = r.result
  BY <1>7 DEF Same
<1>9. s.pc \notin StepPoints \cup Relieved
  BY <1>7 DEF StepPoints, StepNames, InnerPoints, Relieved
<1>10. Position(b)'
  BY <1>1, <1>2, <1>3, <1>7, <1>8, <1>9, Given DEF Position
<1>11. InstanceKept(b)'
  BY <1>1, <1>8, <1>9, Given DEF InstanceKept, Stands
<1>12. KeyKept(b)'
  BY <1>1, <1>7, <1>8, <1>9, Given DEF KeyKept, Relieved
<1>13. ImageKept(b)'
  BY <1>1, <1>7, <1>8, <1>9, Given DEF ImageKept, Done
<1>14. Justified(b)' /\ DestroyTold(b)'
  <2>1. r.image_id # Nobody
    BY <1>1, <1>2 DEF ImageKept
  <2> QED BY <1>7, <1>8, <2>1 DEF Justified, DestroyTold, At
<1> QED BY <1>7, <1>10, <1>11, <1>12, <1>13, <1>14 DEF BuildInv

\* The wait for the image is over and the copy comes.
LEMMA EntersCopy ==
    ASSUME TypeOK, NEW b \in Builds, BuildInv(b), UNCHANGED <<scenario, guest, key, image>>,
           run[b].pc = "captureImage.wait", Done(b),
           run'[b] = To(run[b], "captureImage.copy")
    PROVE  run'[b] \in Runs /\ BuildInv(b)'
<1> DEFINE r == run[b]
           s == run'[b]
<1>1. Position(b) /\ InstanceKept(b) /\ KeyKept(b) /\ ImageKept(b)
  BY DEF BuildInv
<1>2. /\ r \in Runs /\ r.pc \in StepPoints
      /\ StepOf(r.pc) = "captureImage" /\ StepOf("captureImage.copy") = "captureImage"
      /\ "captureImage.copy" \in StepPoints /\ "captureImage.copy" \in Points
  BY RunType, PointsOfSteps DEF Points, InnerPoints
<1>3. s \in Runs /\ Same(s, r) /\ s.pc = "captureImage.copy"
  BY <1>2, GoingTo
<1>4. /\ s.step = r.step /\ s.cancelled = r.cancelled /\ s.panicking = r.panicking
      /\ s.error = r.error /\ s.key_id = r.key_id /\ s.instance = r.instance
      /\ s.image_id = r.image_id /\ s.told = r.told /\ s.lost = r.lost
      /\ s.result = r.result
  BY <1>3 DEF Same
<1>5. s.pc \notin Relieved \cup CleanupPoints \cup {"returned"}
  BY <1>3 DEF Relieved, CleanupPoints
<1>6. Position(b)'
  BY <1>1, <1>2, <1>3, <1>4, <1>5, Given DEF Position
<1>7. InstanceKept(b)'
  BY <1>1, <1>2, <1>4, <1>5, Given DEF InstanceKept, Stands
<1>8. KeyKept(b)'
  BY <1>1, <1>2, <1>3, <1>4, Given DEF KeyKept, Relieved
<1>9. ImageKept(b)'
  BY <1>1, <1>2, <1>3, <1>4, Given DEF ImageKept, Done
<1>10. Justified(b)' /\ DestroyTold(b)'
  BY <1>3, <1>5 DEF Justified, DestroyTold, At
<1> QED BY <1>3, <1>6, <1>7, <1>8, <1>9, <1>10 DEF BuildInv

\* The Cleanup's wait is over, or was given up and the user told.
LEMMA EntersDestroy ==
    ASSUME TypeOK, NEW b \in Builds, BuildInv(b), UNCHANGED <<scenario, guest, key, image>>,
           run[b].pc = "clean.instance",
           NEW t \in {{}, {"wait"}}, "wait" \in t \/ guest[b] \notin Busy,
           run'[b] = To([run[b] EXCEPT !.told = @ \cup t], "clean.destroy")
    PROVE  run'[b] \in Runs /\ BuildInv(b)'
<1> DEFINE r == run[b]
           s == run'[b]
           x == [r EXCEPT !.told = @ \cup t]
<1>1. /\ Position(b) /\ InstanceKept(b) /\ KeyKept(b) /\ ImageKept(b) /\ Justified(b)
  BY DEF BuildInv
<1>2. r \in Runs /\ x \in Runs /\ "clean.destroy" \in Points
  BY RunType DEF Runs, Points, CleanupPoints
<1>3. /\ s.pc = "clean.destroy" /\ s.step = r.step /\ s.cancelled = r.cancelled
      /\ s.panicking = r.panicking /\ s.deferred = r.deferred
      /\ s.error = r.error /\ s.key_id = r.key_id /\ s.instance = r.instance
      /\ s.image_id = r.image_id /\ s.told = r.told \cup t /\ s.lost = r.lost
      /\ s.result = r.result
  BY <1>2 DEF To, Runs
<1>4. s \in Runs
  BY <1>2, GoingTo
<1>5. s.pc \notin StepPoints \cup Relieved
  BY <1>3 DEF StepPoints, StepNames, InnerPoints, Relieved
<1>6. Position(b)'
  BY <1>1, <1>3, <1>5, Given DEF Position
<1>7. InstanceKept(b)'
  BY <1>1, <1>3, <1>5, Given DEF InstanceKept, Stands
<1>8. KeyKept(b)'
  BY <1>1, <1>3, <1>5, Given DEF KeyKept, Relieved
<1>9. ImageKept(b)'
  BY <1>1, <1>3, <1>5, Given DEF ImageKept, Done
<1>10. Justified(b)'
  BY <1>1, <1>3, Given DEF Justified, CleanupPoints
<1>11. DestroyTold(b)'
  BY <1>3 DEF DestroyTold, At
<1> QED BY <1>4, <1>6, <1>7, <1>8, <1>9, <1>10, <1>11 DEF BuildInv

\* The wait for the instance, in two steps and in a Cleanup.
LEMMA WaitSteps ==
    ASSUME TypeOK, NEW b \in Builds, BuildInv(b), UNCHANGED scenario,
           ReadPower(b) \/ ReadTransaction(b) \/ GiveUpWait(b) \/ WaitPanics(b)
    PROVE  run'[b] \in Runs /\ BuildInv(b)'
<1> DEFINE r == run[b]
<1>1. r \in Runs /\ Touched(r, r)
  BY RunType, Touching
<1>2. UNCHANGED <<files, cloud>> /\ UNCHANGED <<guest, key, image>>
  BY DEF ReadPower, ReadTransaction, GiveUpWait, WaitPanics, cloud
<1>3. r.pc \in {"waitforInstance", "captureImage.wait", "clean.instance"}
  BY DEF ReadPower, ReadTransaction, GiveUpWait, WaitPanics, Waits, At
<1>4. /\ "waitforInstance" \in StepPoints /\ StepOf("waitforInstance") = "waitforInstance"
      /\ "captureImage.wait" \in StepPoints
  BY PointsOfSteps
<1>5. CASE ReadPower(b)
  <2>1. PICK v \in {"unread", "on", "off"} : run'[b] = [r EXCEPT !.power = v]
    BY <1>5, Becoming DEF ReadPower
  <2> QED BY <1>2, <2>1, PowerRead
<1>6. CASE ReadTransaction(b)
  <2>1. CASE run'[b] = [r EXCEPT !.power = "unread"]
    BY <1>2, <2>1, PowerRead
  <2>2. CASE Ready(b) /\ run'[b] = Resumed(b)
    <3>1. CASE r.pc = "waitforInstance"
      <4>1. run'[b] = Continued(b, r)
        BY <2>2, <3>1 DEF Resumed, At
      <4> QED BY <1>1, <1>2, <1>4, <3>1, <4>1, PlainStep
    <3>2. CASE r.pc = "captureImage.wait"
      <4>1. Done(b)
        BY <2>2, <3>2 DEF Ready, BuildInv, ImageKept, Busy
      <4>2. run'[b] \in {To(r, "captureImage.copy"), Continued(b, r)}
        BY <2>2, <3>2 DEF Resumed, At
      <4> QED BY <1>2, <3>2, <4>1, <4>2, EntersCopy, EndsCapture
    <3>3. CASE r.pc = "clean.instance"
      <4>1. run'[b] = To(r, "clean.destroy") /\ guest[b] \notin Busy
        BY <2>2, <3>3 DEF Resumed, At, Ready
      <4>2. [r EXCEPT !.told = @ \cup {}] = r
        BY <1>1 DEF Runs
      <4> QED BY <1>2, <3>3, <4>1, <4>2, EntersDestroy
    <3> QED BY <1>3, <3>1, <3>2, <3>3
  <2> QED BY <1>6, <2>1, <2>2, Becoming DEF ReadTransaction
<1>7. CASE GiveUpWait(b)
  <2>1. CASE r.pc = "clean.instance"
    <3>1. run'[b] = To([r EXCEPT !.told = @ \cup {"wait"}], "clean.destroy")
      BY <1>7, <2>1, Becoming DEF GiveUpWait, At
    <3> QED BY <1>2, <2>1, <3>1, EntersDestroy
  <2>2. CASE r.pc # "clean.instance"
    <3>1. run'[b] = Failed(b, r) /\ r.pc \in StepPoints
      BY <1>3, <1>4, <1>7, <2>2, Becoming DEF GiveUpWait, At
    <3> QED BY <1>1, <1>2, <3>1, PlainStep
  <2> QED BY <2>1, <2>2
<1>8. CASE WaitPanics(b)
  <2>1. run'[b] = To(r, "killed")
    BY <1>8, Becoming DEF WaitPanics
  <2> QED BY <1>1, <1>2, <1>3, <1>4, <2>1, Dies
<1> QED BY <1>5, <1>6, <1>7, <1>8

\* What a failing or panicking step makes of a run.
LEMMA FailsOrPanics ==
    ASSUME NEW b, NEW x \in Runs, IsSsh(b) \/ IsWinRM(b), NEW n \in 1..7, x.step = n,
           x.pc # "none", NEW s, s = Failed(b, x) \/ s = Panicked(b, x)
    PROVE  /\ s \in Runs /\ s.key_id = x.key_id /\ s.instance = x.instance
           /\ s.image_id = x.image_id /\ s.told = x.told /\ s.lost = x.lost
           /\ s.result = x.result
           /\ \/ s.error # "none" /\ s.pc = HaltPoint(b, n)
              \/ s.panicking /\ s.pc = PanicPoint(b, n)
           /\ s.pc # "finish" =>
                 s.deferred = IF IsSsh(b) /\ s.pc = "clean.instance" THEN 1 ELSE 0
<1>1. CASE s = Failed(b, x)
  <2>1. /\ s \in Runs /\ Same(s, [x EXCEPT !.error = x.pc])
        /\ s.pc = HaltPoint(b, n) /\ s.error = x.pc
        /\ s.deferred = IF IsSsh(b) /\ s.pc = "clean.instance" THEN 1 ELSE 0
    BY <1>1, Failing
  <2> QED BY <2>1 DEF Same, Runs
<1>2. CASE s = Panicked(b, x)
  <2>1. /\ s \in Runs /\ Same(s, [x EXCEPT !.panicking = TRUE])
        /\ s.pc = PanicPoint(b, n)
        /\ s.pc # "finish" =>
              s.deferred = IF IsSsh(b) /\ s.pc = "clean.instance" THEN 1 ELSE 0
    BY <1>2, Panicking
  <2> QED BY <2>1 DEF Same, Runs
<1> QED BY <1>1, <1>2

\* x is the state r of a run that lost the answers in l, too.
Losing(x, r, l) ==
    /\ x \in Runs
    /\ x.pc = r.pc /\ x.step = r.step /\ x.key_id = r.key_id /\ x.instance = r.instance
    /\ x.image_id = r.image_id /\ x.told = r.told /\ x.lost = r.lost \cup l
    /\ x.result = r.result

\* A request that took effect, whose answer is lost or panics: what is there is
\* in the history.
LEMMA FailsWith ==
    ASSUME TypeOK, NEW b \in Builds, BuildInv(b), run[b].pc \in StepPoints,
           UNCHANGED scenario,
           NEW l \in SUBSET {"instance", "key", "image"}, NEW x, Losing(x, run[b], l),
           run'[b] = Failed(b, x) \/ run'[b] = Panicked(b, x),
           Stands(b)' => run[b].instance \/ "instance" \in l,
           key'[b] = "exists" => IsSsh(b) /\ (run[b].key_id \/ "key" \in l),
           image'[b] = "failed" => May("archive")
    PROVE  run'[b] \in Runs /\ BuildInv(b)'
<1> DEFINE r == run[b]
           s == run'[b]
<1>1. Position(b) /\ InstanceKept(b) /\ KeyKept(b) /\ ImageKept(b)
  BY DEF BuildInv
<1>2. /\ IsSsh(b) \/ IsWinRM(b)
      /\ r.step \in 1..7 /\ ~r.panicking /\ r.told = {} /\ r.lost = {}
  BY <1>1 DEF Position
<1>3. r \in Runs /\ r.pc \notin {"returned", "none"}
  BY RunType DEF StepPoints, StepNames, InnerPoints
<1>4. /\ x \in Runs /\ x.pc = r.pc /\ x.step = r.step
      /\ x.key_id = r.key_id /\ x.instance = r.instance /\ x.image_id = r.image_id
      /\ x.told = {} /\ x.lost = l /\ x.result = r.result
  BY <1>2 DEF Losing
<1>5. /\ s \in Runs /\ s.key_id = r.key_id /\ s.instance = r.instance
      /\ s.image_id = r.image_id /\ s.told = {} /\ s.lost = l /\ s.result = r.result
      /\ \/ s.error # "none" /\ s.pc = HaltPoint(b, r.step)
         \/ s.panicking /\ s.pc = PanicPoint(b, r.step)
      /\ s.pc # "finish" =>
            s.deferred = IF IsSsh(b) /\ s.pc = "clean.instance" THEN 1 ELSE 0
  <2>1. x.step = r.step /\ x.pc # "none"
    BY <1>3, <1>4
  <2>2. /\ s \in Runs /\ s.key_id = x.key_id /\ s.instance = x.instance
        /\ s.image_id = x.image_id /\ s.told = x.told /\ s.lost = x.lost
        /\ s.result = x.result
        /\ \/ s.error # "none" /\ s.pc = HaltPoint(b, r.step)
           \/ s.panicking /\ s.pc = PanicPoint(b, r.step)
        /\ s.pc # "finish" =>
              s.deferred = IF IsSsh(b) /\ s.pc = "clean.instance" THEN 1 ELSE 0
    BY <1>2, <1>4, <2>1, FailsOrPanics
  <2> QED BY <1>4, <2>2
<1>6. \/ s.pc = "clean.instance"
      \/ s.pc = "clean.key" /\ IsSsh(b) /\ r.step \in {1, 2}
      \/ s.pc = "finish" /\ r.step = 1
  BY <1>5 DEF HaltPoint, PanicPoint
<1>7. s.pc \notin StepPoints
  BY <1>6 DEF StepPoints, StepNames, InnerPoints
<1>8. Position(b)'
  BY <1>1, <1>2, <1>3, <1>5, <1>6, <1>7, Given DEF Position
<1>9. InstanceKept(b)'
  <2>1. s.pc \in Relieved => ~r.instance
    BY <1>1, <1>6 DEF InstanceKept, First, Relieved
  <2> QED BY <1>5, <1>7, <2>1 DEF InstanceKept
<1>10. KeyKept(b)'
  <2>1. r.step = 1 => ~r.key_id
    BY <1>1 DEF KeyKept, Relieved
  <2> QED BY <1>1, <1>5, <1>6, <1>7, <2>1, Given DEF KeyKept, Relieved
<1>11. ImageKept(b)'
  BY <1>1, <1>5, <1>6, <1>7, Given DEF ImageKept
<1>12. Justified(b)' /\ DestroyTold(b)'
  BY <1>5, <1>6 DEF Justified, DestroyTold, At
<1> QED BY <1>5, <1>8, <1>9, <1>10, <1>11, <1>12 DEF BuildInv

\* The points of a run go with its step.
LEMMA StepAt ==
    ASSUME TypeOK, NEW b \in Builds, BuildInv(b), run[b].pc \in StepPoints
    PROVE  /\ StepOf(run[b].pc) = "createSshKey" => run[b].step = 1 /\ IsSsh(b)
           /\ StepOf(run[b].pc) = "createInstance" => run[b].step = First(b)
           /\ StepOf(run[b].pc) = "captureImage" => run[b].step = 7
           /\ IsSsh(b) \/ IsWinRM(b)
           /\ run[b].step \in 1..7
<1> DEFINE r == run[b]
<1>1. /\ IsSsh(b) \/ IsWinRM(b)
      /\ r.step \in 1..7 /\ Steps(b)[r.step] = StepOf(r.pc)
  BY DEF BuildInv, Position
<1>2. /\ \A n \in 1..7 : Steps(b)[n] = "captureImage" => n = 7
      /\ \A n \in 1..7 : Steps(b)[n] = "createInstance" => n = First(b)
      /\ \A n \in 1..7 : Steps(b)[n] = "createSshKey" => n = 1 /\ IsSsh(b)
  BY <1>1, StepsArePoints
<1> HIDE DEF r
<1>3. StepOf(r.pc) = "createSshKey" => r.step = 1 /\ IsSsh(b)
  BY <1>1, <1>2, Zenon
<1>4. StepOf(r.pc) = "createInstance" => r.step = First(b)
  BY <1>1, <1>2, Zenon
<1>5. StepOf(r.pc) = "captureImage" => r.step = 7
  BY <1>1, <1>2, Zenon
<1> QED BY <1>1, <1>3, <1>4, <1>5 DEF r

\* Where a run goes on, and what it keeps.
LEMMA GoesOn ==
    ASSUME NEW b, NEW x \in Runs, IsSsh(b) \/ IsWinRM(b), NEW n \in 1..6, x.step = n
    PROVE  LET s == Continued(b, x) IN
           /\ s \in Runs /\ s.cancelled = x.cancelled /\ s.panicking = x.panicking
           /\ s.error = x.error /\ s.key_id = x.key_id /\ s.instance = x.instance
           /\ s.image_id = x.image_id /\ s.told = x.told /\ s.lost = x.lost
           /\ s.result = x.result
           /\ \/ /\ x.cancelled /\ s.pc = HaltPoint(b, n)
                 /\ s.deferred =
                      IF IsSsh(b) /\ HaltPoint(b, n) = "clean.instance" THEN 1 ELSE 0
              \/ /\ s.step = n + 1 /\ s.pc = Steps(b)[n + 1]
                 /\ s.pc \in StepNames /\ StepOf(s.pc) = s.pc
<1> DEFINE s == Continued(b, x)
<1>1. x.step \in 1..7 /\ n \in 1..7
  OBVIOUS
<1>2. CASE x.cancelled
  <2>1. s = Halted(b, x)
    BY <1>1, <1>2, Continuing, Zenon
  <2>2. /\ Halted(b, x) \in Runs /\ Same(Halted(b, x), x)
        /\ Halted(b, x).pc = HaltPoint(b, x.step)
        /\ Halted(b, x).deferred =
              IF IsSsh(b) /\ HaltPoint(b, x.step) = "clean.instance" THEN 1 ELSE 0
    BY <1>1, Halting, Zenon
  <2> HIDE DEF s
  <2> QED BY <1>2, <2>1, <2>2 DEF Same, s
<1>3. CASE ~x.cancelled
  <2>1. n # 7 /\ n + 1 \in 1..7
    OBVIOUS
  <2>2. ~(x.cancelled \/ x.step = 7)
    BY <1>3, <2>1
  <2>3. /\ s \in Runs /\ s.step = x.step + 1 /\ s.pc = Steps(b)[x.step + 1]
        /\ Same([s EXCEPT !.step = x.step], x)
    BY <1>1, <2>2, Continuing, Zenon
  <2>4. s.step = n + 1 /\ s.pc = Steps(b)[n + 1]
    BY <2>3
  <2>5. Steps(b)[n + 1] \in StepNames /\ StepOf(Steps(b)[n + 1]) = Steps(b)[n + 1]
    BY <2>1, StepsArePoints, Zenon
  <2> HIDE DEF s
  <2>6. /\ s.cancelled = x.cancelled /\ s.panicking = x.panicking
        /\ s.error = x.error /\ s.key_id = x.key_id /\ s.instance = x.instance
        /\ s.image_id = x.image_id /\ s.told = x.told /\ s.lost = x.lost
        /\ s.result = x.result
    BY <2>3 DEF Same, Runs
  <2> QED BY <2>3, <2>4, <2>5, <2>6 DEF s
<1> QED BY <1>2, <1>3

\* The upload of the public key.
LEMMA UploadStep ==
    ASSUME TypeOK, NEW b \in Builds, BuildInv(b), UNCHANGED scenario, UploadSshKey(b)
    PROVE  run'[b] \in Runs /\ BuildInv(b)'
<1> DEFINE r == run[b]
           s == run'[b]
<1>1. r \in Runs /\ Touched(r, r)
  BY RunType, Touching
<1>2. r.pc = "createSshKey.upload" /\ UNCHANGED <<files, guest, image>>
  BY DEF UploadSshKey, At
<1>3. r.pc \in StepPoints /\ StepOf(r.pc) = "createSshKey"
  BY <1>2, PointsOfSteps
<1>4. r.step = 1 /\ IsSsh(b)
  BY <1>3, StepAt
<1>5. Position(b) /\ InstanceKept(b) /\ KeyKept(b) /\ ImageKept(b)
  BY DEF BuildInv
<1>6. ~r.instance /\ ~Stands(b) /\ ~r.panicking /\ r.told = {} /\ r.lost = {}
      /\ r.image_id = Nobody /\ r.result = "none"
  BY <1>2, <1>3, <1>4, <1>5 DEF Position, InstanceKept, ImageKept, First
<1>7. CASE (s = Failed(b, r) \/ s = Panicked(b, r)) /\ UNCHANGED key
  BY <1>1, <1>2, <1>3, <1>7, PlainStep
<1>8. CASE \E x : /\ x = [r EXCEPT !.lost = @ \cup {"key"}]
                  /\ s = Failed(b, x) \/ s = Panicked(b, x)
  <2>1. PICK x : /\ x = [r EXCEPT !.lost = @ \cup {"key"}]
                 /\ s = Failed(b, x) \/ s = Panicked(b, x)
    BY <1>8
  <2>2. Losing(x, r, {"key"})
    BY <1>1, <2>1 DEF Losing, Runs
  <2>3. (Stands(b)' => FALSE) /\ (image'[b] = "failed" => May("archive"))
    BY <1>2, <1>5, <1>6 DEF Stands, ImageKept
  <2> HIDE DEF r, s
  <2>4. s = Failed(b, x) \/ s = Panicked(b, x)
    BY <2>1
  <2> QED BY <1>3, <1>4, <2>2, <2>3, <2>4, FailsWith DEF r, s
<1>9. CASE s = Continued(b, [r EXCEPT !.key_id = TRUE])
  <2> DEFINE x == [r EXCEPT !.key_id = TRUE]
  <2>1. /\ x \in Runs /\ x.pc = r.pc /\ x.step = 1 /\ x.key_id /\ x.instance = r.instance
        /\ x.image_id = r.image_id /\ x.told = r.told /\ x.lost = r.lost
        /\ x.result = r.result /\ x.panicking = r.panicking /\ x.cancelled = r.cancelled
    BY <1>1, <1>4 DEF Runs
  <2>2. s = Continued(b, x)
    BY <1>9
  <2>3. HaltPoint(b, 1) = "clean.key" /\ Steps(b)[2] = "createInstance" /\ First(b) = 2
    BY <1>4, StepsArePoints DEF HaltPoint, First
  <2> HIDE DEF x
  <2>4. /\ s \in Runs /\ s.key_id /\ ~s.instance /\ ~s.panicking
        /\ s.image_id = Nobody /\ s.told = {} /\ s.lost = {} /\ s.result = "none"
        /\ \/ s.cancelled /\ s.pc = "clean.key" /\ s.deferred = 0
           \/ s.step = 2 /\ s.pc = "createInstance" /\ StepOf(s.pc) = s.pc
    <3> HIDE DEF s
    <3> QED BY <1>4, <1>6, <2>1, <2>2, <2>3, GoesOn
  <2>5. "clean.key" \notin StepPoints
    BY DEF StepPoints, StepNames, InnerPoints
  <2>6. Position(b)'
    BY <1>4, <2>3, <2>4, <2>5, Given DEF Position
  <2>7. InstanceKept(b)'
    BY <1>2, <1>6, <2>3, <2>4, <2>5, Given DEF InstanceKept, Stands, Relieved
  <2>8. KeyKept(b)'
    BY <1>4, <2>4, <2>5, Given DEF KeyKept, Relieved
  <2>9. ImageKept(b)'
    BY <1>2, <1>5, <2>4, <2>5, Given, ClassicAssumption DEF ImageKept
  <2>10. Justified(b)' /\ DestroyTold(b)'
    BY <2>4 DEF Justified, DestroyTold, At, CleanupPoints
  <2> QED BY <2>4, <2>6, <2>7, <2>8, <2>9, <2>10 DEF BuildInv
<1>10. \/ (s = Failed(b, r) \/ s = Panicked(b, r)) /\ UNCHANGED key
       \/ s = Continued(b, [r EXCEPT !.key_id = TRUE])
       \/ \E x : /\ x = [r EXCEPT !.lost = @ \cup {"key"}]
                 /\ s = Failed(b, x) \/ s = Panicked(b, x)
  BY Becoming DEF UploadSshKey
<1> QED BY <1>7, <1>8, <1>9, <1>10

\* The request for an instance.
LEMMA CreateStep ==
    ASSUME TypeOK, NEW b \in Builds, BuildInv(b), UNCHANGED scenario, CreateInstance(b)
    PROVE  run'[b] \in Runs /\ BuildInv(b)'
<1> DEFINE r == run[b]
           s == run'[b]
<1>1. r \in Runs /\ Touched(r, r)
  BY RunType, Touching
<1>2. r.pc = "createInstance" /\ UNCHANGED <<files, key, image>>
  BY DEF CreateInstance, At
<1>3. r.pc \in StepPoints /\ StepOf(r.pc) = "createInstance"
  BY <1>2, PointsOfSteps
<1>4. r.step = First(b) /\ (IsSsh(b) \/ IsWinRM(b))
  BY <1>3, StepAt
<1>5. Position(b) /\ InstanceKept(b) /\ KeyKept(b) /\ ImageKept(b)
  BY DEF BuildInv
<1>6. ~r.panicking /\ r.told = {} /\ r.lost = {}
      /\ r.image_id = Nobody /\ r.result = "none"
  BY <1>2, <1>3, <1>5 DEF Position, ImageKept
<1>7. CASE (s = Failed(b, r) \/ s = Panicked(b, r)) /\ UNCHANGED guest
  BY <1>1, <1>2, <1>3, <1>7, PlainStep
<1>8. CASE \E x : /\ x = [r EXCEPT !.lost = @ \cup {"instance"}]
                  /\ s = Failed(b, x) \/ s = Panicked(b, x)
  <2>1. PICK x : /\ x = [r EXCEPT !.lost = @ \cup {"instance"}]
                 /\ s = Failed(b, x) \/ s = Panicked(b, x)
    BY <1>8
  <2>2. Losing(x, r, {"instance"})
    BY <1>1, <2>1 DEF Losing, Runs
  <2>3. /\ image'[b] = "failed" => May("archive")
        /\ key'[b] = "exists" => IsSsh(b) /\ r.key_id
    BY <1>2, <1>5, <1>6 DEF KeyKept, Relieved, ImageKept
  <2> HIDE DEF r, s
  <2>4. s = Failed(b, x) \/ s = Panicked(b, x)
    BY <2>1
  <2> QED BY <1>3, <2>2, <2>3, <2>4, FailsWith DEF r, s
<1>9. CASE s = Continued(b, [r EXCEPT !.instance = TRUE])
  <2> DEFINE x == [r EXCEPT !.instance = TRUE]
             n == First(b)
  <2>1. /\ x \in Runs /\ x.pc = r.pc /\ x.step = n /\ x.key_id = r.key_id /\ x.instance
        /\ x.image_id = r.image_id /\ x.told = r.told /\ x.lost = r.lost
        /\ x.result = r.result /\ x.panicking = r.panicking /\ x.cancelled = r.cancelled
    BY <1>1, <1>4 DEF Runs
  <2>2. s = Continued(b, x)
    BY <1>9
  <2>3. /\ n \in 1..6 /\ n + 1 \in 1..7 /\ n + 1 > n /\ n + 1 # 1
        /\ HaltPoint(b, n) = "clean.instance"
    BY <1>4 DEF HaltPoint, First
  <2> HIDE DEF x, n
  <2>4. /\ s \in Runs /\ s.key_id = r.key_id /\ s.instance /\ ~s.panicking
        /\ s.image_id = Nobody /\ s.told = {} /\ s.lost = {} /\ s.result = "none"
        /\ \/ /\ s.cancelled /\ s.pc = "clean.instance"
              /\ s.deferred = IF IsSsh(b) THEN 1 ELSE 0
           \/ /\ s.step = n + 1 /\ s.pc = Steps(b)[n + 1]
              /\ s.pc \in StepNames /\ StepOf(s.pc) = s.pc
    <3> HIDE DEF s
    <3> QED BY <1>4, <1>6, <2>1, <2>2, <2>3, GoesOn
  <2>5. /\ "clean.instance" \notin StepPoints
        /\ s.pc \notin InnerPoints \cup Relieved \cup {"clean.destroy", "returned"}
        /\ s.pc \in StepNames => s.pc \notin CleanupPoints
    BY <2>4 DEF StepPoints, StepNames, InnerPoints, Relieved, CleanupPoints
  <2>6. Position(b)'
    <3>1. s.pc \in StepPoints =>
            /\ s.step \in 1..7 /\ Steps(b)[s.step] = StepOf(s.pc)
      BY <2>3, <2>4, <2>5
    <3>2. s.pc \in {"clean.instance", "clean.destroy"} => s.deferred = IF IsSsh(b) THEN 1 ELSE 0
      BY <2>4, <2>5 DEF CleanupPoints
    <3>3. s.pc \notin {"clean.key", "clean.keydir", "clean.unlink", "returned"}
      BY <2>5 DEF Relieved
    <3> HIDE DEF s
    <3>4. /\ s.pc \in StepPoints => ~s.panicking /\ s.told = {} /\ s.lost = {}
          /\ s.result = "none" /\ (IsSsh(b) \/ IsWinRM(b))
      BY <1>4, <2>4
    <3> QED BY <3>1, <3>2, <3>3, <3>4, Given DEF Position, s
  <2>7. InstanceKept(b)'
    <3>1. s.pc \in StepPoints => s.step > n
      BY <2>3, <2>4, <2>5
    <3> QED BY <2>4, <2>5, <3>1, Given DEF InstanceKept, n
  <2>8. KeyKept(b)'
    <3>1. s.pc \in StepPoints => s.step # 1
      BY <2>3, <2>4, <2>5
    <3> QED BY <1>2, <1>5, <1>6, <2>4, <2>5, <3>1, Given DEF KeyKept, Relieved
  <2>9. ImageKept(b)'
    BY <1>2, <1>5, <2>4, <2>5, Given, ClassicAssumption DEF ImageKept, InnerPoints
  <2>10. Justified(b)' /\ DestroyTold(b)'
    BY <2>4, <2>5 DEF Justified, DestroyTold, At, CleanupPoints
  <2> QED BY <2>4, <2>6, <2>7, <2>8, <2>9, <2>10 DEF BuildInv
<1>10. \/ (s = Failed(b, r) \/ s = Panicked(b, r)) /\ UNCHANGED guest
       \/ s = Continued(b, [r EXCEPT !.instance = TRUE])
       \/ \E x : /\ x = [r EXCEPT !.lost = @ \cup {"instance"}]
                 /\ s = Failed(b, x) \/ s = Panicked(b, x)
  BY Becoming DEF CreateInstance
<1> QED BY <1>7, <1>8, <1>9, <1>10

\* The archive transaction is accepted.
LEMMA Archives ==
    ASSUME TypeOK, NEW b \in Builds, BuildInv(b), UNCHANGED <<scenario, key>>,
           run[b].pc = "captureImage.archive",
           guest'[b] = "archiving", image'[b] \in {"hidden", "listed"},
           run'[b] = To(run[b], "captureImage.find")
    PROVE  run'[b] \in Runs /\ BuildInv(b)'
<1> DEFINE r == run[b]
           s == run'[b]
<1>1. r \in Runs /\ r.pc \in StepPoints /\ StepOf(r.pc) = "captureImage"
      /\ "captureImage.find" \in StepPoints /\ "captureImage.find" \in Points
      /\ StepOf("captureImage.find") = "captureImage"
  BY RunType, PointsOfSteps DEF Points, InnerPoints
<1>2. r.step = 7
  BY <1>1, StepAt
<1>3. Position(b) /\ InstanceKept(b) /\ KeyKept(b) /\ ImageKept(b)
  BY DEF BuildInv
<1>4. r.instance /\ r.image_id = Nobody
  BY <1>1, <1>2, <1>3 DEF InstanceKept, ImageKept, First
<1>5. s \in Runs /\ Same(s, r) /\ s.pc = "captureImage.find"
  BY <1>1, GoingTo
<1>6. /\ s.step = r.step /\ s.panicking = r.panicking
      /\ s.key_id = r.key_id /\ s.instance = r.instance
      /\ s.image_id = r.image_id /\ s.told = r.told /\ s.lost = r.lost
      /\ s.result = r.result
  BY <1>5 DEF Same
<1>7. s.pc \notin Relieved \cup CleanupPoints \cup {"returned"}
  BY <1>5 DEF Relieved, CleanupPoints
<1>8. Position(b)'
  BY <1>1, <1>3, <1>5, <1>6, Given DEF Position
<1>9. InstanceKept(b)'
  BY <1>1, <1>3, <1>4, <1>6, <1>7, Given DEF InstanceKept
<1>10. KeyKept(b)'
  BY <1>1, <1>2, <1>3, <1>5, <1>6, Given DEF KeyKept, Relieved
<1>11. ImageKept(b)'
  BY <1>4, <1>5, <1>6, ClassicAssumption DEF ImageKept
<1>12. Justified(b)' /\ DestroyTold(b)'
  BY <1>5, <1>7 DEF Justified, DestroyTold, At
<1> QED BY <1>5, <1>8, <1>9, <1>10, <1>11, <1>12 DEF BuildInv

\* An image of the build's name is found.
LEMMA Finds ==
    ASSUME TypeOK, NEW b \in Builds, BuildInv(b), UNCHANGED <<scenario, guest, key, image>>,
           run[b].pc = "captureImage.find", NEW i \in Named(b),
           run'[b] = To([run[b] EXCEPT !.image_id = i], "captureImage.wait")
    PROVE  run'[b] \in Runs /\ BuildInv(b)'
<1> DEFINE r == run[b]
           s == run'[b]
           x == [r EXCEPT !.image_id = i]
<1>1. r \in Runs /\ r.pc \in StepPoints /\ StepOf(r.pc) = "captureImage"
      /\ "captureImage.wait" \in StepPoints /\ "captureImage.wait" \in Points
      /\ StepOf("captureImage.wait") = "captureImage"
  BY RunType, PointsOfSteps DEF Points, InnerPoints
<1>2. r.step = 7
  BY <1>1, StepAt
<1>3. Position(b) /\ InstanceKept(b) /\ KeyKept(b) /\ ImageKept(b)
  BY DEF BuildInv
<1>4. /\ i \in Builds \cup {Earlier} /\ i # Nobody
      /\ i \in Builds => name(i) = name(b)
      /\ i = Earlier => name(b) \in scenario.taken
  BY ClassicAssumption DEF Named
<1>5. x \in Runs
  BY <1>1, <1>4 DEF Runs
<1>6. s \in Runs /\ Same(s, x) /\ s.pc = "captureImage.wait"
  BY <1>1, <1>5, GoingTo
<1>7. /\ s.step = r.step /\ s.panicking = r.panicking
      /\ s.key_id = r.key_id /\ s.instance = r.instance
      /\ s.image_id = i /\ s.told = r.told /\ s.lost = r.lost
      /\ s.result = r.result
  BY <1>1, <1>6 DEF Same, Runs
<1>8. s.pc \notin Relieved \cup CleanupPoints \cup {"returned"}
  BY <1>6 DEF Relieved, CleanupPoints
<1>9. Position(b)'
  BY <1>1, <1>3, <1>6, <1>7, Given DEF Position
<1>10. InstanceKept(b)'
  BY <1>1, <1>3, <1>7, <1>8, Given DEF InstanceKept, Stands
<1>11. KeyKept(b)'
  BY <1>1, <1>2, <1>3, <1>6, <1>7, Given DEF KeyKept, Relieved
<1>12. ImageKept(b)'
  <2>1. i \in Builds => name(i)' = name(b)'
    BY <1>4, Given
  <2>2. i = Earlier => (name(b) \in scenario.taken)'
    BY <1>4, Given
  <2>3. (image[b] = "failed" => May("archive"))'
    BY <1>3, Given DEF ImageKept
  <2>4. (guest[b] \in {"archiving", "halted"} \/ Done(b))'
    BY <1>3 DEF ImageKept, Done
  <2> HIDE DEF r, s
  <2> QED BY <1>4, <1>6, <1>7, <2>1, <2>2, <2>3, <2>4 DEF ImageKept, s
<1>13. Justified(b)' /\ DestroyTold(b)'
  BY <1>6, <1>8 DEF Justified, DestroyTold, At
<1> QED BY <1>6, <1>9, <1>10, <1>11, <1>12, <1>13 DEF BuildInv

\* The capture.
LEMMA CaptureSteps ==
    ASSUME TypeOK, NEW b \in Builds, BuildInv(b), UNCHANGED scenario,
           \/ GetBlockDevices(b) \/ CaptureStandardImage(b) \/ FindImage(b) \/ CopyImage(b)
    PROVE  run'[b] \in Runs /\ BuildInv(b)'
<1> DEFINE r == run[b]
           s == run'[b]
<1>1. r \in Runs /\ Touched(r, r)
  BY RunType, Touching
<1>2. r.pc \in {"captureImage", "captureImage.archive", "captureImage.find",
                "captureImage.copy"}
  BY DEF GetBlockDevices, CaptureStandardImage, FindImage, CopyImage, At
<1>3. r.pc \in StepPoints /\ StepOf(r.pc) = "captureImage"
  BY <1>2, PointsOfSteps
<1>4. CASE GetBlockDevices(b)
  <2>1. r.pc = "captureImage" /\ UNCHANGED <<guest, key, image>>
    BY <1>4 DEF GetBlockDevices, At, cloud
  <2>2. s \in {To(r, "captureImage.archive"), Failed(b, r), Panicked(b, r)}
    BY <1>4, Becoming DEF GetBlockDevices
  <2>3. "captureImage.archive" \in StepPoints /\ StepOf("captureImage.archive") = StepOf(r.pc)
    BY <1>3, PointsOfSteps
  <2>4. {"captureImage.archive", r.pc} \cap
          {"captureImage.find", "captureImage.wait", "captureImage.copy"} = {}
    BY <2>1
  <2> QED BY <1>1, <1>3, <2>1, <2>2, <2>3, <2>4, PlainStep
<1>5. CASE CaptureStandardImage(b)
  <2>1. r.pc = "captureImage.archive" /\ UNCHANGED key
    BY <1>5 DEF CaptureStandardImage, At
  <2>2. CASE (s = Failed(b, r) \/ s = Panicked(b, r)) /\ UNCHANGED <<guest, image>>
    BY <1>1, <1>3, <2>1, <2>2, PlainStep
  <2>3. CASE ~((s = Failed(b, r) \/ s = Panicked(b, r)) /\ UNCHANGED <<guest, image>>)
    <3>1. guest'[b] = "archiving" /\ image'[b] \in {"hidden", "listed"}
      BY <1>5, <2>3, Becoming DEF CaptureStandardImage, TypeOK
    <3>2. CASE s = To(r, "captureImage.find")
      BY <2>1, <3>1, <3>2, Archives
    <3>3. CASE \E x : /\ x = [r EXCEPT !.lost = @ \cup {"image"}]
                      /\ s = Failed(b, x) \/ s = Panicked(b, x)
      <4>1. PICK x : /\ x = [r EXCEPT !.lost = @ \cup {"image"}]
                     /\ s = Failed(b, x) \/ s = Panicked(b, x)
        BY <3>3
      <4>2. Losing(x, r, {"image"})
        BY <1>1, <4>1 DEF Losing, Runs
      <4>3. r.instance
        BY <1>3, StepAt DEF BuildInv, InstanceKept, First
      <4>4. key'[b] = "exists" => IsSsh(b) /\ (r.key_id \/ "key" \in {"image"})
        BY <1>3, <2>1 DEF BuildInv, KeyKept, Position
      <4>5. image'[b] # "failed"
        BY <3>1
      <4> HIDE DEF r, s
      <4>6. s = Failed(b, x) \/ s = Panicked(b, x)
        BY <4>1
      <4> QED BY <1>3, <4>2, <4>3, <4>4, <4>5, <4>6, FailsWith DEF r, s
    <3> QED BY <1>5, <2>3, <3>2, <3>3, Becoming DEF CaptureStandardImage
  <2> QED BY <2>2, <2>3
<1>6. CASE FindImage(b)
  <2>1. r.pc = "captureImage.find" /\ UNCHANGED <<guest, key, image>>
    BY <1>6 DEF FindImage, At, cloud
  <2>2. CASE \E i \in Named(b) : s = To([r EXCEPT !.image_id = i], "captureImage.wait")
    BY <2>1, <2>2, Finds
  <2>3. CASE s = Failed(b, r) \/ s = Panicked(b, r)
    BY <1>1, <1>3, <2>1, <2>3, PlainStep
  <2> QED BY <1>6, <2>2, <2>3, Becoming DEF FindImage
<1>7. CASE CopyImage(b)
  <2>1. r.pc = "captureImage.copy" /\ UNCHANGED <<guest, key, image>>
    BY <1>7 DEF CopyImage, At, cloud
  <2>2. CASE s = Failed(b, r) \/ s = Panicked(b, r)
    BY <1>1, <1>3, <2>1, <2>2, PlainStep
  <2>3. CASE s = Continued(b, r)
    <3>1. ImageKept(b) /\ ~r.panicking
      BY <1>3 DEF BuildInv, Position
    <3>2. r.error = "none" => Done(b)
      BY <1>3, <2>1, <3>1 DEF ImageKept
    <3> QED BY <2>1, <2>3, <3>2, EndsCapture
  <2> QED BY <1>7, <2>2, <2>3, Becoming DEF CopyImage
<1> QED BY <1>4, <1>5, <1>6, <1>7

-----------------------------------------------------------------------------
(* The Cleanups. *)

\* x is the state r of a run that told the user of t, too, and may have another
\* error.
Telling(x, r, t) ==
    /\ x \in Runs
    /\ x.pc = r.pc /\ x.deferred = r.deferred /\ x.cancelled = r.cancelled
    /\ x.panicking = r.panicking /\ x.key_id = r.key_id /\ x.instance = r.instance
    /\ x.image_id = r.image_id /\ x.told = r.told \cup t /\ x.lost = r.lost
    /\ x.result = r.result
    /\ x.error = r.error \/ x.error # "none"

\* Telling is no more than that.
LEMMA Tells ==
    ASSUME NEW r \in Runs
    PROVE  /\ Telling(r, r, {})
           /\ \A t \in SUBSET {"instance", "key", "keydir", "wait"} :
                 Telling([r EXCEPT !.told = @ \cup t], r, t)
           /\ Telling([r EXCEPT !.told = @ \cup {"keydir"}, !.error = "clean.keydir"], r,
                      {"keydir"})
<1>1. Telling(r, r, {})
  BY DEF Telling, Runs
<1>2. ASSUME NEW t \in SUBSET {"instance", "key", "keydir", "wait"}
      PROVE  Telling([r EXCEPT !.told = @ \cup t], r, t)
  BY DEF Telling, Runs
<1>3. Telling([r EXCEPT !.told = @ \cup {"keydir"}, !.error = "clean.keydir"], r, {"keydir"})
  <2>1. "clean.keydir" \in Points
    BY DEF Points, CleanupPoints
  <2>2. r.told \cup {"keydir"} \in SUBSET {"instance", "key", "keydir", "wait"}
    BY DEF Runs
  <2> QED BY <2>1, <2>2 DEF Telling, Runs
<1> QED BY <1>1, <1>2, <1>3

\* From one Cleanup to the next.
LEMMA NextOne ==
    ASSUME NEW b, NEW x \in Runs,
           \/ IsSsh(b) /\ x.deferred \in {0, 1}
           \/ IsWinRM(b) /\ x.deferred = 0
    PROVE  LET s == NextCleanup(b, x) IN
           /\ s \in Runs /\ Same(s, x)
           /\ x.deferred = 0 => s.pc = "finish"
           /\ x.deferred = 1 => s.pc = "clean.key" /\ s.deferred = 0
<1> DEFINE s == NextCleanup(b, x)
<1>1. Len(Cleanups(b)) \in {1, 2} /\ (IsSsh(b) => Cleanups(b)[1] = "clean.key")
  BY StepsAndCleanups
<1>2. x.deferred \in 0..Len(Cleanups(b)) /\ (x.deferred = 1 => IsSsh(b))
  <2>1. \A k \in {1, 2} : 0 \in 0..k /\ 1 \in 0..k /\ 0 # 1
    OBVIOUS
  <2>2. x.deferred \in {0, 1} /\ (x.deferred = 1 => IsSsh(b))
    BY <2>1
  <2> QED BY <1>1, <2>1, <2>2
<1>3. s = Unwound(b, x, x.deferred)
  BY DEF NextCleanup
<1> DEFINE d == x.deferred
<1>4. /\ s \in Runs /\ Same(s, x)
      /\ s.pc = (IF d = 0 THEN "finish" ELSE Cleanups(b)[d])
      /\ s.deferred = (IF d = 0 THEN 0 ELSE d - 1)
  BY <1>2, <1>3, Unwinds
<1> HIDE DEF s, d
<1>5. d = 1 => d # 0 /\ s.deferred = 0 /\ s.pc = Cleanups(b)[1]
  BY <1>4
<1>6. d = 0 => s.pc = "finish"
  BY <1>4
<1> QED BY <1>1, <1>2, <1>4, <1>5, <1>6 DEF s, d

\* The Cleanup of the instance is over.
LEMMA AfterInstance ==
    ASSUME TypeOK, NEW b \in Builds, BuildInv(b), UNCHANGED <<scenario, key, image>>,
           run[b].pc \in {"clean.instance", "clean.destroy"},
           NEW t, NEW x, Telling(x, run[b], t), run'[b] = NextCleanup(b, x),
           Stands(b)' => Stands(b) /\ "instance" \in x.told \cup x.lost
    PROVE  run'[b] \in Runs /\ BuildInv(b)'
<1> DEFINE r == run[b]
           s == run'[b]
<1>1. /\ Position(b) /\ InstanceKept(b) /\ KeyKept(b) /\ ImageKept(b) /\ Justified(b)
  BY DEF BuildInv
<1>2. /\ x \in Runs /\ x.pc = r.pc /\ x.deferred = r.deferred /\ x.cancelled = r.cancelled
      /\ x.panicking = r.panicking /\ x.key_id = r.key_id /\ x.instance = r.instance
      /\ x.image_id = r.image_id /\ x.told = r.told \cup t /\ x.lost = r.lost
      /\ x.result = r.result
      /\ x.error = "none" => r.error = "none"
  BY DEF Telling
<1>3. /\ IsSsh(b) \/ IsWinRM(b)
      /\ r.deferred = IF IsSsh(b) THEN 1 ELSE 0
      /\ r.result = "none"
  BY <1>1 DEF Position
<1>4. /\ s \in Runs /\ Same(s, x)
      /\ \/ IsSsh(b) /\ s.pc = "clean.key" /\ s.deferred = 0
         \/ ~IsSsh(b) /\ s.pc = "finish"
  <2>1. \/ IsSsh(b) /\ x.deferred = 1
        \/ ~IsSsh(b) /\ IsWinRM(b) /\ x.deferred = 0
    BY <1>2, <1>3
  <2>2. \/ IsSsh(b) /\ x.deferred \in {0, 1}
        \/ IsWinRM(b) /\ x.deferred = 0
    BY <2>1
  <2>3. /\ s \in Runs /\ Same(s, x)
        /\ x.deferred = 0 => s.pc = "finish"
        /\ x.deferred = 1 => s.pc = "clean.key" /\ s.deferred = 0
    BY <1>2, <2>2, NextOne
  <2> QED BY <2>1, <2>3
<1>5. /\ s.cancelled = r.cancelled /\ s.panicking = r.panicking
      /\ s.key_id = r.key_id /\ s.instance = r.instance
      /\ s.image_id = r.image_id /\ s.told = x.told /\ s.lost = r.lost
      /\ s.result = r.result
      /\ s.error = "none" => r.error = "none"
  BY <1>2, <1>4 DEF Same
<1>6. s.pc \notin StepPoints
  BY <1>4 DEF StepPoints, StepNames, InnerPoints
<1>7. Position(b)'
  BY <1>3, <1>4, <1>5, <1>6, Given DEF Position
<1>8. InstanceKept(b)'
  BY <1>1, <1>2, <1>5, <1>6, Given DEF InstanceKept
<1>9. KeyKept(b)'
  BY <1>1, <1>4, <1>5, <1>6, Given DEF KeyKept, Relieved
<1>10. ImageKept(b)'
  BY <1>1, <1>4, <1>5, <1>6, Given DEF ImageKept, Done
<1>11. Justified(b)' /\ DestroyTold(b)'
  BY <1>1, <1>4, <1>5, Given DEF Justified, DestroyTold, At, CleanupPoints
<1> QED BY <1>4, <1>7, <1>8, <1>9, <1>10, <1>11 DEF BuildInv

\* The Cleanup of the instance.
LEMMA InstanceCleanup ==
    ASSUME TypeOK, NEW b \in Builds, BuildInv(b), UNCHANGED scenario,
           NoInstanceToDestroy(b) \/ DestroyInstance(b)
    PROVE  run'[b] \in Runs /\ BuildInv(b)'
<1> DEFINE r == run[b]
           s == run'[b]
<1>1. r \in Runs /\ UNCHANGED <<key, image>> /\ r.pc \in {"clean.instance", "clean.destroy"}
  BY RunType DEF NoInstanceToDestroy, DestroyInstance, cloud, At
<1>2. CASE NoInstanceToDestroy(b)
  <2>1. s = NextCleanup(b, r) /\ ~r.instance /\ UNCHANGED guest
    BY <1>2, Becoming DEF NoInstanceToDestroy, cloud
  <2>2. Stands(b)' => Stands(b) /\ "instance" \in r.told \cup r.lost
    BY <2>1 DEF BuildInv, InstanceKept, Stands
  <2> QED BY <1>1, <2>1, <2>2, Tells, AfterInstance
<1>3. CASE DestroyInstance(b)
  <2>1. \/ s = NextCleanup(b, r) /\ guest'[b] = "gone"
        \/ /\ s = NextCleanup(b, [r EXCEPT !.told = @ \cup {"instance"}])
           /\ guest'[b] \in {guest[b], "gone"}
    BY <1>3, Becoming DEF DestroyInstance, TypeOK
  <2>2. CASE s = NextCleanup(b, r) /\ guest'[b] = "gone"
    <3>1. ~Stands(b)'
      BY <2>2 DEF Stands
    <3> QED BY <1>1, <2>2, <3>1, Tells, AfterInstance
  <2>3. CASE /\ s = NextCleanup(b, [r EXCEPT !.told = @ \cup {"instance"}])
             /\ guest'[b] \in {guest[b], "gone"}
    <3> DEFINE x == [r EXCEPT !.told = @ \cup {"instance"}]
    <3>1. Telling(x, r, {"instance"}) /\ "instance" \in x.told
      <4>1. {"instance"} \in SUBSET {"instance", "key", "keydir", "wait"}
        OBVIOUS
      <4>2. Telling(x, r, {"instance"})
        BY <1>1, <4>1, Tells, Zenon
      <4>3. "instance" \in x.told
        BY <1>1 DEF Runs
      <4> QED BY <4>2, <4>3
    <3>2. Stands(b)' => Stands(b)
      BY <2>3 DEF Stands
    <3>3. s = NextCleanup(b, x)
      BY <2>3
    <3> HIDE DEF x
    <3> QED BY <1>1, <3>1, <3>2, <3>3, AfterInstance
  <2> QED BY <2>1, <2>2, <2>3
<1> QED BY <1>2, <1>3

\* The last Cleanup is over, and nobody has to be told any more.
LEMMA AfterKey ==
    ASSUME TypeOK, NEW b \in Builds, BuildInv(b), UNCHANGED <<scenario, guest, key, image>>,
           run[b].pc \in {"clean.key", "clean.keydir", "clean.unlink"},
           NEW t, NEW x, Telling(x, run[b], t), run'[b] = NextCleanup(b, x),
           key[b] = "exists" => "key" \in x.told \cup x.lost,
           ~x.key_id \/ id_rsa' # b \/ ("keydir" \in x.told /\ x.error # "none")
    PROVE  run'[b] \in Runs /\ BuildInv(b)'
<1> DEFINE r == run[b]
           s == run'[b]
<1>1. /\ Position(b) /\ InstanceKept(b) /\ KeyKept(b) /\ ImageKept(b) /\ Justified(b)
  BY DEF BuildInv
<1>2. /\ x \in Runs /\ x.pc = r.pc /\ x.deferred = r.deferred /\ x.cancelled = r.cancelled
      /\ x.panicking = r.panicking /\ x.key_id = r.key_id /\ x.instance = r.instance
      /\ x.image_id = r.image_id /\ x.told = r.told \cup t /\ x.lost = r.lost
      /\ x.result = r.result
      /\ x.error = "none" => r.error = "none"
  BY DEF Telling
<1>3. IsSsh(b) /\ r.deferred = 0 /\ r.result = "none"
  BY <1>1 DEF Position
<1>4. s \in Runs /\ Same(s, x) /\ s.pc = "finish"
  <2>1. x.deferred = 0 /\ (\/ IsSsh(b) /\ x.deferred \in {0, 1}
                           \/ IsWinRM(b) /\ x.deferred = 0)
    BY <1>2, <1>3
  <2> QED BY <1>2, <2>1, NextOne
<1>5. /\ s.cancelled = r.cancelled /\ s.panicking = r.panicking
      /\ s.key_id = r.key_id /\ s.instance = r.instance
      /\ s.image_id = r.image_id /\ s.told = x.told /\ s.lost = r.lost
      /\ s.result = r.result /\ s.error = x.error
  BY <1>2, <1>4 DEF Same
<1>6. s.pc \notin StepPoints
  BY <1>4 DEF StepPoints, StepNames, InnerPoints
<1>7. Position(b)'
  BY <1>3, <1>4, <1>5, <1>6, Given DEF Position
<1>8. InstanceKept(b)'
  <2>1. r.pc \in Relieved
    BY DEF Relieved
  <2> QED BY <1>1, <1>2, <1>5, <1>6, <2>1, Given DEF InstanceKept, Stands
<1>9. KeyKept(b)'
  BY <1>1, <1>2, <1>4, <1>5, <1>6, Given DEF KeyKept, Relieved
<1>10. ImageKept(b)'
  BY <1>1, <1>2, <1>4, <1>5, <1>6, Given DEF ImageKept, Done
<1>11. Justified(b)' /\ DestroyTold(b)'
  BY <1>1, <1>2, <1>4, <1>5, Given DEF Justified, DestroyTold, At, CleanupPoints
<1> QED BY <1>4, <1>7, <1>8, <1>9, <1>10, <1>11 DEF BuildInv

\* The key is destroyed, or the user told that it was not; the directory is next.
LEMMA EntersKeyDirectory ==
    ASSUME TypeOK, NEW b \in Builds, BuildInv(b), UNCHANGED <<scenario, guest, image>>,
           run[b].pc = "clean.key",
           NEW t, NEW x, Telling(x, run[b], t), run'[b] = To(x, "clean.keydir"),
           key'[b] = "exists" => "key" \in t,
           x.key_id
    PROVE  run'[b] \in Runs /\ BuildInv(b)'
<1> DEFINE r == run[b]
           s == run'[b]
<1>1. /\ Position(b) /\ InstanceKept(b) /\ KeyKept(b) /\ ImageKept(b) /\ Justified(b)
  BY DEF BuildInv
<1>2. /\ x \in Runs /\ x.deferred = r.deferred /\ x.cancelled = r.cancelled
      /\ x.panicking = r.panicking /\ x.key_id = r.key_id /\ x.instance = r.instance
      /\ x.image_id = r.image_id /\ x.told = r.told \cup t /\ x.lost = r.lost
      /\ x.result = r.result
      /\ x.error = "none" => r.error = "none"
  BY DEF Telling
<1>3. IsSsh(b) /\ r.deferred = 0 /\ r.result = "none"
  BY <1>1 DEF Position
<1>4. /\ s \in Runs /\ s.pc = "clean.keydir" /\ s.deferred = r.deferred
      /\ s.cancelled = r.cancelled /\ s.panicking = r.panicking
      /\ s.key_id = r.key_id /\ s.instance = r.instance
      /\ s.image_id = r.image_id /\ s.told = r.told \cup t /\ s.lost = r.lost
      /\ s.result = r.result /\ s.error = x.error
  <2>1. "clean.keydir" \in Points
    BY DEF Points, CleanupPoints
  <2>2. s \in Runs
    BY <1>2, <2>1, GoingTo
  <2> QED BY <1>2, <2>2 DEF To, Runs
<1>5. s.pc \notin StepPoints
  BY <1>4 DEF StepPoints, StepNames, InnerPoints
<1>6. Position(b)'
  BY <1>3, <1>4, <1>5, Given DEF Position
<1>7. InstanceKept(b)'
  <2>1. r.pc \in Relieved
    BY DEF Relieved
  <2> QED BY <1>1, <1>4, <1>5, <2>1, Given DEF InstanceKept, Stands
<1>8. KeyKept(b)'
  BY <1>2, <1>3, <1>4, <1>5, Given DEF KeyKept, Relieved
<1>9. ImageKept(b)'
  BY <1>1, <1>2, <1>4, <1>5, Given DEF ImageKept, Done
<1>10. Justified(b)' /\ DestroyTold(b)'
  BY <1>1, <1>2, <1>4, Given DEF Justified, DestroyTold, At, CleanupPoints
<1> QED BY <1>4, <1>6, <1>7, <1>8, <1>9, <1>10 DEF BuildInv

\* The files of the directory are listed and unlinked.
LEMMA Unlinks ==
    ASSUME TypeOK, NEW b \in Builds, BuildInv(b), UNCHANGED <<scenario, guest, key, image>>,
           run[b].pc \in {"clean.keydir", "clean.unlink"}, id_rsa' = b => id_rsa = b,
           run'[b].pc = "clean.unlink", run'[b] \in Runs, Same(run'[b], run[b]),
           run'[b].deferred = run[b].deferred
    PROVE  BuildInv(b)'
<1> DEFINE r == run[b]
           s == run'[b]
<1>1. /\ Position(b) /\ InstanceKept(b) /\ KeyKept(b) /\ ImageKept(b) /\ Justified(b)
  BY DEF BuildInv
<1>2. /\ s.cancelled = r.cancelled /\ s.panicking = r.panicking
      /\ s.key_id = r.key_id /\ s.instance = r.instance
      /\ s.image_id = r.image_id /\ s.told = r.told /\ s.lost = r.lost
      /\ s.result = r.result /\ s.error = r.error
  BY DEF Same
<1>3. s.pc \notin StepPoints /\ r.pc \in Relieved \ {"clean.key"} /\ s.pc \in Relieved
  BY DEF StepPoints, StepNames, InnerPoints, Relieved
<1>4. Position(b)'
  BY <1>1, <1>2, <1>3, Given DEF Position
<1>5. InstanceKept(b)'
  BY <1>1, <1>2, <1>3, Given DEF InstanceKept, Stands
<1>6. KeyKept(b)'
  BY <1>1, <1>2, <1>3, Given DEF KeyKept, Relieved
<1>7. ImageKept(b)'
  BY <1>1, <1>2, <1>3, Given DEF ImageKept, Done
<1>8. Justified(b)' /\ DestroyTold(b)'
  BY <1>1, <1>2, Given DEF Justified, DestroyTold, At, CleanupPoints
<1> QED BY <1>4, <1>5, <1>6, <1>7, <1>8 DEF BuildInv

\* The Cleanup of the key and of its directory.
KeyCleanupAction(b) ==
    DestroySshKey(b) \/ ListKeyFiles(b) \/ UnlinkKeyFile(b) \/ RemoveKeyDirectory(b)

LEMMA KeyCleanup ==
    ASSUME TypeOK, NEW b \in Builds, BuildInv(b), UNCHANGED scenario, KeyCleanupAction(b)
    PROVE  run'[b] \in Runs /\ BuildInv(b)'
<1> DEFINE r == run[b]
           s == run'[b]
           x == [r EXCEPT !.told = @ \cup {"key"}]
           y == [r EXCEPT !.told = @ \cup {"keydir"}, !.error = "clean.keydir"]
<1>1. r \in Runs /\ UNCHANGED <<guest, image>>
  BY RunType DEF KeyCleanupAction, DestroySshKey, ListKeyFiles, UnlinkKeyFile,
     RemoveKeyDirectory, cloud
<1>2. KeyKept(b)
  BY DEF BuildInv
<1>3. Telling(r, r, {})
  BY <1>1, Tells
<1>4. Telling(x, r, {"key"}) /\ x.key_id = r.key_id
  <2>1. {"key"} \in SUBSET {"instance", "key", "keydir", "wait"}
    OBVIOUS
  <2>2. Telling(x, r, {"key"})
    BY <1>1, <2>1, Tells, Zenon
  <2> QED BY <2>2 DEF Telling
<1>5. Telling(y, r, {"keydir"}) /\ y.lost = r.lost /\ y.told = r.told \cup {"keydir"}
      /\ y.error # "none"
  <2>1. Telling(y, r, {"keydir"})
    BY <1>1, Tells
  <2>2. y.error # "none"
    BY <1>1 DEF Runs
  <2> QED BY <2>1, <2>2 DEF Telling
<1>6. CASE DestroySshKey(b)
  <2>1. r.pc = "clean.key" /\ UNCHANGED files
    BY <1>6 DEF DestroySshKey, At
  <2>2. CASE ~r.key_id /\ s = NextCleanup(b, r) /\ UNCHANGED key
    <3>1. key[b] = "exists" => "key" \in r.told \cup r.lost
      BY <1>2, <2>2 DEF KeyKept, Relieved
    <3> QED BY <1>1, <1>3, <2>1, <2>2, <3>1, AfterKey
  <2>3. CASE r.key_id /\ s = To(r, "clean.keydir") /\ key'[b] = "gone"
    BY <1>1, <1>3, <2>1, <2>3, EntersKeyDirectory
  <2>4. CASE r.key_id /\ s = To(x, "clean.keydir")
    <3> HIDE DEF x
    <3> QED BY <1>1, <1>4, <2>1, <2>4, EntersKeyDirectory
  <2> QED BY <1>6, <2>2, <2>3, <2>4, Becoming DEF DestroySshKey, TypeOK
<1>7. CASE ListKeyFiles(b) \/ UnlinkKeyFile(b) \/ RemoveKeyDirectory(b)
  <2>1. r.pc \in {"clean.keydir", "clean.unlink"} /\ UNCHANGED <<guest, key, image>>
    BY <1>7 DEF ListKeyFiles, UnlinkKeyFile, RemoveKeyDirectory, At, cloud
  <2>2. key[b] = "exists" => "key" \in r.told \cup r.lost
    BY <1>2, <2>1 DEF KeyKept, Relieved
  <2>3. CASE s = NextCleanup(b, r) /\ id_rsa' = Nobody
    <3>1. id_rsa' # b
      BY <2>3, ClassicAssumption
    <3> QED BY <1>3, <2>1, <2>2, <2>3, <3>1, AfterKey
  <2>4. CASE s = NextCleanup(b, y)
    <3> HIDE DEF y
    <3> QED BY <1>5, <2>1, <2>2, <2>4, AfterKey
  <2>5. CASE /\ id_rsa' \in {id_rsa, Nobody}
             /\ \E n \in SUBSET KeyFiles :
                   \/ s = [To(r, "clean.unlink") EXCEPT !.names = n]
                   \/ r.pc = "clean.unlink" /\ s = [r EXCEPT !.names = n]
    <3>1. "clean.unlink" \in Points
      BY DEF Points, CleanupPoints
    <3>2. s \in Runs /\ s.pc = "clean.unlink" /\ Same(s, r) /\ s.deferred = r.deferred
      BY <1>1, <2>5, <3>1 DEF To, Runs, Same
    <3>3. id_rsa' = b => id_rsa = b
      BY <2>5, ClassicAssumption
    <3> QED BY <2>1, <3>2, <3>3, Unlinks
  <2>6. CASE ListKeyFiles(b)
    <3>1. Present \in SUBSET KeyFiles
      BY DEF Present, KeyFiles
    <3>2. \/ s = [To(r, "clean.unlink") EXCEPT !.names = Present] \/ s = NextCleanup(b, y)
      BY <2>6, Becoming DEF ListKeyFiles, KeyDirectoryStays
    <3>3. id_rsa' = id_rsa
      BY <2>6 DEF ListKeyFiles, files, keyFiles
    <3> QED BY <2>4, <2>5, <3>1, <3>2, <3>3
  <2>7. CASE UnlinkKeyFile(b)
    <3>1. PICK f \in r.names : s = [r EXCEPT !.names = @ \ {f}]
      BY <2>7, Becoming DEF UnlinkKeyFile
    <3>2. r.names \ {f} \in SUBSET KeyFiles
      BY <1>1 DEF Runs
    <3>3. id_rsa' \in {id_rsa, Nobody} /\ r.pc = "clean.unlink"
      BY <2>7 DEF UnlinkKeyFile, At
    <3> QED BY <2>5, <3>1, <3>2, <3>3
  <2>8. CASE RemoveKeyDirectory(b)
    <3>1. \/ s = NextCleanup(b, r) /\ Present = {}
          \/ s = NextCleanup(b, y)
      BY <2>8, Becoming DEF RemoveKeyDirectory, KeyDirectoryStays
    <3>2. Present = {} => id_rsa = Nobody
      BY DEF Present
    <3>3. id_rsa' = id_rsa
      BY <2>8 DEF RemoveKeyDirectory
    <3> QED BY <2>3, <2>4, <3>1, <3>2, <3>3
  <2> QED BY <1>7, <2>6, <2>7, <2>8
<1> QED BY <1>6, <1>7 DEF KeyCleanupAction

\* The end of a run, and what it returns.
LEMMA FinishStep ==
    ASSUME TypeOK, NEW b \in Builds, BuildInv(b), UNCHANGED scenario, Finish(b)
    PROVE  run'[b] \in Runs /\ BuildInv(b)'
<1> DEFINE r == run[b]
           s == run'[b]
           v == CASE r.error # "none" -> "error"
                  [] r.error = "none" /\ r.image_id # Nobody -> "artifact"
                  [] OTHER -> "nothing"
<1>1. r \in Runs /\ r.pc = "finish" /\ UNCHANGED <<files, guest, key, image>>
  BY RunType DEF Finish, At, cloud
<1>2. /\ Position(b) /\ InstanceKept(b) /\ KeyKept(b) /\ ImageKept(b) /\ Justified(b)
  BY DEF BuildInv
<1>3. "panicked" \in Points /\ "returned" \in Points
  BY DEF Points, EndPoints
<1>4. /\ s \in Runs
      /\ s.cancelled = r.cancelled /\ s.panicking = r.panicking
      /\ s.key_id = r.key_id /\ s.instance = r.instance
      /\ s.image_id = r.image_id /\ s.told = r.told /\ s.lost = r.lost
      /\ s.error = r.error
      /\ \/ r.panicking /\ s.pc = "panicked" /\ s.result = r.result
         \/ ~r.panicking /\ s.pc = "returned" /\ s.result = v
  <2>1. CASE r.panicking
    <3>1. s = To(r, "panicked")
      BY <2>1, Becoming DEF Finish
    <3>2. s \in Runs /\ s.pc = "panicked" /\ Same(s, r)
      BY <1>1, <1>3, <3>1, GoingTo
    <3> HIDE DEF v, s, r
    <3> QED BY <2>1, <3>2 DEF Same
  <2>2. CASE ~r.panicking
    <3> DEFINE q == To(r, "returned")
    <3>1. s = [q EXCEPT !.result = v]
      BY <2>2, Becoming DEF Finish
    <3>2. q \in Runs /\ q.pc = "returned" /\ Same(q, r)
      BY <1>1, <1>3, GoingTo
    <3>3. v \in {"error", "artifact", "nothing"}
      OBVIOUS
    <3> HIDE DEF q, v
    <3>4. s \in Runs /\ s.pc = "returned" /\ s.result = v
      BY <3>1, <3>2, <3>3 DEF Runs
    <3>5. /\ s.cancelled = q.cancelled /\ s.panicking = q.panicking
          /\ s.key_id = q.key_id /\ s.instance = q.instance
          /\ s.image_id = q.image_id /\ s.told = q.told /\ s.lost = q.lost
          /\ s.error = q.error
      BY <3>1, <3>2 DEF Runs
    <3> HIDE DEF s, r
    <3> QED BY <2>2, <3>2, <3>4, <3>5 DEF Same
  <2> QED BY <2>1, <2>2
<1>5. s.pc \in {"panicked", "returned"}
  BY <1>4
<1>6. s.pc \notin StepPoints /\ s.pc \in Relieved /\ r.pc \in Relieved
  BY <1>1, <1>5 DEF StepPoints, StepNames, InnerPoints, Relieved
<1>7. Position(b)'
  <2>1. r.result = "none"
    BY <1>1, <1>2 DEF Position
  <2>2. s.pc = "panicked" => s.result = "none"
    BY <1>4, <2>1
  <2>3. s.pc = "returned" => s.result = v
    BY <1>4
  <2> QED BY <1>4, <1>5, <1>6, <2>2, <2>3 DEF Position
<1>8. InstanceKept(b)'
  BY <1>1, <1>2, <1>4, <1>6, Given DEF InstanceKept, Stands
<1>9. KeyKept(b)'
  BY <1>1, <1>2, <1>4, <1>5, <1>6, Given DEF KeyKept, Relieved, files, keyFiles
<1>10. ImageKept(b)'
  BY <1>1, <1>2, <1>4, <1>5, <1>6, Given DEF ImageKept, Done
<1>11. Justified(b)' /\ DestroyTold(b)'
  BY <1>1, <1>2, <1>4, <1>5, Given DEF Justified, DestroyTold, At, CleanupPoints
<1> QED BY <1>4, <1>7, <1>8, <1>9, <1>10, <1>11 DEF BuildInv

-----------------------------------------------------------------------------
(* Builds side by side. *)

\* A step changes one entry of f.
One(f, g, c) == \A b \in Builds \ {c} : g[b] = f[b]

\* What a step of build c leaves to the others, and the types it keeps.
Own(c) ==
    /\ run' \in [Builds -> Runs] \/ run'[c] \notin Runs
    /\ One(run, run', c)
    /\ dir' \in BOOLEAN /\ id_rsa' \in {id_rsa, c, Nobody} /\ id_rsa_pub' \in BOOLEAN
    /\ inventory' \in {inventory, c, Nobody}
    /\ guest' \in [Builds -> GuestStatus] /\ One(guest, guest', c)
    /\ key' \in [Builds -> {"none", "exists", "gone"}] /\ One(key, key', c)
    /\ image' \in [Builds -> Listed \cup {"none", "hidden"}] /\ One(image, image', c)

\* A run that becomes another state leaves the others.
LEMMA OwnRun ==
    ASSUME TypeOK, NEW c \in Builds, NEW r, Becomes(c, r)
    PROVE  (run' \in [Builds -> Runs] \/ run'[c] \notin Runs) /\ One(run, run', c)
BY DEF TypeOK, Becomes, One

\* So does what is not touched.
LEMMA OwnRest ==
    ASSUME TypeOK, NEW c
    PROVE  /\ UNCHANGED <<run>> => run' \in [Builds -> Runs] /\ One(run, run', c)
           /\ UNCHANGED <<dir>> => dir' \in BOOLEAN
           /\ UNCHANGED <<id_rsa>> => id_rsa' \in {id_rsa, c, Nobody}
           /\ UNCHANGED <<id_rsa_pub>> => id_rsa_pub' \in BOOLEAN
           /\ UNCHANGED <<inventory>> => inventory' \in {inventory, c, Nobody}
           /\ UNCHANGED guest => guest' \in [Builds -> GuestStatus] /\ One(guest, guest', c)
           /\ UNCHANGED key =>
                key' \in [Builds -> {"none", "exists", "gone"}] /\ One(key, key', c)
           /\ UNCHANGED image =>
                /\ image' \in [Builds -> Listed \cup {"none", "hidden"}]
                /\ One(image, image', c)
BY DEF TypeOK, One

\* The cloud's side of a step.
LEMMA OwnCloud ==
    ASSUME TypeOK, NEW c \in Builds
    PROVE  /\ \A g \in GuestStatus : guest' = [guest EXCEPT ![c] = g] =>
                guest' \in [Builds -> GuestStatus] /\ One(guest, guest', c)
           /\ \A k \in {"none", "exists", "gone"} : key' = [key EXCEPT ![c] = k] =>
                key' \in [Builds -> {"none", "exists", "gone"}] /\ One(key, key', c)
           /\ \A i \in Listed \cup {"none", "hidden"} : image' = [image EXCEPT ![c] = i] =>
                /\ image' \in [Builds -> Listed \cup {"none", "hidden"}]
                /\ One(image, image', c)
BY DEF TypeOK, One

\* Steps that change only a run.
LEMMA OwnSteps ==
    ASSUME TypeOK, NEW c \in Builds,
           \/ StatDirectory(c) \/ ChangeMode(c)
           \/ ReadPower(c) \/ ReadTransaction(c) \/ WaitPanics(c) \/ GiveUpWait(c)
           \/ GrabPublicIP(c) \/ Connect(c) \/ WinRMCredentialsMissing(c) \/ Provision(c)
           \/ GetBlockDevices(c) \/ FindImage(c) \/ CopyImage(c)
           \/ NoInstanceToDestroy(c) \/ ListKeyFiles(c) \/ Finish(c) \/ Cancel(c)
    PROVE  Own(c)
<1>1. UNCHANGED <<files, cloud>>
  BY DEF StatDirectory, ChangeMode, ReadPower, ReadTransaction, WaitPanics, GiveUpWait,
         GrabPublicIP, Connect, WinRMCredentialsMissing, Provision, GetBlockDevices,
         FindImage, CopyImage, NoInstanceToDestroy, ListKeyFiles, Finish, Cancel
<1>2. \E r : Becomes(c, r)
  <2>1. CASE \/ StatDirectory(c) \/ ReadPower(c) \/ ReadTransaction(c)
    BY <2>1 DEF StatDirectory, ReadPower, ReadTransaction
  <2>2. CASE ChangeMode(c)
    BY <2>2 DEF ChangeMode
  <2>3. CASE WaitPanics(c) \/ GiveUpWait(c) \/ Connect(c) \/ WinRMCredentialsMissing(c)
    BY <2>3 DEF WaitPanics, GiveUpWait, Connect, WinRMCredentialsMissing
  <2>4. CASE GrabPublicIP(c) \/ Provision(c) \/ GetBlockDevices(c) \/ FindImage(c)
    BY <2>4 DEF GrabPublicIP, Provision, GetBlockDevices, FindImage
  <2>5. CASE \/ CopyImage(c) \/ NoInstanceToDestroy(c) \/ ListKeyFiles(c) \/ Finish(c)
             \/ Cancel(c)
    BY <2>5 DEF CopyImage, NoInstanceToDestroy, ListKeyFiles, KeyDirectoryStays, Finish, Cancel
  <2> QED BY <2>1, <2>2, <2>3, <2>4, <2>5
<1>3. (run' \in [Builds -> Runs] \/ run'[c] \notin Runs) /\ One(run, run', c)
  BY <1>2, OwnRun
<1>4. UNCHANGED dir /\ UNCHANGED id_rsa /\ UNCHANGED id_rsa_pub /\ UNCHANGED inventory
      /\ UNCHANGED guest /\ UNCHANGED key /\ UNCHANGED image
  BY <1>1 DEF files, keyFiles, cloud
<1> QED BY <1>3, <1>4, OwnRest DEF Own

\* Steps that change the files.
LEMMA OwnFiles ==
    ASSUME TypeOK, NEW c \in Builds,
           \/ MakeDirectory(c) \/ WritePrivateKey(c) \/ WritePublicKey(c)
           \/ OpenInventory(c) \/ WriteInventory(c)
           \/ UnlinkKeyFile(c) \/ RemoveKeyDirectory(c)
    PROVE  Own(c)
<1>1. UNCHANGED guest /\ UNCHANGED key /\ UNCHANGED image
  BY DEF MakeDirectory, WritePrivateKey, WritePublicKey, OpenInventory, WriteInventory,
         UnlinkKeyFile, RemoveKeyDirectory, cloud
<1>2. dir' \in BOOLEAN /\ id_rsa' \in {id_rsa, c, Nobody} /\ id_rsa_pub' \in BOOLEAN
      /\ inventory' \in {inventory, c, Nobody}
  BY DEF MakeDirectory, WritePrivateKey, WritePublicKey, OpenInventory, WriteInventory,
         UnlinkKeyFile, RemoveKeyDirectory, keyFiles, TypeOK
<1>3. \E r : Becomes(c, r)
  BY DEF MakeDirectory, WritePrivateKey, WritePublicKey, OpenInventory, WriteInventory,
         UnlinkKeyFile, RemoveKeyDirectory, KeyDirectoryStays
<1>4. (run' \in [Builds -> Runs] \/ run'[c] \notin Runs) /\ One(run, run', c)
  BY <1>3, OwnRun
<1> QED BY <1>1, <1>2, <1>4, OwnRest DEF Own

\* Steps that change what a build has in the cloud.
LEMMA OwnRequests ==
    ASSUME TypeOK, NEW c \in Builds,
           \/ UploadSshKey(c) \/ CreateInstance(c) \/ CaptureStandardImage(c)
           \/ DestroyInstance(c) \/ DestroySshKey(c) \/ CloudMoves(c)
    PROVE  Own(c)
<1>0. /\ guest[c] \in GuestStatus
      /\ {"deploying", "booting", "running", "archiving", "halted", "gone"} \subseteq GuestStatus
      /\ {"hidden", "listed", "complete", "failed"} \subseteq Listed \cup {"none", "hidden"}
  BY DEF TypeOK, GuestStatus, PowerOn, Busy, Listed
<1>1. UNCHANGED dir /\ UNCHANGED id_rsa /\ UNCHANGED id_rsa_pub /\ UNCHANGED inventory
  BY DEF UploadSshKey, CreateInstance, CaptureStandardImage, DestroyInstance, DestroySshKey,
         CloudMoves, files, keyFiles
<1>2. guest' \in [Builds -> GuestStatus] /\ One(guest, guest', c)
  <2>1. UNCHANGED guest \/ \E g \in GuestStatus : guest' = [guest EXCEPT ![c] = g]
    <3>1. CASE UploadSshKey(c) \/ CreateInstance(c) \/ CaptureStandardImage(c)
      BY <1>0, <3>1 DEF UploadSshKey, CreateInstance, CaptureStandardImage
    <3>2. CASE DestroyInstance(c) \/ DestroySshKey(c)
      BY <1>0, <3>2 DEF DestroyInstance, DestroySshKey
    <3>3. CASE CloudMoves(c)
      BY <1>0, <3>3 DEF CloudMoves
    <3> QED BY <3>1, <3>2, <3>3
  <2> QED BY <2>1, OwnRest, OwnCloud
<1>3. key' \in [Builds -> {"none", "exists", "gone"}] /\ One(key, key', c)
  <2>1. UNCHANGED key \/ \E k \in {"none", "exists", "gone"} : key' = [key EXCEPT ![c] = k]
    BY DEF UploadSshKey, CreateInstance, CaptureStandardImage, DestroyInstance, DestroySshKey,
           CloudMoves
  <2> QED BY <2>1, OwnRest, OwnCloud
<1>4. image' \in [Builds -> Listed \cup {"none", "hidden"}] /\ One(image, image', c)
  <2>1. \/ UNCHANGED image
        \/ \E i \in Listed \cup {"none", "hidden"} : image' = [image EXCEPT ![c] = i]
    BY <1>0 DEF UploadSshKey, CreateInstance, CaptureStandardImage, DestroyInstance,
                DestroySshKey, CloudMoves
  <2> QED BY <2>1, OwnRest, OwnCloud
<1>5. (run' \in [Builds -> Runs] \/ run'[c] \notin Runs) /\ One(run, run', c)
  <2>1. UNCHANGED run \/ \E r : Becomes(c, r)
    BY DEF UploadSshKey, CreateInstance, CaptureStandardImage, DestroyInstance, DestroySshKey,
           CloudMoves
  <2> QED BY <2>1, OwnRun, OwnRest
<1> QED BY <1>1, <1>2, <1>3, <1>4, <1>5, OwnRest DEF Own

\* A build's own step keeps its invariant.
LEMMA OwnInvariant ==
    ASSUME TypeOK, NEW c \in Builds, BuildInv(c),
           Build(c) \/ TimerFires(c) \/ Elsewhere(c)
    PROVE  UNCHANGED scenario /\ run'[c] \in Runs /\ BuildInv(c)' /\ Own(c)
<1>1. UNCHANGED scenario
  BY DEF Build, TimerFires, Elsewhere
<1>2. CASE Running(c)
  <2>1. run'[c] \in Runs /\ BuildInv(c)'
    BY <1>1, <1>2, KeyFileSteps, UploadStep, CreateStep, WaitSteps, ConnectSteps, CaptureSteps
       DEF Running, KeyFileAction, ConnectAction
  <2>2. Own(c)
    BY <1>2, OwnSteps, OwnFiles, OwnRequests DEF Running
  <2> QED BY <1>1, <2>1, <2>2
<1>3. CASE Unwinding(c)
  <2>1. run'[c] \in Runs /\ BuildInv(c)'
    BY <1>1, <1>3, InstanceCleanup, KeyCleanup, FinishStep DEF Unwinding, KeyCleanupAction
  <2>2. Own(c)
    BY <1>3, OwnSteps, OwnFiles, OwnRequests DEF Unwinding
  <2> QED BY <1>1, <2>1, <2>2
<1>4. CASE GiveUpWait(c) \/ Cancel(c) \/ CloudMoves(c)
  <2>1. run'[c] \in Runs /\ BuildInv(c)'
    BY <1>1, <1>4, WaitSteps, CancelStep, CloudStep
  <2>2. Own(c)
    BY <1>4, OwnSteps, OwnRequests
  <2> QED BY <1>1, <2>1, <2>2
<1> QED BY <1>2, <1>3, <1>4 DEF Build, TimerFires, Elsewhere

\* And the other builds' invariants.
LEMMA OthersInvariant ==
    ASSUME TypeOK, NEW c \in Builds, NEW b \in Builds \ {c}, BuildInv(b),
           UNCHANGED scenario, Own(c)
    PROVE  BuildInv(b)'
<1>1. run'[b] = run[b] /\ guest'[b] = guest[b] /\ key'[b] = key[b] /\ image'[b] = image[b]
  BY DEF Own, One
<1>2. id_rsa' = b => id_rsa = b
  BY ClassicAssumption DEF Own
<1>3. run[b] \in Runs
  BY RunType
<1>4. Same([run[b] EXCEPT !.cancelled = run[b].cancelled], run[b])
  BY <1>3 DEF Same, Runs
<1> QED BY <1>1, <1>2, <1>3, <1>4, Unmoved

-----------------------------------------------------------------------------
(* The theorems. *)

\* A run starts in its first step, or at its end if it has none.
LEMMA InitIInv == Init => IInv
<1> SUFFICES ASSUME Init PROVE IInv
  OBVIOUS
<1>1. ASSUME NEW b \in Builds
      PROVE  run[b] \in Runs /\ BuildInv(b)
  <2> DEFINE r == run[b]
  <2>1. r = Fresh(b) /\ guest[b] = "none" /\ key[b] = "none" /\ image[b] = "none"
        /\ id_rsa # b
    BY ClassicAssumption DEF Init
  <2>2. CASE IsSsh(b) \/ IsWinRM(b)
    <3>1. Steps(b) # <<>> /\ 1 \in 1..7
      BY <2>2, StepsAndCleanups
    <3>2. Steps(b)[1] \in StepNames /\ StepOf(Steps(b)[1]) = Steps(b)[1]
      BY <2>2, <3>1, StepsArePoints
    <3>3. /\ r.pc = Steps(b)[1] /\ r.step = 1 /\ ~r.panicking /\ r.told = {} /\ r.lost = {}
          /\ r.result = "none" /\ ~r.instance /\ ~r.key_id /\ r.image_id = Nobody
      BY <2>1, <3>1 DEF Fresh
    <3>4. r \in Runs
      BY <2>1, <3>1, <3>2 DEF Fresh, Runs, Points
    <3>5. r.pc \notin CleanupPoints \cup Relieved \cup InnerPoints \cup {"returned"}
          /\ r.pc \in StepPoints
      BY <3>2, <3>3 DEF StepNames, CleanupPoints, Relieved, InnerPoints, StepPoints
    <3>6. Position(b)
      BY <2>2, <3>1, <3>2, <3>3, <3>5 DEF Position, CleanupPoints
    <3>7. InstanceKept(b) /\ KeyKept(b)
      BY <2>1, <3>3, <3>5 DEF InstanceKept, KeyKept, Stands, First
    <3>8. ImageKept(b) /\ Justified(b) /\ DestroyTold(b)
      BY <2>1, <3>3, <3>5, ClassicAssumption
         DEF ImageKept, Justified, DestroyTold, At, CleanupPoints, InnerPoints
    <3> QED BY <3>4, <3>6, <3>7, <3>8 DEF BuildInv
  <2>3. CASE ~IsSsh(b) /\ ~IsWinRM(b)
    <3>1. Steps(b) = <<>>
      BY <2>3 DEF Steps, IsSsh, IsWinRM
    <3>2. /\ r.pc = "finish" /\ ~r.panicking /\ r.told = {} /\ r.lost = {}
          /\ r.result = "none" /\ ~r.instance /\ ~r.key_id /\ r.image_id = Nobody
      BY <2>1, <3>1 DEF Fresh
    <3>3. r \in Runs
      BY <2>1, <3>1 DEF Fresh, Runs, Points, CleanupPoints
    <3>4. r.pc \notin StepPoints
      BY <3>2 DEF StepNames, InnerPoints, StepPoints
    <3>5. Position(b) /\ InstanceKept(b) /\ KeyKept(b)
      BY <2>1, <3>2, <3>4 DEF Position, InstanceKept, KeyKept, Stands
    <3>6. ImageKept(b) /\ Justified(b) /\ DestroyTold(b)
      BY <2>1, <3>1, <3>2, <3>4, ClassicAssumption DEF ImageKept, Justified, DestroyTold, At
    <3> QED BY <3>3, <3>5, <3>6 DEF BuildInv
  <2> QED BY <2>2, <2>3
<1>2. TypeOK
  <2>1. run \in [Builds -> Runs]
    BY <1>1 DEF Init
  <2> QED BY <2>1 DEF Init, TypeOK, GuestStatus
<1> QED BY <1>1, <1>2 DEF IInv

\* Every step keeps the invariant.
LEMMA NextIInv == IInv /\ [Next]_vars => IInv'
<1> SUFFICES ASSUME IInv, [Next]_vars PROVE IInv'
  OBVIOUS
<1>0. TypeOK /\ \A b \in Builds : BuildInv(b)
  BY DEF IInv
<1>1. CASE UNCHANGED vars
  BY <1>0, <1>1 DEF IInv, vars, files, keyFiles, cloud, TypeOK, BuildInv, Position, InstanceKept,
     KeyKept, ImageKept, Justified, DestroyTold, IsSsh, IsWinRM, Steps, First, name, May,
     Stands, Done, At, SshSteps, WinRMSteps
<1>2. ASSUME NEW c \in Builds, Build(c) \/ TimerFires(c) \/ Elsewhere(c)
      PROVE  IInv'
  <2>1. UNCHANGED scenario /\ run'[c] \in Runs /\ BuildInv(c)' /\ Own(c)
    BY <1>0, <1>2, OwnInvariant
  <2>2. TypeOK'
    BY <1>0, <2>1 DEF TypeOK, Own
  <2>3. \A b \in Builds : BuildInv(b)'
    BY <1>0, <2>1, OthersInvariant
  <2> QED BY <2>2, <2>3 DEF IInv
<1> QED BY <1>1, <1>2 DEF Next, Rest

\* The inductive invariant.
THEOREM Invariance == Spec => []IInv
BY InitIInv, NextIInv, PTL DEF Spec

\* The variables keep their types.
THEOREM TypeCorrect == Spec => []TypeOK
<1>1. IInv => TypeOK
  BY DEF IInv
<1> QED BY <1>1, Invariance, PTL

\* A run returns an artifact only when its capture is over, and then it names
\* the run's image or one of the same name.
THEOREM ArtifactIsImage == Spec => []ArtifactContract
<1>1. IInv => ArtifactContract
  <2>0. IInv => \A b \in Builds : run[b].result = "nothing" => run[b].cancelled \/ Steps(b) = <<>>
    BY DEF IInv, BuildInv, Position, Justified
  <2> SUFFICES ASSUME IInv, NEW b \in Builds, run[b].result = "artifact"
               PROVE  /\ run[b].error = "none"
                      /\ image[b] = "complete" \/ (image[b] = "failed" /\ May("archive"))
                      /\ \/ run[b].image_id = b
                         \/ name(b) \in scenario.taken
                         \/ \E c \in Builds \ {b} : name(c) = name(b)
    BY <2>0 DEF ArtifactContract
  <2> DEFINE r == run[b]
  <2>1. Position(b) /\ ImageKept(b) /\ r \in Runs
    BY RunType DEF IInv, BuildInv
  <2>2. r.pc = "returned"
    BY <2>1 DEF Position
  <2>3. r.error = "none" /\ r.image_id # Nobody
    BY <2>1, <2>2 DEF Position
  <2>4. PICK i : i = r.image_id
    OBVIOUS
  <2>5. i \in Builds \cup {Earlier}
    BY <2>1, <2>3, <2>4 DEF Runs
  <2>6. i = b \/ name(b) \in scenario.taken \/ \E c \in Builds \ {b} : name(c) = name(b)
    BY <2>1, <2>4, <2>5 DEF ImageKept
  <2>7. r.pc \notin {"captureImage.wait", "killed"} /\ ~r.panicking
    BY <2>1, <2>2 DEF Position
  <2>8. Done(b)
    BY <2>1, <2>3, <2>7 DEF ImageKept
  <2> QED BY <2>1, <2>3, <2>4, <2>6, <2>8 DEF Done, ImageKept
<1> QED BY <1>1, Invariance, PTL

\* No instance and no key outlives a run silently.
THEOREM NothingIsSilent == Spec => []NothingLeftSilently
<1>1. IInv => NothingLeftSilently
  BY DEF IInv, BuildInv, InstanceKept, KeyKept, NothingLeftSilently, CleanedUp, Relieved, Stands
<1> QED BY <1>1, Invariance, PTL

\* The Cleanup waits for the transaction, or says that it did not.
THEOREM DestructionWaits == Spec => []DestroyWaits
<1>1. IInv => DestroyWaits
  BY DEF IInv, BuildInv, DestroyTold, DestroyWaits
<1> QED BY <1>1, Invariance, PTL

\* A private key that stays is one that was never uploaded, or an error.
THEOREM KeyRemoved == Spec => []NoPrivateKeyLeft
<1>1. IInv => NoPrivateKeyLeft
  BY DEF IInv, BuildInv, Position, KeyKept, NoPrivateKeyLeft
<1> QED BY <1>1, Invariance, PTL

-----------------------------------------------------------------------------
(* Builds side by side with nothing going wrong.  What a build reads of the *)
(* files it relies on later, and only the other builds change it in between: *)
(* the SSH builds the key files, all of them the inventory.                 *)

Calm == scenario.faults \subseteq {"cancel", "hang"}

\* Another build shares the directory.
Shared(b) == SshBuilds \ {b} # {}

KeyErrors ==
    {"createSshKey.mkdir", "createSshKey.private", "createSshKey.chmod",
     "createSshKey.public", "createSshKey.chmodpub", "clean.keydir"}

\* The errors a build may end with when nothing goes wrong.
Excused(b, e) ==
    \/ e \in {"none", "waitforInstance", "captureImage.wait", "captureImage.find"}
    \/ e = "createInstance" /\ ~Complete(scenario.template[b].given)
    \/ e = "StepProvision" /\ scenario.inventory /\ Neighbours(b) # {}
    \/ e \in KeyErrors /\ Shared(b)

\* The machine it may have provisioned.
Proper(b, h) == h \in {Nobody, b} \/ (scenario.inventory /\ h \in Neighbours(b))

\* Alone in the directory, a build finds there what it left there, and lists
\* all there is.
KeysHere(b) ==
    ~Shared(b) =>
        /\ At(b, "createSshKey.mkdir") => ~dir
        /\ run[b].pc \in KeyErrors \ {"createSshKey.mkdir", "clean.keydir"} => dir
        /\ At(b, "createSshKey.chmod") => id_rsa # Nobody
        /\ At(b, "createSshKey.chmodpub") => id_rsa_pub
        /\ At(b, "clean.unlink") => Present \subseteq run[b].names

\* The inventory is not an earlier run's, and alone it is the build's own.
Written(b) ==
    scenario.inventory =>
        /\ inventory # Earlier
        /\ Neighbours(b) = {} => inventory = b

\* In a step after the one that writes it.
Beyond(b) == run[b].pc \in StepPoints /\ run[b].step > Grab(b)

AddressHere(b) ==
    /\ run[b].pc \in {"grabPublicIP.open", "grabPublicIP.write"} => run[b].address
    /\ At(b, "grabPublicIP.write") /\ Neighbours(b) = {} => inventory = Nobody
    /\ Beyond(b) => run[b].address /\ Written(b)

Undisturbed(b) ==
    /\ Excused(b, run[b].error) /\ Proper(b, run[b].host)
    /\ KeysHere(b) /\ AddressHere(b)

\* Whoever is in the inventory has steps.
Writers == inventory \in Builds => Steps(inventory) # <<>>

FilesInv == IInv /\ Writers /\ (Calm => \A b \in Builds : Undisturbed(b))

\* Who shares the files is given with the templates.
LEMMA GivenCompany ==
    ASSUME UNCHANGED scenario
    PROVE  /\ \A b : Shared(b)' = Shared(b) /\ Neighbours(b)' = Neighbours(b)
           /\ \A b : Grab(b)' = Grab(b)
           /\ \A b, e : Excused(b, e)' = Excused(b, e)
           /\ \A b, h : Proper(b, h)' = Proper(b, h)
<1>1. \A b : Steps(b)' = Steps(b)
  BY DEF Steps, SshSteps, WinRMSteps
<1>2. \A b : Neighbours(b)' = Neighbours(b)
  BY <1>1 DEF Neighbours
<1>3. \A b : Shared(b)' = Shared(b) /\ Grab(b)' = Grab(b)
  BY DEF Shared, SshBuilds, Grab, IsSsh
<1>4. \A b, e : Excused(b, e)' = Excused(b, e)
  BY <1>2, <1>3 DEF Excused, Complete, KeyErrors
<1>5. \A b, h : Proper(b, h)' = Proper(b, h)
  BY <1>2 DEF Proper
<1> QED BY <1>2, <1>3, <1>4, <1>5

\* The points that rest on the key files.
Resting == (KeyErrors \ {"clean.keydir"}) \cup {"clean.unlink"}

\* A run that comes to another one.
LEMMA RestsOnNoKey ==
    ASSUME NEW b, run'[b].pc \notin Resting
    PROVE  KeysHere(b)'
BY DEF KeysHere, At, Resting, KeyErrors

\* A run that keeps its error, or has one that is excused, and its machine.
LEMMA Settles ==
    ASSUME UNCHANGED scenario, NEW b, Undisturbed(b),
           run'[b].error = run[b].error \/ Excused(b, run'[b].error),
           run'[b].host = run[b].host \/ Proper(b, run'[b].host),
           KeysHere(b)', AddressHere(b)'
    PROVE  Undisturbed(b)'
<1>1. Excused(b, run'[b].error) /\ Proper(b, run'[b].host)
  BY DEF Undisturbed
<1>2. Excused(b, run[b].error)' /\ Proper(b, run[b].host)'
  BY <1>1, GivenCompany DEF Excused, Proper, Complete
<1> QED BY <1>2 DEF Undisturbed

\* Where the step that writes the inventory is, and those that rely on it.
LEMMA PlaceOfGrab ==
    ASSUME NEW b \in Builds, BuildInv(b), run[b].pc \in StepPoints
    PROVE  /\ IsSsh(b) \/ IsWinRM(b)
           /\ run[b].step \in 1..7 /\ Grab(b) \in 1..7
           /\ StepOf(run[b].pc) = "grabPublicIP" <=> run[b].step = Grab(b)
           /\ run[b].pc \in {"StepConnect", "StepProvision"} => run[b].step > Grab(b)
<1>1. /\ IsSsh(b) \/ IsWinRM(b)
      /\ run[b].step \in 1..7 /\ Steps(b)[run[b].step] = StepOf(run[b].pc)
  BY DEF BuildInv, Position
<1>2. Grab(b) \in 1..7
  BY DEF Grab
<1>3. StepOf(run[b].pc) = "grabPublicIP" <=> run[b].step = Grab(b)
  BY <1>1, StepsArePoints
<1>4. ASSUME run[b].pc \in {"StepConnect", "StepProvision"} PROVE run[b].step > Grab(b)
  <2>1. StepOf(run[b].pc) = run[b].pc
    BY <1>4, PointsOfSteps
  <2>2. PICK n \in 1..7 : n = run[b].step
    BY <1>1
  <2>3. CASE IsSsh(b)
    <3>1. Steps(b) = SshSteps /\ Grab(b) = 4
      BY <2>3 DEF Steps, IsSsh, Grab
    <3>2. SshSteps[n] \in {"StepConnect", "StepProvision"}
      BY <1>1, <1>4, <2>1, <2>2, <3>1
    <3> QED BY <2>2, <3>1, <3>2 DEF SshSteps
  <2>4. CASE ~IsSsh(b)
    <3>1. Steps(b) = WinRMSteps /\ Grab(b) = 3
      BY <1>1, <2>4 DEF Steps, IsSsh, IsWinRM, Grab
    <3>2. WinRMSteps[n] \in {"StepConnect", "StepProvision"}
      BY <1>1, <1>4, <2>1, <2>2, <3>1
    <3> QED BY <2>2, <3>1, <3>2 DEF WinRMSteps
  <2> QED BY <2>3, <2>4
<1> QED BY <1>1, <1>2, <1>3, <1>4

\* A run that is unwound is at no point of a step, and rests on no key file.
LEMMA UnwoundQuietly ==
    ASSUME NEW b, NEW r \in Runs, IsSsh(b) \/ IsWinRM(b), r.step \in 1..7
    PROVE  /\ Halted(b, r).pc \notin Resting \cup StepPoints
           /\ Halted(b, r).error = r.error /\ Halted(b, r).host = r.host
           /\ Failed(b, r).pc \notin Resting \cup StepPoints
           /\ Failed(b, r).error = r.pc /\ Failed(b, r).host = r.host
<1>1. HaltPoint(b, r.step) \notin Resting \cup StepPoints
  BY DEF HaltPoint, Resting, KeyErrors, StepPoints, StepNames, InnerPoints
<1>2. /\ Halted(b, r).pc = HaltPoint(b, r.step) /\ Halted(b, r).error = r.error
      /\ Halted(b, r).host = r.host
  BY Halting DEF Same
<1>3. /\ Failed(b, r).pc = HaltPoint(b, r.step) /\ Failed(b, r).error = r.pc
      /\ Failed(b, r).host = r.host
  <2>1. Same(Failed(b, r), [r EXCEPT !.error = r.pc])
    BY Failing
  <2>2. [r EXCEPT !.error = r.pc].host = r.host
    BY DEF Runs
  <2> QED BY <2>1, <2>2, Failing DEF Same
<1> QED BY <1>1, <1>2, <1>3

\* A run that goes on enters the next step.
LEMMA GoesOnQuietly ==
    ASSUME NEW b, NEW r \in Runs, IsSsh(b) \/ IsWinRM(b), r.step \in 1..7
    PROVE  /\ Continued(b, r).error = r.error /\ Continued(b, r).host = r.host
           /\ Continued(b, r).pc \notin Resting
           /\ \/ Continued(b, r).pc \notin StepPoints
              \/ /\ Continued(b, r).pc \in StepNames /\ Continued(b, r).address = r.address
                 /\ Continued(b, r).step = r.step + 1
<1>1. CASE r.cancelled \/ r.step = 7
  <2>1. Continued(b, r) = Halted(b, r)
    BY <1>1, Continuing, Zenon
  <2> QED BY <2>1, UnwoundQuietly
<1>2. CASE ~(r.cancelled \/ r.step = 7)
  <2> DEFINE p == Steps(b)[r.step + 1]
             n == r.step + 1
  <2>1. \A m \in 1..7 : m # 7 => m + 1 \in 1..7
    OBVIOUS
  <2>2. n \in 1..7
    BY <1>2, <2>1, Zenon
  <2>3. p \in StepNames
    BY <2>2, StepsArePoints, Zenon
  <2>4. p \notin Resting
    BY <2>3 DEF StepNames, Resting, KeyErrors
  <2>5. Continued(b, r) = [r EXCEPT !.pc = p, !.step = n, !.power = "unread"]
    BY <1>2, StepsAndCleanups DEF Continued
  <2> HIDE DEF p, n
  <2>6. /\ Continued(b, r).error = r.error /\ Continued(b, r).pc = p
        /\ Continued(b, r).host = r.host /\ Continued(b, r).step = n
        /\ Continued(b, r).address = r.address
    BY <2>5 DEF Runs
  <2> QED BY <2>3, <2>4, <2>6 DEF n
<1> QED BY <1>1, <1>2

\* Only an SSH build is at the points that change the key files.
LEMMA KeyPointsAreSsh ==
    ASSUME NEW b, BuildInv(b),
           run[b].pc \in KeyFilePoints \cup {"clean.keydir", "clean.unlink"}
    PROVE  IsSsh(b)
<1>1. Position(b)
  BY DEF BuildInv
<1>2. CASE run[b].pc \in {"clean.keydir", "clean.unlink"}
  BY <1>1, <1>2 DEF Position
<1>3. CASE run[b].pc \in KeyFilePoints
  <2>1. run[b].pc \in StepPoints /\ StepOf(run[b].pc) = "createSshKey"
    BY <1>3, PointsOfSteps DEF KeyFilePoints
  <2>2. run[b].step \in 1..7 /\ Steps(b)[run[b].step] = "createSshKey"
        /\ (IsSsh(b) \/ IsWinRM(b))
    BY <1>1, <2>1 DEF Position
  <2> QED BY <2>2, StepsArePoints
<1> QED BY <1>2, <1>3

\* Nothing of the requests that are answered, of the assertions and of the files
\* goes wrong.
LEMMA NothingWrong ==
    ASSUME Calm
    PROVE  /\ ~May("api") /\ ~May("lost") /\ ~May("shape") /\ ~May("timeout")
           /\ ~May("local") /\ ~May("cleanup")
BY DEF Calm, May

\* The address is known, and written, in the steps that rely on it.
LEMMA AddressKept ==
    ASSUME UNCHANGED <<scenario, inventory>>, NEW b \in Builds, BuildInv(b),
           Undisturbed(b),
           \/ run'[b].pc \notin StepPoints
           \/ /\ run[b].pc \in StepPoints
              /\ run'[b].pc \notin {"grabPublicIP.open", "grabPublicIP.write"}
              /\ run'[b].address = run[b].address
              /\ \/ run'[b].step = run[b].step
                 \/ /\ run'[b].step = run[b].step + 1
                    /\ StepOf(run[b].pc) # "grabPublicIP"
    PROVE  AddressHere(b)'
<1>1. AddressHere(b)
  BY DEF Undisturbed
<1>2. Grab(b)' = Grab(b) /\ (Written(b) => Written(b)')
  <2>1. Neighbours(b)' = Neighbours(b) /\ Grab(b)' = Grab(b)
    BY GivenCompany
  <2> QED BY <2>1 DEF Written
<1>3. CASE run'[b].pc \notin StepPoints
  <2>1. {"grabPublicIP.open", "grabPublicIP.write"} \subseteq StepPoints /\ StepPoints' = StepPoints
    BY PointsOfSteps DEF StepPoints, StepNames, InnerPoints
  <2> QED BY <1>3, <2>1 DEF AddressHere, Beyond, At
<1>4. CASE run[b].pc \in StepPoints /\ run'[b].pc \notin {"grabPublicIP.open", "grabPublicIP.write"}
           /\ run'[b].address = run[b].address
           /\ \/ run'[b].step = run[b].step
              \/ run'[b].step = run[b].step + 1 /\ StepOf(run[b].pc) # "grabPublicIP"
  <2>1. /\ run[b].step \in 1..7 /\ Grab(b) \in 1..7
        /\ StepOf(run[b].pc) = "grabPublicIP" <=> run[b].step = Grab(b)
    BY <1>4, PlaceOfGrab
  <2>2. run'[b].step > Grab(b) => run[b].step > Grab(b)
    BY <1>4, <2>1
  <2>3. Beyond(b)' => Beyond(b)
    BY <1>2, <1>4, <2>2 DEF Beyond
  <2> QED BY <1>1, <1>2, <1>4, <2>3 DEF AddressHere, At
<1> QED BY <1>3, <1>4

\* A step that fails for a reason that is excused.
LEMMA FailsExcused ==
    ASSUME TypeOK, NEW b \in Builds, BuildInv(b), UNCHANGED <<scenario, inventory>>,
           Undisturbed(b), run[b].pc \in StepPoints, Excused(b, run[b].pc),
           NEW x \in Runs, x.pc = run[b].pc, x.step = run[b].step, Proper(b, x.host),
           run'[b] = Failed(b, x)
    PROVE  Undisturbed(b)'
<1>1. (IsSsh(b) \/ IsWinRM(b)) /\ x.step \in 1..7
  BY DEF BuildInv, Position
<1>2. /\ run'[b].pc \notin Resting \cup StepPoints /\ run'[b].error = run[b].pc
      /\ run'[b].host = x.host
  BY <1>1, UnwoundQuietly
<1>3. KeysHere(b)' /\ AddressHere(b)'
  BY <1>2, RestsOnNoKey, AddressKept
<1> QED BY <1>2, <1>3, Settles

\* What goes on, halts or moves inside a step that writes no inventory.
LEMMA StepAlone ==
    ASSUME TypeOK, NEW b \in Builds, BuildInv(b), UNCHANGED <<scenario, inventory>>,
           Undisturbed(b), run[b].pc \in StepPoints,
           NEW x \in Runs, x.step = run[b].step, x.error = run[b].error,
           x.address = run[b].address, Proper(b, x.host),
           \/ run'[b] = Halted(b, x)
           \/ run'[b] = Continued(b, x) /\ StepOf(run[b].pc) # "grabPublicIP"
           \/ /\ \E p \in Points : run'[b] = To(x, p)
              /\ run'[b].pc \notin Resting \cup {"grabPublicIP.open", "grabPublicIP.write"}
    PROVE  Undisturbed(b)'
<1>1. (IsSsh(b) \/ IsWinRM(b)) /\ x.step \in 1..7
  BY DEF BuildInv, Position
<1>2. CASE run'[b] = Halted(b, x)
  <2>1. /\ run'[b].pc \notin Resting \cup StepPoints
        /\ run'[b].error = run[b].error /\ run'[b].host = x.host
    BY <1>1, <1>2, UnwoundQuietly
  <2>2. KeysHere(b)' /\ AddressHere(b)'
    BY <2>1, RestsOnNoKey, AddressKept
  <2> QED BY <2>1, <2>2, Settles
<1>3. CASE run'[b] = Continued(b, x) /\ StepOf(run[b].pc) # "grabPublicIP"
  <2>1. /\ run'[b].error = run[b].error /\ run'[b].host = x.host /\ run'[b].pc \notin Resting
        /\ \/ run'[b].pc \notin StepPoints
           \/ /\ run'[b].pc \in StepNames /\ run'[b].address = run[b].address
              /\ run'[b].step = run[b].step + 1
    BY <1>1, <1>3, GoesOnQuietly
  <2>2. {"grabPublicIP.open", "grabPublicIP.write"} \cap StepNames = {}
    BY DEF StepNames
  <2>3. KeysHere(b)' /\ AddressHere(b)'
    BY <1>3, <2>1, <2>2, RestsOnNoKey, AddressKept
  <2> QED BY <2>1, <2>3, Settles
<1>4. CASE /\ \E p \in Points : run'[b] = To(x, p)
           /\ run'[b].pc \notin Resting \cup {"grabPublicIP.open", "grabPublicIP.write"}
  <2>1. PICK p \in Points : run'[b] = To(x, p)
    BY <1>4
  <2>2. /\ run'[b].step = run[b].step /\ run'[b].error = run[b].error
        /\ run'[b].host = x.host /\ run'[b].address = run[b].address
    BY <2>1, GoingTo DEF Same
  <2>3. KeysHere(b)' /\ AddressHere(b)'
    BY <1>4, <2>2, RestsOnNoKey, AddressKept
  <2> QED BY <2>2, <2>3, Settles
<1> QED BY <1>2, <1>3, <1>4

\* Among the points of the key files.
LEMMA MovesAmongKeyFiles ==
    ASSUME TypeOK, NEW b \in Builds, BuildInv(b), UNCHANGED <<scenario, inventory>>,
           Undisturbed(b), run[b].pc \in KeyFilePoints,
           NEW p \in KeyFilePoints, run'[b] = To(run[b], p), KeysHere(b)'
    PROVE  Undisturbed(b)'
<1>1. /\ run[b].pc \in StepPoints /\ p \in Points
      /\ p \notin {"grabPublicIP.open", "grabPublicIP.write"}
  BY PointsOfSteps DEF KeyFilePoints, Points, StepPoints
<1>2. /\ run'[b].pc = p /\ run'[b].step = run[b].step /\ run'[b].error = run[b].error
      /\ run'[b].host = run[b].host /\ run'[b].address = run[b].address
  BY <1>1, RunType, GoingTo DEF Same
<1>3. AddressHere(b)'
  BY <1>1, <1>2, AddressKept
<1> QED BY <1>2, <1>3, Settles

\* The key files: alone in the directory, a build finds it as it left it.
LEMMA KeyFilesAlone ==
    ASSUME TypeOK, NEW b \in Builds, BuildInv(b), UNCHANGED scenario, Calm, Undisturbed(b),
           KeyFileAction(b)
    PROVE  Undisturbed(b)'
<1> DEFINE r == run[b]
<1>1. r \in Runs /\ ~May("local") /\ Proper(b, r.host) /\ KeysHere(b) /\ Shared(b)' = Shared(b)
  BY RunType, NothingWrong, GivenCompany DEF Undisturbed
<1>2. UNCHANGED <<scenario, inventory>>
  BY DEF KeyFileAction, StatDirectory, MakeDirectory, WritePrivateKey, WritePublicKey,
         ChangeMode, files
<1>3. r.pc \in KeyFilePoints /\ r.pc \in StepPoints
  BY PointsOfSteps DEF KeyFileAction, StatDirectory, MakeDirectory, WritePrivateKey,
     WritePublicKey, ChangeMode, At, KeyFilePoints
<1>4. ASSUME run'[b] = Failed(b, r), r.pc \in KeyErrors, Shared(b)
      PROVE  Undisturbed(b)'
  BY <1>1, <1>2, <1>3, <1>4, FailsExcused DEF Excused
<1>5. ASSUME NEW p \in KeyFilePoints, run'[b] = To(r, p), KeysHere(b)'
      PROVE  Undisturbed(b)'
  BY <1>2, <1>3, <1>5, MovesAmongKeyFiles
<1>6. \A p \in KeyFilePoints : To(r, p).pc = p
  <2>1. KeyFilePoints \subseteq Points
    BY DEF KeyFilePoints, Points, StepNames, InnerPoints
  <2> QED BY <1>1, <2>1, GoingTo
<1>7. CASE StatDirectory(b)
  <2>1. dir' = dir /\ run'[b] = To(r, IF dir THEN "createSshKey.private"
                                             ELSE "createSshKey.mkdir")
    BY <1>7, Becoming DEF StatDirectory, files, keyFiles
  <2>2. {"createSshKey.private", "createSshKey.mkdir"} \subseteq KeyFilePoints
    BY DEF KeyFilePoints
  <2>3. KeysHere(b)'
    BY <1>6, <2>1, <2>2 DEF KeysHere, At, KeyErrors
  <2> QED BY <1>5, <2>1, <2>2, <2>3
<1>8. CASE MakeDirectory(b)
  <2>1. r.pc = "createSshKey.mkdir" /\ "createSshKey.private" \in KeyFilePoints
    BY <1>8 DEF MakeDirectory, At, KeyFilePoints
  <2>2. CASE dir /\ run'[b] = Failed(b, r)
    BY <1>1, <1>4, <2>1, <2>2 DEF KeysHere, At, KeyErrors
  <2>3. CASE dir' /\ run'[b] = To(r, "createSshKey.private")
    <3>1. KeysHere(b)'
      BY <1>6, <2>1, <2>3 DEF KeysHere, At
    <3> QED BY <1>5, <2>1, <2>3, <3>1
  <2> QED BY <1>1, <1>8, <2>2, <2>3, Becoming DEF MakeDirectory
<1>9. CASE WritePrivateKey(b)
  <2>1. r.pc = "createSshKey.private" /\ "createSshKey.chmod" \in KeyFilePoints
        /\ dir' = dir
    BY <1>9 DEF WritePrivateKey, At, KeyFilePoints
  <2>2. CASE ~dir /\ run'[b] = Failed(b, r)
    BY <1>1, <1>4, <2>1, <2>2 DEF KeysHere, At, KeyErrors
  <2>3. CASE dir /\ id_rsa' = b /\ run'[b] = To(r, "createSshKey.chmod")
    <3>1. KeysHere(b)'
      BY <1>6, <2>1, <2>3, ClassicAssumption DEF KeysHere, At
    <3> QED BY <1>5, <2>1, <2>3, <3>1
  <2> QED BY <1>1, <1>9, <2>2, <2>3, Becoming DEF WritePrivateKey
<1>10. CASE WritePublicKey(b)
  <2>1. r.pc = "createSshKey.public" /\ "createSshKey.chmodpub" \in KeyFilePoints
        /\ dir' = dir
    BY <1>10 DEF WritePublicKey, At, KeyFilePoints
  <2>2. CASE ~dir /\ run'[b] = Failed(b, r)
    BY <1>1, <1>4, <2>1, <2>2 DEF KeysHere, At, KeyErrors
  <2>3. CASE dir /\ id_rsa_pub' /\ run'[b] = To(r, "createSshKey.chmodpub")
    <3>1. KeysHere(b)'
      BY <1>6, <2>1, <2>3 DEF KeysHere, At
    <3> QED BY <1>5, <2>1, <2>3, <3>1
  <2> QED BY <1>1, <1>10, <2>2, <2>3, Becoming DEF WritePublicKey
<1>11. CASE ChangeMode(b)
  <2>1. UNCHANGED <<dir, id_rsa, id_rsa_pub>>
    BY <1>11 DEF ChangeMode, files, keyFiles
  <2>2. \/ r.pc = "createSshKey.chmod" /\ run'[b] = To(r, "createSshKey.public")
        \/ r.pc = "createSshKey.chmodpub" /\ run'[b] = To(r, "createSshKey.upload")
        \/ r.pc = "createSshKey.chmod" /\ id_rsa = Nobody /\ run'[b] = Failed(b, r)
        \/ r.pc = "createSshKey.chmodpub" /\ ~id_rsa_pub /\ run'[b] = Failed(b, r)
    BY <1>1, <1>11, Becoming DEF ChangeMode, KeyFiles, At, Present
  <2>3. {"createSshKey.public", "createSshKey.upload"} \subseteq KeyFilePoints
    BY DEF KeyFilePoints
  <2>4. CASE run'[b] = Failed(b, r)
             /\ \/ r.pc = "createSshKey.chmod" /\ id_rsa = Nobody
                \/ r.pc = "createSshKey.chmodpub" /\ ~id_rsa_pub
    BY <1>1, <1>4, <2>4 DEF KeysHere, At, KeyErrors
  <2>5. CASE r.pc = "createSshKey.chmod" /\ run'[b] = To(r, "createSshKey.public")
    <3>1. KeysHere(b)'
      BY <1>1, <1>6, <2>1, <2>3, <2>5 DEF KeysHere, At, KeyErrors
    <3> QED BY <1>5, <2>3, <2>5, <3>1
  <2>6. CASE r.pc = "createSshKey.chmodpub" /\ run'[b] = To(r, "createSshKey.upload")
    <3>1. KeysHere(b)'
      BY <1>6, <2>3, <2>6 DEF KeysHere, At, KeyErrors
    <3> QED BY <1>5, <2>3, <2>6, <3>1
  <2> QED BY <2>2, <2>4, <2>5, <2>6
<1> QED BY <1>7, <1>8, <1>9, <1>10, <1>11 DEF KeyFileAction

\* The request carries what the template gave of the settings the cloud needs.
LEMMA RequestIsComplete ==
    ASSUME TypeOK, NEW b \in Builds, Complete(scenario.template[b].given)
    PROVE  Complete(Request(scenario.template[b]))
<1> DEFINE t == scenario.template[b]
<1>1. Accepts(t, TRUE)
  BY ClassicAssumption DEF TypeOK
<1>2. "base_image_id" \in t.given <=> "base_os_code" \notin t.given
  BY <1>1 DEF Accepts
<1> QED BY <1>2 DEF Request, Complete

\* The requests for the key and the instance.
LEMMA RequestsAlone ==
    ASSUME TypeOK, NEW b \in Builds, BuildInv(b), UNCHANGED scenario, Calm, Undisturbed(b),
           UploadSshKey(b) \/ CreateInstance(b)
    PROVE  Undisturbed(b)'
<1> DEFINE r == run[b]
<1>1. r \in Runs /\ Proper(b, r.host)
  BY RunType DEF Undisturbed
<1>2. UNCHANGED <<scenario, inventory>>
  BY DEF UploadSshKey, CreateInstance, files
<1>3. r.pc \in {"createSshKey.upload", "createInstance"}
  BY DEF UploadSshKey, CreateInstance, At
<1>4. r.pc \in StepPoints /\ StepOf(r.pc) # "grabPublicIP"
  BY <1>3, PointsOfSteps
<1>5. ASSUME NEW x \in Runs, x.step = r.step, x.error = r.error, x.host = r.host,
             x.address = r.address, run'[b] = Continued(b, x)
      PROVE  Undisturbed(b)'
  BY <1>1, <1>2, <1>4, <1>5, StepAlone
<1>6. CASE UploadSshKey(b)
  <2> DEFINE x == [r EXCEPT !.key_id = TRUE]
  <2>1. run'[b] = Continued(b, x)
    BY <1>6, NothingWrong, Becoming DEF UploadSshKey
  <2>2. x \in Runs /\ x.step = r.step /\ x.error = r.error /\ x.host = r.host
        /\ x.address = r.address
    BY <1>1 DEF Runs
  <2> HIDE DEF x
  <2> QED BY <1>5, <2>1, <2>2
<1>7. CASE CreateInstance(b)
  <2> DEFINE x == [r EXCEPT !.instance = TRUE]
  <2>1. \/ run'[b] = Continued(b, x)
        \/ run'[b] = Failed(b, r) /\ ~Complete(Request(scenario.template[b]))
    BY <1>7, NothingWrong, Becoming DEF CreateInstance, MayLoseUserData
  <2>2. x \in Runs /\ x.step = r.step /\ x.error = r.error /\ x.host = r.host
        /\ x.address = r.address
    BY <1>1 DEF Runs
  <2> HIDE DEF x
  <2>3. CASE run'[b] = Failed(b, r) /\ ~Complete(Request(scenario.template[b]))
    <3>1. Excused(b, r.pc)
      BY <1>7, <2>3, RequestIsComplete DEF Excused, CreateInstance, At
    <3> QED BY <1>1, <1>2, <1>4, <2>3, <3>1, FailsExcused
  <2> QED BY <1>5, <2>1, <2>2, <2>3
<1> QED BY <1>6, <1>7

\* The waits.
LEMMA WaitsAlone ==
    ASSUME TypeOK, NEW b \in Builds, BuildInv(b), UNCHANGED scenario, Calm, Undisturbed(b),
           ReadPower(b) \/ ReadTransaction(b) \/ WaitPanics(b) \/ GiveUpWait(b)
    PROVE  Undisturbed(b)'
<1> DEFINE r == run[b]
<1>1. r \in Runs /\ Proper(b, r.host)
  BY RunType DEF Undisturbed
<1>2. UNCHANGED <<scenario, inventory>>
  BY DEF ReadPower, ReadTransaction, WaitPanics, GiveUpWait, files
<1>3. r.pc \in {"waitforInstance", "captureImage.wait", "clean.instance"}
  BY DEF ReadPower, ReadTransaction, WaitPanics, GiveUpWait, Waits, At
<1>4. r.pc # "clean.instance" =>
        r.pc \in StepPoints /\ StepOf(r.pc) # "grabPublicIP" /\ Excused(b, r.pc)
  BY <1>3, PointsOfSteps DEF Excused
<1>5. ASSUME NEW p \in {"waitforInstance", "captureImage.wait", "captureImage.copy",
                        "clean.instance", "clean.destroy"},
             run'[b].pc = p, p \in StepPoints => r.pc # "clean.instance",
             run'[b].error = r.error, run'[b].host = r.host, run'[b].address = r.address,
             run'[b].step = r.step
      PROVE  Undisturbed(b)'
  <2>1. p \notin Resting \cup {"grabPublicIP.open", "grabPublicIP.write"}
    BY DEF Resting, KeyErrors
  <2>2. KeysHere(b)' /\ AddressHere(b)'
    BY <1>2, <1>4, <1>5, <2>1, RestsOnNoKey, AddressKept
  <2> QED BY <1>5, <2>2, Settles
<1>6. {"clean.instance", "clean.destroy"} \cap StepPoints = {}
      /\ {"captureImage.copy", "clean.destroy"} \subseteq Points
  BY DEF StepPoints, StepNames, InnerPoints, Points, CleanupPoints
<1>7. ASSUME NEW v, run'[b] = [r EXCEPT !.power = v]
      PROVE  Undisturbed(b)'
  <2>1. /\ run'[b].pc = r.pc /\ run'[b].error = r.error /\ run'[b].host = r.host
        /\ run'[b].address = r.address /\ run'[b].step = r.step
    BY <1>1, <1>7 DEF Runs
  <2> QED BY <1>3, <1>5, <1>6, <2>1
<1>8. CASE ReadPower(b)
  BY <1>7, <1>8, Becoming DEF ReadPower
<1>9. CASE ReadTransaction(b)
  <2>1. \/ run'[b] = Continued(b, r) /\ r.pc # "clean.instance"
        \/ run'[b] = To(r, "captureImage.copy") /\ r.pc # "clean.instance"
        \/ run'[b] = To(r, "clean.destroy")
        \/ run'[b] = [r EXCEPT !.power = "unread"]
    BY <1>9, Becoming DEF ReadTransaction, Resumed, At
  <2>2. CASE run'[b] = Continued(b, r) /\ r.pc # "clean.instance"
    BY <1>1, <1>2, <1>4, <2>2, StepAlone
  <2>3. ASSUME NEW p \in {"captureImage.copy", "clean.destroy"}, run'[b] = To(r, p),
               p = "captureImage.copy" => r.pc # "clean.instance"
        PROVE  Undisturbed(b)'
    <3>1. /\ run'[b].pc = p /\ run'[b].error = r.error /\ run'[b].host = r.host
          /\ run'[b].address = r.address /\ run'[b].step = r.step
      BY <1>1, <1>6, <2>3, GoingTo DEF Same
    <3> QED BY <1>5, <1>6, <2>3, <3>1
  <2> QED BY <1>7, <2>1, <2>2, <2>3
<1>10. CASE WaitPanics(b)
  BY <1>10, NothingWrong DEF WaitPanics
<1>11. CASE GiveUpWait(b)
  <2> DEFINE x == [r EXCEPT !.told = @ \cup {"wait"}]
  <2>1. IF r.pc = "clean.instance" THEN run'[b] = To(x, "clean.destroy")
                                   ELSE run'[b] = Failed(b, r)
    BY <1>11, Becoming DEF GiveUpWait, At
  <2>2. /\ x \in Runs /\ x.error = r.error /\ x.host = r.host /\ x.address = r.address
        /\ x.step = r.step
    BY <1>1 DEF Runs
  <2> HIDE DEF x
  <2>3. CASE r.pc = "clean.instance"
    <3>1. /\ run'[b].pc = "clean.destroy" /\ run'[b].error = r.error /\ run'[b].host = r.host
          /\ run'[b].address = r.address /\ run'[b].step = r.step
      BY <1>6, <2>1, <2>2, <2>3, GoingTo DEF Same
    <3> QED BY <1>5, <1>6, <3>1
  <2>4. CASE r.pc # "clean.instance"
    BY <1>1, <1>2, <1>4, <2>1, <2>4, FailsExcused
  <2> QED BY <2>3, <2>4
<1> QED BY <1>8, <1>9, <1>10, <1>11

\* The step that writes the inventory is over.
LEMMA GrabIsOver ==
    ASSUME TypeOK, NEW b \in Builds, BuildInv(b), UNCHANGED scenario, Undisturbed(b),
           run[b].pc \in StepPoints, StepOf(run[b].pc) = "grabPublicIP",
           NEW x \in Runs, x.step = run[b].step, x.error = run[b].error, x.host = run[b].host,
           x.address, run'[b] = Continued(b, x), Written(b)'
    PROVE  Undisturbed(b)'
<1>1. (IsSsh(b) \/ IsWinRM(b)) /\ x.step \in 1..7
  BY DEF BuildInv, Position
<1>2. /\ run'[b].error = run[b].error /\ run'[b].host = run[b].host /\ run'[b].pc \notin Resting
      /\ run'[b].pc \notin StepPoints \/ (run'[b].pc \in StepNames /\ run'[b].address)
  BY <1>1, GoesOnQuietly
<1>3. {"grabPublicIP.open", "grabPublicIP.write"} \cap StepNames = {}
      /\ {"grabPublicIP.open", "grabPublicIP.write"} \subseteq StepPoints
      /\ StepPoints' = StepPoints
  BY DEF StepPoints, StepNames, InnerPoints
<1>4. AddressHere(b)'
  BY <1>2, <1>3 DEF AddressHere, Beyond, At
<1>5. KeysHere(b)'
  BY <1>2, RestsOnNoKey
<1> QED BY <1>2, <1>4, <1>5, Settles

\* The address and the inventory.
LEMMA GrabsAlone ==
    ASSUME TypeOK, NEW b \in Builds, BuildInv(b), UNCHANGED scenario, Calm, Undisturbed(b),
           GrabPublicIP(b) \/ OpenInventory(b) \/ WriteInventory(b)
    PROVE  Undisturbed(b)'
<1> DEFINE r == run[b]
<1>1. r \in Runs /\ AddressHere(b) /\ Neighbours(b)' = Neighbours(b) /\ Grab(b)' = Grab(b)
  BY RunType, GivenCompany DEF Undisturbed
<1>2. r.pc \in {"grabPublicIP", "grabPublicIP.open", "grabPublicIP.write"}
  BY DEF GrabPublicIP, OpenInventory, WriteInventory, At
<1>3. r.pc \in StepPoints /\ StepOf(r.pc) = "grabPublicIP"
  BY <1>2, PointsOfSteps
<1>4. r.step \in 1..7 /\ r.step = Grab(b)
  BY <1>3, PlaceOfGrab
<1>5. ASSUME NEW x \in Runs, x.step = r.step, x.error = r.error, x.host = r.host, x.address,
             NEW p \in {"grabPublicIP.open", "grabPublicIP.write"}, run'[b] = To(x, p),
             p = "grabPublicIP.write" => inventory' = Nobody
      PROVE  Undisturbed(b)'
  <2>1. p \in Points /\ p \notin Resting
    BY DEF Points, InnerPoints, Resting, KeyErrors
  <2>2. /\ run'[b].pc = p /\ run'[b].error = r.error /\ run'[b].host = r.host
        /\ run'[b].address /\ run'[b].step = r.step
    BY <1>5, <2>1, GoingTo DEF Same
  <2>3. ~(run'[b].step > Grab(b)')
    BY <1>1, <1>4, <2>2
  <2>4. AddressHere(b)'
    BY <1>5, <2>2, <2>3 DEF AddressHere, Beyond, At
  <2>5. KeysHere(b)'
    BY <2>1, <2>2, RestsOnNoKey
  <2> QED BY <2>2, <2>4, <2>5, Settles
<1>6. CASE GrabPublicIP(b)
  <2> DEFINE x == [r EXCEPT !.address = TRUE]
  <2>1. run'[b] = IF scenario.inventory THEN To(x, "grabPublicIP.open") ELSE Continued(b, x)
    BY <1>6, NothingWrong, Becoming DEF GrabPublicIP
  <2>2. /\ x \in Runs /\ x.step = r.step /\ x.error = r.error /\ x.host = r.host
        /\ x.address
    BY <1>1 DEF Runs
  <2> HIDE DEF x
  <2>3. CASE scenario.inventory
    BY <1>5, <2>1, <2>2, <2>3
  <2>4. CASE ~scenario.inventory
    <3>1. Written(b)'
      BY <2>4 DEF Written
    <3> QED BY <1>3, <2>1, <2>2, <2>4, <3>1, GrabIsOver
  <2> QED BY <2>3, <2>4
<1>7. CASE OpenInventory(b)
  <2>1. inventory' = Nobody /\ run'[b] = To(r, "grabPublicIP.write") /\ r.address
    BY <1>1, <1>7, NothingWrong, Becoming DEF OpenInventory, AddressHere, At
  <2> QED BY <1>1, <1>5, <2>1
<1>8. CASE WriteInventory(b)
  <2>1. r.address /\ run'[b] = Continued(b, r)
    BY <1>1, <1>8, NothingWrong, Becoming DEF WriteInventory, AddressHere, At
  <2>2. inventory' = b \/ (inventory # Nobody /\ inventory' = Nobody)
    <3>1. ~May("local")
      BY NothingWrong
    <3>2. \/ inventory' = b
          \/ (~r.address \/ inventory # Nobody) /\ inventory' = Nobody
      BY <1>8, <3>1 DEF WriteInventory
    <3> QED BY <2>1, <3>2
  <2>3. Neighbours(b) = {} => inventory = Nobody
    BY <1>1, <1>8 DEF WriteInventory, AddressHere
  <2>4. Written(b)'
    BY <1>1, <2>2, <2>3, ClassicAssumption DEF Written
  <2> QED BY <1>1, <1>3, <2>1, <2>4, GrabIsOver
<1> QED BY <1>6, <1>7, <1>8

\* The connection and the provisioning.
LEMMA ConnectsAlone ==
    ASSUME TypeOK, Writers, NEW b \in Builds, BuildInv(b), UNCHANGED scenario, Calm,
           Undisturbed(b),
           Connect(b) \/ WinRMCredentialsMissing(b) \/ Provision(b)
    PROVE  Undisturbed(b)'
<1> DEFINE r == run[b]
<1>1. r \in Runs /\ AddressHere(b) /\ Proper(b, r.host)
  BY RunType DEF Undisturbed
<1>2. UNCHANGED <<scenario, inventory>>
  BY DEF Connect, WinRMCredentialsMissing, Provision, files
<1>3. r.pc \in {"StepConnect", "StepProvision"}
  BY DEF Connect, WinRMCredentialsMissing, Provision, At
<1>4. r.pc \in StepPoints /\ StepOf(r.pc) # "grabPublicIP" /\ r.step > Grab(b)
  BY <1>3, PointsOfSteps, PlaceOfGrab
<1>5. r.address /\ Written(b)
  BY <1>1, <1>4 DEF AddressHere, Beyond
<1>6. CASE Connect(b)
  <2>1. run'[b] = Continued(b, r) \/ run'[b] = Halted(b, r)
    BY <1>5, <1>6, NothingWrong, Becoming DEF Connect
  <2> QED BY <1>1, <1>2, <1>4, <2>1, StepAlone
<1>7. CASE WinRMCredentialsMissing(b)
  BY <1>7, NothingWrong DEF WinRMCredentialsMissing
<1>8. CASE Provision(b)
  <2> DEFINE h == Host(b)
             x == [r EXCEPT !.host = h]
  <2>1. h \in Builds \cup {Earlier, Nobody}
    BY HostType
  <2>2. Proper(b, h) /\ (h # b => scenario.inventory /\ Neighbours(b) # {})
    <3>1. ~scenario.inventory => h = b
      BY DEF Host
    <3>2. scenario.inventory => h = inventory /\ h # Earlier /\ (Neighbours(b) = {} => h = b)
      BY <1>5 DEF Written, Host
    <3>3. scenario.inventory /\ h \in Builds => h = b \/ h \in Neighbours(b)
      BY <3>2 DEF Writers, Neighbours
    <3> HIDE DEF h
    <3>4. scenario.inventory => h \in {Nobody, b} \/ h \in Neighbours(b)
      BY <2>1, <3>2, <3>3
    <3> QED BY <3>1, <3>2, <3>4 DEF Proper
  <2>3. \/ run'[b] = Continued(b, x)
        \/ h # b /\ run'[b] = Failed(b, x)
        \/ run'[b] = Halted(b, r)
    BY <1>8, NothingWrong, Becoming DEF Provision
  <2>4. /\ x \in Runs /\ x.step = r.step /\ x.error = r.error /\ x.host = h
        /\ x.address = r.address /\ x.pc = r.pc
    BY <1>1, <2>1 DEF Runs
  <2>5. h # b => Excused(b, r.pc)
    BY <1>8, <2>2 DEF Excused, Provision, At
  <2> HIDE DEF x, h
  <2>6. CASE h # b /\ run'[b] = Failed(b, x)
    BY <1>2, <1>4, <2>2, <2>4, <2>5, <2>6, FailsExcused
  <2>7. CASE run'[b] = Continued(b, x)
    BY <1>2, <1>4, <2>2, <2>4, <2>7, StepAlone
  <2>8. CASE run'[b] = Halted(b, r)
    BY <1>1, <1>2, <1>4, <2>8, StepAlone
  <2> QED BY <2>3, <2>6, <2>7, <2>8
<1> QED BY <1>6, <1>7, <1>8

\* The capture.
LEMMA CapturesAlone ==
    ASSUME TypeOK, NEW b \in Builds, BuildInv(b), UNCHANGED scenario, Calm, Undisturbed(b),
           GetBlockDevices(b) \/ CaptureStandardImage(b) \/ FindImage(b) \/ CopyImage(b)
    PROVE  Undisturbed(b)'
<1> DEFINE r == run[b]
<1>1. r \in Runs /\ Proper(b, r.host)
  BY RunType DEF Undisturbed
<1>2. UNCHANGED <<scenario, inventory>>
  BY DEF GetBlockDevices, CaptureStandardImage, FindImage, CopyImage, files
<1>3. r.pc \in {"captureImage", "captureImage.archive", "captureImage.find",
                "captureImage.copy"}
  BY DEF GetBlockDevices, CaptureStandardImage, FindImage, CopyImage, At
<1>4. r.pc \in StepPoints /\ StepOf(r.pc) # "grabPublicIP"
  BY <1>3, PointsOfSteps
<1>5. ASSUME NEW x \in Runs, x.step = r.step, x.error = r.error, x.host = r.host,
             x.address = r.address,
             NEW p \in {"captureImage.archive", "captureImage.find", "captureImage.wait"},
             run'[b] = To(x, p)
      PROVE  Undisturbed(b)'
  <2>1. p \in Points /\ p \notin Resting \cup {"grabPublicIP.open", "grabPublicIP.write"}
    BY DEF Points, InnerPoints, Resting, KeyErrors
  <2>2. run'[b].pc = p
    BY <1>5, <2>1, GoingTo
  <2> QED BY <1>1, <1>2, <1>4, <1>5, <2>1, <2>2, StepAlone
<1>6. CASE GetBlockDevices(b) \/ CaptureStandardImage(b) \/ CopyImage(b)
  <2>1. \/ run'[b] = Continued(b, r)
        \/ run'[b] = To(r, "captureImage.archive") \/ run'[b] = To(r, "captureImage.find")
    BY <1>6, NothingWrong, Becoming DEF GetBlockDevices, CaptureStandardImage, CopyImage
  <2>2. CASE run'[b] = Continued(b, r)
    BY <1>1, <1>2, <1>4, <2>2, StepAlone
  <2> QED BY <1>1, <1>5, <2>1, <2>2
<1>7. CASE FindImage(b)
  <2>1. CASE run'[b] = Failed(b, r)
    <3>1. Excused(b, r.pc)
      BY <1>7 DEF FindImage, At, Excused
    <3> QED BY <1>1, <1>2, <1>4, <2>1, <3>1, FailsExcused
  <2>2. CASE run'[b] # Failed(b, r)
    <3>1. PICK i \in Named(b) : run'[b] = To([r EXCEPT !.image_id = i], "captureImage.wait")
      BY <1>7, <2>2, NothingWrong, Becoming DEF FindImage
    <3> DEFINE x == [r EXCEPT !.image_id = i]
    <3>2. i \in Builds \cup {Earlier, Nobody}
      BY DEF Named
    <3>3. x \in Runs /\ x.step = r.step /\ x.error = r.error /\ x.host = r.host
          /\ x.address = r.address
      BY <1>1, <3>2 DEF Runs
    <3>4. run'[b] = To(x, "captureImage.wait")
      BY <3>1
    <3> HIDE DEF x
    <3> QED BY <1>5, <3>3, <3>4
  <2> QED BY <2>1, <2>2
<1> QED BY <1>6, <1>7

\* The Cleanups and the end.
LEMMA UnwindsAlone ==
    ASSUME TypeOK, NEW b \in Builds, BuildInv(b), UNCHANGED scenario, Calm, Undisturbed(b),
           Unwinding(b)
    PROVE  Undisturbed(b)'
<1> DEFINE r == run[b]
           CleanPoints == {"clean.instance", "clean.destroy", "clean.key", "clean.keydir",
                           "clean.unlink"}
           After == {"clean.key", "clean.keydir", "clean.unlink", "finish", "panicked",
                     "returned"}
<1>1. r \in Runs /\ Position(b) /\ KeysHere(b) /\ Shared(b)' = Shared(b)
  BY RunType, GivenCompany DEF BuildInv, Undisturbed
<1>2. UNCHANGED <<scenario, inventory>>
  BY DEF Unwinding, NoInstanceToDestroy, DestroyInstance, DestroySshKey, ListKeyFiles,
         UnlinkKeyFile, RemoveKeyDirectory, Finish, files
<1>3. After \subseteq Points /\ After \cap StepPoints = {}
      /\ After \cap Resting = {"clean.unlink"}
  BY DEF Resting, KeyErrors, Points, CleanupPoints, EndPoints, StepPoints, StepNames,
         InnerPoints
<1>4. ASSUME NEW p \in After, run'[b].pc = p, run'[b].host = r.host,
             run'[b].error = r.error \/ Excused(b, run'[b].error),
             p = "clean.unlink" => KeysHere(b)'
      PROVE  Undisturbed(b)'
  <2>1. KeysHere(b)'
    BY <1>3, <1>4, RestsOnNoKey
  <2>2. AddressHere(b)'
    BY <1>2, <1>3, <1>4, AddressKept
  <2> QED BY <1>4, <2>1, <2>2, Settles
<1>5. ASSUME NEW x \in Runs, x.deferred = r.deferred, x.host = r.host,
             x.error = r.error \/ Excused(b, x.error),
             r.pc \in CleanPoints, run'[b] = NextCleanup(b, x)
      PROVE  Undisturbed(b)'
  <2>1. \/ IsSsh(b) /\ x.deferred \in {0, 1}
        \/ IsWinRM(b) /\ x.deferred = 0
    BY <1>1, <1>5 DEF Position
  <2>2. run'[b].error = x.error /\ run'[b].host = r.host /\ run'[b].pc \in {"finish", "clean.key"}
    BY <1>5, <2>1, NextOne DEF Same
  <2> QED BY <1>4, <1>5, <2>2
<1>6. ASSUME NEW t \in SUBSET {"instance", "key", "keydir", "wait"}
      PROVE  LET x == [r EXCEPT !.told = @ \cup t]
             IN  x \in Runs /\ x.deferred = r.deferred /\ x.error = r.error /\ x.host = r.host
  BY <1>1 DEF Runs
<1>7. CASE NoInstanceToDestroy(b) \/ DestroyInstance(b)
  <2> DEFINE x == [r EXCEPT !.told = @ \cup {"instance"}]
  <2>1. r.pc \in CleanPoints
    BY <1>7 DEF NoInstanceToDestroy, DestroyInstance, At
  <2>2. run'[b] = NextCleanup(b, r) \/ run'[b] = NextCleanup(b, x)
    BY <1>7, Becoming DEF NoInstanceToDestroy, DestroyInstance
  <2>3. x \in Runs /\ x.deferred = r.deferred /\ x.error = r.error /\ x.host = r.host
    BY <1>6
  <2> HIDE DEF x
  <2> QED BY <1>1, <1>5, <2>1, <2>2, <2>3
<1>8. CASE DestroySshKey(b)
  <2>1. r.pc \in CleanPoints
    BY <1>8 DEF DestroySshKey, At
  <2>2. run'[b] = NextCleanup(b, r) \/ run'[b] = To(r, "clean.keydir")
    BY <1>8, NothingWrong, Becoming DEF DestroySshKey
  <2>3. /\ To(r, "clean.keydir").pc = "clean.keydir" /\ To(r, "clean.keydir").error = r.error
        /\ To(r, "clean.keydir").host = r.host
    BY <1>1, <1>3, GoingTo DEF Same
  <2> QED BY <1>1, <1>4, <1>5, <2>1, <2>2, <2>3
<1>9. CASE ListKeyFiles(b)
  <2> DEFINE s == To(r, "clean.unlink")
  <2>1. run'[b] = [s EXCEPT !.names = Present]
    BY <1>9, NothingWrong, Becoming DEF ListKeyFiles
  <2>2. s \in Runs /\ s.pc = "clean.unlink" /\ s.error = r.error /\ s.host = r.host
    BY <1>1, <1>3, GoingTo DEF Same
  <2> HIDE DEF s
  <2>3. /\ run'[b].pc = "clean.unlink" /\ run'[b].error = r.error /\ run'[b].host = r.host
        /\ run'[b].names = Present
    BY <2>1, <2>2 DEF Runs
  <2>4. Present' = Present
    BY <1>9 DEF ListKeyFiles, files, keyFiles, Present
  <2>5. KeysHere(b)'
    BY <2>3, <2>4 DEF KeysHere, At, KeyErrors
  <2> QED BY <1>4, <2>3, <2>5
<1>10. CASE UnlinkKeyFile(b)
  <2>1. PICK f \in r.names :
          /\ run'[b] = [r EXCEPT !.names = @ \ {f}]
          /\ id_rsa' = IF f = "id_rsa" THEN Nobody ELSE id_rsa
          /\ id_rsa_pub' = (id_rsa_pub /\ f # "id_rsa.pub")
    BY <1>10, NothingWrong, Becoming DEF UnlinkKeyFile
  <2>2. /\ run'[b].pc = r.pc /\ run'[b].error = r.error /\ run'[b].host = r.host
        /\ run'[b].names = r.names \ {f} /\ r.pc = "clean.unlink"
    BY <1>1, <1>10, <2>1 DEF Runs, UnlinkKeyFile, At
  <2>3. Present' \subseteq Present \ {f}
    <3>1. \A g : g \in Present' => (g = "id_rsa" /\ id_rsa' # Nobody)
                                  \/ (g = "id_rsa.pub" /\ id_rsa_pub')
      BY DEF Present
    <3>2. ("id_rsa" \in Present <=> id_rsa # Nobody) /\ ("id_rsa.pub" \in Present <=> id_rsa_pub)
      BY DEF Present
    <3>3. id_rsa' # Nobody => id_rsa # Nobody /\ f # "id_rsa"
      BY <2>1
    <3>4. id_rsa_pub' => id_rsa_pub /\ f # "id_rsa.pub"
      BY <2>1, Zenon
    <3> QED BY <3>1, <3>2, <3>3, <3>4
  <2>4. KeysHere(b)'
    BY <1>1, <2>2, <2>3 DEF KeysHere, At, KeyErrors
  <2> QED BY <1>4, <2>2, <2>4
<1>11. CASE RemoveKeyDirectory(b)
  <2> DEFINE x == [r EXCEPT !.told = @ \cup {"keydir"}, !.error = "clean.keydir"]
  <2>1. r.pc = "clean.unlink" /\ r.names = {}
    BY <1>11 DEF RemoveKeyDirectory, At
  <2>2. run'[b] = NextCleanup(b, r) \/ (Present # {} /\ run'[b] = NextCleanup(b, x))
    BY <1>11, NothingWrong, Becoming DEF RemoveKeyDirectory, KeyDirectoryStays
  <2>3. Present # {} => Excused(b, "clean.keydir")
    BY <1>1, <2>1 DEF KeysHere, At, Excused, KeyErrors
  <2>4. x.error = "clean.keydir" /\ x.deferred = r.deferred /\ x.host = r.host
    BY <1>1 DEF Runs
  <2>5. x \in Runs
    BY <1>1, Tells DEF Telling
  <2> HIDE DEF x
  <2> QED BY <1>1, <1>5, <2>1, <2>2, <2>3, <2>4, <2>5
<1>12. CASE Finish(b)
  <2>1. ASSUME NEW p \in {"panicked", "returned"}
        PROVE  /\ To(r, p) \in Runs /\ To(r, p).pc = p /\ To(r, p).error = r.error
               /\ To(r, p).host = r.host
    <3>1. p \in Points
      BY <1>3
    <3> QED BY <1>1, <3>1, GoingTo DEF Same
  <2>2. /\ run'[b].pc \in {"panicked", "returned"} /\ run'[b].error = r.error
        /\ run'[b].host = r.host
    <3>1. CASE r.panicking
      BY <1>12, <2>1, <3>1, Becoming DEF Finish
    <3>2. CASE ~r.panicking
      <4>1. \E v : run'[b] = [To(r, "returned") EXCEPT !.result = v]
        BY <1>12, <3>2, Becoming DEF Finish
      <4> QED BY <2>1, <4>1 DEF Runs
    <3> QED BY <3>1, <3>2
  <2> QED BY <1>4, <2>2
<1> QED BY <1>7, <1>8, <1>9, <1>10, <1>11, <1>12 DEF Unwinding

\* The user and the cloud move nothing a point rests on.
LEMMA ElsewhereAlone ==
    ASSUME TypeOK, NEW b \in Builds, UNCHANGED scenario, Undisturbed(b),
           Cancel(b) \/ CloudMoves(b)
    PROVE  Undisturbed(b)'
<1>1. UNCHANGED <<dir, id_rsa, id_rsa_pub, inventory>>
  BY DEF Cancel, CloudMoves, files, keyFiles
<1>2. /\ run'[b].pc = run[b].pc /\ run'[b].error = run[b].error /\ run'[b].step = run[b].step
      /\ run'[b].address = run[b].address /\ run'[b].host = run[b].host
      /\ run'[b].names = run[b].names
  BY RunType, Becoming DEF Cancel, CloudMoves, Runs
<1>3. Grab(b)' = Grab(b) /\ Neighbours(b)' = Neighbours(b) /\ Shared(b)' = Shared(b)
  BY GivenCompany
<1>4. KeysHere(b)'
  BY <1>1, <1>2, <1>3 DEF Undisturbed, KeysHere, At, Present
<1>5. AddressHere(b)'
  BY <1>1, <1>2, <1>3 DEF Undisturbed, AddressHere, Beyond, Written, At
<1> QED BY <1>2, <1>4, <1>5, Settles

\* A build's own step.
LEMMA OwnUndisturbed ==
    ASSUME TypeOK, Writers, NEW b \in Builds, BuildInv(b), Calm, Undisturbed(b),
           Build(b) \/ TimerFires(b) \/ Elsewhere(b)
    PROVE  Undisturbed(b)'
<1>1. UNCHANGED scenario
  BY DEF Build, TimerFires, Elsewhere
<1>2. CASE Running(b)
  BY <1>1, <1>2, KeyFilesAlone, RequestsAlone, WaitsAlone, GrabsAlone, ConnectsAlone,
     CapturesAlone DEF Running, KeyFileAction
<1>3. CASE Unwinding(b)
  BY <1>1, <1>3, UnwindsAlone
<1>4. CASE GiveUpWait(b) \/ Cancel(b) \/ CloudMoves(b)
  BY <1>1, <1>4, WaitsAlone, ElsewhereAlone
<1> QED BY <1>2, <1>3, <1>4 DEF Build, TimerFires, Elsewhere

\* Only the SSH builds change the key files, and only a build with steps, which
\* leaves its address or nothing there, the inventory.
LEMMA FilesAreTheirs ==
    ASSUME TypeOK, NEW c \in Builds, BuildInv(c),
           Build(c) \/ TimerFires(c) \/ Elsewhere(c)
    PROVE  /\ UNCHANGED keyFiles \/ IsSsh(c)
           /\ inventory' = inventory \/ (inventory' \in {c, Nobody} /\ Steps(c) # <<>>)
<1>1. CASE \/ MakeDirectory(c) \/ WritePrivateKey(c) \/ WritePublicKey(c)
           \/ UnlinkKeyFile(c) \/ RemoveKeyDirectory(c)
  <2>1. run[c].pc \in KeyFilePoints \cup {"clean.keydir", "clean.unlink"}
        /\ UNCHANGED inventory
    BY <1>1 DEF MakeDirectory, WritePrivateKey, WritePublicKey, UnlinkKeyFile,
       RemoveKeyDirectory, At, KeyFilePoints
  <2> QED BY <2>1, KeyPointsAreSsh
<1>2. CASE OpenInventory(c) \/ WriteInventory(c)
  <2>1. /\ run[c].pc \in {"grabPublicIP.open", "grabPublicIP.write"} /\ UNCHANGED keyFiles
        /\ inventory' = inventory \/ inventory' \in {c, Nobody}
    BY <1>2 DEF OpenInventory, WriteInventory, At
  <2>2. Steps(c) # <<>>
    BY <2>1, PointsOfSteps, PlaceOfGrab, StepsAndCleanups
  <2> QED BY <2>1, <2>2
<1>3. CASE \/ StatDirectory(c) \/ ChangeMode(c) \/ UploadSshKey(c) \/ CreateInstance(c)
           \/ ReadPower(c) \/ ReadTransaction(c) \/ WaitPanics(c)
           \/ GrabPublicIP(c) \/ Connect(c) \/ WinRMCredentialsMissing(c) \/ Provision(c)
           \/ GetBlockDevices(c) \/ CaptureStandardImage(c) \/ FindImage(c) \/ CopyImage(c)
  BY <1>3 DEF StatDirectory, ChangeMode, UploadSshKey, CreateInstance, ReadPower,
     ReadTransaction, WaitPanics, GrabPublicIP, Connect, WinRMCredentialsMissing, Provision,
     GetBlockDevices, CaptureStandardImage, FindImage, CopyImage, files
<1>4. CASE \/ NoInstanceToDestroy(c) \/ DestroyInstance(c) \/ DestroySshKey(c)
           \/ ListKeyFiles(c) \/ Finish(c) \/ GiveUpWait(c) \/ Cancel(c) \/ CloudMoves(c)
  BY <1>4 DEF NoInstanceToDestroy, DestroyInstance, DestroySshKey, ListKeyFiles, Finish,
     GiveUpWait, Cancel, CloudMoves, files
<1> QED BY <1>1, <1>2, <1>3, <1>4 DEF Build, TimerFires, Elsewhere, Running, Unwinding

\* The other builds.
LEMMA OthersUndisturbed ==
    ASSUME TypeOK, NEW c \in Builds, BuildInv(c), NEW b \in Builds \ {c}, Undisturbed(b),
           Build(c) \/ TimerFires(c) \/ Elsewhere(c)
    PROVE  Undisturbed(b)'
<1>1. UNCHANGED scenario /\ run'[b] = run[b]
  BY OwnInvariant DEF Own, One
<1>2. Grab(b)' = Grab(b) /\ Neighbours(b)' = Neighbours(b) /\ Shared(b)' = Shared(b)
  BY <1>1, GivenCompany
<1>3. KeysHere(b)'
  <2>1. IsSsh(c) => Shared(b)
    BY DEF IsSsh, SshBuilds, Shared
  <2>2. UNCHANGED keyFiles \/ Shared(b)
    BY <2>1, FilesAreTheirs
  <2> QED BY <1>1, <1>2, <2>2 DEF Undisturbed, KeysHere, At, keyFiles, Present
<1>4. AddressHere(b)'
  <2>1. inventory' = inventory \/ (inventory' \in {c, Nobody} /\ c \in Neighbours(b))
    BY FilesAreTheirs DEF Neighbours
  <2>2. inventory' # inventory => inventory' # Earlier /\ Neighbours(b) # {}
    BY <2>1, ClassicAssumption
  <2> QED BY <1>1, <1>2, <2>2 DEF Undisturbed, AddressHere, Beyond, Written, At
<1> QED BY <1>1, <1>3, <1>4, Settles

\* No build has read or done anything at the start.
LEMMA InitFilesInv == Init => FilesInv
<1>1. Init => Writers
  BY ClassicAssumption DEF Init, Writers
<1> SUFFICES ASSUME Init, Calm, NEW b \in Builds PROVE Undisturbed(b)
  BY <1>1, InitIInv DEF FilesInv
<1>2. run[b] = Fresh(b)
  BY DEF Init
<1>3. run[b].error = "none" /\ run[b].host = Nobody
  BY <1>2 DEF Fresh
<1>4. CASE IsSsh(b) \/ IsWinRM(b)
  <2>1. Steps(b) # <<>> /\ Steps(b)[1] \in {"createSshKey", "createInstance"}
    BY <1>4 DEF Steps, IsSsh, IsWinRM, SshSteps, WinRMSteps
  <2>2. run[b].pc \in {"createSshKey", "createInstance"} /\ run[b].step = 1
    BY <1>2, <2>1 DEF Fresh
  <2>3. ~(1 > Grab(b))
    BY DEF Grab
  <2> QED BY <1>3, <2>2, <2>3
          DEF Undisturbed, Excused, Proper, KeysHere, AddressHere, Beyond, At, KeyErrors
<1>5. CASE ~IsSsh(b) /\ ~IsWinRM(b)
  <2>1. Steps(b) = <<>>
    BY <1>5 DEF Steps, IsSsh, IsWinRM
  <2>2. run[b].pc = "finish" /\ "finish" \notin StepPoints
    BY <1>2, <2>1 DEF Fresh, StepPoints, StepNames, InnerPoints
  <2> QED BY <1>3, <2>2
          DEF Undisturbed, Excused, Proper, KeysHere, AddressHere, Beyond, At, KeyErrors
<1> QED BY <1>4, <1>5

LEMMA NextFilesInv == FilesInv /\ [Next]_vars => FilesInv'
<1> SUFFICES ASSUME FilesInv, [Next]_vars PROVE FilesInv'
  OBVIOUS
<1>1. TypeOK /\ Writers /\ (\A b \in Builds : BuildInv(b)) /\ IInv'
  BY NextIInv DEF FilesInv, IInv
<1>2. CASE UNCHANGED vars
  <2>1. UNCHANGED scenario /\ run' = run /\ UNCHANGED <<dir, id_rsa, id_rsa_pub, inventory>>
    BY <1>2 DEF vars, files, keyFiles
  <2>2. Writers'
    BY <1>1, <2>1 DEF Writers, Steps, SshSteps, WinRMSteps
  <2>3. ASSUME Calm, NEW b \in Builds PROVE Undisturbed(b)'
    <3>1. Undisturbed(b)
      BY <2>3 DEF FilesInv
    <3>2. Grab(b)' = Grab(b) /\ Neighbours(b)' = Neighbours(b) /\ Shared(b)' = Shared(b)
      BY <2>1, GivenCompany
    <3>3. KeysHere(b)'
      BY <2>1, <3>1, <3>2 DEF Undisturbed, KeysHere, At, Present
    <3>4. AddressHere(b)'
      BY <2>1, <3>1, <3>2 DEF Undisturbed, AddressHere, Beyond, Written, At
    <3> QED BY <2>1, <3>1, <3>3, <3>4, Settles
  <2> QED BY <1>1, <2>1, <2>2, <2>3 DEF FilesInv, Calm
<1>3. ASSUME NEW c \in Builds, Build(c) \/ TimerFires(c) \/ Elsewhere(c)
      PROVE  FilesInv'
  <2>1. UNCHANGED scenario
    BY <1>3 DEF Build, TimerFires, Elsewhere
  <2>2. Writers'
    <3>1. \A x : Steps(x)' = Steps(x)
      BY <2>1 DEF Steps, SshSteps, WinRMSteps
    <3>2. inventory' = inventory \/ (inventory' \in {c, Nobody} /\ Steps(c) # <<>>)
      BY <1>1, <1>3, FilesAreTheirs
    <3> QED BY <1>1, <3>1, <3>2, ClassicAssumption DEF Writers
  <2>3. ASSUME Calm, NEW b \in Builds PROVE Undisturbed(b)'
    <3>1. Undisturbed(b)
      BY <2>3 DEF FilesInv
    <3> QED BY <1>1, <1>3, <2>3, <3>1, OwnUndisturbed, OthersUndisturbed
  <2> QED BY <1>1, <2>1, <2>2, <2>3 DEF FilesInv, Calm
<1> QED BY <1>2, <1>3 DEF Next, Rest

\* Side by side, with nothing going wrong, a build fails over the key files only
\* when another SSH build shares the directory, and provisions a machine that is
\* not its own only when another build shares the inventory file.
THEOREM OnlySharedFiles == Spec => []OnlySharedFilesInterfere
<1>1. FilesInv => OnlySharedFilesInterfere
  BY DEF FilesInv, Calm, Undisturbed, Excused, Proper, Shared, KeyErrors,
         OnlySharedFilesInterfere
<1> QED BY <1>1, InitFilesInv, NextFilesInv, PTL DEF Spec
=============================================================================
