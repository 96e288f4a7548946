---------------------------- MODULE StoredProofs ----------------------------
(***************************************************************************)
(* Proofs about what the programs keep: the files of a license, the keys   *)
(* of the vendor, and the events that go to the storage backends.          *)
(* Of License, for any keys, fingerprints and lengths of trial and grace:  *)
(* what an agent runs as is backed by a grant of the server or by a trial  *)
(* that is still running.  The invariant says that no cache, in            *)
(* license.dat or in the user's backup, is about anything the server did   *)
(* not agree to.                                                           *)
(* Of Keygen, for any number of commands at any point of their way, and    *)
(* whatever fails: the signing key is not lost.  Until a key is removed, a *)
(* license signed when no init is on its way lasts: no init begins while   *)
(* there is a key.  And the registry is exact: a number on its way to it   *)
(* is in no other text that may be written, and what the one command at it *)
(* will write is what list should then say.                                *)
(* Of RunLoop with Storage, for any outputs, batches and queues and any    *)
(* set of backends: what was polled is printed, stored and counted, once.  *)
(* The invariant follows each output through forward_event: up to the      *)
(* stage the call under way has reached, every earlier event is in exactly *)
(* one place of every backend.                                             *)
(***************************************************************************)
EXTENDS License, Keygen, RunLoop, DataLemmas

Granted(c) == <<c.key, c.machine_id>> \in granted

LicenseInv ==
  /\ now \in Nat
  /\ machine \in Machines
  /\ license \in LicenseFile
  /\ trial \in TrialFile
  /\ backup \in {None} \cup Cache
  /\ license \notin {None, Empty} => Granted(license.cache)
  /\ backup # None => Granted(backup)

-----------------------------------------------------------------------------

(* Whole days: less than n of them is less than n days' time, one of them  *)
(* is at least a day's time.                                               *)
LEMMA DivBound ==
  ASSUME NEW d \in Nat, NEW m \in Nat \ {0}
  PROVE  /\ d \div m \in Nat
         /\ m * (d \div m) <= d
         /\ d < m * (d \div m) + m
OBVIOUS

LEMMA TimesMonotone ==
  ASSUME NEW a \in Nat, NEW b \in Nat, NEW m \in Nat \ {0}, a < b
  PROVE  m * a + m <= b * m
OBVIOUS

LEMMA FewerDays ==
  ASSUME NEW d \in Int, NEW n \in Nat \ {0}, NumDays(d) < n
  PROVE  d < n * Day
<1> USE LicenseAssumption
<1>1. CASE d < 0
  <2>1. n * Day >= 0
    OBVIOUS
  <2> QED
    BY <1>1, <2>1
<1>2. CASE d >= 0
  <2>1. d \in Nat /\ d \div Day < n
    BY <1>2 DEF NumDays
  <2>2. d \div Day \in Nat /\ d < Day * (d \div Day) + Day
    BY <2>1, DivBound
  <2>3. Day * (d \div Day) + Day <= n * Day
    BY <2>1, <2>2, TimesMonotone
  <2>4. Day * (d \div Day) \in Int /\ n * Day \in Int
    BY <2>2
  <2> QED
    BY <2>2, <2>3, <2>4
<1> QED
  BY <1>1, <1>2

LEMMA SomeDay ==
  ASSUME NEW d \in Int, NumDays(d) > 0
  PROVE  d >= Day
<1> USE LicenseAssumption
<1>1. CASE d >= 0
  <2>1. d \in Nat /\ d \div Day > 0
    BY <1>1 DEF NumDays
  <2>2. d \div Day \in Nat /\ Day * (d \div Day) <= d
    BY <2>1, DivBound
  <2>3. Day * 0 + Day <= (d \div Day) * Day
    BY <2>1, <2>2, TimesMonotone
  <2> QED
    BY <2>1, <2>2, <2>3
<1>2. CASE d < 0
  <2>1. (- d) \div Day \in Nat
    BY <1>2, DivBound
  <2>2. NumDays(d) = - ((- d) \div Day)
    BY <1>2 DEF NumDays
  <2> QED
    BY <2>1, <2>2
<1> QED
  BY <1>1, <1>2

-----------------------------------------------------------------------------

LEMMA LicenseInitInv == Init => LicenseInv
<1> SUFFICES ASSUME Init PROVE LicenseInv
  OBVIOUS
<1>1. backup \in {None} \cup Cache
  BY DEF Init, Cache
<1>2. backup # None => Granted(backup)
  BY DEF Init, Granted
<1> QED
  BY <1>1, <1>2 DEF Init, LicenseInv, LicenseFile, TrialFile

(* A cache that is there stays granted. *)
LEMMA GrantsGrow ==
  ASSUME LicenseInv, [Next]_vars
  PROVE  granted \subseteq granted'
BY DEF Next, Commands, Activate, Clear, Backup, Restore, Verify, NewFingerprint,
       Start, Stop, Tick, vars

LEMMA LicenseNextInv == LicenseInv /\ [Next]_vars => LicenseInv'
<1> SUFFICES ASSUME LicenseInv, [Next]_vars PROVE LicenseInv'
  OBVIOUS
<1>1. granted \subseteq granted'
  BY GrantsGrow
<1>2. ASSUME NEW k \in Keys, NEW token \in {now, Never}, Activate(k, token) PROVE LicenseInv'
  <2> DEFINE c == [key |-> k, machine_id |-> machine, activated_at |-> now,
                   token_expires_at |-> token]
  <2>1. c \in Cache
    BY DEF LicenseInv, Cache
  <2>2. /\ license' \in {[cache |-> c, wrote |-> machine], Empty, license}
        /\ granted' = granted \cup {<<k, machine>>}
        /\ UNCHANGED <<now, machine, trial, backup>>
    BY <1>2 DEF Activate
  <2>3. [cache |-> c, wrote |-> machine] \in [cache : Cache, wrote : Machines]
    BY <2>1 DEF LicenseInv
  <2>4. license' \in LicenseFile
    BY <2>2, <2>3 DEF LicenseInv, LicenseFile
  <2>5. (license \notin {None, Empty} => Granted(license.cache))'
    <3>1. CASE license' = [cache |-> c, wrote |-> machine]
      BY <2>2, <3>1 DEF Granted
    <3>2. CASE license' = license
      BY <1>1, <3>2 DEF LicenseInv, Granted
    <3>3. CASE license' = Empty
      BY <3>3
    <3> QED
      BY <2>2, <3>1, <3>2, <3>3
  <2> QED
    BY <1>1, <2>2, <2>4, <2>5 DEF LicenseInv, Granted
<1>3. ASSUME Clear PROVE LicenseInv'
  BY <1>3 DEF Clear, LicenseInv, Granted, LicenseFile, TrialFile
<1>4. ASSUME Backup PROVE LicenseInv'
  <2>1. license \in [cache : Cache, wrote : Machines] /\ license \notin {None, Empty}
    BY <1>4 DEF Backup, Loads, LicenseInv, LicenseFile
  <2>2. license.cache \in Cache /\ Granted(license.cache)
    BY <2>1 DEF LicenseInv
  <2> QED
    BY <1>1, <1>4, <2>2 DEF Backup, LicenseInv, Granted, files
<1>5. ASSUME backup # None, Restore(backup) PROVE LicenseInv'
  <2>1. backup \in Cache /\ Granted(backup)
    BY <1>5 DEF LicenseInv
  <2>2. /\ license' \in {[cache |-> backup, wrote |-> machine], Empty}
        /\ UNCHANGED <<now, machine, trial, backup, granted>>
    BY <1>5 DEF Restore
  <2>3. license' \in LicenseFile
    BY <2>1, <2>2 DEF LicenseInv, LicenseFile
  <2>4. (license \notin {None, Empty} => Granted(license.cache))'
    BY <2>1, <2>2 DEF Granted
  <2> QED
    BY <2>1, <2>2, <2>3, <2>4 DEF LicenseInv, Granted
<1>6. ASSUME Verify PROVE LicenseInv'
  BY <1>6 DEF Verify, LicenseInv, Granted
<1>7. ASSUME NewFingerprint PROVE LicenseInv'
  BY <1>7 DEF NewFingerprint, LicenseInv, Granted, files
<1>8. ASSUME NEW asked \in BOOLEAN, Start(asked) PROVE LicenseInv'
  <2>1. UNCHANGED <<now, machine, license, backup, granted>>
    BY <1>8 DEF Start
  <2>2. trial' \in TrialFile
    BY <1>8 DEF Start, StartVerified, StartUnverified, TrialActive, TrialOver, LicenseInv, TrialFile
  <2> QED
    BY <2>1, <2>2 DEF LicenseInv, Granted
<1>9. ASSUME Stop PROVE LicenseInv'
  BY <1>9 DEF Stop, LicenseInv, Granted, files
<1>10. ASSUME Tick PROVE LicenseInv'
  BY <1>10 DEF Tick, LicenseInv, Granted, files
<1>11. CASE UNCHANGED vars
  BY <1>11 DEF vars, files, LicenseInv, Granted
<1> QED
  BY <1>2, <1>3, <1>4, <1>5, <1>6, <1>7, <1>8, <1>9, <1>10, <1>11 DEF Next, Commands

LEMMA LicenseInvariance == Spec => []LicenseInv
BY LicenseInitInv, LicenseNextInv, PTL DEF Spec

(* Only Start makes an agent run. *)
LEMMA StartedByStart ==
  ASSUME Next, Started
  PROVE  \E asked \in BOOLEAN : Start(asked)
BY DEF Next, Commands, Activate, Clear, Backup, Restore, Verify, NewFingerprint,
       Stop, Tick, Started, NotRunning

-----------------------------------------------------------------------------

(* init_license: licensed means granted to this machine, a day or more     *)
(* before the license's end.                                               *)
THEOREM LicensedByGrant == Spec => LicensedMeansGranted
<1>1. LicenseInv /\ [Next]_vars =>
        [Started /\ run'.mode = "licensed" =>
           LET k == license.cache.key
           IN  /\ <<k, machine>> \in granted
               /\ ExpiryOf[k] # Never => now + Day <= ExpiryOf[k]]_vars
  <2> SUFFICES ASSUME LicenseInv, Next, Started, run'.mode = "licensed"
               PROVE  LET k == license.cache.key
                      IN  /\ <<k, machine>> \in granted
                          /\ ExpiryOf[k] # Never => now + Day <= ExpiryOf[k]
    OBVIOUS
  <2>1. PICK asked \in BOOLEAN : Start(asked)
    BY StartedByStart
  <2> DEFINE k == license.cache.key
  <2>2. StartVerified(asked)
    BY <2>1 DEF Start, StartUnverified, Decide, NotRunning
  <2>3. Verifies
    BY <2>2 DEF StartVerified
  <2>4. ~ NoDayLeft(ExpiryOf[k])
    BY <2>2 DEF StartVerified, Decide, NotRunning
  <2>5. license \in [cache : Cache, wrote : Machines] /\ Granted(license.cache)
    BY <2>3 DEF Verifies, VerifiesUnbound, Loads, LicenseInv, LicenseFile
  <2>6. <<k, machine>> \in granted
    BY <2>3, <2>5 DEF Verifies, Granted
  <2>7. ExpiryOf[k] # Never => now + Day <= ExpiryOf[k]
    <3> SUFFICES ASSUME ExpiryOf[k] # Never PROVE now + Day <= ExpiryOf[k]
      OBVIOUS
    <3>1. k \in Keys
      BY <2>5 DEF Cache
    <3>2. ExpiryOf[k] \in Nat /\ now \in Nat
      BY <3>1, LicenseAssumption DEF LicenseInv
    <3> DEFINE left == ExpiryOf[k] - now
    <3>3. left \in Int
      BY <3>2
    <3>4. ~ (NumDays(left) <= 0)
      BY <2>4 DEF NoDayLeft
    <3> HIDE DEF left
    <3>5. NumDays(left) \in Int
      BY <3>3, LicenseAssumption DEF NumDays
    <3>6. left >= Day
      BY <3>3, <3>4, <3>5, SomeDay
    <3> QED
      BY <3>2, <3>6, LicenseAssumption DEF left
  <2> QED
    BY <2>6, <2>7
<1> QED
  BY LicenseInvariance, <1>1, PTL DEF Spec, LicensedMeansGranted

(* The gate of run_monitor: SIGKILL only in a running trial, or under a    *)
(* license with auto_kill.                                                 *)
THEOREM KillsByRight == Spec => KillMeansAllowed
<1>1. LicenseInv /\ [Next]_vars =>
        [Started /\ run'.auto_kill =>
           \/ run'.mode = "trial" /\ (trial = None \/ now < trial + TrialDays * Day)
           \/ run'.mode = "licensed" /\ AllowsKill[license.cache.key]]_vars
  <2> SUFFICES ASSUME LicenseInv, Next, Started, run'.auto_kill
               PROVE  \/ run'.mode = "trial" /\ (trial = None \/ now < trial + TrialDays * Day)
                      \/ run'.mode = "licensed" /\ AllowsKill[license.cache.key]
    OBVIOUS
  <2>1. PICK asked \in BOOLEAN : Start(asked)
    BY StartedByStart
  <2>2. CASE StartVerified(asked)
    BY <2>2 DEF StartVerified, Decide, NotRunning
  <2>3. CASE StartUnverified(asked)
    <3>1. TrialActive /\ run'.mode = "trial"
      BY <2>3 DEF StartUnverified, Decide, NotRunning
    <3>2. CASE trial = None
      BY <3>1, <3>2
    <3>3. CASE trial \notin {None, Empty} /\ NumDays(now - trial) < TrialDays
      <4>1. trial \in Nat /\ now \in Nat /\ TrialDays * Day \in Int
        BY <3>3, LicenseAssumption DEF LicenseInv, TrialFile
      <4>2. now - trial < TrialDays * Day
        BY <3>3, <4>1, FewerDays, LicenseAssumption
      <4>3. now < trial + TrialDays * Day
        BY <4>1, <4>2
      <4> QED
        BY <3>1, <4>3
    <3> QED
      BY <3>1, <3>2, <3>3 DEF TrialActive
  <2> QED
    BY <2>1, <2>2, <2>3 DEF Start
<1> QED
  BY LicenseInvariance, <1>1, PTL DEF Spec, KillMeansAllowed

-----------------------------------------------------------------------------

(* What the actions take out of the locals of a command is there. *)
Fields ==
  /\ DOMAIN cmd = Runs
  /\ \A r \in Runs : "at" \in DOMAIN cmd[r]
  /\ \A r \in Runs : AtRegistry(r) => "new" \in DOMAIN cmd[r]

(* A license was signed early, or with the key that is there to stay: no   *)
(* init is on its way any more, and the next one will find the key.        *)
Lasts(l) ==
  \/ l.no \in early
  \/ l.by = key /\ key \notin {NoKey, Cut} /\ \A r \in Runs : ~ MakingKey(r)

(* So it is with every license, handed out or still with a command. *)
AllLast ==
  /\ \A l \in shown : Lasts(l)
  /\ \A r \in Runs : cmd[r].at = "load issue" => Lasts(cmd[r].license)
  /\ \A r \in Runs : AtRegistry(r) => \A l \in cmd[r].new : Lasts(l)

KeygenInv == Fields /\ (~ replaced => AllLast)

-----------------------------------------------------------------------------

LEMMA KeygenInitInv == KeygenInit => KeygenInv
<1> SUFFICES ASSUME KeygenInit PROVE KeygenInv
  OBVIOUS
<1>1. cmd = [r \in Runs |-> Idle]
  BY DEF KeygenInit
<1>2. \A r \in Runs : cmd[r].at = "idle"
  BY <1>1 DEF Idle
<1>3. Fields
  BY <1>1, <1>2 DEF Fields, Idle, AtRegistry
<1>4. AllLast
  BY <1>2 DEF AllLast, KeygenInit, AtRegistry
<1> QED
  BY <1>3, <1>4 DEF KeygenInv

LEMMA FieldsKept == Fields /\ [KeygenNext]_keygen_vars => Fields'
<1> SUFFICES ASSUME Fields, [KeygenNext]_keygen_vars PROVE Fields'
  OBVIOUS
<1> USE DEF Fields, AtRegistry, Idle
<1>1. CASE RemoveKey
  BY <1>1 DEF RemoveKey
<1>2. ASSUME NEW r \in Runs, BeginInit(r) PROVE Fields'
  BY <1>2 DEF BeginInit
<1>3. ASSUME NEW r \in Runs, OpenKey(r) PROVE Fields'
  BY <1>3 DEF OpenKey
<1>4. ASSUME NEW r \in Runs, WriteKey(r) PROVE Fields'
  BY <1>4 DEF WriteKey
<1>5. ASSUME NEW r \in Runs, NEW id \in Ids, BeginIssue(r, id) PROVE Fields'
  BY <1>5 DEF BeginIssue
<1>6. ASSUME NEW r \in Runs, NEW id \in Ids, BeginRevoke(r, id) PROVE Fields'
  BY <1>6 DEF BeginRevoke
<1>7. ASSUME NEW r \in Runs, LoadToIssue(r) PROVE Fields'
  BY <1>7 DEF LoadToIssue
<1>8. ASSUME NEW r \in Runs, LoadToRevoke(r) PROVE Fields'
  BY <1>8 DEF LoadToRevoke
<1>9. ASSUME NEW r \in Runs, OpenRegistry(r) PROVE Fields'
  BY <1>9 DEF OpenRegistry
<1>10. ASSUME NEW r \in Runs, WriteRegistry(r) PROVE Fields'
  BY <1>10 DEF WriteRegistry
<1>11. ASSUME NEW r \in Runs, Fail(r) PROVE Fields'
  BY <1>11 DEF Fail
<1>12. CASE UNCHANGED keygen_vars
  BY <1>12 DEF keygen_vars
<1> QED
  BY <1>1, <1>2, <1>3, <1>4, <1>5, <1>6, <1>7, <1>8, <1>9, <1>10, <1>11, <1>12 DEF KeygenNext

(* A license that lasts goes on lasting: no init begins while there is a   *)
(* key, and none is left that could write one.                             *)
LEMMA StillLasts ==
  ASSUME Fields, [KeygenNext]_keygen_vars, ~ replaced', NEW l, Lasts(l)
  PROVE  Lasts(l)'
<1>1. CASE l.no \in early
  <2>1. early \subseteq early'
    BY DEF KeygenNext, RemoveKey, BeginInit, OpenKey, WriteKey, BeginIssue, BeginRevoke,
           LoadToIssue, LoadToRevoke, OpenRegistry, WriteRegistry, Fail, keygen_vars
  <2> QED BY <1>1, <2>1 DEF Lasts
<1>2. CASE /\ l.by = key /\ key \notin {NoKey, Cut}
           /\ \A r \in Runs : ~ MakingKey(r)
  <2> USE DEF Fields, MakingKey, Idle
  <2>1. key' = key /\ \A r \in Runs : ~ MakingKey(r)'
    <3>1. ~ RemoveKey
      BY DEF RemoveKey
    <3>2. \A r \in Runs : ~ BeginInit(r) /\ ~ OpenKey(r) /\ ~ WriteKey(r)
      BY <1>2 DEF BeginInit, OpenKey, WriteKey
    <3>3. ASSUME NEW r \in Runs, NEW id \in Ids, BeginIssue(r, id)
          PROVE  key' = key /\ \A q \in Runs : ~ MakingKey(q)'
      BY <1>2, <3>3 DEF BeginIssue
    <3>4. ASSUME NEW r \in Runs, NEW id \in Ids, BeginRevoke(r, id)
          PROVE  key' = key /\ \A q \in Runs : ~ MakingKey(q)'
      BY <1>2, <3>4 DEF BeginRevoke
    <3>5. ASSUME NEW r \in Runs, LoadToIssue(r)
          PROVE  key' = key /\ \A q \in Runs : ~ MakingKey(q)'
      BY <1>2, <3>5 DEF LoadToIssue
    <3>6. ASSUME NEW r \in Runs, LoadToRevoke(r)
          PROVE  key' = key /\ \A q \in Runs : ~ MakingKey(q)'
      BY <1>2, <3>6 DEF LoadToRevoke
    <3>7. ASSUME NEW r \in Runs, OpenRegistry(r)
          PROVE  key' = key /\ \A q \in Runs : ~ MakingKey(q)'
      BY <1>2, <3>7 DEF OpenRegistry
    <3>8. ASSUME NEW r \in Runs, WriteRegistry(r)
          PROVE  key' = key /\ \A q \in Runs : ~ MakingKey(q)'
      BY <1>2, <3>8 DEF WriteRegistry
    <3>9. ASSUME NEW r \in Runs, Fail(r)
          PROVE  key' = key /\ \A q \in Runs : ~ MakingKey(q)'
      BY <1>2, <3>9 DEF Fail
    <3>10. CASE UNCHANGED keygen_vars
      BY <1>2, <3>10 DEF keygen_vars
    <3> QED BY <3>1, <3>2, <3>3, <3>4, <3>5, <3>6, <3>7, <3>8, <3>9, <3>10
         DEF KeygenNext
  <2> QED BY <1>2, <2>1 DEF Lasts
<1> QED BY <1>1, <1>2 DEF Lasts

(* A license that is signed lasts, or is signed early. *)
LEMMA SignedLasts ==
  ASSUME Fields, NEW r \in Runs, NEW id \in Ids, BeginIssue(r, id)
  PROVE  Lasts(cmd[r].license)'
<1>1. cmd'[r].license = [no |-> licenses + 1, id |-> id, by |-> key] /\ key' = key
  BY DEF BeginIssue, Fields
<1>2. CASE \E q \in Runs : MakingKey(q)
  <2>1. early' = early \cup {licenses + 1}
    BY <1>2 DEF BeginIssue
  <2>2. cmd'[r].license.no = licenses + 1
    BY <1>1
  <2> QED BY <2>1, <2>2 DEF Lasts
<1>3. CASE \A q \in Runs : ~ MakingKey(q)
  <2>1. \A q \in Runs : ~ MakingKey(q)'
    BY <1>3 DEF BeginIssue, MakingKey, Fields
  <2>2. key \notin {NoKey, Cut}
    BY DEF BeginIssue
  <2> QED BY <1>1, <2>1, <2>2 DEF Lasts
<1> QED BY <1>2, <1>3

LEMMA KeygenInvKept == KeygenInv /\ [KeygenNext]_keygen_vars => KeygenInv'
<1> SUFFICES ASSUME KeygenInv, [KeygenNext]_keygen_vars, ~ replaced' PROVE AllLast'
  BY FieldsKept DEF KeygenInv
<1> USE DEF Fields, AtRegistry, Idle
<1>1. Fields /\ AllLast
  <2>1. replaced' = replaced \/ replaced'
    BY DEF KeygenNext, RemoveKey, BeginInit, OpenKey, WriteKey, BeginIssue, BeginRevoke,
           LoadToIssue, LoadToRevoke, OpenRegistry, WriteRegistry, Fail, keygen_vars
  <2> QED BY <2>1 DEF KeygenInv
<1>2. \A l : Lasts(l) => Lasts(l)'
  BY <1>1, StillLasts
<1>3. ASSUME NEW r \in Runs, BeginInit(r) PROVE AllLast'
  BY <1>1, <1>2, <1>3 DEF BeginInit, AllLast
<1>4. ASSUME NEW r \in Runs, OpenKey(r) PROVE AllLast'
  BY <1>1, <1>2, <1>4 DEF OpenKey, AllLast
<1>5. ASSUME NEW r \in Runs, WriteKey(r) PROVE AllLast'
  BY <1>1, <1>2, <1>5 DEF WriteKey, AllLast
<1>6. ASSUME NEW r \in Runs, NEW id \in Ids, BeginIssue(r, id) PROVE AllLast'
  <2>1. Lasts(cmd[r].license)'
    BY <1>1, <1>6, SignedLasts
  <2> QED BY <1>1, <1>2, <1>6, <2>1 DEF BeginIssue, AllLast
<1>7. ASSUME NEW r \in Runs, NEW id \in Ids, BeginRevoke(r, id) PROVE AllLast'
  BY <1>1, <1>2, <1>7 DEF BeginRevoke, AllLast
<1>8. ASSUME NEW r \in Runs, LoadToIssue(r) PROVE AllLast'
  BY <1>1, <1>2, <1>8 DEF LoadToIssue, AllLast
<1>9. ASSUME NEW r \in Runs, LoadToRevoke(r) PROVE AllLast'
  BY <1>1, <1>2, <1>9 DEF LoadToRevoke, AllLast
<1>10. ASSUME NEW r \in Runs, OpenRegistry(r) PROVE AllLast'
  BY <1>1, <1>2, <1>10 DEF OpenRegistry, AllLast
<1>11. ASSUME NEW r \in Runs, WriteRegistry(r) PROVE AllLast'
  BY <1>1, <1>2, <1>11 DEF WriteRegistry, AllLast
<1>12. ASSUME NEW r \in Runs, Fail(r) PROVE AllLast'
  BY <1>1, <1>2, <1>12 DEF Fail, AllLast
<1>13. ~ RemoveKey
  BY DEF RemoveKey
<1>14. CASE UNCHANGED keygen_vars
  BY <1>1, <1>2, <1>14 DEF keygen_vars, AllLast
<1> QED
  BY <1>3, <1>4, <1>5, <1>6, <1>7, <1>8, <1>9, <1>10, <1>11, <1>12, <1>13, <1>14
     DEF KeygenNext

(* Until the operator removes the key, whatever commands fail or overlap,  *)
(* every license handed out verifies with the key in the file, unless it   *)
(* was signed while an init that had found no key was still on its way.    *)
THEOREM KeyIsKept == KeygenSpec => []KeyKept
<1>1. KeygenInv => KeyKept
  BY DEF KeygenInv, AllLast, Lasts, KeyKept
<1>2. KeygenInit => KeygenInv
  BY KeygenInitInv
<1>3. KeygenInv /\ [KeygenNext]_keygen_vars => KeygenInv'
  BY KeygenInvKept
<1> QED
  BY <1>1, <1>2, <1>3, PTL DEF KeygenSpec

-----------------------------------------------------------------------------

(* Without, as a function of the places gone over: what FoldLeft defines.  *)
Keep(kept, l, id) == IF l.id = id THEN kept ELSE Append(kept, l)
IsSieve(g, s, id) ==
  g = [t \in SUBSET (DOMAIN s) |-> IF t = {} THEN <<>> ELSE Keep(g[t \ {Max(t)}], s[Max(t)], id)]
Sieve(s, id) == CHOOSE g : IsSieve(g, s, id)

(* Without looks that function up. *)
LEMMA WithoutIsSieve ==
  ASSUME NEW s, NEW id
  PROVE  Without(s, id) = Sieve(s, id)[DOMAIN s]
BY DEF Without, FoldLeft, MapThenFoldSet, Sieve, IsSieve, Keep

(* There is such a function, so the chosen one is one. *)
LEMMA SieveExists ==
  ASSUME NEW s \in Seq(Signed), NEW id
  PROVE  IsSieve(Sieve(s, id), s, id)
<1> DEFINE D    == DOMAIN s
           step == [x \in D \X Seq(Signed) |-> Keep(x[2], s[x[1]], id)]
           pick == [t \in SUBSET D |-> Max(t)]
<1>1. D = 1 .. Len(s) /\ Len(s) \in Nat /\ \A i \in D : s[i] \in Signed
  OBVIOUS
<1>2. <<>> \in Seq(Signed)
  OBVIOUS
<1>3. step \in [D \X Seq(Signed) -> Seq(Signed)]
  BY <1>1 DEF Keep
<1>4. \A t \in SUBSET D : t # {} => pick[t] \in t /\ pick[t] = Max(t)
  BY <1>1, Greatest
<1>5. IsFiniteSet(D)
  BY <1>1, FS_Interval
<1>6. PICK g \in [SUBSET D -> Seq(Signed)] : IsFold(g, <<>>, step, pick, D)
  <2> HIDE DEF D, step, pick
  <2> QED BY <1>2, <1>3, <1>4, <1>5, FoldExists
<1>7. \A t \in SUBSET D : t # {} => /\ Max(t) \in D
                                    /\ t \ {Max(t)} \in SUBSET D
                                    /\ g[t \ {Max(t)}] \in Seq(Signed)
  BY <1>4
<1>8. \A t \in SUBSET D : t # {} =>
        step[<<pick[t], g[t \ {pick[t]}]>>] = Keep(g[t \ {Max(t)}], s[Max(t)], id)
  BY <1>4, <1>7
<1>9. IsSieve(g, s, id)
  <2> HIDE DEF step, pick
  <2> QED BY <1>6, <1>8 DEF IsFold, IsSieve
<1> QED
  BY <1>9 DEF Sieve

(* No number twice. *)
Distinct(s) == \A i, j \in DOMAIN s : i # j => s[i].no # s[j].no

(* A registry with one license more. *)
LEMMA AppendRight ==
  ASSUME NEW s \in Seq(Signed), NEW l \in Signed, Distinct(s),
         \A i \in DOMAIN s : s[i].no # l.no
  PROVE  /\ Append(s, l) \in Seq(Signed)
         /\ Distinct(Append(s, l))
         /\ Range(Append(s, l)) = Range(s) \cup {l}
         /\ \A i \in DOMAIN Append(s, l) :
              Append(s, l)[i] = l \/ \E j \in DOMAIN s : Append(s, l)[i] = s[j]
<1>1. /\ DOMAIN Append(s, l) = 1 .. Len(s) + 1 /\ DOMAIN s = 1 .. Len(s) /\ Len(s) \in Nat
      /\ \A i \in 1 .. Len(s) : Append(s, l)[i] = s[i]
      /\ Append(s, l)[Len(s) + 1] = l
  OBVIOUS
<1>2. \A i \in DOMAIN Append(s, l) : i \in DOMAIN s \/ i = Len(s) + 1
  BY <1>1
<1>3. Distinct(Append(s, l))
  BY <1>1, <1>2 DEF Distinct
<1>4. Range(Append(s, l)) = Range(s) \cup {l}
  BY RangeAppend
<1> QED
  BY <1>1, <1>2, <1>3, <1>4

(* The licenses of a registry but for those with one id. *)
LEMMA WithoutRight ==
  ASSUME NEW s \in Seq(Signed), NEW id, Distinct(s)
  PROVE  /\ Without(s, id) \in Seq(Signed)
         /\ Distinct(Without(s, id))
         /\ Range(Without(s, id)) = {l \in Range(s) : l.id # id}
<1> DEFINE g == Sieve(s, id)
           Right(n) == /\ g[1 .. n] \in Seq(Signed)
                       /\ Distinct(g[1 .. n])
                       /\ Range(g[1 .. n]) = {s[i] : i \in {j \in 1 .. n : s[j].id # id}}
           T == {n \in 0 .. Len(s) : ~ Right(n)}
<1>1. DOMAIN s = 1 .. Len(s) /\ Len(s) \in Nat
  OBVIOUS
<1>2. g = [t \in SUBSET (1 .. Len(s)) |->
             IF t = {} THEN <<>> ELSE Keep(g[t \ {Max(t)}], s[Max(t)], id)]
  BY <1>1, SieveExists DEF IsSieve
<1> HIDE DEF g
<1>3. Right(0)
  <2>1. 1 .. 0 = {}
    OBVIOUS
  <2>2. g[1 .. 0] = <<>>
    BY <1>2, <2>1
  <2>3. <<>> \in Seq(Signed) /\ Distinct(<<>>) /\ Range(<<>>) = {}
    BY DEF Distinct, Range
  <2> QED BY <2>1, <2>2, <2>3
<1>4. ASSUME NEW n \in 1 .. Len(s), Right(n - 1)
      PROVE  Right(n)
  <2> DEFINE k == g[1 .. n - 1]
             l == s[n]
  <2>1. 1 .. n \in SUBSET (1 .. Len(s)) /\ n \in Nat \ {0}
    BY <1>1
  <2>2. Max(1 .. n) = n /\ (1 .. n) \ {n} = 1 .. n - 1 /\ 1 .. n # {}
    BY <2>1, LastPlace
  <2>3. g[1 .. n] = Keep(k, l, id)
    BY <1>2, <2>1, <2>2
  <2>4. /\ k \in Seq(Signed) /\ Distinct(k) /\ l \in Signed
        /\ Range(k) = {s[i] : i \in {j \in 1 .. n - 1 : s[j].id # id}}
    BY <1>1, <1>4
  <2>5. CASE l.id = id
    <3>1. g[1 .. n] = k
      BY <2>3, <2>5 DEF Keep
    <3>2. {j \in 1 .. n : s[j].id # id} = {j \in 1 .. n - 1 : s[j].id # id}
      BY <2>1, <2>5
    <3> QED BY <2>4, <3>1, <3>2
  <2>6. CASE l.id # id
    <3>1. g[1 .. n] = Append(k, l)
      BY <2>3, <2>6 DEF Keep
    <3>2. {j \in 1 .. n : s[j].id # id} = {j \in 1 .. n - 1 : s[j].id # id} \cup {n}
      BY <2>1, <2>6
    <3>3. Range(Append(k, l)) = Range(k) \cup {l}
      BY <2>4, RangeAppend
    <3>4. Range(g[1 .. n]) = {s[i] : i \in {j \in 1 .. n : s[j].id # id}}
      BY <2>4, <3>1, <3>2, <3>3
    <3>5. \A i \in DOMAIN k : k[i].no # l.no
      <4> SUFFICES ASSUME NEW i \in DOMAIN k PROVE k[i].no # l.no
        OBVIOUS
      <4>1. k[i] \in Range(k)
        BY DEF Range
      <4>2. PICK j \in 1 .. n - 1 : k[i] = s[j]
        BY <2>4, <4>1
      <4>3. j \in DOMAIN s /\ n \in DOMAIN s /\ j # n
        BY <1>1, <4>2
      <4> QED BY <4>2, <4>3 DEF Distinct
    <3>6. Distinct(Append(k, l)) /\ Append(k, l) \in Seq(Signed)
      <4> HIDE DEF k, l
      <4> QED BY <2>4, <3>5, AppendRight
    <3> QED BY <2>4, <3>1, <3>4, <3>6
  <2> QED BY <2>5, <2>6
<1> HIDE DEF Right
<1>5. T = {}
  <2> SUFFICES ASSUME T # {} PROVE FALSE
    OBVIOUS
  <2>1. T \in SUBSET Nat
    BY <1>1
  <2>2. PICK n \in T : \A m \in T : n <= m
    <3> HIDE DEF T
    <3> QED BY <2>1, LeastNatural
  <2>3. n \in 1 .. Len(s) /\ n - 1 \in 0 .. Len(s) /\ ~ n <= n - 1
    BY <1>1, <1>3
  <2>4. Right(n - 1)
    BY <2>2, <2>3
  <2> QED BY <1>4, <2>3, <2>4
<1>6. Right(Len(s))
  BY <1>1, <1>5
<1>7. Range(s) = {s[i] : i \in DOMAIN s}
  BY DEF Range
<1>8. {s[i] : i \in {j \in 1 .. Len(s) : s[j].id # id}} = {l \in Range(s) : l.id # id}
  BY <1>1, <1>7
<1>9. Without(s, id) = g[1 .. Len(s)]
  BY <1>1, WithoutIsSieve DEF g
<1> QED
  BY <1>6, <1>8, <1>9 DEF Right

-----------------------------------------------------------------------------

(* The locals of a command. *)
MakingKeys == [at : {"open key", "write key"}, key : Nat]
Issuing    == [at : {"load issue"}, id : Ids, license : Signed]
Revoking   == [at : {"load revoke"}, id : Ids]
Saving     == [at : {"open registry", "write registry"}, id : Ids, new : SUBSET Signed,
               text : Seq(Signed)]
CommandLocals == {Idle} \cup MakingKeys \cup Issuing \cup Revoking \cup Saving

RegistryTypeOK ==
  /\ key \in Nat \cup {Cut}
  /\ keys \in Nat /\ licenses \in Nat
  /\ registry \in Seq(Signed) \cup {Cut}
  /\ cmd \in [Runs -> CommandLocals]

(* A registry that says nothing twice and nothing that was not signed. *)
Clean(s) == Distinct(s) /\ \A i \in DOMAIN s : s[i].no \in 1 .. licenses

(* A license not yet in a registry is nowhere else. *)
Numbers ==
  /\ Clean(Loaded)
  /\ \A r \in Runs : AtRegistry(r) => Clean(cmd[r].text)
  /\ \A r \in Runs : cmd[r].at = "load issue" =>
       LET no == cmd[r].license.no
       IN  /\ no \in 1 .. licenses
           /\ \A i \in DOMAIN Loaded : Loaded[i].no # no
           /\ \A q \in Runs : AtRegistry(q) => \A i \in DOMAIN cmd[q].text : cmd[q].text[i].no # no
           /\ \A q \in Runs : q # r /\ cmd[q].at = "load issue" => cmd[q].license.no # no

(* Undisturbed, one command at a time is at the registry, and what it will *)
(* write is what list should then say.                                     *)
After(c) == IF c.new = {} THEN {l \in listed : l.id # c.id} ELSE listed \cup c.new

Undisturbed ==
  /\ \A q, r \in Runs : AtRegistry(q) /\ AtRegistry(r) => q = r
  /\ registry = Cut => \E r \in Runs : cmd[r].at = "write registry"
  /\ registry # Cut => Range(registry) = listed
  /\ \A r \in Runs : AtRegistry(r) => Range(cmd[r].text) = After(cmd[r])

RegistryInv == RegistryTypeOK /\ Numbers /\ (~ disturbed => Undisturbed)

-----------------------------------------------------------------------------

(* A truncated file is not read as anything. *)
LEMMA CutIsNeither == Cut \notin Nat /\ Cut \notin Seq(Signed)
BY KeygenAssumption

(* What load returns is a list of licenses. *)
LEMMA LoadedType == RegistryTypeOK => Loaded \in Seq(Signed)
BY DEF RegistryTypeOK, Loaded

(* What the locals of a command are, by how far it is. *)
LEMMA CommandFields ==
  ASSUME RegistryTypeOK, NEW r \in Runs
  PROVE  /\ cmd[r].at \in {"open key", "write key"} => cmd[r] \in MakingKeys
         /\ cmd[r].at = "load issue" => cmd[r] \in Issuing
         /\ cmd[r].at = "load revoke" => cmd[r] \in Revoking
         /\ AtRegistry(r) => cmd[r] \in Saving
<1>1. cmd[r] \in CommandLocals
  BY DEF RegistryTypeOK
<1>2. CASE cmd[r] = Idle
  BY <1>2 DEF Idle, AtRegistry
<1>3. CASE cmd[r] \in MakingKeys
  BY <1>3 DEF MakingKeys, AtRegistry
<1>4. CASE cmd[r] \in Issuing
  BY <1>4 DEF Issuing, AtRegistry
<1>5. CASE cmd[r] \in Revoking
  BY <1>5 DEF Revoking, AtRegistry
<1>6. CASE cmd[r] \in Saving
  BY <1>6 DEF Saving, AtRegistry
<1> QED
  BY <1>1, <1>2, <1>3, <1>4, <1>5, <1>6 DEF CommandLocals

(* No command has run. *)
LEMMA RegistryInitInv == KeygenInit => RegistryInv
<1> SUFFICES ASSUME KeygenInit PROVE RegistryInv
  OBVIOUS
<1>1. /\ key = 0 /\ registry = <<>> /\ cmd = [r \in Runs |-> Idle]
      /\ keys = 0 /\ licenses = 0 /\ listed = {} /\ disturbed = FALSE
  BY DEF KeygenInit, NoKey
<1>2. \A r \in Runs : cmd[r].at = "idle"
  BY <1>1 DEF Idle
<1>3. RegistryTypeOK
  BY <1>1 DEF RegistryTypeOK, CommandLocals
<1>4. Loaded = <<>> /\ registry # Cut
  <2>1. <<>> \in Seq(Signed)
    OBVIOUS
  <2> QED BY <1>1, <2>1, CutIsNeither DEF Loaded
<1>5. Numbers
  <2>1. Clean(Loaded)
    <3>1. DOMAIN <<>> = {}
      OBVIOUS
    <3>2. DOMAIN Loaded = {}
      BY <1>4, <3>1, Zenon
    <3> QED BY <3>2 DEF Clean, Distinct
  <2> QED BY <1>2, <2>1 DEF Numbers, AtRegistry
<1>6. Undisturbed
  <2>1. Range(<<>>) = {}
    BY DEF Range
  <2> QED BY <1>1, <1>2, <1>4, <2>1 DEF Undisturbed, AtRegistry
<1> QED
  BY <1>3, <1>5, <1>6 DEF RegistryInv

(* What a command may write: the registry and one license more. *)
LEMMA IssuedText ==
  ASSUME RegistryTypeOK, Numbers, NEW r \in Runs, cmd[r].at = "load issue"
  PROVE  LET text == Append(Loaded, cmd[r].license)
         IN  /\ text \in Seq(Signed) /\ Clean(text)
             /\ Range(text) = Range(Loaded) \cup {cmd[r].license}
             /\ \A i \in DOMAIN text : text[i].no = cmd[r].license.no \/
                                       \E j \in DOMAIN Loaded : text[i].no = Loaded[j].no
<1> DEFINE l == cmd[r].license
           text == Append(Loaded, l)
<1>1. Loaded \in Seq(Signed) /\ l \in Signed
  BY LoadedType, CommandFields DEF Issuing
<1>2. /\ l.no \in 1 .. licenses
      /\ \A i \in DOMAIN Loaded : Loaded[i].no # l.no
      /\ Distinct(Loaded) /\ \A i \in DOMAIN Loaded : Loaded[i].no \in 1 .. licenses
  BY DEF Numbers, Clean
<1> HIDE DEF l
<1>3. /\ text \in Seq(Signed) /\ Distinct(text)
      /\ Range(text) = Range(Loaded) \cup {l}
      /\ \A i \in DOMAIN text : text[i] = l \/ \E j \in DOMAIN Loaded : text[i] = Loaded[j]
  BY <1>1, <1>2, AppendRight
<1> HIDE DEF text
<1>4. Clean(text)
  BY <1>2, <1>3 DEF Clean
<1> QED
  BY <1>3, <1>4 DEF text, l

(* The registry without those of one id. *)
LEMMA RevokedText ==
  ASSUME RegistryTypeOK, Numbers, NEW id
  PROVE  LET text == Without(Loaded, id)
         IN  /\ text \in Seq(Signed) /\ Clean(text)
             /\ Range(text) = {l \in Range(Loaded) : l.id # id}
             /\ \A i \in DOMAIN text : \E j \in DOMAIN Loaded : text[i].no = Loaded[j].no
<1> DEFINE text == Without(Loaded, id)
<1>1. Loaded \in Seq(Signed) /\ Distinct(Loaded)
      /\ \A i \in DOMAIN Loaded : Loaded[i].no \in 1 .. licenses
  BY LoadedType DEF Numbers, Clean
<1>2. /\ text \in Seq(Signed) /\ Distinct(text)
      /\ Range(text) = {l \in Range(Loaded) : l.id # id}
  BY <1>1, WithoutRight
<1> HIDE DEF text
<1>3. \A i \in DOMAIN text : \E j \in DOMAIN Loaded : text[i] = Loaded[j]
  BY <1>2 DEF Range
<1> QED
  BY <1>1, <1>2, <1>3 DEF Clean, text

-----------------------------------------------------------------------------

AtIssue(r) == cmd[r].at = "load issue"

(* A step that takes nothing to the registry: a command that was near it   *)
(* leaves, or stays where it is.                                           *)
LEMMA QuietStep ==
  ASSUME RegistryInv, UNCHANGED <<registry, licenses, listed>>,
         \A r \in Runs : \/ cmd'[r] = cmd[r]
                         \/ cmd'[r].at \notin {"load issue", "open registry", "write registry"},
         ~ disturbed' => ~ disturbed /\ \A r \in Runs : cmd[r].at = "write registry" => cmd'[r] = cmd[r]
  PROVE  Numbers' /\ (~ disturbed' => Undisturbed')
<1>1. Loaded' = Loaded
  BY DEF Loaded
<1>2. \A r \in Runs : AtRegistry(r)' => AtRegistry(r) /\ cmd'[r] = cmd[r]
  BY DEF AtRegistry
<1>3. \A r \in Runs : cmd'[r].at = "load issue" => cmd[r].at = "load issue" /\ cmd'[r] = cmd[r]
  OBVIOUS
<1>4. Numbers'
  <2>1. Clean(Loaded)'
    BY <1>1 DEF RegistryInv, Numbers, Clean
  <2>2. \A r \in Runs : AtRegistry(r)' => Clean(cmd[r].text)'
    BY <1>2 DEF RegistryInv, Numbers, Clean
  <2>3. ASSUME NEW r \in Runs, cmd'[r].at = "load issue"
        PROVE  LET no == cmd'[r].license.no
               IN  /\ no \in 1 .. licenses'
                   /\ \A i \in DOMAIN Loaded' : Loaded'[i].no # no
                   /\ \A q \in Runs : AtRegistry(q)' =>
                        \A i \in DOMAIN cmd'[q].text : cmd'[q].text[i].no # no
                   /\ \A q \in Runs : q # r /\ cmd'[q].at = "load issue" => cmd'[q].license.no # no
    <3> DEFINE no == cmd[r].license.no
    <3>1. cmd'[r] = cmd[r] /\ cmd[r].at = "load issue"
      BY <1>3, <2>3
    <3>2. /\ no \in 1 .. licenses
          /\ \A i \in DOMAIN Loaded : Loaded[i].no # no
          /\ \A q \in Runs : AtRegistry(q) => \A i \in DOMAIN cmd[q].text : cmd[q].text[i].no # no
          /\ \A q \in Runs : q # r /\ cmd[q].at = "load issue" => cmd[q].license.no # no
      BY <3>1 DEF RegistryInv, Numbers
    <3>3. ASSUME NEW q \in Runs, AtRegistry(q)'
          PROVE  \A i \in DOMAIN cmd'[q].text : cmd'[q].text[i].no # no
      <4>1. AtRegistry(q) /\ cmd'[q] = cmd[q]
        BY <1>2, <3>3
      <4> QED BY <3>2, <4>1
    <3>4. \A q \in Runs : q # r /\ cmd'[q].at = "load issue" => cmd'[q].license.no # no
      BY <1>3, <3>2
    <3> QED BY <1>1, <3>1, <3>2, <3>3, <3>4
  <2> QED BY <2>1, <2>2, <2>3 DEF Numbers
<1>5. ASSUME ~ disturbed' PROVE Undisturbed'
  <2>1. Undisturbed /\ \A r \in Runs : cmd[r].at = "write registry" => cmd'[r] = cmd[r]
    BY <1>5 DEF RegistryInv
  <2>2. \A q, r \in Runs : AtRegistry(q)' /\ AtRegistry(r)' => q = r
    BY <1>2, <2>1 DEF Undisturbed
  <2>3. registry' = Cut => \E r \in Runs : cmd'[r].at = "write registry"
    BY <2>1 DEF Undisturbed
  <2>4. registry' # Cut => Range(registry') = listed'
    BY <2>1 DEF Undisturbed
  <2>5. ASSUME NEW r \in Runs, AtRegistry(r)'
        PROVE  Range(cmd'[r].text) = After(cmd[r])'
    <3>1. AtRegistry(r) /\ cmd'[r] = cmd[r]
      BY <1>2, <2>5
    <3>2. Range(cmd[r].text) = After(cmd[r])
      BY <2>1, <3>1 DEF Undisturbed
    <3>3. After(cmd[r])' = After(cmd[r])
      BY <3>1 DEF After
    <3> QED BY <3>1, <3>2, <3>3
  <2> QED BY <2>2, <2>3, <2>4, <2>5 DEF Undisturbed
<1> QED
  BY <1>4, <1>5

(* A command that has read the registry and is about to write it. *)
LEMMA LoadStep ==
  ASSUME RegistryInv, NEW r \in Runs, NEW c \in Saving, c.at = "open registry",
         ~ AtRegistry(r), Changing(r),
         UNCHANGED <<registry, licenses, listed>>, cmd' = [cmd EXCEPT ![r] = c],
         Clean(c.text),
         \A i \in DOMAIN c.text :
           \/ AtIssue(r) /\ c.text[i].no = cmd[r].license.no
           \/ \E j \in DOMAIN Loaded : c.text[i].no = Loaded[j].no,
         Range(c.text) = IF c.new = {} THEN {l \in Range(Loaded) : l.id # c.id}
                                       ELSE Range(Loaded) \cup c.new
  PROVE  Numbers' /\ (~ disturbed' => Undisturbed')
<1>1. Loaded' = Loaded
  BY DEF Loaded
<1>2. cmd'[r] = c /\ \A q \in Runs : q # r => cmd'[q] = cmd[q]
  BY DEF RegistryInv, RegistryTypeOK
<1>3. AtRegistry(r)' /\ \A q \in Runs : q # r => (AtRegistry(q)' <=> AtRegistry(q))
  BY <1>2 DEF AtRegistry
<1>4. cmd'[r].at # "load issue"
  BY <1>2
<1>5. Numbers'
  <2>1. Clean(Loaded)'
    BY <1>1 DEF RegistryInv, Numbers, Clean
  <2>2. \A q \in Runs : AtRegistry(q)' => Clean(cmd[q].text)'
    BY <1>2, <1>3 DEF RegistryInv, Numbers, Clean
  <2>3. ASSUME NEW q \in Runs, cmd'[q].at = "load issue"
        PROVE  LET no == cmd'[q].license.no
               IN  /\ no \in 1 .. licenses'
                   /\ \A i \in DOMAIN Loaded' : Loaded'[i].no # no
                   /\ \A p \in Runs : AtRegistry(p)' =>
                        \A i \in DOMAIN cmd'[p].text : cmd'[p].text[i].no # no
                   /\ \A p \in Runs : p # q /\ cmd'[p].at = "load issue" => cmd'[p].license.no # no
    <3> DEFINE no == cmd[q].license.no
    <3>1. q # r /\ cmd'[q] = cmd[q] /\ cmd[q].at = "load issue"
      BY <1>2, <1>4, <2>3
    <3>2. /\ no \in 1 .. licenses
          /\ \A i \in DOMAIN Loaded : Loaded[i].no # no
          /\ \A p \in Runs : AtRegistry(p) => \A i \in DOMAIN cmd[p].text : cmd[p].text[i].no # no
          /\ \A p \in Runs : p # q /\ cmd[p].at = "load issue" => cmd[p].license.no # no
      BY <3>1 DEF RegistryInv, Numbers
    <3>3. \A i \in DOMAIN c.text : c.text[i].no # no
      BY <3>1, <3>2 DEF AtIssue
    <3>4. ASSUME NEW p \in Runs, AtRegistry(p)'
          PROVE  \A i \in DOMAIN cmd'[p].text : cmd'[p].text[i].no # no
      <4>1. CASE p = r
        BY <1>2, <3>3, <4>1
      <4>2. CASE p # r
        <5>1. AtRegistry(p) /\ cmd'[p] = cmd[p]
          BY <1>2, <1>3, <3>4, <4>2
        <5> QED BY <3>2, <5>1
      <4> QED BY <4>1, <4>2
    <3>5. \A p \in Runs : p # q /\ cmd'[p].at = "load issue" => cmd'[p].license.no # no
      BY <1>2, <1>4, <3>2
    <3> QED BY <1>1, <3>1, <3>2, <3>4, <3>5
  <2> QED BY <2>1, <2>2, <2>3 DEF Numbers
<1>6. ASSUME ~ disturbed' PROVE Undisturbed'
  <2>1. Undisturbed /\ \A q \in Runs : ~ AtRegistry(q)
    BY <1>6 DEF Changing, RegistryInv
  <2>2. registry # Cut /\ Range(registry) = listed
    BY <2>1 DEF Undisturbed, AtRegistry
  <2>3. \A q \in Runs : AtRegistry(q)' => q = r
    BY <1>3, <2>1
  <2>4. Range(c.text) = After(c)'
    BY <2>2 DEF After, Loaded
  <2> QED BY <1>2, <2>2, <2>3, <2>4 DEF Undisturbed
<1> QED
  BY <1>5, <1>6

(* Opening the registry empties the file, nothing else. *)
LEMMA OpenStep ==
  ASSUME RegistryInv, NEW r \in Runs, OpenRegistry(r)
  PROVE  RegistryInv'
<1>1. cmd[r].at = "open registry" /\ AtRegistry(r) /\ cmd[r] \in Saving
  BY CommandFields DEF OpenRegistry, AtRegistry, RegistryInv
<1> DEFINE c == [cmd[r] EXCEPT !.at = "write registry"]
<1>2. /\ c \in Saving /\ c.at = "write registry"
      /\ c.id = cmd[r].id /\ c.new = cmd[r].new /\ c.text = cmd[r].text
  BY <1>1 DEF Saving
<1>3. /\ cmd' = [cmd EXCEPT ![r] = c] /\ registry' = Cut
      /\ UNCHANGED <<key, keys, licenses, listed, disturbed>>
  BY DEF OpenRegistry
<1> HIDE DEF c
<1>4. cmd'[r] = c /\ \A q \in Runs : q # r => cmd'[q] = cmd[q]
  BY <1>3 DEF RegistryInv, RegistryTypeOK
<1>5. RegistryTypeOK'
  BY <1>2, <1>3 DEF RegistryInv, RegistryTypeOK, CommandLocals
<1>6. \A q \in Runs : /\ AtRegistry(q)' <=> AtRegistry(q)
                      /\ AtRegistry(q) => /\ cmd'[q].text = cmd[q].text
                                          /\ cmd'[q].new = cmd[q].new /\ cmd'[q].id = cmd[q].id
                      /\ cmd'[q].at = "load issue" => cmd'[q] = cmd[q]
  BY <1>1, <1>2, <1>4 DEF AtRegistry
<1>7. Loaded' = <<>> /\ DOMAIN Loaded' = {}
  BY <1>3 DEF Loaded
<1>8. Numbers'
  <2>1. Clean(Loaded)'
    BY <1>7 DEF Clean, Distinct
  <2>2. ASSUME NEW q \in Runs, AtRegistry(q)' PROVE Clean(cmd[q].text)'
    <3>1. Clean(cmd[q].text) /\ cmd'[q].text = cmd[q].text
      BY <1>6, <2>2 DEF RegistryInv, Numbers
    <3> QED BY <1>3, <3>1 DEF Clean
  <2>3. ASSUME NEW q \in Runs, cmd'[q].at = "load issue"
        PROVE  LET no == cmd'[q].license.no
               IN  /\ no \in 1 .. licenses'
                   /\ \A i \in DOMAIN Loaded' : Loaded'[i].no # no
                   /\ \A p \in Runs : AtRegistry(p)' =>
                        \A i \in DOMAIN cmd'[p].text : cmd'[p].text[i].no # no
                   /\ \A p \in Runs : p # q /\ cmd'[p].at = "load issue" => cmd'[p].license.no # no
    <3> DEFINE no == cmd[q].license.no
    <3>1. cmd'[q] = cmd[q] /\ cmd[q].at = "load issue"
      BY <1>6, <2>3
    <3>2. /\ no \in 1 .. licenses
          /\ \A p \in Runs : AtRegistry(p) => \A i \in DOMAIN cmd[p].text : cmd[p].text[i].no # no
          /\ \A p \in Runs : p # q /\ cmd[p].at = "load issue" => cmd[p].license.no # no
      BY <3>1 DEF RegistryInv, Numbers
    <3>3. ASSUME NEW p \in Runs, AtRegistry(p)'
          PROVE  \A i \in DOMAIN cmd'[p].text : cmd'[p].text[i].no # no
      BY <1>6, <3>2, <3>3, ZenonT(40)
    <3>4. \A p \in Runs : p # q /\ cmd'[p].at = "load issue" => cmd'[p].license.no # no
      BY <1>6, <3>2
    <3> QED BY <1>3, <1>7, <3>1, <3>2, <3>3, <3>4
  <2> QED BY <2>1, <2>2, <2>3 DEF Numbers
<1>9. ASSUME ~ disturbed' PROVE Undisturbed'
  <2>1. Undisturbed
    BY <1>3, <1>9 DEF RegistryInv
  <2>2. \A q, p \in Runs : AtRegistry(q)' /\ AtRegistry(p)' => q = p
    BY <1>6, <2>1 DEF Undisturbed
  <2>3. cmd'[r].at = "write registry" /\ registry' = Cut
    BY <1>2, <1>3, <1>4
  <2>4. ASSUME NEW q \in Runs, AtRegistry(q)'
        PROVE  Range(cmd'[q].text) = After(cmd[q])'
    <3>1. Range(cmd[q].text) = After(cmd[q])
      BY <1>6, <2>1, <2>4 DEF Undisturbed
    <3>2. After(cmd[q])' = After(cmd[q])
      BY <1>3, <1>6, <2>4 DEF After
    <3> QED BY <1>6, <2>4, <3>1, <3>2
  <2> QED BY <2>2, <2>3, <2>4 DEF Undisturbed
<1> QED
  BY <1>5, <1>8, <1>9 DEF RegistryInv

(* What is written becomes the registry. *)
LEMMA WriteStep ==
  ASSUME RegistryInv, NEW r \in Runs, WriteRegistry(r)
  PROVE  RegistryInv'
<1> DEFINE text == cmd[r].text
<1>1. cmd[r].at = "write registry" /\ AtRegistry(r) /\ cmd[r] \in Saving
  BY CommandFields DEF WriteRegistry, AtRegistry, RegistryInv
<1>2. text \in Seq(Signed) /\ Clean(text) /\ text # Cut
  BY <1>1, CutIsNeither DEF Saving, RegistryInv, Numbers
<1>3. /\ cmd' = [cmd EXCEPT ![r] = Idle] /\ registry' = text
      /\ listed' = After(cmd[r])
      /\ UNCHANGED <<key, keys, licenses, disturbed>>
  BY DEF WriteRegistry, After
<1>4. cmd'[r] = Idle /\ \A q \in Runs : q # r => cmd'[q] = cmd[q]
  BY <1>3 DEF RegistryInv, RegistryTypeOK
<1>5. RegistryTypeOK'
  BY <1>2, <1>3 DEF RegistryInv, RegistryTypeOK, CommandLocals
<1>6. Loaded' = text
  BY <1>2, <1>3 DEF Loaded
<1>7. \A q \in Runs : AtRegistry(q)' \/ cmd'[q].at = "load issue" => q # r /\ cmd'[q] = cmd[q]
  <2>1. ~ AtRegistry(r)' /\ cmd'[r].at # "load issue"
    BY <1>4 DEF AtRegistry, Idle
  <2> QED BY <1>4, <2>1
<1>8. Numbers'
  <2>1. Clean(Loaded)'
    BY <1>2, <1>3, <1>6 DEF Clean
  <2>2. ASSUME NEW q \in Runs, AtRegistry(q)' PROVE Clean(cmd[q].text)'
    <3>1. cmd'[q] = cmd[q]
      BY <1>7, <2>2
    <3>2. Clean(cmd[q].text)
      BY <2>2, <3>1 DEF RegistryInv, Numbers, AtRegistry
    <3> QED BY <1>3, <3>1, <3>2 DEF Clean
  <2>3. ASSUME NEW q \in Runs, cmd'[q].at = "load issue"
        PROVE  LET no == cmd'[q].license.no
               IN  /\ no \in 1 .. licenses'
                   /\ \A i \in DOMAIN Loaded' : Loaded'[i].no # no
                   /\ \A p \in Runs : AtRegistry(p)' =>
                        \A i \in DOMAIN cmd'[p].text : cmd'[p].text[i].no # no
                   /\ \A p \in Runs : p # q /\ cmd'[p].at = "load issue" => cmd'[p].license.no # no
    <3> DEFINE no == cmd[q].license.no
    <3>1. cmd'[q] = cmd[q] /\ cmd[q].at = "load issue"
      BY <1>7, <2>3
    <3>2. /\ no \in 1 .. licenses
          /\ \A p \in Runs : AtRegistry(p) => \A i \in DOMAIN cmd[p].text : cmd[p].text[i].no # no
          /\ \A p \in Runs : p # q /\ cmd[p].at = "load issue" => cmd[p].license.no # no
      BY <3>1 DEF RegistryInv, Numbers
    <3>3. ASSUME NEW p \in Runs, AtRegistry(p)'
          PROVE  \A i \in DOMAIN cmd'[p].text : cmd'[p].text[i].no # no
      <4>1. cmd'[p] = cmd[p]
        BY <1>7, <3>3
      <4>2. AtRegistry(p)
        BY <3>3, <4>1 DEF AtRegistry
      <4> QED BY <3>2, <4>1, <4>2
    <3>4. \A p \in Runs : p # q /\ cmd'[p].at = "load issue" => cmd'[p].license.no # no
      BY <1>7, <3>2
    <3>5. \A i \in DOMAIN text : text[i].no # no
      BY <1>1, <3>2
    <3> QED BY <1>3, <1>6, <3>1, <3>2, <3>3, <3>4, <3>5
  <2> QED BY <2>1, <2>2, <2>3 DEF Numbers
<1>9. ASSUME ~ disturbed' PROVE Undisturbed'
  <2>1. Undisturbed
    BY <1>3, <1>9 DEF RegistryInv
  <2>2. \A q \in Runs : ~ AtRegistry(q)'
    <3> SUFFICES ASSUME NEW q \in Runs, AtRegistry(q)' PROVE FALSE
      OBVIOUS
    <3>1. q # r /\ cmd'[q] = cmd[q]
      BY <1>7
    <3>2. AtRegistry(q)
      BY <3>1 DEF AtRegistry
    <3> QED BY <1>1, <2>1, <3>1, <3>2 DEF Undisturbed
  <2>3. Range(registry') = listed'
    BY <1>1, <1>3, <2>1 DEF Undisturbed
  <2> QED BY <1>2, <1>3, <2>2, <2>3 DEF Undisturbed
<1> QED
  BY <1>5, <1>8, <1>9 DEF RegistryInv

(* A license is signed: its number is the next. *)
LEMMA IssueStep ==
  ASSUME RegistryInv, NEW r \in Runs, NEW id \in Ids, BeginIssue(r, id)
  PROVE  RegistryInv'
<1> DEFINE l == [no |-> licenses + 1, id |-> id, by |-> key]
           c == [at |-> "load issue", id |-> id, license |-> l]
<1>1. /\ cmd' = [cmd EXCEPT ![r] = c] /\ licenses' = licenses + 1 /\ licenses \in Nat
      /\ key \in Nat /\ cmd[r].at = "idle"
      /\ UNCHANGED <<key, registry, keys, listed, disturbed>>
  BY DEF BeginIssue, RegistryInv, RegistryTypeOK
<1>2. l \in Signed /\ c \in Issuing /\ c.at = "load issue" /\ c.license = l /\ l.no = licenses + 1
  <2>a. licenses + 1 \in Nat /\ key \in Nat
    <3> HIDE DEF l, c
    <3> QED BY <1>1
  <2>1. l \in Signed /\ l.no = licenses + 1
    BY <2>a DEF Signed
  <2> HIDE DEF l
  <2> QED BY <2>1 DEF Issuing
<1> HIDE DEF l, c
<1>3. cmd'[r] = c /\ \A q \in Runs : q # r => cmd'[q] = cmd[q]
  BY <1>1 DEF RegistryInv, RegistryTypeOK
<1>4. RegistryTypeOK'
  <2>1. c \in CommandLocals
    BY <1>2 DEF CommandLocals
  <2>2. cmd' \in [Runs -> CommandLocals]
    BY <1>1, <2>1 DEF RegistryInv, RegistryTypeOK
  <2> QED BY <1>1, <2>2 DEF RegistryInv, RegistryTypeOK
<1>5. Loaded' = Loaded
  BY <1>1 DEF Loaded
<1>a. \A n \in 1 .. licenses : n \in 1 .. licenses' /\ n # licenses + 1
  BY <1>1
<1>6. \A q \in Runs : AtRegistry(q)' <=> AtRegistry(q) /\ q # r
  BY <1>1, <1>2, <1>3 DEF AtRegistry
<1>7. \A s : Clean(s) => Clean(s)' /\ \A i \in DOMAIN s : s[i].no # licenses + 1
  BY <1>1 DEF Clean
<1>8. Numbers'
  <2>1. Clean(Loaded) /\ Clean(Loaded)'
    <3>1. Clean(Loaded)
      BY DEF RegistryInv, Numbers
    <3> QED BY <1>a, <1>5, <3>1 DEF Clean
  <2>2. ASSUME NEW q \in Runs, AtRegistry(q)'
        PROVE  Clean(cmd[q].text)' /\ Clean(cmd[q].text) /\ cmd'[q] = cmd[q] /\ AtRegistry(q)
    <3>1. cmd'[q] = cmd[q] /\ AtRegistry(q)
      BY <1>3, <1>6, <2>2
    <3>2. Clean(cmd[q].text)
      BY <3>1 DEF RegistryInv, Numbers
    <3> QED BY <1>1, <3>1, <3>2 DEF Clean
  <2>3. ASSUME NEW q \in Runs, cmd'[q].at = "load issue"
        PROVE  LET no == cmd'[q].license.no
               IN  /\ no \in 1 .. licenses'
                   /\ \A i \in DOMAIN Loaded' : Loaded'[i].no # no
                   /\ \A p \in Runs : AtRegistry(p)' =>
                        \A i \in DOMAIN cmd'[p].text : cmd'[p].text[i].no # no
                   /\ \A p \in Runs : p # q /\ cmd'[p].at = "load issue" => cmd'[p].license.no # no
    <3>0. \A p \in Runs : p # r /\ cmd'[p].at = "load issue" =>
            cmd'[p] = cmd[p] /\ cmd[p].license.no \in 1 .. licenses
      BY <1>3 DEF RegistryInv, Numbers
    <3>1. CASE q = r
      <4>1. cmd'[q].license.no = licenses + 1
        BY <1>2, <1>3, <3>1
      <4>2. \A i \in DOMAIN Loaded' : Loaded'[i].no # licenses + 1
        BY <1>5, <1>7, <2>1
      <4>3. \A p \in Runs : AtRegistry(p)' =>
              \A i \in DOMAIN cmd'[p].text : cmd'[p].text[i].no # licenses + 1
        BY <1>7, <2>2
      <4>4. \A p \in Runs : p # q /\ cmd'[p].at = "load issue" => cmd'[p].license.no # licenses + 1
        BY <1>a, <3>0, <3>1
      <4>5. licenses + 1 \in 1 .. licenses'
        BY <1>1
      <4> QED BY <4>1, <4>2, <4>3, <4>4, <4>5
    <3>2. CASE q # r
      <4> DEFINE no == cmd[q].license.no
      <4>1. cmd'[q] = cmd[q] /\ cmd[q].at = "load issue"
        BY <1>3, <2>3, <3>2
      <4>2. /\ no \in 1 .. licenses
            /\ \A i \in DOMAIN Loaded : Loaded[i].no # no
            /\ \A p \in Runs : AtRegistry(p) => \A i \in DOMAIN cmd[p].text : cmd[p].text[i].no # no
            /\ \A p \in Runs : p # q /\ cmd[p].at = "load issue" => cmd[p].license.no # no
        BY <4>1 DEF RegistryInv, Numbers
      <4> HIDE DEF no
      <4>3. ASSUME NEW p \in Runs, AtRegistry(p)'
            PROVE  \A i \in DOMAIN cmd'[p].text : cmd'[p].text[i].no # no
        BY <2>2, <4>2, <4>3
      <4>4. ASSUME NEW p \in Runs, p # q, cmd'[p].at = "load issue" PROVE cmd'[p].license.no # no
        <5>1. CASE p = r
          <6>1. cmd'[p].license.no = licenses + 1
            BY <1>2, <1>3, <5>1
          <6> QED BY <1>a, <4>2, <6>1
        <5>2. CASE p # r
          BY <1>3, <4>2, <4>4, <5>2
        <5> QED BY <5>1, <5>2
      <4>5. no \in 1 .. licenses'
        BY <1>a, <4>2
      <4> QED BY <1>5, <4>1, <4>2, <4>3, <4>4, <4>5 DEF no
    <3> QED BY <3>1, <3>2
  <2> QED BY <2>1, <2>2, <2>3 DEF Numbers
<1>9. ASSUME ~ disturbed' PROVE Undisturbed'
  <2>1. Undisturbed
    BY <1>1, <1>9 DEF RegistryInv
  <2>2. \A q, p \in Runs : AtRegistry(q)' /\ AtRegistry(p)' => q = p
    BY <1>6, <2>1 DEF Undisturbed
  <2>3. registry' = Cut => \E q \in Runs : cmd'[q].at = "write registry"
    <3> SUFFICES ASSUME registry' = Cut PROVE \E q \in Runs : cmd'[q].at = "write registry"
      OBVIOUS
    <3>1. PICK q \in Runs : cmd[q].at = "write registry"
      BY <1>1, <2>1 DEF Undisturbed
    <3> QED BY <1>1, <1>3, <3>1
  <2>4. registry' # Cut => Range(registry') = listed'
    BY <1>1, <2>1 DEF Undisturbed
  <2>5. ASSUME NEW q \in Runs, AtRegistry(q)'
        PROVE  Range(cmd'[q].text) = After(cmd[q])'
    <3>1. AtRegistry(q) /\ cmd'[q] = cmd[q]
      BY <1>3, <1>6, <2>5
    <3>2. Range(cmd[q].text) = After(cmd[q])
      BY <2>1, <3>1 DEF Undisturbed
    <3>3. After(cmd[q])' = After(cmd[q])
      BY <1>1, <3>1 DEF After
    <3> QED BY <3>1, <3>2, <3>3
  <2> QED BY <2>2, <2>3, <2>4, <2>5 DEF Undisturbed
<1> QED
  BY <1>4, <1>8, <1>9 DEF RegistryInv

(* Every step of the tool. *)
LEMMA RegistryNext == RegistryInv /\ [KeygenNext]_keygen_vars => RegistryInv'
<1> SUFFICES ASSUME RegistryInv, [KeygenNext]_keygen_vars PROVE RegistryInv'
  OBVIOUS
<1>1. RegistryTypeOK
  BY DEF RegistryInv
<1>2. Idle \in CommandLocals /\ Idle.at = "idle"
  BY DEF CommandLocals, Idle
<1>3. ASSUME RegistryTypeOK', UNCHANGED <<registry, licenses, listed>>,
             NEW r \in Runs, NEW c, cmd' = [cmd EXCEPT ![r] = c],
             c.at \notin {"load issue", "open registry", "write registry"},
             ~ disturbed' => ~ disturbed /\ cmd[r].at # "write registry"
      PROVE  RegistryInv'
  <2>1. \A q \in Runs : q # r => cmd'[q] = cmd[q]
    BY <1>1, <1>3 DEF RegistryTypeOK
  <2>2. cmd'[r] = c
    BY <1>1, <1>3 DEF RegistryTypeOK
  <2>3. \A q \in Runs : \/ cmd'[q] = cmd[q]
                        \/ cmd'[q].at \notin {"load issue", "open registry", "write registry"}
    BY <1>3, <2>1, <2>2
  <2>4. ~ disturbed' => ~ disturbed /\ \A q \in Runs : cmd[q].at = "write registry" => cmd'[q] = cmd[q]
    BY <1>3, <2>1
  <2>5. Numbers' /\ (~ disturbed' => Undisturbed')
    BY <1>3, <2>3, <2>4, QuietStep
  <2> QED BY <1>3, <2>5 DEF RegistryInv
<1>4. CASE RemoveKey \/ UNCHANGED keygen_vars
  <2>1. UNCHANGED <<registry, licenses, listed, cmd, disturbed, keys>> /\ key' \in {key, 0}
    BY <1>4 DEF RemoveKey, keygen_vars, NoKey
  <2>2. RegistryTypeOK'
    BY <1>1, <2>1 DEF RegistryTypeOK
  <2>3. Numbers' /\ (~ disturbed' => Undisturbed')
    BY <2>1, QuietStep
  <2> QED BY <2>2, <2>3 DEF RegistryInv
<1>5. ASSUME NEW r \in Runs, BeginInit(r) PROVE RegistryInv'
  <2> DEFINE c == [at |-> "open key", key |-> keys + 1]
  <2>1. /\ cmd' = [cmd EXCEPT ![r] = c] /\ keys' = keys + 1 /\ cmd[r].at = "idle"
        /\ UNCHANGED <<registry, licenses, listed, disturbed, key>>
    BY <1>5 DEF BeginInit
  <2>a. keys + 1 \in Nat
    BY <1>1 DEF RegistryTypeOK
  <2>b. c \in MakingKeys /\ c.at = "open key"
    BY <2>a DEF MakingKeys
  <2>2. c \in CommandLocals /\ c.at = "open key"
    BY <2>b DEF CommandLocals
  <2> HIDE DEF c
  <2>3. RegistryTypeOK'
    BY <1>1, <2>1, <2>2, <2>a DEF RegistryTypeOK
  <2> QED BY <1>3, <2>1, <2>2, <2>3
<1>6. ASSUME NEW r \in Runs, OpenKey(r) PROVE RegistryInv'
  <2> DEFINE c == [cmd[r] EXCEPT !.at = "write key"]
  <2>1. /\ cmd' = [cmd EXCEPT ![r] = c] /\ key' = Cut /\ cmd[r].at = "open key"
        /\ UNCHANGED <<registry, licenses, listed, disturbed, keys>>
    BY <1>6 DEF OpenKey
  <2>2. cmd[r] \in MakingKeys
    BY <1>1, <2>1, CommandFields
  <2>3. c \in MakingKeys /\ c.at = "write key"
    BY <2>2 DEF MakingKeys
  <2> HIDE DEF c
  <2>4. RegistryTypeOK'
    BY <1>1, <2>1, <2>3 DEF RegistryTypeOK, CommandLocals
  <2> QED BY <1>3, <2>1, <2>3, <2>4
<1>7. ASSUME NEW r \in Runs, WriteKey(r) PROVE RegistryInv'
  <2>1. /\ cmd' = [cmd EXCEPT ![r] = Idle] /\ key' = cmd[r].key /\ cmd[r].at = "write key"
        /\ UNCHANGED <<registry, licenses, listed, disturbed, keys>>
    BY <1>7 DEF WriteKey
  <2>2. cmd[r].key \in Nat
    BY <1>1, <2>1, CommandFields DEF MakingKeys
  <2>3. RegistryTypeOK'
    BY <1>1, <1>2, <2>1, <2>2 DEF RegistryTypeOK
  <2> QED BY <1>2, <1>3, <2>1, <2>3
<1>8. ASSUME NEW r \in Runs, NEW id \in Ids, BeginRevoke(r, id) PROVE RegistryInv'
  <2> DEFINE c == [at |-> "load revoke", id |-> id]
  <2>1. /\ cmd' = [cmd EXCEPT ![r] = c] /\ cmd[r].at = "idle"
        /\ UNCHANGED <<registry, licenses, listed, disturbed, keys, key>>
    BY <1>8 DEF BeginRevoke
  <2>2. c \in Revoking /\ c.at = "load revoke"
    BY DEF Revoking
  <2> HIDE DEF c
  <2>3. RegistryTypeOK'
    BY <1>1, <2>1, <2>2 DEF RegistryTypeOK, CommandLocals
  <2> QED BY <1>3, <2>1, <2>2, <2>3
<1>9. ASSUME NEW r \in Runs, Fail(r) PROVE RegistryInv'
  <2>1. /\ cmd' = [cmd EXCEPT ![r] = Idle]
        /\ disturbed' = (disturbed \/ cmd[r].at = "write registry")
        /\ UNCHANGED <<registry, licenses, listed, keys, key>>
    BY <1>9 DEF Fail
  <2>2. RegistryTypeOK'
    BY <1>1, <1>2, <2>1 DEF RegistryTypeOK
  <2> QED BY <1>2, <1>3, <2>1, <2>2
<1>10. ASSUME NEW r \in Runs, LoadToIssue(r) PROVE RegistryInv'
  <2> DEFINE text == Append(Loaded, cmd[r].license)
             c == [at |-> "open registry", id |-> cmd[r].id, new |-> {cmd[r].license}, text |-> text]
  <2>1. /\ cmd' = [cmd EXCEPT ![r] = c] /\ cmd[r].at = "load issue" /\ Changing(r)
        /\ UNCHANGED <<registry, licenses, listed, keys, key>>
    BY <1>10 DEF LoadToIssue
  <2>2. cmd[r].id \in Ids /\ cmd[r].license \in Signed
    BY <1>1, <2>1, CommandFields DEF Issuing
  <2>3. /\ text \in Seq(Signed) /\ Clean(text)
        /\ Range(text) = Range(Loaded) \cup {cmd[r].license}
        /\ \A i \in DOMAIN text : text[i].no = cmd[r].license.no \/
                                  \E j \in DOMAIN Loaded : text[i].no = Loaded[j].no
    BY <1>1, <2>1, IssuedText DEF RegistryInv
  <2> HIDE DEF text
  <2>4. c \in Saving /\ c.at = "open registry" /\ c.text = text /\ c.new = {cmd[r].license}
    BY <2>2, <2>3 DEF Saving
  <2> HIDE DEF c
  <2>5. RegistryTypeOK'
    BY <1>1, <2>1, <2>4 DEF RegistryTypeOK, CommandLocals
  <2>6. ~ AtRegistry(r) /\ AtIssue(r) /\ c.new # {}
    BY <2>1, <2>4 DEF AtRegistry, AtIssue
  <2>7. Numbers' /\ (~ disturbed' => Undisturbed')
    BY <2>1, <2>3, <2>4, <2>6, LoadStep
  <2> QED BY <2>5, <2>7 DEF RegistryInv
<1>11. ASSUME NEW r \in Runs, LoadToRevoke(r) PROVE RegistryInv'
  <2> DEFINE text == Without(Loaded, cmd[r].id)
             c == [at |-> "open registry", id |-> cmd[r].id, new |-> {}, text |-> text]
  <2>1. /\ cmd' = [cmd EXCEPT ![r] = IF Len(text) = Len(Loaded) THEN Idle ELSE c]
        /\ cmd[r].at = "load revoke" /\ Changing(r)
        /\ UNCHANGED <<registry, licenses, listed, keys, key>>
    BY <1>11 DEF LoadToRevoke
  <2>2. cmd[r].id \in Ids
    BY <1>1, <2>1, CommandFields DEF Revoking
  <2>3. /\ text \in Seq(Signed) /\ Clean(text)
        /\ Range(text) = {l \in Range(Loaded) : l.id # cmd[r].id}
        /\ \A i \in DOMAIN text : \E j \in DOMAIN Loaded : text[i].no = Loaded[j].no
    BY <1>1, RevokedText DEF RegistryInv
  <2> HIDE DEF text
  <2>4. c \in Saving /\ c.at = "open registry" /\ c.text = text /\ c.new = {} /\ c.id = cmd[r].id
    BY <2>2, <2>3 DEF Saving
  <2> HIDE DEF c
  <2>5. CASE cmd' = [cmd EXCEPT ![r] = Idle]
    <3>1. RegistryTypeOK'
      BY <1>1, <1>2, <2>1, <2>5 DEF RegistryTypeOK
    <3>2. ~ disturbed' => ~ disturbed
      BY <2>1 DEF Changing
    <3> QED BY <1>2, <1>3, <2>1, <2>5, <3>1, <3>2
  <2>6. CASE cmd' = [cmd EXCEPT ![r] = c]
    <3>1. RegistryTypeOK'
      BY <1>1, <2>1, <2>4, <2>6 DEF RegistryTypeOK, CommandLocals
    <3>2. ~ AtRegistry(r)
      BY <2>1 DEF AtRegistry
    <3>3. Numbers' /\ (~ disturbed' => Undisturbed')
      BY <2>1, <2>3, <2>4, <2>6, <3>2, LoadStep
    <3> QED BY <3>1, <3>3 DEF RegistryInv
  <2> QED BY <2>1, <2>5, <2>6
<1> QED
  BY <1>4, <1>5, <1>6, <1>7, <1>8, <1>9, <1>10, <1>11, OpenStep, WriteStep, IssueStep DEF KeygenNext

(* Whatever commands fail or overlap, the registry never says a license    *)
(* twice nor one that was not signed; and as long as no two overlapped and *)
(* none was cut short, it says just what was issued and not revoked.       *)
THEOREM RegistryIsExact == KeygenSpec => []RegistryExact
<1>1. RegistryInv => RegistryExact
  BY DEF RegistryInv, Numbers, Clean, Distinct, Undisturbed, RegistryExact
<1> QED
  BY <1>1, RegistryInitInv, RegistryNext, PTL DEF KeygenSpec

-----------------------------------------------------------------------------
(* The loops and the storage backends.                                     *)

(* The first outputs that have been given to forward_event. *)
Reached ==
  CASE pc = "forward" -> next - 1
    [] pc = "print" /\ mode = "json" -> first - 1
    [] OTHER -> Len(polled)

(* Those of them that have come past the stages at of the call. *)
Past(at) == {i \in 1 .. Reached : polled[i].type # "Action" /\ ~ (i = call.ev /\ call.at \in at)}

Stages == {"kafka", "clickhouse", "post", "memgraph", "cache"}

RunTypeOK ==
  /\ mode \in {"json", "plain"}
  /\ pc \in {"poll", "print", "forward", "flush", "check"}
  /\ polled \in Seq(Bodies)
  /\ first \in 1 .. Len(polled) + 1
  /\ next \in first .. Len(polled) + 1
  /\ held \in Seq(Nat) /\ stdout \in Seq(Nat)
  /\ active \subseteq Backends
  /\ buffer \in Seq(Nat) /\ own \in Seq(Nat) /\ flush \in Seq(Nat) /\ rows \in Seq(Nat)
  /\ rx \in Seq(Nat) /\ handed \in Seq(Nat)
  /\ file_cache \in [Pairs -> Nat] /\ net_cache \subseteq Pairs
  /\ graph \in [at : {"sleep", "files", "nets"}, files : [Pairs -> Nat], nets : SUBSET Pairs]
  /\ edges \in [opened : [Pairs -> Nat], connected : SUBSET Pairs]
  /\ unlinked \in [opened : [Pairs -> Nat], connected : SUBSET Pairs]

(* The call under way is about the output before the next one. *)
CallOK ==
  IF call.at = "none" THEN call = NoCall
  ELSE /\ pc = "forward"
       /\ call.at \in Stages
       /\ call.ev = next - 1 /\ call.ev \in 1 .. Len(polled)
       /\ polled[call.ev].type # "Action"
       /\ call = [at |-> call.at, ev |-> call.ev, pid |-> polled[call.ev].pid,
                  target |-> polled[call.ev].target, net |-> polled[call.ev].net]

(* Every event that ClickHouse was given is in one place: stored, whatever *)
(* the answer was, in a batch, or reported as failed and not stored.       *)
Lost == failures \ Range(rows)
Copies(i) == Count(rows, {i}) + Count(own, {i}) + Count(flush, {i}) + Count(buffer, {i})
               + (IF i \in Lost THEN 1 ELSE 0)
HouseOK ==
  /\ own # <<>> => call.at = "post"
  /\ \A i \in Nat : Copies(i) = IF "clickhouse" \in active /\ i \in Past({"kafka", "clickhouse"})
                                THEN 1 ELSE 0
  /\ failures \subseteq Nat

(* So is every event that Kafka was given, and in order. *)
KafkaOK ==
  /\ Increasing(handed) /\ Increasing(rx)
  /\ \A x \in Range(handed), y \in Range(rx) : x < y
  /\ (Range(handed) \cup Range(rx)) \cap overflow = {}
  /\ Range(handed) \cup Range(rx) \cup overflow
       = IF "kafka" \in active THEN Past({"kafka"}) ELSE {}

(* And every access is counted in one place. *)
About(k) == {i \in Past(Stages) : <<polled[i].pid, polled[i].target>> = k}
GraphOK ==
  /\ graph.at # "files" => graph.files = NoCounts
  /\ graph.at # "nets" => graph.nets = {}
  /\ "memgraph" \in active =>
       \A k \in Pairs :
         /\ edges.opened[k] + unlinked.opened[k] + graph.files[k] + file_cache[k]
              = Cardinality(About(k))
         /\ k \in edges.connected \cup unlinked.connected \cup graph.nets \cup net_cache
              <=> \E i \in About(k) : polled[i].net

(* The outputs that have come past the printing, and what they look like. *)
PrintedTo ==
  CASE pc = "print" -> next - 1
    [] pc = "forward" /\ mode = "plain" -> first - 1
    [] OTHER -> Len(polled)
Shown(n) == {i \in 1 .. n : mode = "json" \/ polled[i].shown}
OutOK ==
  /\ Increasing(stdout \o held)
  /\ Range(stdout \o held) = Shown(PrintedTo)
  /\ mode = "plain" \/ pc \in {"poll", "check"} => held = <<>>
  /\ pc = "flush" => mode = "json"

-----------------------------------------------------------------------------

(* The steps by what they may change. *)
LoopStep == Poll \/ PrintJson \/ PrintPlain \/ Printed \/ Forwarded \/ Flush \/ Check
OutsideStep == WriteFails \/ handle_signal
HouseStep == FlushWake \/ FlushPost
KafkaStep == Take \/ Acknowledge

LEMMA RunSteps ==
  RunNext => \/ LoopStep
             \/ Forward
             \/ Calling /\ UNCHANGED loop_vars
             \/ HouseStep /\ UNCHANGED loop_vars
             \/ KafkaStep /\ UNCHANGED loop_vars
             \/ GraphThread /\ UNCHANGED loop_vars
             \/ OutsideStep
BY DEF RunNext, Loop, LoopStep, Threads, Background, HouseThread, HouseStep, KafkaStep,
       OutsideStep

LEMMA SequenceFacts ==
  ASSUME NEW S, NEW s \in Seq(S), NEW t \in Seq(S), NEW e \in S
  PROVE  /\ s \o t \in Seq(S) /\ Append(s, e) \in Seq(S) /\ <<e>> \in Seq(S) /\ <<>> \in Seq(S)
         /\ Len(s \o t) = Len(s) + Len(t) /\ Len(s) \in Nat /\ Len(t) \in Nat
         /\ \A i \in 1 .. Len(s) : (s \o t)[i] = s[i] /\ s[i] \in S
         /\ s # <<>> => Head(s) \in S /\ Tail(s) \in Seq(S)
BY ConcatProperties, AppendProperties, LenProperties, HeadTailProperties, ElementOfSeq

(* Poll: what was polled stays, more comes behind it. *)
LEMMA PollEffect ==
  ASSUME RunTypeOK, Poll
  PROVE  /\ polled' \in Seq(Bodies) /\ Len(polled) \in Nat /\ Len(polled') \in Nat
         /\ Len(polled') >= Len(polled)
         /\ \A i \in 1 .. Len(polled) : polled'[i] = polled[i]
         /\ first' = Len(polled) + 1 /\ next' = Len(polled) + 1
<1>0. PICK n \in 0 .. MaxBatch : \E outputs \in [1 .. n -> Samples] : polled' = polled \o outputs
  BY DEF Poll
<1>1. PICK outputs \in [1 .. n -> Samples] : polled' = polled \o outputs
  BY <1>0
<1>2. n \in Nat
  BY LoopAssumption
<1>3. outputs \in Seq(Bodies)
  <2>1. outputs \in [1 .. n -> Bodies]
    BY SampleAssumption
  <2> QED BY <1>2, <2>1
<1>4. polled \in Seq(Bodies)
  BY DEF RunTypeOK
<1>5. /\ polled \o outputs \in Seq(Bodies) /\ Len(polled \o outputs) = Len(polled) + Len(outputs)
      /\ Len(polled) \in Nat /\ Len(outputs) \in Nat
      /\ \A i \in 1 .. Len(polled) : (polled \o outputs)[i] = polled[i]
  BY <1>3, <1>4, ConcatProperties, LenProperties
<1> QED BY <1>1, <1>5 DEF Poll

LEMMA LoopType ==
  ASSUME RunTypeOK, LoopStep
  PROVE  RunTypeOK'
<1>1. /\ UNCHANGED <<active, buffer, own, flush, rows, rx, handed, file_cache, net_cache,
                     graph, edges, unlinked>>
  BY DEF LoopStep, Poll, PrintJson, PrintPlain, Printed, Forwarded, Flush, Check,
         store_vars, house_vars, kafka_vars, graph_vars
<1>2. held \in Seq(Nat) /\ stdout \in Seq(Nat) /\ first \in Nat /\ next \in Nat /\ Len(polled) \in Nat
  <2>1. Len(polled) \in Nat
    BY LenProperties DEF RunTypeOK
  <2> QED BY <2>1 DEF RunTypeOK
<1>3. /\ stdout \o held \in Seq(Nat) /\ Append(held, next) \in Seq(Nat) /\ <<next>> \in Seq(Nat)
      /\ Append(stdout, next) \in Seq(Nat) /\ <<>> \in Seq(Nat)
  BY <1>2, SequenceFacts
<1>4. /\ mode' \in {"json", "plain"}
      /\ pc' \in {"poll", "print", "forward", "flush", "check"}
      /\ polled' \in Seq(Bodies)
      /\ first' \in 1 .. Len(polled') + 1
      /\ next' \in first' .. Len(polled') + 1
      /\ held' \in Seq(Nat) /\ stdout' \in Seq(Nat)
  <2>1. CASE Poll
    <3>1. /\ polled' \in Seq(Bodies) /\ Len(polled') \in Nat /\ Len(polled') >= Len(polled)
          /\ first' = Len(polled) + 1 /\ next' = Len(polled) + 1
      BY <2>1, PollEffect
    <3>2. /\ mode' \in {"json", "plain"} /\ pc' \in {"print", "forward"}
          /\ held' \in Seq(Nat) /\ stdout' \in Seq(Nat)
      BY <1>2, <2>1 DEF Poll, RunTypeOK
    <3> QED BY <1>2, <3>1, <3>2
  <2>2. CASE PrintJson
    <3>1. held' \in Seq(Nat) /\ stdout' \in Seq(Nat)
      BY <1>2, <1>3, <2>2 DEF PrintJson
    <3>2. next' = next + 1 /\ next <= Len(polled) /\ UNCHANGED <<mode, pc, polled, first>>
      BY <1>2, <2>2 DEF PrintJson, BatchDone
    <3> QED BY <1>2, <3>1, <3>2 DEF RunTypeOK
  <2>3. CASE PrintPlain
    BY <1>2, <1>3, <2>3 DEF PrintPlain, BatchDone, RunTypeOK
  <2>4. CASE Printed
    BY <1>2, <2>4 DEF Printed, RunTypeOK
  <2>5. CASE Forwarded
    BY <1>2, <2>5 DEF Forwarded, RunTypeOK
  <2>6. CASE Flush
    BY <1>2, <1>3, <2>6 DEF Flush, RunTypeOK
  <2>7. CASE Check
    BY <1>2, <2>7 DEF Check, RunTypeOK
  <2> QED BY <2>1, <2>2, <2>3, <2>4, <2>5, <2>6, <2>7 DEF LoopStep
<1> QED BY <1>1, <1>4 DEF RunTypeOK

LEMMA CallType ==
  ASSUME RunTypeOK, CallOK, (Calling /\ UNCHANGED loop_vars) \/ Forward
  PROVE  RunTypeOK'
<1>1. UNCHANGED <<mode, pc, polled, first, held, stdout, active, handed, graph, edges, unlinked>>
      /\ next' \in {next, next + 1} /\ (next' = next + 1 => next <= Len(polled))
  <2>1. Len(polled) \in Nat /\ next \in Nat
    BY LenProperties DEF RunTypeOK
  <2> QED BY <2>1
       DEF Calling, Forward, BatchDone, SendKafka, Insert, PostOwn, MergeNode, CountAccess,
           loop_vars, house_vars, kafka_vars, graph_vars
<1>2. next' \in first .. Len(polled) + 1
  <2>1. Len(polled) \in Nat /\ first \in Nat /\ next \in first .. Len(polled) + 1
    BY LenProperties DEF RunTypeOK
  <2> QED BY <1>1, <2>1
<1>3. /\ buffer \in Seq(Nat) /\ own \in Seq(Nat) /\ flush \in Seq(Nat) /\ rows \in Seq(Nat)
      /\ rx \in Seq(Nat)
  BY DEF RunTypeOK
<1>4. call.at # "none" => call.ev \in Nat
  <2>1. Len(polled) \in Nat
    BY LenProperties DEF RunTypeOK
  <2> QED BY <2>1 DEF CallOK
<1>5. rows \o own \in Seq(Nat) /\ <<>> \in Seq(Nat)
  BY <1>3, SequenceFacts
<1>6. call.at # "none" => Append(rx, call.ev) \in Seq(Nat) /\ Append(buffer, call.ev) \in Seq(Nat)
  BY <1>3, <1>4, SequenceFacts
<1>7. /\ buffer' \in Seq(Nat) /\ own' \in Seq(Nat) /\ flush' \in Seq(Nat) /\ rows' \in Seq(Nat)
      /\ rx' \in Seq(Nat)
      /\ file_cache' \in [Pairs -> Nat] /\ net_cache' \subseteq Pairs
  <2>1. CASE Forward
    BY <1>3, <2>1 DEF Forward, house_vars, kafka_vars, graph_vars, RunTypeOK
  <2>2. CASE SendKafka
    BY <1>3, <1>6, <2>2 DEF SendKafka, house_vars, graph_vars, RunTypeOK
  <2>3. CASE Insert
    BY <1>3, <1>5, <1>6, <2>3 DEF Insert, kafka_vars, graph_vars, RunTypeOK
  <2>4. CASE PostOwn
    BY <1>3, <1>5, <2>4 DEF PostOwn, Outcome, kafka_vars, graph_vars, RunTypeOK
  <2>5. CASE MergeNode
    BY <1>3, <2>5 DEF MergeNode, house_vars, kafka_vars, RunTypeOK
  <2>6. CASE CountAccess
    <3> DEFINE k == <<call.pid, call.target>>
    <3>1. /\ file_cache' = IF k \in Pairs THEN [file_cache EXCEPT ![k] = file_cache[k] + 1]
                           ELSE file_cache
          /\ net_cache' = IF k \in Pairs /\ call.net THEN net_cache \cup {k} ELSE net_cache
          /\ UNCHANGED <<buffer, own, flush, rows, rx>>
      BY <2>6 DEF CountAccess, house_vars, kafka_vars
    <3>2. file_cache \in [Pairs -> Nat] /\ net_cache \subseteq Pairs
      BY DEF RunTypeOK
    <3> HIDE DEF k
    <3>3. net_cache' \subseteq Pairs
      <4>1. net_cache' = net_cache \/ (k \in Pairs /\ net_cache' = net_cache \cup {k})
        BY <3>1
      <4> QED BY <3>2, <4>1
    <3>4. file_cache' \in [Pairs -> Nat]
      BY <3>1, <3>2
    <3> QED BY <1>3, <3>1, <3>3, <3>4
  <2> QED BY <2>1, <2>2, <2>3, <2>4, <2>5, <2>6 DEF Calling
<1> QED BY <1>1, <1>2, <1>7 DEF RunTypeOK

LEMMA ThreadType ==
  ASSUME RunTypeOK, HouseStep \/ KafkaStep \/ GraphThread \/ OutsideStep,
         UNCHANGED <<mode, pc, polled, first, next, held, stdout>>
  PROVE  RunTypeOK'
<1>1. /\ buffer \in Seq(Nat) /\ flush \in Seq(Nat) /\ rows \in Seq(Nat)
      /\ rx \in Seq(Nat) /\ handed \in Seq(Nat) /\ own \in Seq(Nat)
  BY DEF RunTypeOK
<1>2. /\ rows \o flush \in Seq(Nat) /\ <<>> \in Seq(Nat)
      /\ rx # <<>> => /\ Tail(rx) \in Seq(Nat) /\ Head(rx) \in Nat
                      /\ Append(handed, Head(rx)) \in Seq(Nat)
  BY <1>1, SequenceFacts
<1>3. CASE HouseStep
  BY <1>1, <1>2, <1>3 DEF HouseStep, FlushWake, FlushPost, Outcome, kafka_vars, graph_vars,
                          RunTypeOK
<1>4. CASE KafkaStep
  BY <1>1, <1>2, <1>4 DEF KafkaStep, Take, Acknowledge, house_vars, graph_vars, RunTypeOK
<1>5. CASE OutsideStep
  BY <1>5 DEF OutsideStep, WriteFails, handle_signal, store_vars, house_vars, kafka_vars,
              graph_vars, RunTypeOK
<1>6. CASE GraphThread
  <2> USE DEF RunTypeOK, house_vars, kafka_vars
  <2>1. CASE GraphWake
    BY <2>1 DEF GraphWake, NoCounts
  <2>2. CASE DrainNet
    BY <2>2 DEF DrainNet
  <2>3. CASE GraphSleep
    BY <2>3 DEF GraphSleep
  <2>4. ASSUME NEW k \in Pairs, LinkFile(k) PROVE RunTypeOK'
    <3> DEFINE Counts == [opened : [Pairs -> Nat], connected : SUBSET Pairs]
               more(e) == [e EXCEPT !.opened[k] = @ + graph.files[k]]
    <3>1. /\ graph' = [graph EXCEPT !.files[k] = 0] /\ graph.files[k] \in Nat
          /\ edges' \in {edges, more(edges)} /\ unlinked' \in {unlinked, more(unlinked)}
      BY <2>4 DEF LinkFile
    <3>2. graph' \in [at : {"sleep", "files", "nets"}, files : [Pairs -> Nat], nets : SUBSET Pairs]
      BY <3>1
    <3>3. ASSUME NEW e \in Counts PROVE more(e) \in Counts
      <4> DEFINE was == e.opened[k]
                 add == graph.files[k]
                 n   == was + add
      <4>1. was \in Nat /\ add \in Nat
        BY <3>1
      <4>2. n \in Nat
        <5> HIDE DEF was, add
        <5> QED BY <4>1, SMTT(20)
      <4>3. more(e) = [e EXCEPT !.opened[k] = n]
        OBVIOUS
      <4> HIDE DEF n, more
      <4>4. [e EXCEPT !.opened[k] = n] \in Counts
        BY <4>2
      <4> HIDE DEF Counts
      <4> QED BY <4>3, <4>4
    <3>4. edges' \in Counts /\ unlinked' \in Counts
      <4> HIDE DEF more
      <4> QED BY <3>1, <3>3
    <3> QED BY <2>4, <3>2, <3>4 DEF LinkFile
  <2>5. ASSUME NEW k \in Pairs, LinkNet(k) PROVE RunTypeOK'
    <3> DEFINE Counts == [opened : [Pairs -> Nat], connected : SUBSET Pairs]
               more(e) == [e EXCEPT !.connected = @ \cup {k}]
    <3>1. /\ graph' = [graph EXCEPT !.nets = @ \ {k}]
          /\ edges' \in {edges, more(edges)} /\ unlinked' \in {unlinked, more(unlinked)}
      BY <2>5 DEF LinkNet
    <3>2. graph' \in [at : {"sleep", "files", "nets"}, files : [Pairs -> Nat], nets : SUBSET Pairs]
      BY <3>1
    <3>3. ASSUME NEW e \in Counts PROVE more(e) \in Counts
      OBVIOUS
    <3>4. edges' \in Counts /\ unlinked' \in Counts
      <4> HIDE DEF more
      <4> QED BY <3>1, <3>3
    <3> QED BY <2>5, <3>2, <3>4 DEF LinkNet
  <2> QED BY <1>6, <2>1, <2>2, <2>3, <2>4, <2>5 DEF GraphThread
<1> QED BY <1>3, <1>4, <1>5, <1>6

-----------------------------------------------------------------------------
(* Where the call is, and which outputs have come how far.                 *)

LEMMA ReachedType ==
  ASSUME RunTypeOK
  PROVE  /\ Reached \in 0 .. Len(polled) /\ Len(polled) \in Nat
         /\ first \in Nat /\ next \in Nat
         /\ \A i \in 1 .. Len(polled) : polled[i] \in Bodies
         /\ \A at : Past(at) \subseteq 1 .. Len(polled)
<1>1. Len(polled) \in Nat /\ \A i \in 1 .. Len(polled) : polled[i] \in Bodies
  BY LenProperties, ElementOfSeq DEF RunTypeOK
<1>2. first \in 1 .. Len(polled) + 1 /\ next \in first .. Len(polled) + 1
  BY DEF RunTypeOK
<1>3. Reached \in {next - 1, first - 1, Len(polled)}
  BY DEF Reached
<1>4. Reached \in 0 .. Len(polled)
  BY <1>1, <1>2, <1>3
<1>5. \A at : Past(at) \subseteq 1 .. Len(polled)
  BY <1>1, <1>4 DEF Past
<1> QED BY <1>1, <1>2, <1>4, <1>5

LEMMA NoCallAt == NoCall.at = "none" /\ NoCall.ev = 0
BY DEF NoCall

(* A step of the loop outside forward_event: no call is under way, and no  *)
(* output gets further.                                                    *)
LEMMA LoopReach ==
  ASSUME RunTypeOK, CallOK, LoopStep
  PROVE  /\ call' = call /\ call = NoCall
         /\ \A at : Past(at)' = Past(at)
         /\ \A i \in 1 .. Len(polled) : polled'[i] = polled[i]
<1>1. call' = call /\ call = NoCall
  BY DEF LoopStep, CallOK, Poll, PrintJson, PrintPlain, Printed, Forwarded, Flush, Check,
         store_vars
<1>2. \A i \in 1 .. Len(polled) : polled'[i] = polled[i]
  <2>1. CASE Poll
    BY <2>1, PollEffect
  <2>2. CASE ~ Poll
    BY <2>2 DEF LoopStep, PrintJson, PrintPlain, Printed, Forwarded, Flush, Check
  <2> QED BY <2>1, <2>2
<1>3. Reached' = Reached
  <2>1. Len(polled) \in Nat /\ first \in 1 .. Len(polled) + 1 /\ next \in first .. Len(polled) + 1
        /\ mode \in {"json", "plain"}
    BY ReachedType DEF RunTypeOK
  <2>2. CASE Poll
    BY <2>1, <2>2, PollEffect DEF Poll, Reached
  <2>3. CASE PrintJson
    BY <2>1, <2>3 DEF PrintJson, Reached
  <2>4. CASE PrintPlain
    BY <2>1, <2>4 DEF PrintPlain, Reached
  <2>5. CASE Printed
    BY <2>1, <2>5 DEF Printed, Reached
  <2>6. CASE Forwarded
    BY <2>1, <2>6 DEF Forwarded, BatchDone, Reached
  <2>7. CASE Flush
    BY <2>1, <2>7 DEF Flush, Reached
  <2>8. CASE Check
    BY <2>1, <2>8 DEF Check, Reached
  <2> QED BY <2>2, <2>3, <2>4, <2>5, <2>6, <2>7, <2>8 DEF LoopStep
<1>4. \A i \in 1 .. Reached : i \in 1 .. Len(polled)
  BY ReachedType
<1>5. \A at : Past(at)' = Past(at)
  <2>1. \A i \in 1 .. Reached : polled'[i] = polled[i]
    BY <1>2, <1>4
  <2> QED BY <1>1, <1>3, <2>1 DEF Past
<1> QED BY <1>1, <1>2, <1>5

(* The next output enters forward_event, but has come nowhere yet. *)
LEMMA ForwardReach ==
  ASSUME RunTypeOK, CallOK, Forward
  PROVE  /\ CallOK' /\ polled' = polled
         /\ \A at : "kafka" \in at => Past(at)' = Past(at)
<1>1. /\ pc = "forward" /\ pc' = pc /\ polled' = polled /\ next' = next + 1 /\ call = NoCall
      /\ next \in 1 .. Len(polled) /\ Len(polled) \in Nat
  <2>1. Len(polled) \in Nat /\ first \in Nat /\ next \in Nat /\ next \in 1 .. Len(polled) + 1
    BY ReachedType DEF RunTypeOK
  <2> QED BY <2>1 DEF Forward, BatchDone, CallOK
<1>2. polled[next] \in Bodies
  BY <1>1, ReachedType
<1>3. Reached = next - 1 /\ Reached' = next
  BY <1>1 DEF Reached
<1>4. CASE polled[next].type = "Action"
  <2>1. call' = call
    BY <1>4 DEF Forward
  <2>2. CallOK'
    BY <1>1, <2>1, NoCallAt DEF CallOK
  <2>3. \A at : Past(at)' = Past(at)
    <3>1. \A i \in 1 .. next : i \in 1 .. next - 1 \/ i = next
      BY <1>1
    <3>2. \A i \in 1 .. next - 1 : i \in 1 .. next
      BY <1>1
    <3> QED BY <1>1, <1>3, <1>4, <2>1, <3>1, <3>2 DEF Past
  <2> QED BY <1>1, <2>2, <2>3
<1>5. CASE polled[next].type # "Action"
  <2>1. call' = [at |-> "kafka", ev |-> next, pid |-> polled[next].pid,
                 target |-> polled[next].target, net |-> polled[next].net]
    BY <1>5 DEF Forward
  <2>2. call'.at = "kafka" /\ call'.ev = next /\ next' - 1 = next
    BY <1>1, <2>1
  <2>3. CallOK'
    BY <1>1, <1>5, <2>1, <2>2 DEF CallOK, Stages
  <2>4. \A i \in 1 .. next : i \in 1 .. next - 1 \/ i = next
    BY <1>1
  <2>5. \A i \in 1 .. next - 1 : i \in 1 .. next /\ i # next
    BY <1>1
  <2>6. call.ev = 0 /\ \A i \in 1 .. next - 1 : i # 0
    BY <1>1, NoCallAt
  <2>7. ASSUME NEW at, "kafka" \in at PROVE Past(at)' = Past(at)
    <3>1. Past(at)' = {i \in 1 .. next : polled[i].type # "Action" /\ ~ (i = next)}
      BY <1>1, <1>3, <2>2, <2>7 DEF Past
    <3>2. Past(at) = {i \in 1 .. next - 1 : polled[i].type # "Action"}
      BY <1>1, <1>3, <2>6 DEF Past
    <3> QED BY <2>4, <2>5, <3>1, <3>2
  <2> QED BY <1>1, <2>3, <2>7
<1> QED BY <1>4, <1>5

(* One stage of forward_event is done. *)
LEMMA CallingReach ==
  ASSUME RunTypeOK, CallOK, Calling, UNCHANGED loop_vars
  PROVE  /\ CallOK' /\ polled' = polled
         /\ call.ev \in 1 .. Reached /\ polled[call.ev].type # "Action" /\ Reached' = Reached
         /\ call'.at = "none" \/ (call'.ev = call.ev /\ call'.at \in Stages)
<1>1. /\ UNCHANGED <<mode, pc, polled, first, next>> /\ call.at # "none"
      /\ call.at \in Stages /\ pc = "forward" /\ call.ev = next - 1 /\ call.ev \in 1 .. Len(polled)
      /\ polled[call.ev].type # "Action"
  BY DEF Calling, SendKafka, Insert, PostOwn, MergeNode, CountAccess, loop_vars, CallOK
<1>2. Reached' = Reached /\ Reached = next - 1
  BY <1>1 DEF Reached
<1>3. call.ev \in 1 .. Reached
  <2>1. Len(polled) \in Nat
    BY ReachedType
  <2> QED BY <1>1, <1>2, <2>1
<1>4. call' = NoCall \/ \E at \in {"clickhouse", "post", "memgraph", "cache"} : call' = [call EXCEPT !.at = at]
  BY DEF Calling, SendKafka, Insert, PostOwn, MergeNode, CountAccess
<1>5. CASE call' = NoCall
  BY <1>1, <1>2, <1>3, <1>5, NoCallAt DEF CallOK
<1>6. ASSUME NEW at \in {"clickhouse", "post", "memgraph", "cache"}, call' = [call EXCEPT !.at = at]
      PROVE  CallOK' /\ call'.ev = call.ev /\ call'.at \in Stages
  <2>1. call = [at |-> call.at, ev |-> call.ev, pid |-> polled[call.ev].pid,
                target |-> polled[call.ev].target, net |-> polled[call.ev].net]
    BY <1>1 DEF CallOK
  <2>2. call' = [at |-> at, ev |-> call.ev, pid |-> polled[call.ev].pid,
                 target |-> polled[call.ev].target, net |-> polled[call.ev].net]
    BY <1>6, <2>1
  <2>3. call'.at = at /\ call'.ev = call.ev /\ at \in Stages /\ at # "none"
    BY <2>2 DEF Stages
  <2> QED BY <1>1, <2>2, <2>3 DEF CallOK
<1> QED BY <1>1, <1>2, <1>3, <1>4, <1>5, <1>6

(* The threads and the outside have no part in it. *)
LEMMA OtherReach ==
  ASSUME RunTypeOK, CallOK, UNCHANGED <<mode, pc, polled, first, next, call>>
  PROVE  CallOK' /\ \A at : Past(at)' = Past(at)
BY DEF CallOK, Past, Reached

-----------------------------------------------------------------------------
(* ClickHouse: an event is in one place.                                   *)

(* What a stage of forward_event has let past: the event of the call, or   *)
(* nothing.                                                                *)
LEMMA CallingPast ==
  ASSUME RunTypeOK, CallOK, Calling, UNCHANGED loop_vars, NEW at, "none" \notin at
  PROVE  /\ call.at \in at /\ call'.at \notin at =>
              Past(at)' = Past(at) \cup {call.ev} /\ call.ev \notin Past(at)
         /\ (call.at \in at <=> call'.at \in at) => Past(at)' = Past(at)
         /\ call.at \in at => \A i \in Past(at) : i < call.ev
         /\ call.ev \in Nat
<1>1. /\ polled' = polled /\ call.ev \in 1 .. Reached /\ polled[call.ev].type # "Action"
      /\ Reached' = Reached
      /\ call'.at = "none" \/ (call'.ev = call.ev /\ call'.at \in Stages)
  BY CallingReach
<1>2. Reached \in Nat
  BY ReachedType
<1>3. call.at # "none" /\ call.ev = next - 1 /\ Reached = next - 1
  BY DEF Calling, SendKafka, Insert, PostOwn, MergeNode, CountAccess, CallOK, Reached
<1>4. \A i \in 1 .. Reached : i # call.ev => i < call.ev
  BY <1>2, <1>3
<1>5. call.at \in at /\ call'.at \notin at =>
        Past(at)' = Past(at) \cup {call.ev} /\ call.ev \notin Past(at)
  BY <1>1 DEF Past
<1>6. call.at \notin at /\ call'.at \notin at => Past(at)' = Past(at)
  BY <1>1 DEF Past
<1>7. call.at \in at /\ call'.at \in at => Past(at)' = Past(at)
  BY <1>1 DEF Past
<1> QED BY <1>1, <1>2, <1>4, <1>5, <1>6, <1>7 DEF Past

(* A batch that was posted is stored, or reported as failed. *)
LEMMA PostCounts ==
  ASSUME NEW batch \in Seq(Nat), rows \in Seq(Nat), failures \subseteq Nat, Outcome(batch),
         \A i \in Nat : Count(rows, {i}) + Count(batch, {i}) + (IF i \in Lost THEN 1 ELSE 0) <= 1
  PROVE  /\ failures' \subseteq Nat
         /\ \A i \in Nat : Count(rows', {i}) + (IF i \in Lost' THEN 1 ELSE 0)
                   = Count(rows, {i}) + Count(batch, {i}) + (IF i \in Lost THEN 1 ELSE 0)
<1>1. Range(batch) \subseteq Nat
  BY RangeOfSeq
<1>2. failures' \subseteq Nat
  BY <1>1 DEF Outcome
<1>3. ASSUME NEW i \in Nat
      PROVE  Count(rows', {i}) + (IF i \in Lost' THEN 1 ELSE 0)
               = Count(rows, {i}) + Count(batch, {i}) + (IF i \in Lost THEN 1 ELSE 0)
  <2> DEFINE a == Count(rows, {i})
             b == Count(batch, {i})
             c == Count(rows', {i})
  <2>1. a \in Nat /\ b \in Nat /\ a + b + (IF i \in Lost THEN 1 ELSE 0) <= 1
    BY CountConcat
  <2>2. (i \in Range(batch) <=> b # 0) /\ (i \in Range(rows) <=> a # 0)
    BY CountIsOccurrence
  <2>3. i \in Lost <=> i \in failures /\ i \notin Range(rows)
    BY DEF Lost
  <2>4. i \in Lost' <=> i \in failures' /\ i \notin Range(rows')
    BY DEF Lost
  <2>5. CASE rows' = rows \o batch /\ failures' \in {failures, failures \cup Range(batch)}
    <3>1. c = a + b
      BY <2>5, CountConcat
    <3>2. Range(rows') = Range(rows) \cup Range(batch)
      BY <2>5, RangeConcatenation
    <3>3. i \in Lost' <=> i \in Lost
      <4> HIDE DEF a, b, c
      <4> QED BY <2>1, <2>2, <2>3, <2>4, <2>5, <3>2
    <3> HIDE DEF a, b, c
    <3>4. c + (IF i \in Lost' THEN 1 ELSE 0) = a + b + (IF i \in Lost THEN 1 ELSE 0)
      BY <2>1, <3>1, <3>3
    <3> QED BY <3>4 DEF a, b, c
  <2>6. CASE rows' = rows /\ failures' = failures \cup Range(batch)
    <3>1. c = a
      BY <2>6
    <3>2. i \in Lost' <=> i \in Lost \/ i \in Range(batch)
      <4> HIDE DEF a, b, c
      <4> QED BY <2>1, <2>2, <2>3, <2>4, <2>6
    <3> HIDE DEF a, b, c
    <3>3. c + (IF i \in Lost' THEN 1 ELSE 0) = a + b + (IF i \in Lost THEN 1 ELSE 0)
      BY <2>1, <2>2, <3>1, <3>2
    <3> QED BY <3>3 DEF a, b, c
  <2> QED BY <2>5, <2>6 DEF Outcome
<1> QED BY <1>2, <1>3

LEMMA CopyTypes ==
  ASSUME RunTypeOK
  PROVE  \A i : /\ Count(rows, {i}) \in Nat /\ Count(own, {i}) \in Nat
                /\ Count(flush, {i}) \in Nat /\ Count(buffer, {i}) \in Nat
BY CountConcat DEF RunTypeOK

LEMMA AtMostOne ==
  ASSUME RunTypeOK, NEW i \in Nat, Copies(i) <= 1
  PROVE  /\ Count(rows, {i}) + Count(own, {i}) + (IF i \in Lost THEN 1 ELSE 0) <= 1
         /\ Count(rows, {i}) + Count(flush, {i}) + (IF i \in Lost THEN 1 ELSE 0) <= 1
<1> DEFINE c(s) == Count(s, {i})
           r    == IF i \in Lost THEN 1 ELSE 0
<1>1. c(rows) \in Nat /\ c(own) \in Nat /\ c(flush) \in Nat /\ c(buffer) \in Nat /\ r \in Nat
  BY CopyTypes
<1>2. Copies(i) = c(rows) + c(own) + c(flush) + c(buffer) + r
  BY DEF Copies
<1>3. c(rows) + c(own) + r <= 1 /\ c(rows) + c(flush) + r <= 1
  <2> HIDE DEF c, r
  <2> QED BY <1>1, <1>2
<1> QED BY <1>3

LEMMA HouseCall ==
  ASSUME RunTypeOK, CallOK, HouseOK, Calling, UNCHANGED loop_vars
  PROVE  HouseOK'
<1> DEFINE at == {"kafka", "clickhouse"}
<1>1. /\ call.at \in at /\ call'.at \notin at =>
              Past(at)' = Past(at) \cup {call.ev} /\ call.ev \notin Past(at)
      /\ (call.at \in at <=> call'.at \in at) => Past(at)' = Past(at)
      /\ call.ev \in Nat
  BY CallingPast
<1>2. \A i \in Nat : Copies(i) = IF "clickhouse" \in active /\ i \in Past(at) THEN 1 ELSE 0
  BY DEF HouseOK
<1>3. own # <<>> => call.at = "post"
  BY DEF HouseOK
<1>4. \A i : /\ Count(rows, {i}) \in Nat /\ Count(own, {i}) \in Nat
             /\ Count(flush, {i}) \in Nat /\ Count(buffer, {i}) \in Nat
             /\ Count(<<>>, {i}) = 0
  BY CopyTypes, CountEmpty
<1>5. CASE UNCHANGED house_vars /\ (call.at \in at <=> call'.at \in at) /\ own = <<>>
  <2>1. Past(at)' = Past(at) /\ active' = active
    BY <1>1, <1>5 DEF Calling, SendKafka, Insert, PostOwn, MergeNode, CountAccess
  <2> QED BY <1>5, <2>1 DEF house_vars, HouseOK, Copies, Lost
<1>6. CASE Insert
  <2>1. /\ call.at = "clickhouse" /\ own = <<>> /\ UNCHANGED <<active, flush, rows, failures>>
        /\ call'.at \in {"post", "memgraph"}
    BY <1>3, <1>6 DEF Insert, CallOK
  <2>2. Past(at)' = Past(at) \cup {call.ev} /\ call.ev \notin Past(at)
    BY <1>1, <2>1
  <2>3. CASE "clickhouse" \notin active
    <3>1. buffer' = buffer /\ own' = own
      BY <1>6, <2>3 DEF Insert
    <3> QED BY <2>1, <2>3, <3>1 DEF HouseOK, Copies, Lost
  <2>4. CASE "clickhouse" \in active
    <3> DEFINE batch == Append(buffer, call.ev)
    <3>1. \/ buffer' = batch /\ own' = own
          \/ buffer' = <<>> /\ own' = batch /\ call'.at = "post"
      BY <1>6, <2>4 DEF Insert, CallOK
    <3>2. ASSUME NEW i \in Nat PROVE Copies(i)' = Copies(i) + IF i = call.ev THEN 1 ELSE 0
      <4> DEFINE c(s)  == Count(s, {i})
                 given == IF i = call.ev THEN 1 ELSE 0
      <4>1. Count(batch, {i}) = Count(buffer, {i}) + IF call.ev \in {i} THEN 1 ELSE 0
        <5>1. buffer \in Seq(Nat) /\ call.ev \in Nat
          BY <1>1 DEF RunTypeOK
        <5> HIDE DEF at
        <5> QED BY <5>1, CountAppend
      <4>2. c(batch) = c(buffer) + given
        BY <4>1
      <4>3. c(rows) \in Nat /\ c(own) \in Nat /\ c(flush) \in Nat /\ c(buffer) \in Nat /\ c(<<>>) = 0
        BY <1>4
      <4>4. given \in Nat
        OBVIOUS
      <4>5. /\ Copies(i) = c(rows) + c(own) + c(flush) + c(buffer) + (IF i \in Lost THEN 1 ELSE 0)
            /\ Copies(i)' = c(rows) + c(own') + c(flush) + c(buffer')
                              + (IF i \in Lost THEN 1 ELSE 0)
        BY <2>1 DEF Copies, Lost
      <4> HIDE DEF c, given, batch
      <4> QED BY <2>1, <3>1, <4>2, <4>3, <4>4, <4>5, SMTT(20) DEF given
    <3>6. \A i \in Nat : Copies(i)' = IF i \in Past(at)' THEN 1 ELSE 0
      <4> HIDE DEF at
      <4> QED BY <1>2, <2>2, <2>4, <3>2
    <3>7. own' # <<>> => call'.at = "post"
      BY <2>1, <3>1
    <3> QED BY <2>1, <2>4, <3>6, <3>7 DEF HouseOK
  <2> QED BY <2>3, <2>4
<1>7. CASE PostOwn
  <2>1. /\ call.at = "post" /\ call'.at = "memgraph" /\ Outcome(own) /\ own' = <<>>
        /\ UNCHANGED <<active, buffer, flush>>
    BY <1>7 DEF PostOwn, CallOK
  <2>2. Past(at)' = Past(at)
    BY <1>1, <2>1
  <2>3. \A i \in Nat : Count(rows, {i}) + Count(own, {i}) + (IF i \in Lost THEN 1 ELSE 0) <= 1
    BY <1>2, AtMostOne
  <2>4. /\ failures' \subseteq Nat
        /\ \A i \in Nat : Count(rows', {i}) + (IF i \in Lost' THEN 1 ELSE 0)
                 = Count(rows, {i}) + Count(own, {i}) + (IF i \in Lost THEN 1 ELSE 0)
    BY <2>1, <2>3, PostCounts DEF RunTypeOK, HouseOK
  <2>5. rows' \in Seq(Nat)
    BY <1>7, CallType DEF RunTypeOK
  <2>6. \A i : Count(rows', {i}) \in Nat
    BY <2>5, CountConcat
  <2>7. ASSUME NEW i \in Nat PROVE Copies(i)' = Copies(i)
    <3> DEFINE c(s) == Count(s, {i})
               r    == IF i \in Lost THEN 1 ELSE 0
               new  == IF i \in Lost' THEN 1 ELSE 0
    <3>1. c(rows') + new = c(rows) + c(own) + r
      BY <2>4
    <3>2. /\ c(rows) \in Nat /\ c(own) \in Nat /\ c(flush) \in Nat /\ c(buffer) \in Nat
          /\ c(<<>>) = 0 /\ c(rows') \in Nat /\ r \in Nat /\ new \in Nat
      BY <1>4, <2>6
    <3>3. /\ Copies(i) = c(rows) + c(own) + c(flush) + c(buffer) + r
          /\ Copies(i)' = c(rows') + c(<<>>) + c(flush) + c(buffer) + new
      BY <2>1 DEF Copies
    <3> HIDE DEF c
    <3> QED BY <3>1, <3>2, <3>3, SMTT(20)
  <2> QED BY <1>2, <2>1, <2>2, <2>4, <2>7 DEF HouseOK
<1>8. Insert \/ PostOwn
        \/ (UNCHANGED house_vars /\ (call.at \in at <=> call'.at \in at) /\ own = <<>>)
  <2>1. CASE SendKafka
    BY <1>3, <2>1 DEF SendKafka, CallOK
  <2>2. CASE MergeNode \/ CountAccess
    BY <1>3, <2>2, NoCallAt DEF MergeNode, CountAccess, CallOK
  <2> QED BY <2>1, <2>2 DEF Calling
<1> QED BY <1>5, <1>6, <1>7, <1>8

LEMMA HouseThreadStep ==
  ASSUME RunTypeOK, CallOK, HouseOK, HouseStep, UNCHANGED loop_vars
  PROVE  HouseOK'
<1>1. UNCHANGED <<active, call, own>>
  BY DEF HouseStep, FlushWake, FlushPost
<1>2. \A at : Past(at)' = Past(at)
  BY <1>1, OtherReach DEF loop_vars
<1>3. \A i : /\ Count(rows, {i}) \in Nat /\ Count(own, {i}) \in Nat
             /\ Count(flush, {i}) \in Nat /\ Count(buffer, {i}) \in Nat
             /\ Count(<<>>, {i}) = 0
  BY CopyTypes, CountEmpty
<1>4. CASE FlushWake
  <2>1. flush = <<>> /\ flush' = buffer /\ buffer' = <<>> /\ UNCHANGED <<rows, failures>>
    BY <1>4 DEF FlushWake
  <2>2. ASSUME NEW i \in Nat PROVE Copies(i)' = Copies(i)
    <3> DEFINE c(s) == Count(s, {i})
               r    == IF i \in Lost THEN 1 ELSE 0
    <3>1. /\ c(rows) \in Nat /\ c(own) \in Nat /\ c(flush) \in Nat /\ c(buffer) \in Nat
          /\ c(<<>>) = 0 /\ r \in Nat
      BY <1>3
    <3>2. /\ Copies(i) = c(rows) + c(own) + c(<<>>) + c(buffer) + r
          /\ Copies(i)' = c(rows) + c(own) + c(buffer) + c(<<>>) + r
      BY <1>1, <2>1 DEF Copies, Lost
    <3> HIDE DEF c, r
    <3> QED BY <3>1, <3>2
  <2> QED BY <1>1, <1>2, <2>1, <2>2 DEF HouseOK
<1>5. CASE FlushPost
  <2>1. Outcome(flush) /\ flush' = <<>> /\ buffer' = buffer
    BY <1>5 DEF FlushPost
  <2>2. \A i \in Nat : Copies(i) <= 1
    BY DEF HouseOK
  <2>3. \A i \in Nat : Count(rows, {i}) + Count(flush, {i}) + (IF i \in Lost THEN 1 ELSE 0) <= 1
    BY <2>2, AtMostOne
  <2>4. /\ failures' \subseteq Nat
        /\ \A i \in Nat : Count(rows', {i}) + (IF i \in Lost' THEN 1 ELSE 0)
                 = Count(rows, {i}) + Count(flush, {i}) + (IF i \in Lost THEN 1 ELSE 0)
    BY <2>1, <2>3, PostCounts DEF RunTypeOK, HouseOK
  <2>5. RunTypeOK'
    BY ThreadType DEF loop_vars
  <2>6. \A i : Count(rows', {i}) \in Nat
    BY <2>5, CountConcat DEF RunTypeOK
  <2>7. ASSUME NEW i \in Nat PROVE Copies(i)' = Copies(i)
    <3> DEFINE c(s) == Count(s, {i})
               r    == IF i \in Lost THEN 1 ELSE 0
               new  == IF i \in Lost' THEN 1 ELSE 0
    <3>1. c(rows') + new = c(rows) + c(flush) + r
      BY <2>4
    <3>2. /\ c(rows) \in Nat /\ c(own) \in Nat /\ c(flush) \in Nat /\ c(buffer) \in Nat
          /\ c(<<>>) = 0 /\ c(rows') \in Nat /\ r \in Nat /\ new \in Nat
      BY <1>3, <2>6
    <3>3. /\ Copies(i) = c(rows) + c(own) + c(flush) + c(buffer) + r
          /\ Copies(i)' = c(rows') + c(own) + c(<<>>) + c(buffer) + new
      BY <1>1, <2>1 DEF Copies
    <3> HIDE DEF c
    <3>4. c(rows') + c(own) + 0 + c(buffer) + new = c(rows) + c(own) + c(flush) + c(buffer) + r
      <4> SUFFICES ASSUME NEW f \in Nat, NEW x \in Nat, NEW y \in Nat, NEW z \in Nat,
                          NEW u \in Nat, NEW v \in Nat, NEW w \in Nat, f + v = x + y + u
                   PROVE  f + w + 0 + z + v = x + w + y + z + u
        BY <3>1, <3>2, SMTT(20)
      <4> QED OBVIOUS
    <3> QED BY <3>2, <3>3, <3>4
  <2> QED BY <1>1, <1>2, <2>4, <2>7 DEF HouseOK
<1> QED BY <1>4, <1>5 DEF HouseStep

LEMMA HouseNext ==
  ASSUME RunTypeOK, CallOK, HouseOK, RunNext
  PROVE  HouseOK'
<1>1. CASE LoopStep
  <2>1. UNCHANGED <<active, house_vars, call>> /\ \A at : Past(at)' = Past(at)
    BY <1>1, LoopReach DEF LoopStep, Poll, PrintJson, PrintPlain, Printed, Forwarded, Flush,
                          Check, store_vars
  <2> QED BY <2>1 DEF HouseOK, Copies, Lost, house_vars
<1>2. CASE Forward
  <2>1. UNCHANGED <<active, house_vars>> /\ call = NoCall
    BY <1>2 DEF Forward, CallOK
  <2>2. Past({"kafka", "clickhouse"})' = Past({"kafka", "clickhouse"})
    BY <1>2, ForwardReach
  <2>3. own = <<>>
    BY <2>1, NoCallAt DEF HouseOK
  <2> QED BY <2>1, <2>2, <2>3 DEF HouseOK, Copies, Lost, house_vars
<1>3. CASE Calling /\ UNCHANGED loop_vars
  BY <1>3, HouseCall
<1>4. CASE HouseStep /\ UNCHANGED loop_vars
  BY <1>4, HouseThreadStep
<1>5. CASE (KafkaStep \/ GraphThread) /\ UNCHANGED loop_vars
  <2>1. UNCHANGED <<active, house_vars, call>>
    BY <1>5 DEF KafkaStep, Take, Acknowledge, GraphThread, GraphWake, DrainNet, GraphSleep,
                LinkFile, LinkNet
  <2>2. \A at : Past(at)' = Past(at)
    BY <1>5, <2>1, OtherReach DEF loop_vars
  <2> QED BY <2>1, <2>2 DEF HouseOK, Copies, Lost, house_vars
<1>6. CASE OutsideStep
  <2>1. UNCHANGED <<mode, pc, polled, first, next, active, house_vars, call>>
    BY <1>6 DEF OutsideStep, WriteFails, handle_signal, store_vars
  <2>2. \A at : Past(at)' = Past(at)
    BY <2>1, OtherReach
  <2> QED BY <2>1, <2>2 DEF HouseOK, Copies, Lost, house_vars
<1> QED BY <1>1, <1>2, <1>3, <1>4, <1>5, <1>6, RunSteps

-----------------------------------------------------------------------------
(* Kafka: in order, and in one place.                                      *)

LEMMA IncreasingAppend ==
  ASSUME NEW s \in Seq(Nat), Increasing(s), NEW e \in Nat, \A x \in Range(s) : x < e
  PROVE  Increasing(Append(s, e))
<1>1. /\ DOMAIN s = 1 .. Len(s) /\ Len(s) \in Nat /\ DOMAIN Append(s, e) = 1 .. Len(s) + 1
      /\ \A i \in 1 .. Len(s) : Append(s, e)[i] = s[i] /\ s[i] \in Range(s)
      /\ Append(s, e)[Len(s) + 1] = e
  BY AppendProperties, LenProperties, RangeEquality
<1>2. ASSUME NEW i \in 1 .. Len(s) + 1, NEW j \in 1 .. Len(s) + 1, i < j
      PROVE  Append(s, e)[i] < Append(s, e)[j]
  <2>1. i \in 1 .. Len(s)
    BY <1>1, <1>2
  <2>2. j \in 1 .. Len(s) \/ j = Len(s) + 1
    BY <1>1
  <2> QED BY <1>1, <1>2, <2>1, <2>2 DEF Increasing
<1> QED BY <1>1, <1>2 DEF Increasing

LEMMA IncreasingTail ==
  ASSUME NEW s \in Seq(Nat), Increasing(s), s # <<>>
  PROVE  /\ Increasing(Tail(s)) /\ Head(s) \in Nat /\ Tail(s) \in Seq(Nat)
         /\ \A x \in Range(Tail(s)) : Head(s) < x
         /\ Range(s) = {Head(s)} \cup Range(Tail(s))
<1>1. /\ Tail(s) \in Seq(Nat) /\ Len(Tail(s)) = Len(s) - 1 /\ Len(s) \in Nat \ {0}
      /\ \A i \in 1 .. Len(Tail(s)) : Tail(s)[i] = s[i + 1]
      /\ DOMAIN Tail(s) = 1 .. Len(Tail(s)) /\ DOMAIN s = 1 .. Len(s)
      /\ Head(s) = s[1] /\ s[1] \in Nat
  BY HeadTailProperties, EmptySeq, LenProperties, ElementOfSeq
<1>2. \A i \in 1 .. Len(Tail(s)) : 1 < i + 1 /\ 1 \in DOMAIN s /\ i + 1 \in DOMAIN s
  BY <1>1
<1>3. \A x \in Range(Tail(s)) : Head(s) < x
  <2>1. Range(Tail(s)) = {Tail(s)[i] : i \in 1 .. Len(Tail(s))}
    BY <1>1, RangeEquality
  <2> QED BY <1>1, <1>2, <2>1 DEF Increasing
<1>4. Increasing(Tail(s))
  <2> SUFFICES ASSUME NEW i \in 1 .. Len(Tail(s)), NEW j \in 1 .. Len(Tail(s)), i < j
               PROVE  Tail(s)[i] < Tail(s)[j]
    BY <1>1 DEF Increasing
  <2>1. i + 1 < j + 1
    BY <1>1
  <2> QED BY <1>1, <1>2, <2>1 DEF Increasing
<1> QED BY <1>1, <1>3, <1>4, RangeHeadTail

LEMMA IncreasingConcat ==
  ASSUME NEW s \in Seq(Nat), Increasing(s), NEW t \in Seq(Nat), Increasing(t),
         \A x \in Range(s), y \in Range(t) : x < y
  PROVE  Increasing(s \o t)
<1>1. /\ DOMAIN s = 1 .. Len(s) /\ Len(s) \in Nat /\ DOMAIN t = 1 .. Len(t) /\ Len(t) \in Nat
      /\ DOMAIN (s \o t) = 1 .. Len(s) + Len(t)
      /\ \A i \in 1 .. Len(s) + Len(t) :
           (s \o t)[i] = IF i <= Len(s) THEN s[i] ELSE t[i - Len(s)]
      /\ \A i \in 1 .. Len(s) : s[i] \in Range(s)
      /\ \A i \in 1 .. Len(t) : t[i] \in Range(t)
  BY ConcatProperties, LenProperties, RangeEquality
<1>2. ASSUME NEW i \in 1 .. Len(s) + Len(t), NEW j \in 1 .. Len(s) + Len(t), i < j
      PROVE  (s \o t)[i] < (s \o t)[j]
  <2>1. CASE j <= Len(s)
    <3>1. i <= Len(s) /\ i \in 1 .. Len(s) /\ j \in 1 .. Len(s)
      BY <1>1, <1>2, <2>1
    <3> QED BY <1>1, <1>2, <2>1, <3>1 DEF Increasing
  <2>2. CASE i <= Len(s) /\ ~ (j <= Len(s))
    <3>1. i \in 1 .. Len(s) /\ j - Len(s) \in 1 .. Len(t)
      BY <1>1, <2>2
    <3> QED BY <1>1, <2>2, <3>1
  <2>3. CASE ~ (i <= Len(s))
    <3>1. /\ i - Len(s) \in 1 .. Len(t) /\ j - Len(s) \in 1 .. Len(t)
          /\ i - Len(s) < j - Len(s) /\ ~ (j <= Len(s))
      BY <1>1, <1>2, <2>3
    <3> QED BY <1>1, <2>3, <3>1 DEF Increasing
  <2> QED BY <2>1, <2>2, <2>3
<1> QED BY <1>1, <1>2 DEF Increasing

LEMMA KafkaSend ==
  ASSUME RunTypeOK, CallOK, KafkaOK, SendKafka, UNCHANGED loop_vars
  PROVE  KafkaOK'
<1> DEFINE at == {"kafka"}
<1>1. /\ call.at = "kafka" /\ call'.at = "clickhouse" /\ UNCHANGED <<active, handed, overflow>>
      /\ rx' = IF "kafka" \in active THEN Append(rx, call.ev) ELSE rx
  BY DEF SendKafka, CallOK
<1>2. /\ Past(at)' = Past(at) \cup {call.ev} /\ call.ev \notin Past(at)
      /\ \A i \in Past(at) : i < call.ev
      /\ call.ev \in Nat
  BY <1>1, CallingPast DEF Calling
<1>3. CASE "kafka" \notin active
  BY <1>1, <1>3 DEF KafkaOK
<1>4. CASE "kafka" \in active
  <2>1. Range(handed) \cup Range(rx) \cup overflow = Past(at)
    BY <1>4 DEF KafkaOK
  <2>2. rx \in Seq(Nat) /\ Increasing(rx)
    BY DEF RunTypeOK, KafkaOK
  <2>3. Range(Append(rx, call.ev)) = Range(rx) \cup {call.ev}
    BY <1>2, <2>2, RangeAppend
  <2>4. Increasing(Append(rx, call.ev))
    <3>1. \A x \in Range(rx) : x < call.ev
      BY <1>2, <2>1
    <3> HIDE DEF at
    <3> QED BY <1>2, <2>2, <3>1, IncreasingAppend
  <2>5. \A x \in Range(handed), y \in Range(rx) \cup {call.ev} : x < y
    BY <1>2, <2>1 DEF KafkaOK
  <2>6. (Range(handed) \cup Range(rx) \cup {call.ev}) \cap overflow = {}
    BY <1>2, <2>1 DEF KafkaOK
  <2>7. Range(handed) \cup (Range(rx) \cup {call.ev}) \cup overflow = Past(at)'
    BY <1>2, <2>1
  <2>8. rx' = Append(rx, call.ev) /\ Range(rx') = Range(rx) \cup {call.ev}
    BY <1>1, <1>4, <2>3
  <2> QED BY <1>1, <1>4, <2>4, <2>5, <2>6, <2>7, <2>8 DEF KafkaOK
<1> QED BY <1>3, <1>4

LEMMA KafkaTake ==
  ASSUME RunTypeOK, CallOK, KafkaOK, Take, UNCHANGED loop_vars
  PROVE  KafkaOK'
<1> DEFINE ev == Head(rx)
<1>1. /\ rx # <<>> /\ rx' = Tail(rx) /\ UNCHANGED <<active, call>>
      /\ \/ handed' = Append(handed, ev) /\ overflow' = overflow
         \/ handed' = handed /\ overflow' = overflow \cup {ev}
  BY DEF Take
<1>2. rx \in Seq(Nat) /\ Increasing(rx) /\ handed \in Seq(Nat) /\ Increasing(handed)
  BY DEF RunTypeOK, KafkaOK
<1>3. /\ Increasing(Tail(rx)) /\ ev \in Nat /\ Range(rx) = {ev} \cup Range(Tail(rx))
      /\ \A x \in Range(Tail(rx)) : ev < x
  BY <1>1, <1>2, IncreasingTail
<1>4. Range(Tail(rx)) \subseteq Nat /\ Range(handed) \subseteq Nat
  BY <1>1, <1>2, IncreasingTail, RangeOfSeq
<1>5. \A x \in Range(handed) : x < ev
  BY <1>3 DEF KafkaOK
<1>6. Increasing(Append(handed, ev)) /\ Range(Append(handed, ev)) = Range(handed) \cup {ev}
  <2> HIDE DEF ev
  <2> QED BY <1>2, <1>3, <1>5, IncreasingAppend, RangeAppend
<1>7. Past({"kafka"})' = Past({"kafka"})
  BY <1>1, OtherReach DEF loop_vars
<1>8. ev \notin Range(handed) /\ ev \notin Range(Tail(rx))
  <2>1. \A x \in Nat : ~ (x < x)
    OBVIOUS
  <2> HIDE DEF ev
  <2> QED BY <1>3, <1>5, <2>1
<1> HIDE DEF ev
<1>9. \A x \in Range(handed), y \in Range(rx) : x < y
  BY DEF KafkaOK
<1>10. (Range(handed) \cup Range(rx)) \cap overflow = {}
  BY DEF KafkaOK
<1>11. Range(handed) \cup Range(rx) \cup overflow
         = IF "kafka" \in active THEN Past({"kafka"}) ELSE {}
  BY DEF KafkaOK
<1>12. CASE handed' = Append(handed, ev) /\ overflow' = overflow
  <2>1. Range(handed') = Range(handed) \cup {ev} /\ Range(rx') = Range(Tail(rx))
    BY <1>1, <1>6, <1>12
  <2>2. \A x \in Range(handed'), y \in Range(rx') : x < y
    BY <1>3, <1>9, <2>1
  <2>3. Range(handed') \cup Range(rx') = Range(handed) \cup Range(rx)
    BY <1>3, <2>1
  <2> QED BY <1>1, <1>3, <1>6, <1>7, <1>10, <1>11, <1>12, <2>2, <2>3 DEF KafkaOK
<1>13. CASE handed' = handed /\ overflow' = overflow \cup {ev}
  <2>1. Range(handed') = Range(handed) /\ Range(rx') = Range(Tail(rx))
    BY <1>1, <1>13
  <2>2. \A x \in Range(handed'), y \in Range(rx') : x < y
    BY <1>3, <1>9, <2>1
  <2>3. (Range(handed') \cup Range(rx')) \cap overflow' = {}
    BY <1>3, <1>8, <1>10, <1>13, <2>1
  <2>4. Range(handed') \cup Range(rx') \cup overflow' = Range(handed) \cup Range(rx) \cup overflow
    BY <1>3, <1>13, <2>1
  <2> QED BY <1>1, <1>2, <1>3, <1>7, <1>11, <1>13, <2>2, <2>3, <2>4 DEF KafkaOK
<1> QED BY <1>1, <1>12, <1>13

LEMMA KafkaNext ==
  ASSUME RunTypeOK, CallOK, KafkaOK, RunNext
  PROVE  KafkaOK'
<1> DEFINE same == UNCHANGED <<active, rx, handed, overflow>> /\ Past({"kafka"})' = Past({"kafka"})
<1>0. same => KafkaOK'
  BY DEF KafkaOK
<1>1. CASE LoopStep
  <2>1. UNCHANGED <<active, rx, handed, overflow>>
    BY <1>1 DEF LoopStep, Poll, PrintJson, PrintPlain, Printed, Forwarded, Flush, Check,
                store_vars, kafka_vars
  <2> QED BY <1>0, <1>1, <2>1, LoopReach
<1>2. CASE Forward
  BY <1>0, <1>2, ForwardReach DEF Forward, kafka_vars
<1>3. CASE SendKafka /\ UNCHANGED loop_vars
  BY <1>3, KafkaSend
<1>4. CASE (Insert \/ PostOwn \/ MergeNode \/ CountAccess) /\ UNCHANGED loop_vars
  <2>1. /\ UNCHANGED <<active, rx, handed, overflow>>
        /\ call.at \notin {"kafka"} /\ call'.at \notin {"kafka"}
    BY <1>4, NoCallAt DEF Insert, PostOwn, MergeNode, CountAccess, kafka_vars, CallOK
  <2>2. Past({"kafka"})' = Past({"kafka"})
    BY <1>4, <2>1, CallingPast DEF Calling
  <2> QED BY <1>0, <2>1, <2>2
<1>5. CASE Take /\ UNCHANGED loop_vars
  BY <1>5, KafkaTake
<1>6. CASE (HouseStep \/ Acknowledge \/ GraphThread) /\ UNCHANGED loop_vars
  <2>1. UNCHANGED <<active, rx, handed, overflow, call>>
    BY <1>6 DEF HouseStep, FlushWake, FlushPost, Acknowledge, GraphThread, GraphWake, DrainNet,
                GraphSleep, LinkFile, LinkNet, kafka_vars
  <2>2. Past({"kafka"})' = Past({"kafka"})
    BY <1>6, <2>1, OtherReach DEF loop_vars
  <2> QED BY <1>0, <2>1, <2>2
<1>7. CASE OutsideStep
  <2>1. UNCHANGED <<mode, pc, polled, first, next, call, active, rx, handed, overflow>>
    BY <1>7 DEF OutsideStep, WriteFails, handle_signal, store_vars, kafka_vars
  <2> QED BY <1>0, <2>1, OtherReach
<1> QED BY <1>1, <1>2, <1>3, <1>4, <1>5, <1>6, <1>7, RunSteps DEF Calling, KafkaStep

-----------------------------------------------------------------------------
(* MemGraph: every access is counted.                                      *)

LEMMA AboutFinite ==
  ASSUME RunTypeOK
  PROVE  \A k : IsFiniteSet(About(k)) /\ Cardinality(About(k)) \in Nat
<1>1. Len(polled) \in Nat /\ Past(Stages) \subseteq 1 .. Len(polled)
  BY ReachedType
<1>2. IsFiniteSet(1 .. Len(polled))
  BY <1>1, FS_Interval
<1>3. \A k : About(k) \in SUBSET (1 .. Len(polled))
  BY <1>1 DEF About
<1> QED BY <1>2, <1>3, FS_Subset, FS_CardinalityType

(* What a pair counts for in all the places together. *)
Counted(k)   == edges.opened[k] + unlinked.opened[k] + graph.files[k] + file_cache[k]
Connected(k) == k \in edges.connected \cup unlinked.connected \cup graph.nets \cup net_cache

(* A step that moves neither a count nor an output. *)
LEMMA GraphSame ==
  ASSUME RunTypeOK, GraphOK, active' = active, Past(Stages)' = Past(Stages),
         \A i \in 1 .. Len(polled) : polled'[i] = polled[i],
         \A k \in Pairs : Counted(k)' = Counted(k) /\ (Connected(k)' <=> Connected(k)),
         graph.at' # "files" => graph.files' = NoCounts,
         graph.at' # "nets" => graph.nets' = {}
  PROVE  GraphOK'
<1>1. Past(Stages) \subseteq 1 .. Len(polled)
  BY ReachedType
<1>2. \A k : About(k)' = About(k)
  BY <1>1 DEF About
<1>3. \A k : (\E i \in About(k)' : polled'[i].net) <=> (\E i \in About(k) : polled[i].net)
  <2>1. \A k : About(k) \subseteq 1 .. Len(polled)
    BY <1>1 DEF About
  <2> QED BY <1>2, <2>1
<1>4. \A k : Cardinality(About(k))' = Cardinality(About(k))
  BY <1>2
<1>5. "memgraph" \in active =>
        \A k \in Pairs : /\ Counted(k) = Cardinality(About(k))
                         /\ Connected(k) <=> \E i \in About(k) : polled[i].net
  BY DEF GraphOK, Counted, Connected
<1>6. "memgraph" \in active' =>
        \A k \in Pairs : /\ Counted(k)' = Cardinality(About(k))'
                         /\ Connected(k)' <=> \E i \in About(k)' : polled'[i].net
  BY <1>3, <1>4, <1>5
<1> QED BY <1>6 DEF GraphOK, Counted, Connected

LEMMA GraphTypes ==
  ASSUME RunTypeOK, NEW k \in Pairs
  PROVE  /\ edges.opened[k] \in Nat /\ unlinked.opened[k] \in Nat
         /\ graph.files[k] \in Nat /\ file_cache[k] \in Nat
BY DEF RunTypeOK

LEMMA GraphThreadStep ==
  ASSUME RunTypeOK, CallOK, GraphOK, GraphThread, UNCHANGED loop_vars
  PROVE  GraphOK'
<1> DEFINE flat == \A j \in Pairs : Counted(j)' = Counted(j) /\ (Connected(j)' <=> Connected(j))
           idle == /\ graph.at' # "files" => graph.files' = NoCounts
                   /\ graph.at' # "nets" => graph.nets' = {}
<1>1. UNCHANGED <<active, call>>
  BY DEF GraphThread, GraphWake, DrainNet, GraphSleep, LinkFile, LinkNet
<1>2. Past(Stages)' = Past(Stages) /\ \A i \in 1 .. Len(polled) : polled'[i] = polled[i]
  BY <1>1, OtherReach DEF loop_vars
<1>3. SUFFICES flat /\ idle
  BY <1>1, <1>2, GraphSame
<1>4. \A j \in Pairs : /\ edges.opened[j] \in Nat /\ unlinked.opened[j] \in Nat
                       /\ graph.files[j] \in Nat /\ file_cache[j] \in Nat
                       /\ NoCounts[j] = 0
  BY GraphTypes DEF NoCounts
<1>5. /\ graph.at # "files" => graph.files = NoCounts
      /\ graph.at # "nets" => graph.nets = {}
  BY DEF GraphOK
<1>6. graph \in [at : {"sleep", "files", "nets"}, files : [Pairs -> Nat], nets : SUBSET Pairs]
  BY DEF RunTypeOK
<1>7. CASE GraphWake
  <2>1. /\ graph'.at = "files" /\ graph'.files = file_cache /\ graph'.nets = graph.nets
        /\ graph.files = NoCounts /\ graph.nets = {}
        /\ file_cache' = NoCounts /\ UNCHANGED <<net_cache, edges, unlinked>>
    BY <1>5, <1>6, <1>7 DEF GraphWake
  <2>2. flat
    BY <1>4, <2>1 DEF Counted, Connected
  <2> QED BY <2>1, <2>2
<1>8. CASE DrainNet
  <2>1. /\ graph'.at = "nets" /\ graph'.files = graph.files /\ graph'.nets = net_cache
        /\ graph.files = NoCounts /\ graph.nets = {}
        /\ net_cache' = {} /\ UNCHANGED <<file_cache, edges, unlinked>>
    BY <1>5, <1>6, <1>8 DEF DrainNet
  <2>2. flat
    BY <1>4, <2>1 DEF Counted, Connected
  <2> QED BY <2>1, <2>2
<1>9. CASE GraphSleep
  <2>1. /\ graph'.at = "sleep" /\ graph'.files = graph.files /\ graph'.nets = graph.nets
        /\ graph.files = NoCounts /\ graph.nets = {}
        /\ UNCHANGED <<file_cache, net_cache, edges, unlinked>>
    BY <1>5, <1>6, <1>9 DEF GraphSleep
  <2>2. flat
    BY <1>4, <2>1 DEF Counted, Connected
  <2> QED BY <2>1, <2>2
<1>10. ASSUME NEW k \in Pairs, LinkFile(k) PROVE flat /\ idle
  <2>1. /\ graph.at = "files" /\ graph' = [graph EXCEPT !.files[k] = 0]
        /\ UNCHANGED <<file_cache, net_cache>>
        /\ \/ edges' = [edges EXCEPT !.opened[k] = @ + graph.files[k]] /\ unlinked' = unlinked
           \/ unlinked' = [unlinked EXCEPT !.opened[k] = @ + graph.files[k]] /\ edges' = edges
    BY <1>10 DEF LinkFile
  <2>2. /\ graph'.at = "files" /\ graph'.nets = graph.nets
        /\ \A j \in Pairs : graph'.files[j] = IF j = k THEN 0 ELSE graph.files[j]
    BY <1>6, <2>1
  <2>3. /\ edges'.connected = edges.connected /\ unlinked'.connected = unlinked.connected
        /\ \/ /\ unlinked'.opened = unlinked.opened
              /\ \A j \in Pairs : edges'.opened[j] = IF j = k THEN edges.opened[j] + graph.files[j]
                                                     ELSE edges.opened[j]
           \/ /\ edges'.opened = edges.opened
              /\ \A j \in Pairs : unlinked'.opened[j] = IF j = k THEN unlinked.opened[j] + graph.files[j]
                                                        ELSE unlinked.opened[j]
    <3>1. /\ edges \in [opened : [Pairs -> Nat], connected : SUBSET Pairs]
          /\ unlinked \in [opened : [Pairs -> Nat], connected : SUBSET Pairs]
      BY DEF RunTypeOK
    <3>2. ASSUME NEW e \in [opened : [Pairs -> Nat], connected : SUBSET Pairs], NEW n
          PROVE  LET more == [e EXCEPT !.opened[k] = @ + n]
                 IN  /\ more.connected = e.connected
                     /\ \A j \in Pairs : more.opened[j] = IF j = k THEN e.opened[j] + n
                                                          ELSE e.opened[j]
      OBVIOUS
    <3>3. CASE edges' = [edges EXCEPT !.opened[k] = @ + graph.files[k]] /\ unlinked' = unlinked
      BY <3>1, <3>2, <3>3
    <3>4. CASE unlinked' = [unlinked EXCEPT !.opened[k] = @ + graph.files[k]] /\ edges' = edges
      BY <3>1, <3>2, <3>4
    <3> QED BY <2>1, <3>3, <3>4
  <2>4. ASSUME NEW j \in Pairs PROVE Counted(j)' = Counted(j)
    BY <1>4, <2>1, <2>2, <2>3 DEF Counted
  <2>5. ASSUME NEW j \in Pairs PROVE Connected(j)' <=> Connected(j)
    BY <2>1, <2>2, <2>3 DEF Connected
  <2> QED BY <1>5, <2>1, <2>2, <2>4, <2>5
<1>11. ASSUME NEW k \in Pairs, LinkNet(k) PROVE flat /\ idle
  <2>1. /\ graph.at = "nets" /\ k \in graph.nets
        /\ graph'.at = "nets" /\ graph'.files = graph.files /\ graph'.nets = graph.nets \ {k}
        /\ UNCHANGED <<file_cache, net_cache>>
        /\ \/ edges' = [edges EXCEPT !.connected = @ \cup {k}] /\ unlinked' = unlinked
           \/ unlinked' = [unlinked EXCEPT !.connected = @ \cup {k}] /\ edges' = edges
    BY <1>6, <1>11 DEF LinkNet
  <2>2. /\ edges'.opened = edges.opened /\ unlinked'.opened = unlinked.opened
        /\ edges'.connected \cup unlinked'.connected = edges.connected \cup unlinked.connected \cup {k}
    <3>1. /\ edges \in [opened : [Pairs -> Nat], connected : SUBSET Pairs]
          /\ unlinked \in [opened : [Pairs -> Nat], connected : SUBSET Pairs]
      BY DEF RunTypeOK
    <3> QED BY <2>1, <3>1
  <2>3. \A j \in Pairs : Counted(j)' = Counted(j)
    BY <2>1, <2>2 DEF Counted
  <2>4. \A j \in Pairs : Connected(j)' <=> Connected(j)
    BY <2>1, <2>2 DEF Connected
  <2> QED BY <1>5, <2>1, <2>3, <2>4
<1> HIDE DEF flat, idle
<1> QED BY <1>7, <1>8, <1>9, <1>10, <1>11 DEF GraphThread

LEMMA GraphCount ==
  ASSUME RunTypeOK, CallOK, GraphOK, CountAccess, UNCHANGED loop_vars
  PROVE  GraphOK'
<1> DEFINE k  == <<call.pid, call.target>>
           ev == call.ev
<1>1. /\ call.at = "cache" /\ call' = NoCall /\ UNCHANGED <<active, graph, edges, unlinked>>
      /\ file_cache' = IF k \in Pairs THEN [file_cache EXCEPT ![k] = @ + 1] ELSE file_cache
      /\ net_cache' = IF k \in Pairs /\ call.net THEN net_cache \cup {k} ELSE net_cache
      /\ polled' = polled
  BY DEF CountAccess, graph_vars, loop_vars
<1>2. /\ Past(Stages)' = Past(Stages) \cup {ev} /\ ev \notin Past(Stages)
  BY <1>1, CallingPast, NoCallAt DEF Calling, Stages
<1>3. k = <<polled[ev].pid, polled[ev].target>> /\ call.net = polled[ev].net
  BY <1>1 DEF CallOK
<1>4. \A j : About(j)' = IF j = k THEN About(j) \cup {ev} ELSE About(j)
  BY <1>1, <1>2, <1>3 DEF About
<1>5. \A j : ev \notin About(j) /\ IsFiniteSet(About(j)) /\ Cardinality(About(j)) \in Nat
  BY <1>2, AboutFinite DEF About
<1>6. /\ graph.at # "files" => graph.files = NoCounts
      /\ graph.at # "nets" => graph.nets = {}
      /\ "memgraph" \in active =>
           \A j \in Pairs : /\ Counted(j) = Cardinality(About(j))
                            /\ Connected(j) <=> \E i \in About(j) : polled[i].net
  BY DEF GraphOK, Counted, Connected
<1> HIDE DEF k, ev
<1>7. ASSUME "memgraph" \in active, NEW j \in Pairs
      PROVE  /\ Counted(j)' = Cardinality(About(j)')
             /\ Connected(j)' <=> \E i \in About(j)' : polled'[i].net
  <2>1. CASE j = k
    <3>1. About(j)' = About(j) \cup {ev}
      BY <1>4, <2>1
    <3>2. Cardinality(About(j) \cup {ev}) = Cardinality(About(j)) + 1
      BY <1>5, FS_AddElement
    <3>3. file_cache'[j] = file_cache[j] + 1
      BY <1>1, <2>1 DEF RunTypeOK
    <3>4. Counted(j)' = Counted(j) + 1
      BY <1>1, <3>3, GraphTypes DEF Counted
    <3>5. Connected(j)' <=> Connected(j) \/ polled[ev].net
      BY <1>1, <1>3, <2>1 DEF Connected
    <3>6. (\E i \in About(j) \cup {ev} : polled'[i].net)
             <=> (\E i \in About(j) : polled[i].net) \/ polled[ev].net
      BY <1>1
    <3> QED BY <1>6, <1>7, <3>1, <3>2, <3>4, <3>5, <3>6
  <2>2. CASE j # k
    <3>1. About(j)' = About(j)
      BY <1>4, <2>2
    <3>2. file_cache'[j] = file_cache[j]
      BY <1>1, <2>2 DEF RunTypeOK
    <3>3. Counted(j)' = Counted(j)
      BY <1>1, <3>2 DEF Counted
    <3>4. Connected(j)' <=> Connected(j)
      BY <1>1, <2>2 DEF Connected
    <3> QED BY <1>1, <1>6, <1>7, <3>1, <3>3, <3>4
  <2> QED BY <2>1, <2>2
<1>8. \A j : Cardinality(About(j)') = Cardinality(About(j))'
  OBVIOUS
<1> QED BY <1>1, <1>6, <1>7, <1>8 DEF GraphOK, Counted, Connected

LEMMA GraphNext ==
  ASSUME RunTypeOK, CallOK, GraphOK, RunNext
  PROVE  GraphOK'
<1> DEFINE still == UNCHANGED <<active, file_cache, net_cache, graph, edges, unlinked>>
           kept  == Past(Stages)' = Past(Stages) /\ \A i \in 1 .. Len(polled) : polled'[i] = polled[i]
<1>0. still /\ kept => GraphOK'
  <2> SUFFICES ASSUME still, kept PROVE GraphOK'
    OBVIOUS
  <2>1. \A k \in Pairs : Counted(k)' = Counted(k) /\ (Connected(k)' <=> Connected(k))
    BY DEF Counted, Connected
  <2> QED BY <2>1, GraphSame DEF GraphOK
<1>1. CASE LoopStep
  <2>1. still
    BY <1>1 DEF LoopStep, Poll, PrintJson, PrintPlain, Printed, Forwarded, Flush, Check,
                store_vars, graph_vars
  <2> QED BY <1>0, <1>1, <2>1, LoopReach
<1>2. CASE Forward
  <2>1. still
    BY <1>2 DEF Forward, graph_vars
  <2>2. kept
    BY <1>2, ForwardReach DEF Stages
  <2> QED BY <1>0, <2>1, <2>2
<1>3. CASE CountAccess /\ UNCHANGED loop_vars
  BY <1>3, GraphCount
<1>4. CASE (SendKafka \/ Insert \/ PostOwn \/ MergeNode) /\ UNCHANGED loop_vars
  <2>1. still /\ polled' = polled /\ call.at \in Stages
    BY <1>4 DEF SendKafka, Insert, PostOwn, MergeNode, graph_vars, loop_vars, Stages
  <2>2. CASE call'.at \in Stages
    <3>1. Past(Stages)' = Past(Stages)
      BY <1>4, <2>1, <2>2, CallingPast DEF Calling, Stages
    <3> QED BY <1>0, <2>1, <3>1
  <2>3. CASE call'.at \notin Stages
    <3>1. "memgraph" \notin active
      BY <1>4, <2>3 DEF SendKafka, Insert, PostOwn, MergeNode, Stages, CallOK
    <3> QED BY <2>1, <3>1 DEF GraphOK
  <2> QED BY <2>2, <2>3
<1>5. CASE GraphThread /\ UNCHANGED loop_vars
  BY <1>5, GraphThreadStep
<1>6. CASE (HouseStep \/ KafkaStep) /\ UNCHANGED loop_vars
  <2>1. still /\ call' = call
    BY <1>6 DEF HouseStep, FlushWake, FlushPost, KafkaStep, Take, Acknowledge, graph_vars
  <2>2. kept
    BY <1>6, <2>1, OtherReach DEF loop_vars
  <2> QED BY <1>0, <2>1, <2>2
<1>7. CASE OutsideStep
  <2>1. still /\ UNCHANGED <<mode, pc, polled, first, next, call>>
    BY <1>7 DEF OutsideStep, WriteFails, handle_signal, store_vars, graph_vars
  <2>2. kept
    BY <2>1, OtherReach
  <2> QED BY <1>0, <2>1, <2>2
<1> QED BY <1>1, <1>2, <1>3, <1>4, <1>5, <1>6, <1>7, RunSteps DEF Calling

-----------------------------------------------------------------------------

StoreInv == RunTypeOK /\ CallOK /\ HouseOK /\ KafkaOK /\ GraphOK

LEMMA StoreStart ==
  ASSUME RunInit
  PROVE  StoreInv
<1>1. /\ polled = <<>> /\ first = 1 /\ next = 1 /\ pc = "poll" /\ mode \in {"json", "plain"}
      /\ held = <<>> /\ stdout = <<>> /\ call = NoCall /\ active \in SUBSET Backends
      /\ buffer = <<>> /\ own = <<>> /\ flush = <<>> /\ rows = <<>> /\ failures = {}
      /\ rx = <<>> /\ handed = <<>> /\ overflow = {}
      /\ file_cache = NoCounts /\ net_cache = {}
      /\ graph = [at |-> "sleep", files |-> NoCounts, nets |-> {}]
      /\ edges = [opened |-> NoCounts, connected |-> {}]
      /\ unlinked = edges
  BY DEF RunInit, StoreInit
<1>2. NoCounts \in [Pairs -> Nat] /\ \A k \in Pairs : NoCounts[k] = 0
  BY DEF NoCounts
<1>3. <<>> \in Seq(Nat) /\ <<>> \in Seq(Bodies) /\ Len(polled) = 0 /\ Range(rx) = {} /\ DOMAIN rx = {}
  <2>1. <<>> \in Seq(Nat) /\ <<>> \in Seq(Bodies) /\ Len(polled) = 0 /\ DOMAIN rx = {}
    BY <1>1
  <2> QED BY <2>1 DEF Range
<1>4. RunTypeOK
  BY <1>1, <1>2, <1>3 DEF RunTypeOK
<1>5. CallOK
  BY <1>1, NoCallAt DEF CallOK
<1>6. Reached = 0 /\ \A at : Past(at) = {}
  BY <1>1, <1>3 DEF Reached, Past
<1>7. HouseOK
  BY <1>1, <1>6, CountEmpty DEF HouseOK, Copies, Lost
<1>8. KafkaOK
  BY <1>1, <1>3, <1>6 DEF KafkaOK, Increasing
<1>9. GraphOK
  <2>1. \A k : About(k) = {} /\ Cardinality({}) = 0
    BY <1>6, FS_EmptySet DEF About
  <2>2. \A k \in Pairs : /\ edges.opened[k] + unlinked.opened[k] + graph.files[k] + file_cache[k] = 0
                         /\ edges.connected \cup unlinked.connected \cup graph.nets \cup net_cache = {}
    BY <1>1, <1>2
  <2> QED BY <1>1, <2>1, <2>2 DEF GraphOK
<1> QED BY <1>4, <1>5, <1>7, <1>8, <1>9 DEF StoreInv

LEMMA StoreStep ==
  ASSUME StoreInv, [RunNext]_run_vars
  PROVE  StoreInv'
<1>1. CASE RunNext
  <2> USE <1>1 DEF StoreInv
  <2>1. RunTypeOK' /\ CallOK'
    <3>1. CASE LoopStep
      <4>1. CallOK'
        BY <3>1, LoopReach, NoCallAt DEF CallOK
      <4> QED BY <3>1, <4>1, LoopType
    <3>2. CASE Forward
      BY <3>2, CallType, ForwardReach
    <3>3. CASE Calling /\ UNCHANGED loop_vars
      BY <3>3, CallType, CallingReach
    <3>4. CASE (HouseStep \/ KafkaStep \/ GraphThread) /\ UNCHANGED loop_vars
      <4>1. call' = call
        BY <3>4 DEF HouseStep, FlushWake, FlushPost, KafkaStep, Take, Acknowledge,
                    GraphThread, GraphWake, DrainNet, GraphSleep, LinkFile, LinkNet
      <4> QED BY <3>4, <4>1, ThreadType, OtherReach DEF loop_vars
    <3>5. CASE OutsideStep
      <4>1. UNCHANGED <<mode, pc, polled, first, next, held, stdout, call>>
        BY <3>5 DEF OutsideStep, WriteFails, handle_signal, store_vars
      <4> QED BY <3>5, <4>1, ThreadType, OtherReach
    <3> QED BY <3>1, <3>2, <3>3, <3>4, <3>5, RunSteps
  <2> QED BY <2>1, HouseNext, KafkaNext, GraphNext
<1>2. CASE UNCHANGED run_vars
  <2> USE <1>2 DEF run_vars, loop_vars, store_vars, house_vars, kafka_vars, graph_vars, StoreInv
  <2>1. RunTypeOK' /\ CallOK'
    BY DEF RunTypeOK, CallOK
  <2>2. \A at : Past(at)' = Past(at)
    BY OtherReach
  <2>3. HouseOK' /\ KafkaOK'
    BY <2>2 DEF HouseOK, Copies, Lost, KafkaOK
  <2>4. GraphOK'
    <3>1. \A k \in Pairs : Counted(k)' = Counted(k) /\ (Connected(k)' <=> Connected(k))
      BY DEF Counted, Connected
    <3> QED BY <2>2, <3>1, GraphSame DEF GraphOK
  <2> QED BY <2>1, <2>3, <2>4
<1> QED BY <1>1, <1>2

LEMMA StoreAlways == RunSpec => []StoreInv
BY StoreStart, StoreStep, PTL DEF RunSpec

LEMMA CountFour ==
  ASSUME NEW a \in Seq(Nat), NEW b \in Seq(Nat), NEW c \in Seq(Nat), NEW d \in Seq(Nat), NEW kinds
  PROVE  /\ Count(a \o b \o c \o d, kinds)
              = Count(a, kinds) + Count(b, kinds) + Count(c, kinds) + Count(d, kinds)
         /\ Count(a \o b \o c \o d, kinds) \in Nat
<1>1. a \o b \in Seq(Nat) /\ Count(a \o b, kinds) = Count(a, kinds) + Count(b, kinds)
  BY CountConcat, SequenceFacts
<1> DEFINE ab == a \o b
<1>2. ab \in Seq(Nat)
  BY <1>1
<1> HIDE DEF ab
<1>3. ab \o c \in Seq(Nat) /\ Count(ab \o c, kinds) = Count(ab, kinds) + Count(c, kinds)
  BY <1>2, CountConcat, SequenceFacts
<1> DEFINE abc == ab \o c
<1>4. abc \in Seq(Nat)
  BY <1>3
<1> HIDE DEF abc
<1>5. /\ Count(abc \o d, kinds) = Count(abc, kinds) + Count(d, kinds)
      /\ abc \o d \in Seq(Nat)
  BY <1>4, CountConcat, SequenceFacts
<1>6. Count(abc \o d, kinds) \in Nat
  BY <1>5, CountConcat
<1> QED BY <1>1, <1>3, <1>5, <1>6 DEF ab, abc

(* No event is stored twice or in two batches, and none whose batch was    *)
(* reported as failed is posted again, whether or not it was stored and    *)
(* whoever takes the batch, the caller at a full buffer or the thread; and *)
(* librdkafka is given the events in the order of the outputs.             *)
THEOREM NothingStoredTwice == RunSpec => []StoredOnce
<1>1. StoreInv => StoredOnce
  <2> SUFFICES ASSUME StoreInv PROVE StoredOnce
    OBVIOUS
  <2> USE DEF StoreInv
  <2> DEFINE all     == rows \o own \o flush \o buffer
             batches == own \o flush \o buffer
  <2>1. /\ rows \in Seq(Nat) /\ own \in Seq(Nat) /\ flush \in Seq(Nat) /\ buffer \in Seq(Nat)
        /\ rows \o own \in Seq(Nat) /\ (rows \o own) \o flush \in Seq(Nat) /\ all \in Seq(Nat)
        /\ own \o flush \in Seq(Nat) /\ batches \in Seq(Nat)
    BY SequenceFacts DEF RunTypeOK
  <2>2. ASSUME NEW i \in Nat
        PROVE  /\ Count(all, {i}) <= 1
               /\ i \in failures => Count(batches, {i}) = 0
    <3> DEFINE c(s) == Count(s, {i})
               r    == IF i \in Lost THEN 1 ELSE 0
    <3>1. c(all) = c(rows) + c(own) + c(flush) + c(buffer)
      BY <2>1, CountFour
    <3>2. c(batches) = c(own) + c(flush) + c(buffer)
      <4>1. c(own \o flush) = c(own) + c(flush)
        BY <2>1, CountConcat
      <4>2. c(batches) = c(own \o flush) + c(buffer)
        BY <2>1, CountConcat
      <4> QED BY <4>1, <4>2
    <3>3. c(rows) + c(own) + c(flush) + c(buffer) + r <= 1
      BY DEF HouseOK, Copies
    <3>4. c(rows) \in Nat /\ c(own) \in Nat /\ c(flush) \in Nat /\ c(buffer) \in Nat /\ r \in Nat
      BY CopyTypes
    <3>5. i \in failures => c(rows) # 0 \/ r = 1
      BY <2>1, CountIsOccurrence DEF Lost
    <3> HIDE DEF c, r, all, batches
    <3>6. c(all) <= 1 /\ (i \in failures => c(batches) = 0)
      BY <3>1, <3>2, <3>3, <3>4, <3>5
    <3> QED BY <3>6 DEF c
  <2>3. Range(batches) \subseteq Nat
    BY <2>1, RangeOfSeq
  <2>4. /\ (\A i \in Nat : Count(all, {i}) <= 1) => IsInjective(all)
        /\ \A i : i \in Range(batches) <=> Count(batches, {i}) # 0
    BY <2>1, CountIsOccurrence
  <2>5. IsInjective(all) /\ Range(batches) \cap failures = {}
    <3> HIDE DEF all, batches
    <3> QED BY <2>2, <2>3, <2>4
  <2>6. /\ handed \in Seq(Nat) /\ rx \in Seq(Nat) /\ Increasing(handed \o rx)
    BY IncreasingConcat DEF RunTypeOK, KafkaOK
  <2>7. Range(handed \o rx) = Range(handed) \cup Range(rx)
    BY <2>6, RangeConcatenation
  <2>8. Range(handed \o rx) \cap overflow = {}
    BY <2>7 DEF KafkaOK
  <2> QED BY <2>5, <2>6, <2>8 DEF StoredOnce
<1> QED BY <1>1, StoreAlways, PTL

(* The graph, the two batches under way and the caches together hold every *)
(* access that has come through forward_event once, whatever failed.       *)
THEOREM GraphIsComplete == RunSpec => []GraphAgrees
<1>1. StoreInv => GraphAgrees
  <2> SUFFICES ASSUME StoreInv PROVE GraphAgrees
    OBVIOUS
  <2>1. Len(polled) \in Nat /\ Reached \in 0 .. Len(polled) /\ DOMAIN polled = 1 .. Len(polled)
    BY ReachedType, LenProperties DEF StoreInv, RunTypeOK
  <2>2. \A i \in 1 .. Len(polled) : i # 0
    OBVIOUS
  <2>3. call.at \notin Stages => call.ev = 0
    BY NoCallAt DEF StoreInv, CallOK
  <2>4. Ingested = Past(Stages)
    <3>1. Ingested = {i \in 1 .. Len(polled) : polled[i].type # "Action" /\ i <= Reached /\ i # call.ev}
      BY <2>1 DEF Ingested, Reached, Storable
    <3>2. \A i : i \in 1 .. Reached <=> i \in 1 .. Len(polled) /\ i <= Reached
      BY <2>1
    <3>3. \A i \in 1 .. Len(polled) : (i # call.ev <=> ~ (i = call.ev /\ call.at \in Stages))
      BY <2>2, <2>3
    <3> QED BY <3>1, <3>2, <3>3 DEF Past
  <2>5. \A k : {i \in Ingested : <<polled[i].pid, polled[i].target>> = k} = About(k)
    BY <2>4 DEF About
  <2> QED BY <2>5 DEF StoreInv, GraphOK, GraphAgrees
<1> QED BY <1>1, StoreAlways, PTL

-----------------------------------------------------------------------------
(* What is printed.                                                        *)

LEMMA OutSame ==
  ASSUME RunTypeOK, OutOK, stdout' \o held' = stdout \o held, PrintedTo' = PrintedTo, mode' = mode,
         \A i \in 1 .. Len(polled) : polled'[i] = polled[i],
         mode = "plain" \/ pc' \in {"poll", "check"} => held' = <<>>,
         pc' = "flush" => mode = "json"
  PROVE  OutOK'
<1>1. PrintedTo \in {next - 1, first - 1, Len(polled)}
  BY DEF PrintedTo
<1>2. PrintedTo \in 0 .. Len(polled) /\ Len(polled) \in Nat
  BY <1>1, ReachedType DEF RunTypeOK
<1>3. Shown(PrintedTo)' = Shown(PrintedTo)
  BY <1>2 DEF Shown
<1> QED BY <1>3 DEF OutOK

(* One more output is printed, or passed over in plain mode. *)
LEMMA OutPrint ==
  ASSUME RunTypeOK, OutOK, PrintJson \/ PrintPlain
  PROVE  OutOK'
<1> DEFINE out == stdout \o held
<1>1. /\ pc = "print" /\ UNCHANGED <<mode, pc, polled>> /\ next' = next + 1
      /\ next \in Nat \ {0} /\ next \in 1 .. Len(polled) /\ Len(polled) \in Nat
  <2>1. Len(polled) \in Nat /\ first \in 1 .. Len(polled) + 1 /\ next \in first .. Len(polled) + 1
    BY ReachedType DEF RunTypeOK
  <2> QED BY <2>1 DEF PrintJson, PrintPlain, BatchDone
<1>2. PrintedTo = next - 1 /\ PrintedTo' = next
  BY <1>1 DEF PrintedTo
<1>3. Shown(PrintedTo)' = Shown(PrintedTo) \cup (IF mode = "json" \/ polled[next].shown THEN {next} ELSE {})
  <2>1. \A i : i \in 1 .. next <=> i \in 1 .. next - 1 \/ i = next
    BY <1>1
  <2> QED BY <1>1, <1>2, <2>1 DEF Shown
<1>4. stdout \in Seq(Nat) /\ held \in Seq(Nat) /\ out \in Seq(Nat)
  BY SequenceFacts DEF RunTypeOK
<1>5. Increasing(out) /\ Range(out) = Shown(PrintedTo)
  BY DEF OutOK
<1>6. \A i \in Range(out) : i < next
  <2>1. \A i \in 1 .. next - 1 : i < next
    BY <1>1
  <2> QED BY <1>2, <1>5, <2>1 DEF Shown
<1>7. Increasing(Append(out, next)) /\ Range(Append(out, next)) = Range(out) \cup {next}
  <2> HIDE DEF out
  <2> QED BY <1>1, <1>4, <1>5, <1>6, IncreasingAppend, RangeAppend, SMTT(20)
<1>8. \/ stdout' \o held' = Append(out, next) /\ (mode = "json" \/ polled[next].shown)
      \/ stdout' \o held' = out /\ ~ (mode = "json" \/ polled[next].shown)
  <2>1. /\ Append(held, next) = held \o <<next>> /\ <<next>> \in Seq(Nat)
        /\ Append(out, next) = out \o <<next>>
        /\ stdout \o (held \o <<next>>) = out \o <<next>>
    <3>1. <<next>> \in Seq(Nat) /\ next \in Nat
      BY <1>1
    <3>2. Append(held, next) = held \o <<next>>
      BY <1>4, <3>1, AppendIsConcat
    <3>3. Append(out, next) = out \o <<next>>
      <4> HIDE DEF out
      <4> QED BY <1>4, <3>1, AppendIsConcat
    <3>4. stdout \o (held \o <<next>>) = out \o <<next>>
      BY <1>4, <3>1, ConcatAssociative
    <3> QED BY <3>1, <3>2, <3>3, <3>4
  <2>2. CASE PrintJson
    <3>1. mode = "json"
      BY <2>2 DEF PrintJson
    <3>2. \/ held' = Append(held, next) /\ stdout' = stdout
          \/ held' = <<next>> /\ stdout' = out
      BY <2>2 DEF PrintJson
    <3> QED BY <2>1, <3>1, <3>2
  <2>3. CASE PrintPlain
    <3>1. mode = "plain" /\ held = <<>> /\ held' = <<>>
          /\ stdout' = IF polled[next].shown THEN Append(stdout, next) ELSE stdout
      BY <2>3 DEF PrintPlain, OutOK
    <3>2. out = stdout /\ \A s \in Seq(Nat) : s \o <<>> = s
      BY <1>4, <3>1, ConcatEmptySeq
    <3>3. stdout' \in Seq(Nat)
      BY <1>1, <1>4, <3>1, SequenceFacts
    <3>4. stdout' \o held' = stdout'
      BY <3>1, <3>2, <3>3
    <3> QED BY <3>1, <3>2, <3>4
  <2> QED BY <2>2, <2>3
<1>9. Increasing(stdout' \o held') /\ Range(stdout' \o held') = Shown(PrintedTo)'
  <2> HIDE DEF out
  <2> QED BY <1>3, <1>5, <1>7, <1>8
<1>10. mode' = "plain" \/ pc' \in {"poll", "check"} => held' = <<>>
  BY <1>1 DEF PrintJson, PrintPlain, OutOK
<1> QED BY <1>1, <1>9, <1>10 DEF OutOK

LEMMA OutNext ==
  ASSUME RunTypeOK, CallOK, OutOK, [RunNext]_run_vars
  PROVE  OutOK'
<1>0. /\ Len(polled) \in Nat /\ first \in 1 .. Len(polled) + 1 /\ next \in first .. Len(polled) + 1
      /\ mode \in {"json", "plain"} /\ stdout \in Seq(Nat) /\ held \in Seq(Nat)
      /\ pc \in {"poll", "print", "forward", "flush", "check"}
  BY ReachedType DEF RunTypeOK
<1>1. CASE PrintJson \/ PrintPlain
  BY <1>1, OutPrint
<1>2. CASE Poll
  <2>1. /\ PrintedTo = Len(polled) /\ PrintedTo' = Len(polled) /\ mode' = mode
        /\ UNCHANGED <<stdout, held>>
    BY <1>0, <1>2, PollEffect DEF Poll, PrintedTo
  <2>2. \A i \in 1 .. Len(polled) : polled'[i] = polled[i]
    BY <1>2, PollEffect
  <2>3. held = <<>> /\ pc' \notin {"flush"}
    BY <1>2 DEF Poll, OutOK
  <2> QED BY <2>1, <2>2, <2>3, OutSame
<1>3. CASE Printed \/ Forward \/ Forwarded \/ Check \/ OutsideStep
  <2>1. UNCHANGED <<mode, polled, stdout, held, first>>
    BY <1>3 DEF Printed, Forward, Forwarded, Check, OutsideStep, WriteFails, handle_signal
  <2>2. PrintedTo' = PrintedTo
    BY <1>0, <1>3 DEF Printed, Forward, Forwarded, Check, OutsideStep, WriteFails, handle_signal,
                      BatchDone, PrintedTo
  <2>3. /\ mode = "plain" \/ pc' \in {"poll", "check"} => held' = <<>>
        /\ pc' = "flush" => mode = "json"
    BY <1>0, <1>3 DEF Printed, Forward, Forwarded, Check, OutsideStep, WriteFails, handle_signal, OutOK
  <2> QED BY <2>1, <2>2, <2>3, OutSame
<1>4. CASE Flush
  <2>1. /\ stdout' = stdout \o held /\ held' = <<>> /\ pc' = "check" /\ pc = "flush"
        /\ UNCHANGED <<mode, polled, first, next>>
    BY <1>4 DEF Flush
  <2>2. stdout \o held \in Seq(Nat)
    BY <1>0, SequenceFacts
  <2>3. stdout' \o held' = stdout \o held
    BY <2>1, <2>2, ConcatEmptySeq
  <2>4. PrintedTo' = PrintedTo
    BY <2>1 DEF PrintedTo
  <2> QED BY <2>1, <2>3, <2>4, OutSame
<1>5. CASE UNCHANGED loop_vars
  <2>1. UNCHANGED <<mode, pc, polled, first, next, held, stdout>>
    BY <1>5 DEF loop_vars
  <2>2. PrintedTo' = PrintedTo
    BY <2>1 DEF PrintedTo
  <2>3. /\ mode = "plain" \/ pc' \in {"poll", "check"} => held' = <<>>
        /\ pc' = "flush" => mode = "json"
    BY <2>1 DEF OutOK
  <2> QED BY <2>1, <2>2, <2>3, OutSame
<1>6. CASE UNCHANGED run_vars
  BY <1>5, <1>6 DEF run_vars
<1> QED BY <1>1, <1>2, <1>3, <1>4, <1>5, <1>6, RunSteps DEF LoopStep

RunInv == StoreInv /\ OutOK

LEMMA RunAlways == RunSpec => []RunInv
<1>1. RunInit => OutOK
  <2> SUFFICES ASSUME RunInit PROVE OutOK
    OBVIOUS
  <2>1. polled = <<>> /\ pc = "poll" /\ held = <<>> /\ stdout = <<>>
    BY DEF RunInit
  <2>2. PrintedTo = 0 /\ Shown(0) = {}
    BY <2>1 DEF PrintedTo, Shown
  <2>3. stdout \o held = <<>>
    BY <2>1
  <2>4. Range(<<>>) = {} /\ Increasing(<<>>)
    BY DEF Range, Increasing
  <2> QED BY <2>1, <2>2, <2>3, <2>4 DEF OutOK
<1>2. RunInv /\ [RunNext]_run_vars => RunInv'
  BY StoreStep, OutNext DEF RunInv, StoreInv
<1> QED BY <1>1, <1>2, StoreStart, PTL DEF RunSpec, RunInv

(* At the end of a turn, and so when a signal ends the loop, everything    *)
(* polled has been written, in order and once, and given to the backends.  *)
THEOREM TurnsAreComplete == RunSpec => []TurnComplete
<1>1. RunInv => TurnComplete
  <2> SUFFICES ASSUME RunInv, pc = "check" PROVE TurnComplete
    BY DEF TurnComplete
  <2> USE DEF RunInv, StoreInv
  <2>1. call = NoCall /\ call.at = "none"
    BY NoCallAt DEF CallOK
  <2>2. Reached = Len(polled) /\ PrintedTo = Len(polled)
    BY DEF Reached, PrintedTo
  <2>3. DOMAIN polled = 1 .. Len(polled) /\ Len(polled) \in Nat
    BY LenProperties DEF RunTypeOK
  <2>4. \A at : "none" \notin at => Past(at) = Storable
    BY <2>1, <2>2, <2>3 DEF Past, Storable
  <2>5. held = <<>> /\ stdout \o held = stdout
    BY ConcatEmptySeq DEF OutOK, RunTypeOK
  <2>6. /\ Increasing(stdout)
        /\ Range(stdout) = {i \in DOMAIN polled : mode = "json" \/ polled[i].shown}
    BY <2>2, <2>3, <2>5 DEF OutOK, Shown
  <2>7. ASSUME "clickhouse" \in active
        PROVE  Range(rows \o own \o flush \o buffer) \cup failures = Storable
    <3> DEFINE all == rows \o own \o flush \o buffer
    <3>1. all \in Seq(Nat)
      BY SequenceFacts DEF RunTypeOK
    <3>2. \A i : i \in Range(all) <=> Count(all, {i}) # 0
      BY <3>1, CountIsOccurrence
    <3>3. Range(all) \subseteq Nat /\ failures \subseteq Nat /\ Storable \subseteq Nat
      <4>1. Range(all) \subseteq Nat
        <5> HIDE DEF all
        <5> QED BY <3>1, RangeOfSeq
      <4>2. Storable \subseteq Nat
        BY <2>3 DEF Storable
      <4> QED BY <4>1, <4>2 DEF HouseOK
    <3>4. ASSUME NEW i \in Nat
          PROVE  /\ Count(all, {i}) + (IF i \in Lost THEN 1 ELSE 0) = Copies(i)
                 /\ Count(all, {i}) \in Nat
      <4>1. /\ rows \in Seq(Nat) /\ own \in Seq(Nat) /\ flush \in Seq(Nat) /\ buffer \in Seq(Nat)
        BY DEF RunTypeOK
      <4>2. /\ Count(all, {i}) = Count(rows, {i}) + Count(own, {i}) + Count(flush, {i}) + Count(buffer, {i})
            /\ Count(all, {i}) \in Nat
        BY <4>1, CountFour
      <4> QED BY <4>2 DEF Copies
    <3>5. \A i \in Nat : Copies(i) = IF i \in Storable THEN 1 ELSE 0
      BY <2>4, <2>7 DEF HouseOK
    <3>6. Range(rows) \subseteq Range(all)
      <4>1. /\ rows \in Seq(Nat) /\ own \in Seq(Nat) /\ flush \in Seq(Nat) /\ buffer \in Seq(Nat)
            /\ rows \o own \in Seq(Nat) /\ rows \o own \o flush \in Seq(Nat)
        BY SequenceFacts DEF RunTypeOK
      <4>2. Range(rows \o own) = Range(rows) \cup Range(own)
        BY <4>1, RangeConcatenation
      <4>3. Range(rows \o own \o flush) = Range(rows \o own) \cup Range(flush)
        BY <4>1, RangeConcatenation
      <4>4. Range(all) = Range(rows \o own \o flush) \cup Range(buffer)
        BY <4>1, RangeConcatenation
      <4> QED BY <4>2, <4>3, <4>4
    <3> HIDE DEF all
    <3>7. \A i \in Nat : i \in Storable <=> i \in Range(all) \/ i \in failures
      <4> TAKE i \in Nat
      <4>1. Count(all, {i}) \in Nat /\ Count(all, {i}) + (IF i \in Lost THEN 1 ELSE 0)
                                      = IF i \in Storable THEN 1 ELSE 0
        BY <3>4, <3>5
      <4>2. i \in Storable <=> i \in Range(all) \/ i \in Lost
        BY <3>2, <4>1
      <4>3. i \in failures <=> (i \in Lost \/ (i \in failures /\ i \in Range(rows)))
        BY DEF Lost
      <4> QED BY <3>6, <4>2, <4>3
    <3>8. Range(all) \cup failures = Storable
      BY <3>3, <3>7
    <3> QED BY <3>8 DEF all
  <2>8. ASSUME "kafka" \in active
        PROVE  Range(handed \o rx) \cup overflow = Storable
    <3>1. Range(handed \o rx) = Range(handed) \cup Range(rx)
      BY RangeConcatenation DEF RunTypeOK
    <3> QED BY <2>4, <2>8, <3>1 DEF KafkaOK
  <2> QED BY <2>5, <2>6, <2>7, <2>8 DEF TurnComplete
<1> QED BY <1>1, RunAlways, PTL

=============================================================================
