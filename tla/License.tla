------------------------------ MODULE License -------------------------------
(***************************************************************************)
(* Licensing on one installation (process-monitor/src/license.rs and the   *)
(* gates of run_monitor in main.rs): three files in the configuration      *)
(* directory, the commands that change them, and the start of an agent,    *)
(* which reads them all and decides what it may do.                        *)
(*                                                                         *)
(* license.dat is the cached license, readable only under the fingerprint  *)
(* of the machine that wrote it; .trial.dat says when the trial began;     *)
(* .integrity.hmac seals the other two.  The files are written in place: a *)
(* process may be gone after emptying one.  Commands and agents do not     *)
(* overlap here.  A license key is genuine: parse turns others away.       *)
(***************************************************************************)
EXTENDS Integers

CONSTANTS
  Keys,         (* license keys that were issued                           *)
  TierOf,       (* LicensePayload.tier of a key                            *)
  ExpiryOf,     (* LicensePayload.expires_at of a key, or Never            *)
  AllowsKill,   (* whether effective_features of a key holds auto_kill     *)
  Machines,     (* fingerprints: that of this machine changes with its     *)
                (* network cards, its name, its /etc/machine-id            *)
  Never,        (* no expiry date                                          *)
  None,         (* no such file                                            *)
  Empty,        (* a file that was truncated and not written               *)
  Day,          (* clock ticks in a day                                    *)
  TrialDays,    (* length of the trial (30)                                *)
  GraceDays,    (* OFFLINE_GRACE_DAYS (30)                                 *)
  MaxTime,      (* bound on the clock                                      *)
  MaxCommands   (* bound on the commands and new fingerprints              *)

ASSUME LicenseAssumption ==
  /\ TierOf \in [Keys -> {"Community", "Enterprise"}]
  /\ ExpiryOf \in [Keys -> Nat \cup {Never}]
  /\ AllowsKill \in [Keys -> BOOLEAN]
  /\ Never \notin Int
  /\ Day \in Nat \ {0}
  /\ TrialDays \in Nat \ {0}
  /\ GraceDays \in Nat
  /\ MaxTime \in Nat
  /\ MaxCommands \in Nat

VARIABLES
  now,          (* Utc::now()                                              *)
  machine,      (* generate_machine_id()                                   *)
  license,      (* license.dat: None, Empty, or a cache and its writer     *)
  trial,        (* .trial.dat: None, Empty, or started_at                  *)
  seal,         (* .integrity.hmac: None, Empty, or what it was made of    *)
  backup,       (* the user's backup file: None, or a cache                *)
  run,          (* the agent: as what it runs, and whether it kills        *)
  commands,     (* how many commands and new fingerprints there have been  *)
  granted       (* history: what the server agreed to, key and machine     *)

files == <<license, trial, seal>>
vars  == <<now, machine, license, trial, seal, backup, run, commands, granted>>

Cache == [key : Keys, machine_id : Machines, activated_at : Nat,
          token_expires_at : Nat \cup {Never}]

LicenseFile == {None, Empty} \cup [cache : Cache, wrote : Machines]
TrialFile   == {None, Empty} \cup Nat

NotRunning == [mode |-> "none", auto_kill |-> FALSE]

-----------------------------------------------------------------------------

(* Duration::num_days: whole days, rounded towards zero. *)
NumDays(d) == IF d >= 0 THEN d \div Day ELSE - ((- d) \div Day)

Expired(date) == date # Never /\ now > date

(* is_within_offline_grace *)
InGrace(c) == NumDays(now - c.activated_at) <= GraceDays

(* LicenseCache::load, when it is Ok(Some): the file is there, was written *)
(* to the end, and decrypts.                                               *)
Loads == license \notin {None, Empty} /\ license.wrote = machine

(* What save_config_integrity and verify_config_integrity hash.  A seal    *)
(* that was cut short is of nothing: no verification passes it.            *)
Contents == <<machine, license, trial>>

SealHolds  == seal \in {None, Contents}
SealWrites == seal' \in {Contents, Empty}

(* verify_cached_license up to its last check. *)
VerifiesUnbound ==
  /\ Loads
  /\ SealHolds
  /\ Expired(ExpiryOf[license.cache.key]) => InGrace(license.cache)
  /\ Expired(license.cache.token_expires_at) => InGrace(license.cache)
Verifies ==
  /\ VerifiesUnbound
  /\ license.cache.machine_id = machine

(* days_remaining(expires_at) <= 0 *)
NoDayLeft(date) == date # Never /\ NumDays(date - now) <= 0

-----------------------------------------------------------------------------

(* talus license activate, the server agreeing: what it answers decides    *)
(* how long the token is good.  The answer may be lost.                    *)
Activate(k, token) ==
  LET c == [key |-> k, machine_id |-> machine, activated_at |-> now,
            token_expires_at |-> token]
  IN
  /\ ~ Expired(ExpiryOf[k])
  /\ ~ (Loads /\ TierOf[license.cache.key] = "Enterprise" /\ TierOf[k] = "Community")
  /\ granted' = granted \cup {<<k, machine>>}
  /\ license' \in {[cache |-> c, wrote |-> machine], Empty, license}
  /\ UNCHANGED <<now, machine, trial, seal, backup, run>>

(* talus license deactivate and transfer: LicenseCache::clear removes the  *)
(* license and then the trial.                                             *)
Clear ==
  /\ Loads
  /\ license' = None
  /\ trial' \in {None, trial}
  /\ UNCHANGED <<now, machine, seal, backup, run, granted>>

Backup ==
  /\ Loads
  /\ backup' = license.cache
  /\ UNCHANGED <<now, machine, files, run, granted>>

(* talus license restore, here or of a backup made on another machine.     *)
(* The backup is as it was written: its fields are those of its key.       *)
Restore(c) ==
  /\ license' \in {[cache |-> c, wrote |-> machine], Empty}
  /\ UNCHANGED <<now, machine, trial, seal, backup, run, granted>>

(* talus license verify *)
Verify ==
  /\ Verifies
  /\ SealWrites
  /\ UNCHANGED <<now, machine, license, trial, backup, run, granted>>

-----------------------------------------------------------------------------

(* is_trial_active: what it finds, what it says, what it leaves behind. *)
TrialActive ==
  \/ /\ trial = None
     /\ trial' \in {now, Empty}
  \/ /\ trial \notin {None, Empty}
     /\ NumDays(now - trial) < TrialDays
     /\ trial' = trial

TrialOver ==
  /\ \/ trial = Empty
     \/ trial \notin {None, Empty} /\ NumDays(now - trial) >= TrialDays
  /\ trial' = None

(* The gate of run_monitor: no agent when --auto-kill is asked for and not *)
(* allowed, though the files are as the attempt left them.                 *)
DecideUngated(mode, allowed, asked) ==
  run' = [mode |-> mode, auto_kill |-> asked]
Decide(mode, allowed, asked) ==
  run' = IF asked /\ ~ allowed THEN NotRunning ELSE [mode |-> mode, auto_kill |-> asked]

StartVerified(asked) ==
  LET k == license.cache.key
  IN
  /\ Verifies
  /\ IF NoDayLeft(ExpiryOf[k])
     THEN Decide("community", FALSE, asked)
     ELSE Decide("licensed", AllowsKill[k], asked)
  /\ SealWrites
  /\ UNCHANGED trial

StartUnverified(asked) ==
  /\ ~ Verifies
  /\ \/ TrialActive /\ Decide("trial", TRUE, asked)
     \/ TrialOver /\ Decide("community", FALSE, asked)
  /\ seal' = seal

(* init_license and the gate. *)
Start(asked) ==
  /\ run = NotRunning
  /\ StartVerified(asked) \/ StartUnverified(asked)
  /\ UNCHANGED <<now, machine, license, backup, commands, granted>>

Stop ==
  /\ run # NotRunning
  /\ run' = NotRunning
  /\ UNCHANGED <<now, machine, files, backup, commands, granted>>

-----------------------------------------------------------------------------

Tick ==
  /\ now < MaxTime
  /\ now' = now + 1
  /\ UNCHANGED <<machine, files, backup, run, commands, granted>>

NewFingerprint ==
  /\ machine' \in Machines \ {machine}
  /\ UNCHANGED <<now, files, backup, run, granted>>

(* A backup of another installation may be at hand; what the server agreed *)
(* to there counts as granted.                                             *)
Init ==
  /\ now = 0
  /\ machine \in Machines
  /\ license = None
  /\ trial = None
  /\ seal = None
  /\ backup \in {None} \cup
       [key : Keys, machine_id : Machines \ {machine}, activated_at : {0},
        token_expires_at : {Never}]
  /\ run = NotRunning
  /\ commands = 0
  /\ granted = IF backup = None THEN {} ELSE {<<backup.key, backup.machine_id>>}

Commands ==
  \/ \E k \in Keys : \E token \in {now, Never} : Activate(k, token)
  \/ Clear
  \/ Backup
  \/ backup # None /\ Restore(backup)
  \/ Verify
  \/ NewFingerprint

Next ==
  \/ commands < MaxCommands /\ Commands /\ commands' = commands + 1
  \/ \E asked \in BOOLEAN : Start(asked)
  \/ Stop
  \/ Tick

Spec == Init /\ [][Next]_vars

-----------------------------------------------------------------------------

TypeOK ==
  /\ now \in Nat
  /\ machine \in Machines
  /\ license \in LicenseFile
  /\ trial \in TrialFile
  /\ seal \in {None, Empty} \cup Machines \X LicenseFile \X TrialFile
  /\ backup \in {None} \cup Cache
  /\ run \in [mode : {"none", "community", "trial", "licensed"}, auto_kill : BOOLEAN]
  /\ commands \in Nat
  /\ granted \subseteq Keys \X Machines

(* An agent starts. *)
Started == run.mode = "none" /\ run'.mode # "none"

(* An agent that starts as licensed does so on a license the server        *)
(* granted this very machine, with a day left on it, whatever was          *)
(* restored, carried over, cut short or left to lapse before.              *)
LicensedMeansGranted ==
  [][Started /\ run'.mode = "licensed" =>
       LET k == license.cache.key
       IN  /\ <<k, machine>> \in granted
           /\ ExpiryOf[k] # Never => now + Day <= ExpiryOf[k]]_vars

(* An agent that kills does so in a trial that began less than TrialDays   *)
(* ago, or under a cached license that says so.                            *)
KillMeansAllowed ==
  [][Started /\ run'.auto_kill =>
       \/ run'.mode = "trial" /\ (trial = None \/ now < trial + TrialDays * Day)
       \/ run'.mode = "licensed" /\ AllowsKill[license.cache.key]]_vars

(* The cached license is this machine's, and no date in it has passed. *)
Good ==
  /\ Loads
  /\ license.cache.machine_id = machine
  /\ ExpiryOf[license.cache.key] = Never
  /\ license.cache.token_expires_at = Never

(* "re-activate required": an activation that went through makes the next  *)
(* agent a licensed one.                                                   *)
ActivationHelps == [][Started /\ Good => run'.mode = "licensed"]_vars

=============================================================================
