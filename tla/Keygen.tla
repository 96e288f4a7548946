------------------------------- MODULE Keygen -------------------------------
(***************************************************************************)
(* The key tool (license-keygen/src/main.rs): the file with the signing    *)
(* key, the registry of issued licenses, and the commands that write them, *)
(* init, issue and revoke.  A command is a process of its own.  None takes *)
(* a lock: the registry is read, changed in memory and written in place,   *)
(* and one that cannot be parsed counts as an empty one.                   *)
(*                                                                         *)
(* A license is a number, its id (given, or made from the second, so two   *)
(* may share one) and the key that signed it.  Commands that only read     *)
(* (verify, list, export-public) and the rest of a license are left out.   *)
(***************************************************************************)
EXTENDS Naturals, Sequences, SequencesExt

CONSTANTS
  Runs,         (* commands that may be under way together                 *)
  Ids,          (* license ids                                             *)
  Cut,          (* a file that was truncated and not yet written           *)
  MaxKeys,      (* bound on the keys made                                  *)
  MaxLicenses   (* bound on the licenses signed                            *)

(* What a license says here, and the registries that parse. *)
Signed == [no : Nat, id : Ids, by : Nat]

(* A truncated file is neither a key nor a registry. *)
ASSUME KeygenAssumption ==
  MaxKeys \in Nat /\ MaxLicenses \in Nat /\ Cut \notin Nat \cup Seq(Signed)

VARIABLES
  key,          (* signing_key.json: 0 if there is none                    *)
  registry,     (* issued_licenses.json                                    *)
  cmd,          (* of a command: how far it is, and its locals             *)
  keys,         (* keys made so far                                        *)
  licenses,     (* licenses signed so far                                  *)
  listed,       (* history: what list should say                           *)
  shown,        (* history: the licenses handed out                        *)
  disturbed,    (* history: a registry written in part, or two commands at *)
                (* it together                                             *)
  replaced,     (* history: the operator removed the key                   *)
  early         (* history: the licenses that were signed while an init    *)
                (* was still on its way                                    *)

keygen_vars ==
  <<key, registry, cmd, keys, licenses, listed, shown, disturbed, replaced, early>>

NoKey == 0

Idle == [at |-> "idle"]

-----------------------------------------------------------------------------

(* cmd_init: if key_path.exists() it says so and returns.  It is not looked *)
(* for again before the key is written.                                    *)
InitUnchecked(r) ==
  /\ cmd[r].at = "idle" /\ keys < MaxKeys
  /\ keys' = keys + 1
  /\ cmd' = [cmd EXCEPT ![r] = [at |-> "open key", key |-> keys + 1]]
  /\ UNCHANGED <<key, registry, licenses, listed, shown, disturbed, replaced, early>>

BeginInit(r) ==
  /\ cmd[r].at = "idle" /\ keys < MaxKeys
  /\ key = NoKey
  /\ keys' = keys + 1
  /\ cmd' = [cmd EXCEPT ![r] = [at |-> "open key", key |-> keys + 1]]
  /\ UNCHANGED <<key, registry, licenses, listed, shown, disturbed, replaced, early>>

(* fs::write opens and truncates, then writes. *)
OpenKey(r) ==
  /\ cmd[r].at = "open key"
  /\ key' = Cut
  /\ cmd' = [cmd EXCEPT ![r].at = "write key"]
  /\ UNCHANGED <<registry, keys, licenses, listed, shown, disturbed, replaced, early>>

WriteKey(r) ==
  /\ cmd[r].at = "write key"
  /\ key' = cmd[r].key
  /\ cmd' = [cmd EXCEPT ![r] = Idle]
  /\ UNCHANGED <<registry, keys, licenses, listed, shown, disturbed, replaced, early>>

(* The operator deletes the key, as init tells him to for a new one. *)
RemoveKey ==
  /\ key # NoKey
  /\ key' = NoKey
  /\ replaced' = TRUE
  /\ UNCHANGED <<registry, cmd, keys, licenses, listed, shown, disturbed, early>>

-----------------------------------------------------------------------------

(* An init that found no key, and has not written one yet or not given up. *)
MakingKey(r) == cmd[r].at \in {"open key", "write key"}

(* cmd_issue: load_signing_key, sign. *)
BeginIssue(r, id) ==
  /\ cmd[r].at = "idle" /\ licenses < MaxLicenses
  /\ key \notin {NoKey, Cut}
  /\ licenses' = licenses + 1
  /\ cmd' = [cmd EXCEPT ![r] = [at |-> "load issue", id |-> id,
                                license |-> [no |-> licenses + 1, id |-> id, by |-> key]]]
  /\ early' = IF \E q \in Runs : MakingKey(q) THEN early \cup {licenses + 1} ELSE early
  /\ UNCHANGED <<key, registry, keys, listed, shown, disturbed, replaced>>

BeginRevoke(r, id) ==
  /\ cmd[r].at = "idle"
  /\ cmd' = [cmd EXCEPT ![r] = [at |-> "load revoke", id |-> id]]
  /\ UNCHANGED <<key, registry, keys, licenses, listed, shown, disturbed, replaced, early>>

(* LicenseRegistry::load *)
Loaded == IF registry = Cut THEN <<>> ELSE registry

WithoutFirst(s, id) ==
  IF \E i \in DOMAIN s : s[i].id = id
  THEN RemoveAt(s, CHOOSE i \in DOMAIN s : s[i].id = id /\ \A j \in 1 .. i - 1 : s[j].id # id)
  ELSE s
Without(s, id)      ==
  FoldLeft(LAMBDA kept, l : IF l.id = id THEN kept ELSE Append(kept, l), <<>>, s)

AtRegistry(r) == cmd[r].at \in {"open registry", "write registry"}

Changing(r) ==
  disturbed' = (disturbed \/ \E q \in Runs \ {r} : AtRegistry(q))

LoadToIssue(r) ==
  /\ cmd[r].at = "load issue"
  /\ cmd' = [cmd EXCEPT ![r] = [at |-> "open registry", id |-> @.id, new |-> {@.license},
                                text |-> Append(Loaded, @.license)]]
  /\ Changing(r)
  /\ UNCHANGED <<key, registry, keys, licenses, listed, shown, replaced, early>>

(* Nothing is saved if the license is not found. *)
LoadToRevoke(r) ==
  LET text == Without(Loaded, cmd[r].id)
  IN
  /\ cmd[r].at = "load revoke"
  /\ cmd' = [cmd EXCEPT ![r] = IF Len(text) = Len(Loaded)
                               THEN Idle
                               ELSE [at |-> "open registry", id |-> @.id, new |-> {}, text |-> text]]
  /\ Changing(r)
  /\ UNCHANGED <<key, registry, keys, licenses, listed, shown, replaced, early>>

(* save *)
OpenRegistry(r) ==
  /\ cmd[r].at = "open registry"
  /\ registry' = Cut
  /\ cmd' = [cmd EXCEPT ![r].at = "write registry"]
  /\ UNCHANGED <<key, keys, licenses, listed, shown, disturbed, replaced, early>>

(* The text is in the file; a new license is shown to the operator. *)
WriteRegistry(r) ==
  /\ cmd[r].at = "write registry"
  /\ registry' = cmd[r].text
  /\ shown' = shown \cup cmd[r].new
  /\ listed' = IF cmd[r].new = {} THEN {l \in listed : l.id # cmd[r].id}
                                  ELSE listed \cup cmd[r].new
  /\ cmd' = [cmd EXCEPT ![r] = Idle]
  /\ UNCHANGED <<key, keys, licenses, disturbed, replaced, early>>

(* The process is gone, or the disk is full and it gives up. *)
Fail(r) ==
  /\ cmd[r].at # "idle"
  /\ disturbed' = (disturbed \/ cmd[r].at = "write registry")
  /\ cmd' = [cmd EXCEPT ![r] = Idle]
  /\ UNCHANGED <<key, registry, keys, licenses, listed, shown, replaced, early>>

KeygenInit ==
  /\ key = NoKey
  /\ registry = <<>>
  /\ cmd = [r \in Runs |-> Idle]
  /\ keys = 0 /\ licenses = 0
  /\ listed = {} /\ shown = {}
  /\ disturbed = FALSE /\ replaced = FALSE
  /\ early = {}

KeygenNext ==
  \/ RemoveKey
  \/ \E r \in Runs :
       \/ BeginInit(r)
       \/ OpenKey(r)
       \/ WriteKey(r)
       \/ \E id \in Ids : BeginIssue(r, id) \/ BeginRevoke(r, id)
       \/ LoadToIssue(r)
       \/ LoadToRevoke(r)
       \/ OpenRegistry(r)
       \/ WriteRegistry(r)
       \/ Fail(r)

KeygenSpec == KeygenInit /\ [][KeygenNext]_keygen_vars

-----------------------------------------------------------------------------

(* The registry lists what was issued and not revoked, each once, unless   *)
(* it was written in part or by two commands together; even then none is   *)
(* in it twice and none that is was not signed.                            *)
RegistryExact ==
  /\ \A i, j \in DOMAIN Loaded : i # j => Loaded[i].no # Loaded[j].no
  /\ \A i \in DOMAIN Loaded : Loaded[i].no \in 1 .. licenses
  /\ ~ disturbed => IF registry = Cut
                    THEN \E r \in Runs : cmd[r].at = "write registry"
                    ELSE Range(registry) = listed

(* Until the operator removes the key, every license handed out verifies   *)
(* with the key in the file, whatever failed or ran together, unless an    *)
(* init was still on its way when the license was signed.                  *)
KeyKept ==
  ~ replaced => \A l \in shown : l.by = key \/ l.no \in early

(* "Signing key already exists.  Delete it first if you want to generate a *)
(* new one.  This will invalidate all existing licenses": none is          *)
(* invalidated before the key is deleted, once the inits are through.      *)
ValidUntilDeleted ==
  ~ replaced /\ (\A r \in Runs : ~ MakingKey(r)) => \A l \in shown : l.by = key

=============================================================================
