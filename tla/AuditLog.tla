------------------------------ MODULE AuditLog ------------------------------
(***************************************************************************)
(* The audit log (process-monitor/src/audit.rs): a file of JSON lines, each*)
(* holding the hash of the one before it.  Every command of the talus      *)
(* binary and every agent may append (audit_log), with no lock: it reads   *)
(* the last line, and later writes its own, the text and the newline in    *)
(* two writes (writeln! on an unbuffered file).  verify_audit_log goes     *)
(* over the whole file.                                                    *)
(*                                                                         *)
(* A write to a file opened for append is one step.  The process may be    *)
(* gone between any two steps; the disk may be full; and the fingerprint   *)
(* of the machine, which keys the hashes, may change under the log.        *)
(***************************************************************************)
EXTENDS Naturals, Sequences, SequencesExt

CONSTANTS
  Writers,      (* processes that append                                   *)
  Bodies,       (* what an entry says: event, license, time, user          *)
  Machines,     (* fingerprints, as in License                             *)
  MaxLines,     (* bound on the lines of the file                          *)
  MaxAppends    (* bound on the calls of audit_log                         *)

ASSUME AuditAssumption == MaxLines \in Nat /\ MaxAppends \in Nat

VARIABLES
  lines,        (* the file: what was written on each line                 *)
  ended,        (* its last line has its newline                           *)
  pc,           (* where a writer is in audit_log                          *)
  entry,        (* the entry it is writing                                 *)
  machine,      (* generate_machine_id()                                   *)
  calls,        (* calls of audit_log so far                               *)
  disturbed,    (* history: two calls overlapped, or one was cut short     *)
  intact        (* history: complete lines when that first happened        *)

vars == <<lines, ended, pc, entry, machine, calls, disturbed, intact>>

(* The hash of an entry covers its fields and the hash before it, under a  *)
(* key made from the fingerprint, so it stands for all that led up to it:  *)
(* here it is just that, keys and bodies in turn, and "0" is the hash of   *)
(* nothing.                                                                *)
Hashes              == Seq(Machines \X Bodies)
Zero                == <<>>
Hash(m, body, prev) == Append(prev, <<m, body>>)

AuditEntry(body, prev) ==
  [whole |-> TRUE, body |-> body, prev |-> prev, hash |-> Hash(machine, body, prev)]

(* The beginning of an entry, all the disk had room for. *)
Torn == [whole |-> FALSE]

Entry == [whole : {TRUE}, body : Bodies, prev : Hashes, hash : Hashes]

(* A line that parses as an AuditEntry. *)
Parses(line) == Len(line) = 1 /\ line[1].whole

(* prev_hash in audit_log: the hash in the last line; "0" without a file,  *)
(* and "0" when that line does not parse.                                  *)
PrevHashOfFirst ==
  IF lines # <<>> /\ Parses(lines[1]) THEN lines[1][1].hash ELSE Zero
PrevHash ==
  IF lines # <<>> /\ Parses(lines[Len(lines)]) THEN lines[Len(lines)][1].hash ELSE Zero

Complete == IF ended THEN Len(lines) ELSE Len(lines) - 1

(* What the writers owe each other and do not see to. *)
Disturb(bad) ==
  /\ disturbed' = (disturbed \/ bad)
  /\ intact' = IF disturbed THEN intact ELSE Complete

-----------------------------------------------------------------------------

(* The last line is read, the entry made and hashed. *)
Begin(w, b) ==
  /\ pc[w] = "idle"
  /\ calls < MaxAppends
  /\ calls' = calls + 1
  /\ entry' = [entry EXCEPT ![w] = AuditEntry(b, PrevHash)]
  /\ pc' = [pc EXCEPT ![w] = "text"]
  /\ Disturb(\E v \in Writers : pc[v] # "idle")
  /\ UNCHANGED <<lines, ended, machine>>

(* Where a write of text lands. *)
Written(x) == IF ended
              THEN Append(lines, <<x>>)
              ELSE [lines EXCEPT ![Len(lines)] = Append(@, x)]

WriteText(w) ==
  /\ pc[w] = "text"
  /\ Len(lines) < MaxLines
  /\ lines' = Written(entry[w])
  /\ ended' = FALSE
  /\ pc' = [pc EXCEPT ![w] = "newline"]
  /\ UNCHANGED <<entry, machine, calls, disturbed, intact>>

WriteNewline(w) ==
  /\ pc[w] = "newline"
  /\ lines' = IF ended THEN Append(lines, <<>>) ELSE lines
  /\ ended' = TRUE
  /\ pc' = [pc EXCEPT ![w] = "idle"]
  /\ UNCHANGED <<entry, machine, calls, disturbed, intact>>

(* The disk is full: part of the text is written, the newline never is, *)
(* and audit_log says nothing.                                          *)
WriteShort(w) ==
  /\ pc[w] = "text"
  /\ Len(lines) < MaxLines
  /\ lines' = Written(Torn)
  /\ ended' = FALSE
  /\ pc' = [pc EXCEPT ![w] = "idle"]
  /\ Disturb(TRUE)
  /\ UNCHANGED <<entry, machine, calls>>

(* The file cannot be opened, or the process is gone before it writes. *)
NothingWritten(w) ==
  /\ pc[w] = "text"
  /\ pc' = [pc EXCEPT ![w] = "idle"]
  /\ UNCHANGED <<lines, ended, entry, machine, calls, disturbed, intact>>

(* The process is gone between its two writes. *)
CutShort(w) ==
  /\ pc[w] = "newline"
  /\ pc' = [pc EXCEPT ![w] = "idle"]
  /\ Disturb(TRUE)
  /\ UNCHANGED <<lines, ended, entry, machine, calls>>

(* A network card comes or goes, the host is renamed. *)
NewFingerprint ==
  /\ machine' \in Machines \ {machine}
  /\ UNCHANGED <<lines, ended, pc, entry, calls, disturbed, intact>>

Init ==
  /\ lines = <<>>
  /\ ended = TRUE
  /\ pc = [w \in Writers |-> "idle"]
  /\ machine \in Machines
  /\ entry \in [Writers -> {AuditEntry(b, Zero) : b \in Bodies}]
  /\ calls = 0
  /\ disturbed = FALSE
  /\ intact = 0

Next ==
  \/ \E w \in Writers : \/ \E b \in Bodies : Begin(w, b)
                        \/ WriteText(w)
                        \/ WriteNewline(w)
                        \/ WriteShort(w)
                        \/ NothingWritten(w)
                        \/ CutShort(w)
  \/ NewFingerprint

Spec == Init /\ [][Next]_vars

-----------------------------------------------------------------------------

(* One line of the loop of verify_audit_log. *)
CheckLineLoosely(r, line) ==
  IF line = <<>> THEN r
  ELSE IF Parses(line)
       THEN [r EXCEPT !.prev = line[1].hash, !.verified = @ + 1]
       ELSE [r EXCEPT !.corrupted = @ + 1]
CheckLine(r, line) ==
  IF line = <<>> THEN r
  ELSE IF /\ Parses(line)
          /\ line[1].prev = r.prev
          /\ line[1].hash = Hash(machine, line[1].body, r.prev)
       THEN [r EXCEPT !.prev = line[1].hash, !.verified = @ + 1]
       ELSE [r EXCEPT !.corrupted = @ + 1]

(* verify_audit_log: the two counts; it fails if corrupted is not zero. *)
Verify(file) ==
  FoldLeft(CheckLine, [prev |-> Zero, verified |-> 0, corrupted |-> 0], file)

-----------------------------------------------------------------------------

TypeOK ==
  /\ lines \in Seq(Seq(Entry \cup {Torn}))
  /\ ended \in BOOLEAN
  /\ lines = <<>> => ended
  /\ pc \in [Writers -> {"idle", "text", "newline"}]
  /\ entry \in [Writers -> Entry]
  /\ machine \in Machines
  /\ calls \in Nat
  /\ disturbed \in BOOLEAN
  /\ intact \in 0 .. Len(lines)

(* Every line but the first names the one before it. *)
Linked ==
  \A i \in DOMAIN lines :
    /\ Parses(lines[i])
    /\ lines[i][1].prev = IF i = 1 THEN Zero ELSE lines[i - 1][1].hash
    /\ \E m \in Machines : lines[i][1].hash = Hash(m, lines[i][1].body, lines[i][1].prev)

(* As long as no two calls overlap and none is cut short, the file is one  *)
(* chain at every moment, the moment between the two writes included.      *)
LinkedUnlessDisturbed == ~ disturbed => Linked

(* Hashed on the machine as it is. *)
Own(x) == x.hash = Hash(machine, x.body, x.prev)

(* The first n lines but for the empty ones, and the hash they lead to.    *)
Filled(n) == {i \in 1 .. n : lines[i] # <<>>}
Upto(n)   == IF Filled(n) = {} THEN Zero ELSE lines[Max(Filled(n))][1].hash

Continues(i) ==
  Parses(lines[i]) /\ lines[i][1].prev = Upto(i - 1) /\ Own(lines[i][1])

(* verify_audit_log accepts what is a chain, empty lines aside, made under *)
(* the present fingerprint, and nothing else: whatever the writers did to  *)
(* each other, it counts every line once, and finds no fault only if there *)
(* is none.  What was complete before the first disturbance still          *)
(* verifies, the fingerprint being what it was.                            *)
VerifyExact ==
  LET result == Verify(lines)
  IN  /\ result.verified + result.corrupted = Cardinality(Filled(Len(lines)))
      /\ result.corrupted = 0 <=> \A i \in Filled(Len(lines)) : Continues(i)
      /\ disturbed /\ (\A i \in 1 .. intact : Parses(lines[i]) => Own(lines[i][1]))
           => result.verified >= intact

=============================================================================
