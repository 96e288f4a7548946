---------------------------- MODULE PartsProofs -----------------------------
(***************************************************************************)
(* Proofs about three parts of the agent that have no state in common.     *)
(* Of AuditLog, for any number of writers: types, and that the file is one *)
(* chain as long as no two calls of audit_log overlap and none is cut      *)
(* short.  What a writer read must still be the last line when it writes;  *)
(* Alone says so.  And that verify_audit_log is right about every file the *)
(* writers can leave: along the lines, its verdict after n of them is that *)
(* of the definition (Judged).                                             *)
(* Of Watchdog, for every Timeout and Slack: its safety properties.  They  *)
(* rest on Rounds, which says how the clock, the two loads of HEARTBEAT    *)
(* and the heartbeats lie to each other.                                   *)
(* Of ProcessTree, for any pids: that the tree lists whom it should.  The  *)
(* kernel gives pids out upwards, so the entries of pids that had one      *)
(* owner point downwards (TreeInv); a circle takes another one.  The       *)
(* depths of the tree, and of the way up, are counted against the pids.    *)
(***************************************************************************)
EXTENDS AuditLog, Watchdog, ProcessTree, DataLemmas, SequenceTheorems, TLAPS

Piece == Entry \cup {Torn}

(* Undisturbed, one writer at most is in audit_log: before its first write *)
(* its entry continues the file as it is, and only between its two writes  *)
(* does the last line lack its newline.                                    *)
Alone ==
  /\ \A v, w \in Writers : pc[v] # "idle" /\ pc[w] # "idle" => v = w
  /\ ~ ended => \E w \in Writers : pc[w] = "newline"
  /\ \A w \in Writers : pc[w] = "newline" => ~ ended
  /\ \A w \in Writers : pc[w] = "text" =>
       /\ entry[w].prev = PrevHash
       /\ \E m \in Machines : entry[w].hash = Hash(m, entry[w].body, PrevHash)

AuditInv == TypeOK /\ (~ disturbed => Linked /\ Alone)

-----------------------------------------------------------------------------

LEMMA EntryType ==
  ASSUME machine \in Machines, NEW b \in Bodies, NEW h \in Hashes
  PROVE  AuditEntry(b, h) \in Entry
BY DEF AuditEntry, Entry, Hash, Hashes

LEMMA ZeroType == Zero \in Hashes
BY DEF Zero, Hashes

(* The hash audit_log goes on from is that of an entry, or Zero. *)
LEMMA PrevHashType ==
  ASSUME TypeOK
  PROVE  PrevHash \in Hashes
<1>1. CASE lines # <<>> /\ Parses(lines[Len(lines)])
  <2>1. Len(lines) \in DOMAIN lines /\ lines[Len(lines)] \in Seq(Piece)
    BY <1>1 DEF TypeOK, Piece
  <2> DEFINE line == lines[Len(lines)]
  <2>a. Len(line) = 1
    BY <1>1 DEF Parses
  <2>b. line \in Seq(Piece)
    BY <2>1
  <2>2. line[1] \in Entry \cup {Torn}
    BY <2>a, <2>b, ElementOfSeq DEF Piece
  <2>3. lines[Len(lines)][1] \in Entry
    BY <1>1, <2>2 DEF Parses, Torn
  <2> QED
    BY <1>1, <2>3 DEF PrevHash, Entry
<1>2. CASE ~ (lines # <<>> /\ Parses(lines[Len(lines)]))
  BY <1>2, ZeroType DEF PrevHash
<1> QED
  BY <1>1, <1>2

(* A write of text leaves the file a sequence of lines, no shorter. *)
LEMMA WrittenType ==
  ASSUME TypeOK, NEW x \in Piece
  PROVE  /\ Written(x) \in Seq(Seq(Piece))
         /\ Len(Written(x)) >= Len(lines)
         /\ Written(x) # <<>>
<1> USE DEF TypeOK, Piece
<1>1. CASE ended
  <2>1. <<x>> \in Seq(Piece)
    OBVIOUS
  <2>2. Written(x) = Append(lines, <<x>>)
    BY <1>1 DEF Written
  <2>3. Len(lines) \in Nat
    OBVIOUS
  <2> QED
    BY <2>1, <2>2, <2>3, AppendProperties
<1>2. CASE ~ ended
  <2>1. Len(lines) \in DOMAIN lines /\ lines[Len(lines)] \in Seq(Piece)
    BY <1>2
  <2>2. Append(lines[Len(lines)], x) \in Seq(Piece)
    BY <2>1
  <2>3. Written(x) = [lines EXCEPT ![Len(lines)] = Append(lines[Len(lines)], x)]
    BY <1>2 DEF Written
  <2>4. Written(x) \in Seq(Seq(Piece)) /\ Len(Written(x)) = Len(lines)
    BY <2>1, <2>2, <2>3, ExceptSeq
  <2> QED
    BY <1>2, <2>4
<1> QED
  BY <1>1, <1>2

-----------------------------------------------------------------------------

LEMMA AuditInitInv == Init => AuditInv
<1> SUFFICES ASSUME Init PROVE AuditInv
  OBVIOUS
<1> USE DEF Init
<1>1. entry \in [Writers -> Entry]
  BY EntryType, ZeroType
<1>2. lines \in Seq(Seq(Piece)) /\ Len(lines) = 0
  OBVIOUS
<1>3. disturbed \in BOOLEAN /\ ended \in BOOLEAN /\ ended
  OBVIOUS
<1>4. pc \in [Writers -> {"idle", "text", "newline"}] /\ calls \in Nat
  OBVIOUS
<1>5. intact \in 0 .. Len(lines)
  BY <1>2
<1>6. TypeOK
  BY <1>1, <1>2, <1>3, <1>4, <1>5 DEF TypeOK, Piece
<1> QED
  BY <1>6 DEF AuditInv, Linked, Alone

LEMMA NextType == TypeOK /\ [Next]_vars => TypeOK'
<1> SUFFICES ASSUME TypeOK, [Next]_vars PROVE TypeOK'
  OBVIOUS
<1>1. ASSUME NEW w \in Writers, NEW b \in Bodies, Begin(w, b) PROVE TypeOK'
  <2>1. AuditEntry(b, PrevHash) \in Entry
    BY PrevHashType, EntryType DEF TypeOK
  <2>2. entry' \in [Writers -> Entry]
    BY <1>1, <2>1 DEF Begin, TypeOK
  <2>3. pc' \in [Writers -> {"idle", "text", "newline"}]
    BY <1>1 DEF Begin, TypeOK
  <2>4. calls' \in Nat
    BY <1>1 DEF Begin, TypeOK
  <2>5. disturbed' \in BOOLEAN
    BY <1>1, Zenon DEF Begin, Disturb, TypeOK
  <2>6. intact' \in 0 .. Len(lines)
    BY <1>1 DEF Begin, Disturb, TypeOK, Complete
  <2>7. UNCHANGED <<lines, ended, machine>>
    BY <1>1 DEF Begin
  <2> QED
    BY <2>2, <2>3, <2>4, <2>5, <2>6, <2>7 DEF TypeOK
<1>2. ASSUME NEW w \in Writers, WriteText(w) PROVE TypeOK'
  <2>1. /\ lines' \in Seq(Seq(Piece))
        /\ Len(lines') >= Len(lines)
        /\ lines' # <<>>
    BY <1>2, WrittenType DEF WriteText, TypeOK, Piece
  <2>2. pc' \in [Writers -> {"idle", "text", "newline"}] /\ ended' = FALSE
    BY <1>2 DEF WriteText, TypeOK
  <2>3. intact' \in 0 .. Len(lines')
    BY <1>2, <2>1 DEF WriteText, TypeOK
  <2> QED
    BY <1>2, <2>1, <2>2, <2>3 DEF WriteText, TypeOK, Piece
<1>3. ASSUME NEW w \in Writers, WriteNewline(w) PROVE TypeOK'
  <2>1. lines' \in Seq(Seq(Piece)) /\ Len(lines') >= Len(lines)
    BY <1>3 DEF WriteNewline, TypeOK, Piece
  <2>2. pc' \in [Writers -> {"idle", "text", "newline"}] /\ ended' = TRUE
    BY <1>3 DEF WriteNewline, TypeOK
  <2>3. intact' \in 0 .. Len(lines')
    BY <1>3, <2>1 DEF WriteNewline, TypeOK
  <2> QED
    BY <1>3, <2>1, <2>2, <2>3 DEF WriteNewline, TypeOK, Piece
<1>4. ASSUME NEW w \in Writers, WriteShort(w) PROVE TypeOK'
  <2>1. /\ lines' \in Seq(Seq(Piece))
        /\ Len(lines') >= Len(lines)
        /\ lines' # <<>>
    BY <1>4, WrittenType DEF WriteShort, TypeOK, Piece
  <2>2. pc' \in [Writers -> {"idle", "text", "newline"}] /\ ended' = FALSE
    BY <1>4 DEF WriteShort, TypeOK
  <2>3. intact' \in 0 .. Len(lines')
    BY <1>4, <2>1 DEF WriteShort, Disturb, Complete, TypeOK
  <2>4. disturbed' = TRUE
    BY <1>4, Zenon DEF WriteShort, Disturb
  <2> QED
    BY <1>4, <2>1, <2>2, <2>3, <2>4 DEF WriteShort, TypeOK, Piece
<1>5. ASSUME NEW w \in Writers, NothingWritten(w) PROVE TypeOK'
  BY <1>5 DEF NothingWritten, TypeOK
<1>6. ASSUME NEW w \in Writers, CutShort(w) PROVE TypeOK'
  <2>1. intact' \in 0 .. Len(lines)
    BY <1>6 DEF CutShort, Disturb, Complete, TypeOK
  <2>2. disturbed' = TRUE
    BY <1>6, Zenon DEF CutShort, Disturb
  <2> QED
    BY <1>6, <2>1, <2>2 DEF CutShort, TypeOK
<1>7. ASSUME NewFingerprint PROVE TypeOK'
  BY <1>7 DEF NewFingerprint, TypeOK
<1>8. CASE UNCHANGED vars
  BY <1>8 DEF vars, TypeOK
<1> QED
  BY <1>1, <1>2, <1>3, <1>4, <1>5, <1>6, <1>7, <1>8 DEF Next

(* An undisturbed step keeps the chain. *)
LEMMA NextLinked ==
  ASSUME TypeOK, Linked, Alone, [Next]_vars, ~ disturbed'
  PROVE  Linked' /\ Alone'
<1>1. ASSUME NEW w \in Writers, NEW b \in Bodies, Begin(w, b) PROVE Linked' /\ Alone'
  <2>1. \A v \in Writers : pc[v] = "idle"
    BY <1>1 DEF Begin, Disturb
  <2>2. ended
    BY <2>1 DEF Alone
  <2>3. UNCHANGED <<lines, ended>>
    BY <1>1 DEF Begin
  <2>4. PrevHash' = PrevHash
    BY <2>3 DEF PrevHash
  <2>5. /\ pc' = [pc EXCEPT ![w] = "text"]
        /\ entry' = [entry EXCEPT ![w] = AuditEntry(b, PrevHash)]
    BY <1>1 DEF Begin
  <2>6. entry'[w] = AuditEntry(b, PrevHash)
    BY <2>5 DEF TypeOK
  <2>7. /\ entry'[w].prev = PrevHash
        /\ \E m \in Machines : entry'[w].hash = Hash(m, entry'[w].body, PrevHash)
    BY <2>6 DEF AuditEntry, TypeOK
  <2>8. pc'[w] = "text" /\ \A v \in Writers : v # w => pc'[v] = "idle"
    BY <2>1, <2>5 DEF TypeOK
  <2>9. Alone'
    BY <2>2, <2>3, <2>4, <2>7, <2>8 DEF Alone
  <2> QED
    BY <2>3, <2>9 DEF Linked
<1>2. ASSUME NEW w \in Writers, WriteText(w) PROVE Linked' /\ Alone'
  <2> DEFINE e == entry[w]
  <2>1. pc[w] = "text" /\ pc' = [pc EXCEPT ![w] = "newline"] /\ ended' = FALSE
    BY <1>2 DEF WriteText
  <2>2. ended /\ \A v \in Writers : v # w => pc[v] = "idle"
    BY <2>1 DEF Alone, TypeOK
  <2>3. lines' = Append(lines, <<e>>)
    BY <1>2, <2>2 DEF WriteText, Written
  <2>4. /\ e \in Entry
        /\ e.prev = PrevHash
        /\ \E m \in Machines : e.hash = Hash(m, e.body, e.prev)
    BY <2>1 DEF Alone, TypeOK
  <2>5. Alone'
    BY <2>1, <2>2 DEF Alone, TypeOK
  <2>6. <<e>> \in Seq(Piece) /\ lines \in Seq(Seq(Piece))
    BY <2>4 DEF TypeOK, Piece
  <2>7. /\ Len(lines') = Len(lines) + 1
        /\ \A i \in 1 .. Len(lines) : lines'[i] = lines[i]
        /\ lines'[Len(lines) + 1] = <<e>>
        /\ DOMAIN lines' = 1 .. Len(lines) + 1
        /\ DOMAIN lines = 1 .. Len(lines)
        /\ Len(lines) \in Nat
    BY <2>3, <2>6, AppendProperties
  <2>8. Parses(<<e>>) /\ <<e>>[1] = e
    BY <2>4 DEF Parses, Entry
  <2>9. e.prev = IF Len(lines) + 1 = 1 THEN Zero ELSE lines[Len(lines)][1].hash
    BY <2>4, <2>7 DEF PrevHash, Linked
  <2>10. ASSUME NEW i \in DOMAIN lines'
         PROVE  /\ Parses(lines'[i])
                /\ lines'[i][1].prev = IF i = 1 THEN Zero ELSE lines'[i - 1][1].hash
                /\ \E m \in Machines :
                     lines'[i][1].hash = Hash(m, lines'[i][1].body, lines'[i][1].prev)
    <3>1. CASE i = Len(lines) + 1
      BY <2>4, <2>7, <2>8, <2>9, <3>1
    <3>2. CASE i \in 1 .. Len(lines)
      <4>1. i = 1 \/ i - 1 \in 1 .. Len(lines)
        BY <2>7, <3>2
      <4> QED
        BY <2>7, <3>2, <4>1 DEF Linked
    <3> QED
      BY <2>7, <3>1, <3>2
  <2>11. Linked'
    BY <2>10 DEF Linked
  <2> QED
    BY <2>5, <2>11
<1>3. ASSUME NEW w \in Writers, WriteNewline(w) PROVE Linked' /\ Alone'
  <2>1. /\ pc[w] = "newline"
        /\ pc' = [pc EXCEPT ![w] = "idle"]
        /\ ended' = TRUE
    BY <1>3 DEF WriteNewline
  <2>2. ~ ended
    BY <2>1 DEF Alone
  <2>3. lines' = lines
    BY <1>3, <2>2 DEF WriteNewline
  <2>4. \A v \in Writers : pc'[v] = "idle"
    BY <2>1 DEF Alone, TypeOK
  <2> QED
    BY <2>1, <2>3, <2>4 DEF Alone, Linked
<1>4. ASSUME NEW w \in Writers, NothingWritten(w) PROVE Linked' /\ Alone'
  <2>1. pc[w] = "text" /\ pc' = [pc EXCEPT ![w] = "idle"] /\ UNCHANGED <<lines, ended, entry>>
    BY <1>4 DEF NothingWritten
  <2>2. PrevHash' = PrevHash
    BY <2>1 DEF PrevHash
  <2>3. \A v \in Writers : pc'[v] = "idle"
    BY <2>1 DEF Alone, TypeOK
  <2>4. ended
    BY <2>1 DEF Alone, TypeOK
  <2> QED
    BY <2>1, <2>2, <2>3, <2>4 DEF Alone, Linked
<1>5. ASSUME NEW w \in Writers, WriteShort(w) \/ CutShort(w) PROVE FALSE
  BY <1>5 DEF WriteShort, CutShort, Disturb
<1>6. CASE NewFingerprint \/ UNCHANGED vars
  <2>1. UNCHANGED <<lines, ended, pc, entry>>
    BY <1>6 DEF NewFingerprint, vars
  <2>2. PrevHash' = PrevHash
    BY <2>1 DEF PrevHash
  <2> QED
    BY <2>1, <2>2 DEF Linked, Alone
<1> QED
  BY <1>1, <1>2, <1>3, <1>4, <1>5, <1>6 DEF Next

LEMMA AuditNextInv == AuditInv /\ [Next]_vars => AuditInv'
<1> SUFFICES ASSUME AuditInv, [Next]_vars PROVE AuditInv'
  OBVIOUS
<1>1. TypeOK'
  BY NextType DEF AuditInv
<1>2. disturbed => disturbed'
  BY DEF AuditInv, TypeOK, Next, vars, Begin, WriteText, WriteNewline, WriteShort,
         NothingWritten, CutShort, NewFingerprint, Disturb
<1>3. ~ disturbed' => Linked' /\ Alone'
  BY <1>2, NextLinked DEF AuditInv
<1> QED
  BY <1>1, <1>3 DEF AuditInv

LEMMA AuditInvariance == Spec => []AuditInv
BY AuditInitInv, AuditNextInv, PTL DEF Spec

-----------------------------------------------------------------------------

(* The variables keep their types: in particular a line is never written   *)
(* into a file whose last line does not exist.                             *)
THEOREM AuditTyped == Spec => []TypeOK
<1>1. AuditInv => TypeOK
  BY DEF AuditInv
<1> QED
  BY AuditInvariance, <1>1, PTL

(* Without overlapping or interrupted calls the log is one chain, however  *)
(* many processes take turns at it.                                        *)
THEOREM ChainKept == Spec => []LinkedUnlessDisturbed
<1>1. AuditInv => LinkedUnlessDisturbed
  BY DEF AuditInv, LinkedUnlessDisturbed
<1> QED
  BY AuditInvariance, <1>1, PTL

-----------------------------------------------------------------------------

(* verify_audit_log, as a function of the places gone over: what FoldLeft  *)
(* defines.                                                                *)
Base      == [prev |-> Zero, verified |-> 0, corrupted |-> 0]
Verdicts  == [prev : Hashes, verified : Nat, corrupted : Nat]
IsChecked(g, file) ==
  g = [s \in SUBSET (DOMAIN file) |-> IF s = {} THEN Base ELSE CheckLine(g[s \ {Max(s)}], file[Max(s)])]
Checked(file) == CHOOSE g : IsChecked(g, file)

(* The verdict on the first n lines. *)
After(n) == Checked(lines)[1 .. n]

(* Verify looks that function up. *)
LEMMA VerifyIsChecked ==
  ASSUME NEW file
  PROVE  Verify(file) = Checked(file)[DOMAIN file]
BY DEF Verify, FoldLeft, MapThenFoldSet, Checked, IsChecked, Base

(* A line that parses holds an entry. *)
LEMMA LineType ==
  ASSUME NEW line \in Seq(Piece), line # <<>>, Parses(line)
  PROVE  line[1] \in Entry
<1>1. Len(line) = 1
  BY DEF Parses
<1>2. line[1] \in Piece
  BY <1>1, ElementOfSeq
<1> QED
  BY <1>2 DEF Parses, Piece, Torn

(* Checking a line keeps the types of the two counts and the hash. *)
LEMMA CheckLineType ==
  ASSUME NEW r \in Verdicts, NEW line \in Seq(Piece)
  PROVE  CheckLine(r, line) \in Verdicts
<1>1. ASSUME line # <<>>, Parses(line)
      PROVE  line[1].hash \in Hashes
  BY <1>1, LineType DEF Entry
<1>2. [r EXCEPT !.corrupted = @ + 1] \in Verdicts
  BY DEF Verdicts
<1>3. ASSUME NEW h \in Hashes
      PROVE  [r EXCEPT !.prev = h, !.verified = @ + 1] \in Verdicts
  <2> DEFINE q == [r EXCEPT !.prev = h]
  <2>1. q \in Verdicts
    BY DEF Verdicts
  <2>2. [q EXCEPT !.verified = @ + 1] \in Verdicts
    <3> HIDE DEF q
    <3> QED BY <2>1 DEF Verdicts
  <2> QED BY <2>2
<1> QED
  BY <1>1, <1>2, <1>3 DEF CheckLine

(* There is such a function, so the chosen one is one. *)
LEMMA CheckedExists ==
  ASSUME TypeOK
  PROVE  IsChecked(Checked(lines), lines)
<1> DEFINE D    == DOMAIN lines
           step == [x \in D \X Verdicts |-> CheckLine(x[2], lines[x[1]])]
           pick == [s \in SUBSET D |-> Max(s)]
<1>1. D = 1 .. Len(lines) /\ Len(lines) \in Nat /\ \A i \in D : lines[i] \in Seq(Piece)
  BY DEF TypeOK, Piece
<1>2. Base \in Verdicts
  BY DEF Base, Verdicts, Zero, Hashes
<1>3. step \in [D \X Verdicts -> Verdicts]
  BY <1>1, CheckLineType
<1>4. \A s \in SUBSET D : s # {} => pick[s] \in s /\ pick[s] = Max(s)
  BY <1>1, Greatest
<1>5. IsFiniteSet(D)
  BY <1>1, FS_Interval
<1>6. PICK g \in [SUBSET D -> Verdicts] : IsFold(g, Base, step, pick, D)
  <2> HIDE DEF D, step, pick
  <2> QED BY <1>2, <1>3, <1>4, <1>5, FoldExists
<1>7. \A s \in SUBSET D : s # {} => /\ Max(s) \in D
                                    /\ s \ {Max(s)} \in SUBSET D
                                    /\ g[s \ {Max(s)}] \in Verdicts
  BY <1>4
<1>8. \A s \in SUBSET D : s # {} =>
        step[<<pick[s], g[s \ {pick[s]}]>>] = CheckLine(g[s \ {Max(s)}], lines[Max(s)])
  BY <1>4, <1>7
<1>9. IsChecked(g, lines)
  <2> HIDE DEF step, pick
  <2> QED BY <1>6, <1>8 DEF IsFold, IsChecked
<1> QED
  BY <1>9 DEF Checked

(* The loop of verify_audit_log, line by line. *)
LEMMA AfterStep ==
  ASSUME TypeOK
  PROVE  /\ After(0) = Base
         /\ \A n \in 1 .. Len(lines) : After(n) = CheckLine(After(n - 1), lines[n])
         /\ Verify(lines) = After(Len(lines))
<1> DEFINE g == Checked(lines)
<1>1. DOMAIN lines = 1 .. Len(lines) /\ Len(lines) \in Nat
  BY DEF TypeOK
<1>2. g = [s \in SUBSET (1 .. Len(lines)) |->
             IF s = {} THEN Base ELSE CheckLine(g[s \ {Max(s)}], lines[Max(s)])]
  BY <1>1, CheckedExists DEF IsChecked
<1>3. 1 .. 0 = {}
  OBVIOUS
<1>4. After(0) = Base
  <2> HIDE DEF g
  <2>1. g[1 .. 0] = Base
    BY <1>2, <1>3
  <2> QED BY <2>1 DEF After, g
<1>5. ASSUME NEW n \in 1 .. Len(lines)
      PROVE  After(n) = CheckLine(After(n - 1), lines[n])
  <2>1. 1 .. n \in SUBSET (1 .. Len(lines)) /\ n \in Nat \ {0}
    BY <1>1
  <2>2. Max(1 .. n) = n /\ (1 .. n) \ {n} = 1 .. n - 1 /\ 1 .. n # {}
    BY <2>1, LastPlace
  <2>3. g[1 .. n] = CheckLine(g[1 .. n - 1], lines[n])
    <3> HIDE DEF g
    <3> QED BY <1>2, <2>1, <2>2
  <2> QED BY <2>3 DEF After
<1>6. Verify(lines) = After(Len(lines))
  BY <1>1, VerifyIsChecked DEF After
<1> QED
  BY <1>4, <1>5, <1>6

(* One more line, in the count of lines and in the hash they lead to. *)
LEMMA FilledStep ==
  ASSUME TypeOK
  PROVE  /\ Filled(0) = {} /\ Upto(0) = Zero
         /\ \A n \in 1 .. Len(lines) :
              /\ lines[n] = <<>> => Filled(n) = Filled(n - 1) /\ Upto(n) = Upto(n - 1)
              /\ lines[n] # <<>> => /\ Filled(n) = Filled(n - 1) \cup {n}
                                    /\ Cardinality(Filled(n)) = Cardinality(Filled(n - 1)) + 1
                                    /\ Upto(n) = lines[n][1].hash
         /\ \A n \in Nat : Cardinality(Filled(n)) \in Nat
<1>1. Filled(0) = {}
  BY DEF Filled
<1>2. Upto(0) = Zero
  BY <1>1 DEF Upto
<1>3. \A n \in Nat : IsFiniteSet(Filled(n)) /\ Cardinality(Filled(n)) \in Nat
  <2> SUFFICES ASSUME NEW n \in Nat
               PROVE  IsFiniteSet(Filled(n)) /\ Cardinality(Filled(n)) \in Nat
    OBVIOUS
  <2>1. IsFiniteSet(1 .. n) /\ Filled(n) \subseteq 1 .. n
    BY FS_Interval DEF Filled
  <2> QED BY <2>1, FS_Subset, FS_CardinalityType
<1>4. Len(lines) \in Nat
  BY DEF TypeOK
<1>5. ASSUME NEW n \in 1 .. Len(lines), lines[n] = <<>>
      PROVE  Filled(n) = Filled(n - 1) /\ Upto(n) = Upto(n - 1)
  <2>1. Filled(n) = Filled(n - 1)
    BY <1>4, <1>5 DEF Filled
  <2> QED BY <2>1 DEF Upto
<1>6. ASSUME NEW n \in 1 .. Len(lines), lines[n] # <<>>
      PROVE  /\ Filled(n) = Filled(n - 1) \cup {n}
             /\ Cardinality(Filled(n)) = Cardinality(Filled(n - 1)) + 1
             /\ Upto(n) = lines[n][1].hash
  <2>1. Filled(n) = Filled(n - 1) \cup {n} /\ n \notin Filled(n - 1)
    BY <1>4, <1>6 DEF Filled
  <2>2. n - 1 \in Nat
    BY <1>4
  <2>3. Cardinality(Filled(n)) = Cardinality(Filled(n - 1)) + 1
    BY <1>3, <2>1, <2>2, FS_AddElement
  <2>4. Filled(n) \in SUBSET (1 .. n) /\ Filled(n) # {} /\ n \in Filled(n) /\ n \in Nat
    BY <1>4, <2>1 DEF Filled
  <2>5. Max(Filled(n)) \in Filled(n) /\ Max(Filled(n)) >= n
    BY <2>4, Greatest
  <2>6. Max(Filled(n)) = n
    BY <2>4, <2>5
  <2> QED BY <2>1, <2>3, <2>4, <2>6 DEF Upto
<1> QED
  BY <1>1, <1>2, <1>3, <1>5, <1>6

(* What verify_audit_log knows after n lines. *)
Judged(n) ==
  /\ After(n) \in Verdicts
  /\ After(n).verified + After(n).corrupted = Cardinality(Filled(n))
  /\ After(n).corrupted = 0 <=> \A i \in Filled(n) : Continues(i)
  /\ After(n).corrupted = 0 => After(n).prev = Upto(n)

(* One line more. *)
LEMMA JudgedStep ==
  ASSUME TypeOK, NEW n \in 1 .. Len(lines), Judged(n - 1)
  PROVE  Judged(n)
<1> DEFINE r == After(n - 1)
           line == lines[n]
<1>1. After(n) = CheckLine(r, line)
  BY AfterStep
<1>2. line \in Seq(Piece) /\ Len(lines) \in Nat /\ n \in Nat /\ n - 1 \in Nat
  BY DEF TypeOK, Piece
<1>3. r \in Verdicts /\ After(n) \in Verdicts
  BY <1>1, <1>2, CheckLineType DEF Judged
<1>4. r.verified \in Nat /\ r.corrupted \in Nat /\ Cardinality(Filled(n - 1)) \in Nat
  BY <1>2, <1>3, FilledStep DEF Verdicts
<1>5. CASE line = <<>>
  <2>a. Filled(n) = Filled(n - 1) /\ Upto(n) = Upto(n - 1)
    BY <1>5, FilledStep
  <2>b. After(n) = r
    BY <1>1, <1>5 DEF CheckLine
  <2>1. After(n) = r /\ Filled(n) = Filled(n - 1) /\ Upto(n) = Upto(n - 1)
    BY <2>a, <2>b
  <2> QED BY <2>1, Zenon DEF Judged
<1>6. CASE line # <<>>
  <2>1. /\ Filled(n) = Filled(n - 1) \cup {n}
        /\ Cardinality(Filled(n)) = Cardinality(Filled(n - 1)) + 1
        /\ Upto(n) = line[1].hash
    BY <1>6, FilledStep
  <2>2. Continues(n) <=> Parses(line) /\ line[1].prev = Upto(n - 1)
                         /\ line[1].hash = Hash(machine, line[1].body, line[1].prev)
    BY DEF Continues, Own
  <2> DEFINE good == Parses(line) /\ line[1].prev = r.prev
                     /\ line[1].hash = Hash(machine, line[1].body, r.prev)
  <2>3. r.corrupted = 0 => (good <=> Continues(n))
    BY <2>2 DEF Judged
  <2>4. CASE good
    <3>1. After(n) = [r EXCEPT !.prev = line[1].hash, !.verified = @ + 1]
      BY <1>1, <1>6, <2>4 DEF CheckLine
    <3>2. /\ After(n).prev = line[1].hash
          /\ After(n).verified = r.verified + 1
          /\ After(n).corrupted = r.corrupted
      BY <1>3, <3>1 DEF Verdicts
    <3> HIDE DEF good, r
    <3>3. After(n).verified + After(n).corrupted = Cardinality(Filled(n))
      BY <1>4, <2>1, <3>2 DEF Judged, r
    <3>4. After(n).corrupted = 0 <=> \A i \in Filled(n) : Continues(i)
      BY <2>1, <2>3, <2>4, <3>2 DEF Judged, r
    <3> QED BY <1>3, <2>1, <3>2, <3>3, <3>4 DEF Judged
  <2>5. CASE ~ good
    <3>1. After(n) = [r EXCEPT !.corrupted = @ + 1]
      BY <1>1, <1>6, <2>5 DEF CheckLine
    <3>2. After(n).verified = r.verified /\ After(n).corrupted = r.corrupted + 1
      BY <1>3, <3>1 DEF Verdicts
    <3> HIDE DEF good, r
    <3>3. After(n).corrupted # 0
      BY <1>4, <3>2
    <3>4. ~ \A i \in Filled(n) : Continues(i)
      BY <2>1, <2>3, <2>5 DEF Judged, r
    <3>5. After(n).verified + After(n).corrupted = Cardinality(Filled(n))
      <4>1. r.verified + r.corrupted = Cardinality(Filled(n - 1))
        BY DEF Judged, r
      <4> QED BY <1>4, <2>1, <3>2, <4>1
    <3> QED BY <1>3, <3>3, <3>4, <3>5 DEF Judged
  <2> QED BY <2>4, <2>5
<1> QED
  BY <1>5, <1>6

(* The verdict is right after every number of lines. *)
LEMMA VerdictIsRight ==
  ASSUME TypeOK
  PROVE  \A n \in 0 .. Len(lines) : Judged(n)
<1> DEFINE T == {n \in 0 .. Len(lines) : ~ Judged(n)}
<1>1. Judged(0)
  <2>1. After(0) = Base /\ Filled(0) = {} /\ Upto(0) = Zero
    BY AfterStep, FilledStep
  <2>2. Cardinality(Filled(0)) = 0
    BY <2>1, FS_EmptySet
  <2>3. Base \in Verdicts /\ Base.verified = 0 /\ Base.corrupted = 0 /\ Base.prev = Zero
    BY DEF Base, Verdicts, Zero, Hashes
  <2>4. Base.verified + Base.corrupted = 0
    BY <2>3
  <2> HIDE DEF T
  <2> QED BY <2>1, <2>2, <2>3, <2>4 DEF Judged
<1>2. SUFFICES ASSUME T # {} PROVE FALSE
  OBVIOUS
<1>3. T \in SUBSET Nat /\ Len(lines) \in Nat
  BY DEF TypeOK
<1>4. PICK n \in T : \A m \in T : n <= m
  <2> HIDE DEF T
  <2> QED BY <1>2, <1>3, LeastNatural
<1>5. n \in 1 .. Len(lines) /\ n - 1 \in 0 .. Len(lines) /\ ~ n <= n - 1
  BY <1>1, <1>3
<1>6. Judged(n - 1)
  BY <1>4, <1>5
<1> QED
  BY <1>5, <1>6, JudgedStep

-----------------------------------------------------------------------------

(* The first n lines are lines of one chain. *)
Chain(n) ==
  \A i \in 1 .. n :
    /\ Parses(lines[i])
    /\ lines[i][1].prev = IF i = 1 THEN Zero ELSE lines[i - 1][1].hash

(* When calls first disturbed each other, the complete lines were a chain, *)
(* and they still are there.                                               *)
IntactOK == disturbed => intact <= Complete /\ Chain(intact)

(* At most the last line lacks its newline. *)
LEMMA CompleteType ==
  ASSUME TypeOK
  PROVE  Complete \in Nat /\ Complete <= Len(lines) /\ Len(lines) \in Nat
         /\ (~ ended => Complete + 1 = Len(lines))
<1>1. Len(lines) \in Nat /\ (lines # <<>> => Len(lines) # 0)
  BY EmptySeq DEF TypeOK
<1> QED
  BY <1>1 DEF Complete, TypeOK

(* Complete lines stay, as they are. *)
LEMMA CompleteStays ==
  ASSUME TypeOK, [Next]_vars
  PROVE  Complete <= Complete' /\ \A i \in 1 .. Complete : lines'[i] = lines[i]
<1>1. /\ Complete \in Nat /\ Complete <= Len(lines) /\ Len(lines) \in Nat
      /\ ~ ended => Complete + 1 = Len(lines)
  BY CompleteType
<1>2. lines \in Seq(Seq(Piece))
  BY DEF TypeOK, Piece
<1>3. ASSUME NEW x, lines' = Written(x), ended' = FALSE
      PROVE  Complete <= Complete' /\ \A i \in 1 .. Complete : lines'[i] = lines[i]
  <2>1. CASE ended
    <3>1. lines' = Append(lines, <<x>>)
      BY <1>3, <2>1 DEF Written
    <3>2. Len(lines') = Len(lines) + 1 /\ \A i \in 1 .. Len(lines) : lines'[i] = lines[i]
      BY <3>1 DEF TypeOK
    <3>3. Complete' = Len(lines') - 1
      BY <1>3 DEF Complete
    <3> QED BY <1>1, <3>2, <3>3
  <2>2. CASE ~ ended
    <3>1. lines' = [lines EXCEPT ![Len(lines)] = Append(@, x)]
      BY <1>3, <2>2 DEF Written
    <3>2. Len(lines') = Len(lines)
      BY <3>1 DEF TypeOK
    <3>3. \A i \in 1 .. Len(lines) : i # Len(lines) => lines'[i] = lines[i]
      BY <3>1 DEF TypeOK
    <3>4. Complete' = Len(lines') - 1
      BY <1>3 DEF Complete
    <3> QED BY <1>1, <2>2, <3>2, <3>3, <3>4
  <2> QED BY <2>1, <2>2
<1>4. CASE \E w \in Writers : WriteText(w)
  BY <1>3, <1>4 DEF WriteText
<1>5. CASE \E w \in Writers : WriteShort(w)
  BY <1>3, <1>5 DEF WriteShort
<1>6. CASE \E w \in Writers : WriteNewline(w)
  <2>1. lines' = (IF ended THEN Append(lines, <<>>) ELSE lines) /\ ended' = TRUE
    BY <1>6 DEF WriteNewline
  <2>2. Complete' = Len(lines')
    BY <2>1 DEF Complete
  <2>3. Len(lines') >= Len(lines) /\ \A i \in 1 .. Len(lines) : lines'[i] = lines[i]
    BY <1>1, <2>1 DEF TypeOK
  <2> QED BY <1>1, <2>2, <2>3
<1>7. CASE UNCHANGED <<lines, ended>>
  BY <1>1, <1>7 DEF Complete
<1> QED
  BY <1>4, <1>5, <1>6, <1>7 DEF Next, vars, Begin, NothingWritten, CutShort, NewFingerprint

(* So the chain of that moment lasts. *)
LEMMA IntactNext == AuditInv /\ IntactOK /\ [Next]_vars => IntactOK'
<1> SUFFICES ASSUME AuditInv, IntactOK, [Next]_vars, disturbed'
             PROVE  intact' <= Complete' /\ Chain(intact)'
  BY DEF IntactOK
<1>1. TypeOK /\ TypeOK'
  BY NextType DEF AuditInv
<1>2. /\ Complete \in Nat /\ Complete <= Len(lines) /\ Len(lines) \in Nat
  BY <1>1, CompleteType
<1>3. Complete <= Complete' /\ \A i \in 1 .. Complete : lines'[i] = lines[i]
  BY <1>1, CompleteStays
<1>4. intact' <= Complete /\ intact' \in Nat /\ Chain(intact')
  <2>1. CASE disturbed
    <3>1. intact' = intact
      BY <2>1 DEF Next, vars, Begin, WriteText, WriteNewline, WriteShort, NothingWritten,
                  CutShort, NewFingerprint, Disturb
    <3> QED BY <1>1, <2>1, <3>1 DEF IntactOK, TypeOK
  <2>2. CASE ~ disturbed
    <3>1. intact' = Complete
      BY <2>2 DEF Next, vars, Begin, WriteText, WriteNewline, WriteShort, NothingWritten,
                  CutShort, NewFingerprint, Disturb
    <3>2. Linked
      BY <2>2 DEF AuditInv
    <3>3. 1 .. Complete \subseteq DOMAIN lines
      BY <1>1, <1>2 DEF TypeOK
    <3>4. Chain(Complete)
      BY <3>2, <3>3 DEF Chain, Linked
    <3> QED BY <1>2, <3>1, <3>4
  <2> QED BY <2>1, <2>2
<1> DEFINE k == intact'
<1>5. \A i \in 1 .. k : lines'[i] = lines[i] /\ (i = 1 \/ lines'[i - 1] = lines[i - 1])
  BY <1>2, <1>3, <1>4
<1>6. Chain(intact)'
  BY <1>4, <1>5 DEF Chain
<1>7. Complete' \in Nat
  <2>1. Len(lines') \in Nat /\ (lines' # <<>> => Len(lines') # 0)
    BY <1>1, EmptySeq DEF TypeOK
  <2> QED BY <1>1, <2>1 DEF Complete, TypeOK
<1> QED
  BY <1>2, <1>3, <1>4, <1>6, <1>7

-----------------------------------------------------------------------------

(* The hash the first n lines of a chain lead to. *)
HashAt(n) == IF n = 0 THEN Zero ELSE lines[n][1].hash

(* verify_audit_log accepts the lines of that chain, and those after it    *)
(* take nothing back.                                                      *)
Kept(n) ==
  /\ n <= intact => After(n).verified = n /\ After(n).prev = HashAt(n)
  /\ n >= intact => After(n).verified >= intact

(* One line more of it. *)
LEMMA KeptStep ==
  ASSUME TypeOK, IntactOK, disturbed, \A i \in 1 .. intact : Own(lines[i][1]),
         NEW n \in 1 .. Len(lines), Kept(n - 1)
  PROVE  Kept(n)
<1> DEFINE r == After(n - 1)
           line == lines[n]
<1>1. After(n) = CheckLine(r, line)
  BY AfterStep
<1>2. Len(lines) \in Nat /\ n \in Nat /\ n - 1 \in 0 .. Len(lines) /\ intact \in Nat
  BY DEF TypeOK
<1>3. r \in Verdicts
  BY <1>2, VerdictIsRight DEF Judged
<1>4. CASE n <= intact
  <2>1. r.verified = n - 1 /\ r.prev = HashAt(n - 1)
    BY <1>2, <1>4 DEF Kept
  <2>2. /\ Parses(line)
        /\ line[1].prev = HashAt(n - 1)
        /\ line[1].hash = Hash(machine, line[1].body, line[1].prev)
    BY <1>2, <1>4 DEF IntactOK, Chain, HashAt, Own
  <2>3. line # <<>>
    BY <2>2 DEF Parses
  <2>4. After(n) = [r EXCEPT !.prev = line[1].hash, !.verified = @ + 1]
    BY <1>1, <2>1, <2>2, <2>3 DEF CheckLine
  <2>5. After(n).prev = line[1].hash /\ After(n).verified = r.verified + 1
    BY <1>3, <2>4 DEF Verdicts
  <2> HIDE DEF r, line
  <2>6. After(n).verified = n
    BY <1>2, <2>1, <2>5
  <2> QED BY <1>2, <1>4, <2>5, <2>6 DEF Kept, HashAt, line
<1>5. CASE n > intact
  <2>1. r.verified >= intact /\ r.verified \in Nat
    BY <1>2, <1>3, <1>5 DEF Kept, Verdicts
  <2>2. After(n).verified \in {r.verified, r.verified + 1}
    BY <1>1, <1>3 DEF CheckLine, Verdicts
  <2> HIDE DEF r
  <2>3. After(n).verified >= intact
    BY <1>2, <2>1, <2>2
  <2> QED BY <1>2, <1>5, <2>3 DEF Kept
<1> QED
  BY <1>2, <1>4, <1>5

(* After every number of lines. *)
LEMMA AllKept ==
  ASSUME TypeOK, IntactOK, disturbed, \A i \in 1 .. intact : Own(lines[i][1])
  PROVE  \A n \in 0 .. Len(lines) : Kept(n)
<1> DEFINE T == {n \in 0 .. Len(lines) : ~ Kept(n)}
<1>1. Kept(0)
  <2>1. After(0) = Base /\ intact \in Nat
    BY AfterStep DEF TypeOK
  <2> QED BY <2>1 DEF Kept, Base, HashAt
<1>2. SUFFICES ASSUME T # {} PROVE FALSE
  OBVIOUS
<1>3. T \in SUBSET Nat /\ Len(lines) \in Nat
  BY DEF TypeOK
<1>4. PICK n \in T : \A m \in T : n <= m
  <2> HIDE DEF T
  <2> QED BY <1>2, <1>3, LeastNatural
<1>5. n \in 1 .. Len(lines) /\ n - 1 \in 0 .. Len(lines) /\ ~ n <= n - 1
  BY <1>1, <1>3
<1>6. Kept(n - 1)
  BY <1>4, <1>5
<1> QED
  BY <1>5, <1>6, KeptStep

(* Both together give the property. *)
LEMMA VerifyIsExact == TypeOK /\ IntactOK => VerifyExact
<1> SUFFICES ASSUME TypeOK, IntactOK PROVE VerifyExact
  OBVIOUS
<1>1. Len(lines) \in 0 .. Len(lines) /\ Verify(lines) = After(Len(lines))
  BY AfterStep DEF TypeOK
<1>2. Judged(Len(lines))
  BY <1>1, VerdictIsRight
<1>3. disturbed /\ (\A i \in 1 .. intact : Parses(lines[i]) => Own(lines[i][1]))
        => Verify(lines).verified >= intact
  <2> SUFFICES ASSUME disturbed, \A i \in 1 .. intact : Parses(lines[i]) => Own(lines[i][1])
               PROVE  After(Len(lines)).verified >= intact
    BY <1>1
  <2>1. \A i \in 1 .. intact : Own(lines[i][1])
    BY DEF IntactOK, Chain
  <2>2. Kept(Len(lines))
    BY <1>1, <2>1, AllKept
  <2>3. Len(lines) >= intact
    BY DEF TypeOK
  <2> QED BY <2>2, <2>3 DEF Kept
<1> QED
  BY <1>1, <1>2, <1>3 DEF VerifyExact, Judged

(* verify_audit_log is right about every file the writers can leave: it    *)
(* counts each line once, finds no fault only in one chain made under the  *)
(* present fingerprint, and still accepts what was complete before the     *)
(* first overlapping or interrupted call.                                  *)
THEOREM VerificationIsExact == Spec => []VerifyExact
<1>1. Init => IntactOK
  BY DEF Init, IntactOK
<1>2. AuditInv => TypeOK
  BY DEF AuditInv
<1>3. Init /\ [][Next]_vars => [](AuditInv /\ IntactOK)
  BY <1>1, AuditInitInv, AuditNextInv, IntactNext, PTL
<1> QED
  BY <1>2, <1>3, VerifyIsExact, PTL DEF Spec

-----------------------------------------------------------------------------

Round == Timeout + Slack

(* Between two verdicts.  The verdict takes no time, so the sleep began at *)
(* the load; what HEARTBEAT holds tells on which side of that load the     *)
(* last heartbeat was.                                                     *)
WhileAsleep ==
  /\ due = last_check + Timeout
  /\ now <= due + Slack
  /\ HEARTBEAT # last_heartbeat => last_beat >= last_check
  /\ HEARTBEAT = last_heartbeat => last_beat <= last_check
  /\ ~ ALARM => last_check <= last_beat + Round
  /\ ALARM /\ first_beat # None => /\ first_beat >= last_check
                                   /\ HEARTBEAT # last_heartbeat

(* Between a load and its verdict: the two values of HEARTBEAT differ if   *)
(* and only if there was a heartbeat in the round now judged.              *)
WhileJudging ==
  /\ last_check = now
  /\ elapsed \in Timeout .. Round
  /\ current <= HEARTBEAT
  /\ HEARTBEAT # current => last_beat = now
  /\ current = last_heartbeat => quiet >= Timeout
  /\ current # last_heartbeat => now <= last_beat + Round
  /\ ~ ALARM => now <= last_beat + 2 * Round
  /\ current = last_heartbeat /\ first_beat # None =>
       first_beat = now /\ HEARTBEAT # current
  /\ ALARM /\ first_beat # None => first_beat + elapsed >= now

Rounds ==
  /\ last_beat <= now
  /\ last_check <= now
  /\ last_heartbeat <= HEARTBEAT
  /\ first_beat # None => first_beat <= now
  /\ up /\ at = "asleep"  => WhileAsleep
  /\ up /\ at = "judging" => WhileJudging

WatchdogInv == WatchdogTypeOK /\ Rounds

-----------------------------------------------------------------------------

LEMMA WatchdogInitInv == WatchdogInit => WatchdogInv
<1> SUFFICES ASSUME WatchdogInit PROVE WatchdogInv
  OBVIOUS
<1> USE TimeAssumption DEF WatchdogInit
<1>1. WatchdogTypeOK
  <2>1. up \in BOOLEAN /\ reading \in BOOLEAN /\ traffic \in BOOLEAN /\ ALARM \in BOOLEAN
    OBVIOUS
  <2> QED
    BY <2>1 DEF WatchdogTypeOK
<1>2. WhileAsleep
  BY DEF WhileAsleep, Round, None
<1>3. Rounds
  BY <1>2 DEF Rounds, None
<1> QED
  BY <1>1, <1>3 DEF WatchdogInv

LEMMA WatchdogNextInv == WatchdogInv /\ [WatchdogNext]_watchdog_vars => WatchdogInv'
<1> SUFFICES ASSUME WatchdogInv, [WatchdogNext]_watchdog_vars PROVE WatchdogInv'
  OBVIOUS
<1> USE TimeAssumption DEF WatchdogInv, WatchdogTypeOK, Rounds, WhileAsleep, WhileJudging, Round, None
<1>1. CASE Beat
  BY <1>1 DEF Beat, thread
<1>2. CASE ReaderChanges
  BY <1>2 DEF ReaderChanges, thread
<1>3. CASE TrafficChanges
  BY <1>3 DEF TrafficChanges, thread
<1>4. CASE Crash
  BY <1>4 DEF Crash, thread
<1>5. CASE Wake
  <2>1. Elapsed \in Timeout .. Round
    BY <1>5 DEF Wake, Elapsed
  <2>2. WatchdogTypeOK'
    BY <1>5, <2>1 DEF Wake, Elapsed
  <2>3. WhileJudging'
    BY <1>5, <2>1 DEF Wake, Elapsed
  <2> QED
    BY <1>5, <2>2, <2>3 DEF Wake
<1>6. CASE Judge
  <2>1. WatchdogTypeOK'
    BY <1>6 DEF Judge, Silent
  <2>2. due' = last_check' + Timeout /\ now' <= due' + Slack
    BY <1>6 DEF Judge
  <2>3. CASE Silent
    <3>1. ALARM' /\ last_heartbeat' = current
      BY <1>6, <2>3 DEF Judge, Silent
    <3>2. WhileAsleep'
      BY <1>6, <2>2, <2>3, <3>1 DEF Judge, Silent
    <3> QED
      BY <1>6, <2>1, <3>1, <3>2 DEF Judge
  <2>4. CASE ~ Silent
    <3>1. ~ ALARM' /\ last_heartbeat' = current
      BY <1>6, <2>4 DEF Judge
    <3>2. elapsed >= Timeout
      BY <1>6 DEF Judge
    <3>3. current # last_heartbeat
      BY <2>4, <3>2 DEF Silent
    <3>4. WhileAsleep'
      BY <1>6, <2>2, <3>1, <3>3 DEF Judge
    <3> QED
      BY <1>6, <2>1, <3>1, <3>4 DEF Judge
  <2> QED
    BY <2>3, <2>4
<1>7. CASE Tick
  BY <1>7 DEF Tick, thread
<1>8. CASE UNCHANGED watchdog_vars
  BY <1>8 DEF watchdog_vars, thread
<1> QED
  BY <1>1, <1>2, <1>3, <1>4, <1>5, <1>6, <1>7, <1>8 DEF WatchdogNext

LEMMA WatchdogInvariance == WatchdogSpec => []WatchdogInv
<1>1. WatchdogInit => WatchdogInv
  BY WatchdogInitInv
<1>2. WatchdogInv /\ [WatchdogNext]_watchdog_vars => WatchdogInv'
  BY WatchdogNextInv
<1> QED
  BY <1>1, <1>2, PTL DEF WatchdogSpec

-----------------------------------------------------------------------------

(* The loop of spawn_watchdog keeps the types of its variables; the clock  *)
(* arithmetic never goes below zero.                                       *)
THEOREM WatchdogTyped == WatchdogSpec => []WatchdogTypeOK
<1>1. WatchdogInv => WatchdogTypeOK
  BY DEF WatchdogInv
<1>2. WatchdogSpec => []WatchdogInv
  BY WatchdogInvariance
<1> QED
  BY <1>1, <1>2, PTL

(* A reader that falls silent is noticed after two rounds, and one that    *)
(* goes on is noticed within a round of its first heartbeat, however the   *)
(* heartbeats and the watchdog's loads fall.                               *)
THEOREM AlarmsAreInTime == WatchdogSpec => []AlarmInTime
<1>1. WatchdogInv => StallDetected
  BY TimeAssumption DEF WatchdogInv, WatchdogTypeOK, Rounds, WhileAsleep, WhileJudging, Round, StallDetected
<1>2. WatchdogInv => RecoveryNoticed
  BY TimeAssumption DEF WatchdogInv, WatchdogTypeOK, Rounds, WhileAsleep, WhileJudging, Round, RecoveryNoticed, None
<1>3. WatchdogInv => AlarmInTime
  BY <1>1, <1>2 DEF AlarmInTime
<1>4. WatchdogSpec => []WatchdogInv
  BY WatchdogInvariance
<1> QED
  BY <1>3, <1>4, PTL

(* The alarm goes on only after a silence of Timeout or more: a heartbeat  *)
(* signalled while the watchdog makes up its mind cannot deceive it.       *)
THEOREM NoFalseAlarm == WatchdogSpec => AlarmMeansSilence
<1>1. WatchdogInv /\ [WatchdogNext]_watchdog_vars => [~ ALARM /\ ALARM' => quiet >= Timeout]_watchdog_vars
  <2> SUFFICES ASSUME WatchdogInv, WatchdogNext, ~ ALARM, ALARM' PROVE quiet >= Timeout
    BY DEF watchdog_vars
  <2>1. Judge
    BY DEF WatchdogInv, WatchdogTypeOK, WatchdogNext, Beat, ReaderChanges, TrafficChanges, Crash, Wake, Tick, thread
  <2> QED
    BY <2>1 DEF Judge, Silent, WatchdogInv, Rounds, WhileJudging
<1>2. WatchdogSpec => []WatchdogInv
  BY WatchdogInvariance
<1> QED
  BY <1>1, <1>2, PTL DEF WatchdogSpec, AlarmMeansSilence

-----------------------------------------------------------------------------

(***************************************************************************)
(* The process tree.                                                       *)
(***************************************************************************)

TreeTypeOK ==
  /\ state \in [Pids -> {"free", "alive", "zombie"}]
  /\ parent \in [Pids -> Pids \cup {NoParent}]
  /\ last \in Pids
  /\ lives \in [Pids -> Nat]
  /\ recorded \subseteq Pids
  /\ known \subseteq Pids
  /\ pid_to_ppid \in [Pids -> Pids \cup {NoParent, Unread}]

(* The kernel gives pids out upwards: those never given out lie above all  *)
(* that were.  A pid that had one owner at most was therefore given out    *)
(* after its parent, and init, which takes the orphans, is the lowest; so  *)
(* the kernel's entry and the agent's point downwards.                     *)
TreeInv ==
  /\ TreeTypeOK
  /\ state[1] = "alive" /\ parent[1] = NoParent /\ lives[last] # 0
  /\ \A p \in Pids : lives[p] = 0 => state[p] = "free"
  /\ \A p, q \in Pids : lives[p] # 0 /\ lives[q] = 0 => p < q
  /\ \A p \in Pids : lives[p] <= 1 => parent[p] < p /\ pid_to_ppid[p] < p

LEMMA TreeInitInv == TreeInit => TreeInv
BY PidAssumption DEF TreeInit, TreeInv, TreeTypeOK, NoParent, Unread

(* The next pid is free, and the lowest of the free ones above the last.   *)
LEMMA NextPidLowest ==
  ASSUME TreeTypeOK, FreePids # {}
  PROVE  /\ NextPid \in FreePids
         /\ \A q \in FreePids : last < q => last < NextPid /\ NextPid <= q
<1> DEFINE above == {p \in FreePids : p > last}
           from  == IF above # {} THEN above ELSE FreePids
<1>1. FreePids \subseteq Pids /\ Pids \subseteq Nat /\ last \in Nat
  BY PidAssumption DEF TreeTypeOK, FreePids
<1>2. from \in SUBSET Nat /\ from # {} /\ from \subseteq FreePids
  BY <1>1
<1>3. NextPid \in from /\ \A q \in from : NextPid <= q
  <2>1. NextPid = CHOOSE p \in from : \A q \in from : p <= q
    BY DEF NextPid, Min
  <2> HIDE DEF from
  <2>2. \E p \in from : \A q \in from : p <= q
    BY <1>2, LeastNatural
  <2> QED BY <2>1, <2>2
<1>4. NextPid \in FreePids
  BY <1>2, <1>3
<1>5. ASSUME NEW q \in FreePids, last < q
      PROVE  last < NextPid /\ NextPid <= q
  <2>1. q \in above
    BY <1>1, <1>5
  <2>2. from = above
    BY <2>1
  <2> QED BY <1>1, <1>3, <2>1, <2>2
<1> QED BY <1>4, <1>5

LEMMA TreeNextInv == TreeInv /\ [TreeNext]_tree_vars => TreeInv'
<1> SUFFICES ASSUME TreeInv, [TreeNext]_tree_vars PROVE TreeInv'
  OBVIOUS
<1> USE PidAssumption DEF NoParent, Unread
<1>1. ASSUME NEW p \in Pids, Fork(p) PROVE TreeInv'
  <2> DEFINE n == NextPid
  <2>1. TreeTypeOK /\ FreePids # {} /\ state[p] = "alive"
    BY <1>1 DEF TreeInv, Fork
  <2>2. /\ n \in Pids /\ state[n] = "free"
        /\ \A q \in Pids : state[q] = "free" /\ last < q => last < n /\ n <= q
    BY <2>1, NextPidLowest DEF FreePids
  <2>3. /\ last' = n
        /\ state' = [state EXCEPT ![n] = "alive"]
        /\ parent' = [parent EXCEPT ![n] = p]
        /\ lives' = [lives EXCEPT ![n] = @ + 1]
        /\ UNCHANGED <<recorded, known, pid_to_ppid>>
    BY <1>1 DEF Fork
  <2> HIDE DEF n
  <2>4. TreeTypeOK'
    BY <2>1, <2>2, <2>3 DEF TreeTypeOK
  <2>5. n # 1 /\ \A q \in Pids : lives[q] \in Nat
    BY <2>2 DEF TreeInv, TreeTypeOK
  <2>6. /\ lives'[n] = lives[n] + 1 /\ parent'[n] = p /\ state'[n] = "alive"
        /\ \A q \in Pids : q # n => /\ lives'[q] = lives[q] /\ parent'[q] = parent[q]
                                    /\ state'[q] = state[q]
    BY <2>1, <2>2, <2>3 DEF TreeTypeOK
  <2>7. \A q \in Pids : lives[q] = 0 /\ q # n => n < q
    <3> SUFFICES ASSUME NEW q \in Pids, lives[q] = 0, q # n PROVE n < q
      OBVIOUS
    <3>1. state[q] = "free" /\ last < q
      BY DEF TreeInv, TreeTypeOK
    <3>2. n <= q /\ n \in Nat /\ q \in Nat
      BY <2>2, <3>1
    <3> QED BY <3>2
  <2>8. lives[p] # 0
    BY <2>1 DEF TreeInv
  <2>9. (state[1] = "alive" /\ parent[1] = NoParent /\ lives[last] # 0)'
    BY <2>2, <2>3, <2>5, <2>6 DEF TreeInv
  <2>10. (\A q \in Pids : lives[q] = 0 => state[q] = "free")'
    BY <2>2, <2>5, <2>6 DEF TreeInv
  <2>11. (\A q, r \in Pids : lives[q] # 0 /\ lives[r] = 0 => q < r)'
    BY <2>2, <2>5, <2>6, <2>7 DEF TreeInv
  <2>12. (\A q \in Pids : lives[q] <= 1 => parent[q] < q /\ pid_to_ppid[q] < q)'
    <3> SUFFICES ASSUME NEW q \in Pids, lives'[q] <= 1
                 PROVE  parent'[q] < q /\ pid_to_ppid[q] < q
      BY <2>3
    <3>1. CASE q = n
      <4>1. lives[n] = 0
        BY <2>5, <2>6, <3>1
      <4> QED BY <2>2, <2>6, <2>8, <3>1, <4>1 DEF TreeInv
    <3>2. CASE q # n
      BY <2>6, <3>2 DEF TreeInv
    <3> QED BY <3>1, <3>2
  <2> QED BY <2>4, <2>9, <2>10, <2>11, <2>12 DEF TreeInv
<1>2. ASSUME NEW p \in Pids, Exit(p) PROVE TreeInv'
  <2>1. TreeTypeOK'
    BY <1>2 DEF TreeInv, TreeTypeOK, Exit
  <2>2. /\ p # 1 /\ state[p] = "alive" /\ lives[p] # 0
        /\ lives' = lives /\ last' = last /\ pid_to_ppid' = pid_to_ppid
        /\ \A q \in Pids : q # p => state'[q] = state[q]
        /\ \A q \in Pids : parent'[q] = IF parent[q] = p THEN 1 ELSE parent[q]
    BY <1>2 DEF TreeInv, TreeTypeOK, Exit
  <2>3. (\A q \in Pids : lives[q] <= 1 => parent[q] < q /\ pid_to_ppid[q] < q)'
    <3> SUFFICES ASSUME NEW q \in Pids, lives[q] <= 1
                 PROVE  parent'[q] < q /\ pid_to_ppid[q] < q
      BY <2>2
    <3>1. parent[q] = p => q # 1
      BY DEF TreeInv
    <3> QED BY <2>2, <3>1 DEF TreeInv
  <2>4. (state[1] = "alive" /\ parent[1] = NoParent /\ lives[last] # 0)'
    BY <2>2 DEF TreeInv
  <2>5. (\A q \in Pids : lives[q] = 0 => state[q] = "free")'
    BY <2>2 DEF TreeInv
  <2>6. (\A q, r \in Pids : lives[q] # 0 /\ lives[r] = 0 => q < r)'
    BY <2>2 DEF TreeInv
  <2> QED BY <2>1, <2>3, <2>4, <2>5, <2>6 DEF TreeInv
<1>3. ASSUME NEW p \in Pids, Reap(p) PROVE TreeInv'
  <2>1. TreeTypeOK'
    BY <1>3 DEF TreeInv, TreeTypeOK, Reap
  <2>2. /\ p # 1 /\ p \in Nat /\ p > 0
        /\ lives' = lives /\ last' = last /\ pid_to_ppid' = pid_to_ppid
        /\ \A q \in Pids : q # p => state'[q] = state[q] /\ parent'[q] = parent[q]
        /\ state'[p] = "free" /\ parent'[p] = NoParent
    BY <1>3 DEF TreeInv, TreeTypeOK, Reap
  <2> QED BY <2>1, <2>2 DEF TreeInv
<1>4. ASSUME NEW p \in Pids, Call(p) PROVE TreeInv'
  BY <1>4 DEF TreeInv, TreeTypeOK, Call, kernel
<1>5. ASSUME NEW p \in Pids, Handle(p) PROVE TreeInv'
  <2>1. /\ UNCHANGED <<state, parent, last, lives>>
        /\ recorded' \subseteq Pids /\ known' \subseteq Pids
    BY <1>5 DEF TreeInv, TreeTypeOK, Handle, kernel
  <2>2. ReadPpid(p) = Unread \/ ReadPpid(p) = parent[p]
    BY DEF ReadPpid
  <2>3. \/ pid_to_ppid' = pid_to_ppid
        \/ pid_to_ppid' = [pid_to_ppid EXCEPT ![p] = ReadPpid(p)]
    BY <1>5 DEF Handle
  <2>4. TreeTypeOK'
    BY <2>1, <2>2, <2>3 DEF TreeInv, TreeTypeOK
  <2>5. \A q \in Pids : pid_to_ppid'[q] \in {pid_to_ppid[q], Unread, parent[q]}
    BY <2>2, <2>3 DEF TreeInv, TreeTypeOK
  <2>6. (\A q \in Pids : lives[q] <= 1 => parent[q] < q /\ pid_to_ppid[q] < q)'
    BY <2>1, <2>5 DEF TreeInv
  <2> QED BY <2>1, <2>4, <2>6 DEF TreeInv
<1>6. CASE UNCHANGED tree_vars
  BY <1>6 DEF tree_vars, kernel, TreeInv, TreeTypeOK
<1> QED BY <1>1, <1>2, <1>3, <1>4, <1>5, <1>6 DEF TreeNext

LEMMA TreeInvariance == TreeSpec => []TreeInv
<1>1. TreeInit => TreeInv
  BY TreeInitInv
<1>2. TreeInv /\ [TreeNext]_tree_vars => TreeInv'
  BY TreeNextInv
<1> QED BY <1>1, <1>2, PTL DEF TreeSpec

-----------------------------------------------------------------------------

(* What build and flatten_tree list, depth by depth. *)
Depths == 0 .. Cardinality(known)

LEMMA KnownFinite ==
  ASSUME known \subseteq Pids
  PROVE  IsFiniteSet(known) /\ Cardinality(known) \in Nat
BY PidAssumption, FS_Subset, FS_CardinalityType

LEMMA ListedDepths ==
  ASSUME known \subseteq Pids
  PROVE  /\ DOMAIN Listed = Depths
         /\ \A d \in Depths : Listed[d] \subseteq known
         /\ \A p \in known : p \in Listed[0] <=> PpidOf(p) \notin known
         /\ \A d \in Depths \ {0}, p \in known : p \in Listed[d] <=> PpidOf(p) \in Listed[d - 1]
<1> DEFINE Rec(layer) == layer = [d \in Depths |-> IF d = 0 THEN Roots
                                            ELSE UNION {ChildrenOf(p) : p \in layer[d - 1]}]
           step == [A \in SUBSET known |-> UNION {ChildrenOf(p) : p \in A}]
<1>1. Listed = CHOOSE layer : Rec(layer)
  BY DEF Listed, Depths
<1>2. Roots \in SUBSET known /\ step \in [SUBSET known -> SUBSET known]
  BY DEF Roots, ChildrenOf
<1>3. Cardinality(known) \in Nat
  BY KnownFinite
<1>4. PICK g \in [Depths -> SUBSET known] : g = [d \in Depths |-> IF d = 0 THEN Roots ELSE step[g[d - 1]]]
  <2> DEFINE R == SUBSET known
             n == Cardinality(known)
             base == Roots
  <2>1. base \in R /\ step \in [R -> R] /\ n \in Nat
    BY <1>2, <1>3
  <2> HIDE DEF step, R, n, base
  <2>2. \E g \in [0 .. n -> R] : IsIteration(g, base, step, n)
    BY <2>1, IterateExists
  <2> QED BY <2>2 DEF R, n, base, Depths, IsIteration
<1>5. \A d \in Depths : d # 0 => d - 1 \in Depths
  BY <1>3 DEF Depths
<1>6. Rec(g)
  <2>1. \A d \in Depths : d # 0 => step[g[d - 1]] = UNION {ChildrenOf(p) : p \in g[d - 1]}
    BY <1>4, <1>5
  <2> HIDE DEF step
  <2> QED BY <1>4, <2>1
<1>7. Rec(Listed)
  <2> HIDE DEF Rec
  <2> QED BY <1>1, <1>6
<1>8. /\ DOMAIN Listed = Depths /\ Listed[0] = Roots
      /\ \A d \in Depths \ {0} : Listed[d] = UNION {ChildrenOf(p) : p \in Listed[d - 1]}
  <2>1. 0 \in Depths
    BY <1>3 DEF Depths
  <2> QED BY <1>7, <2>1
<1>9. \A d \in Depths : Listed[d] \subseteq known
  BY <1>8 DEF Roots, ChildrenOf
<1>10. \A p \in known : p \in Listed[0] <=> PpidOf(p) \notin known
  BY <1>8 DEF Roots
<1>11. \A d \in Depths \ {0}, p \in known : p \in Listed[d] <=> PpidOf(p) \in Listed[d - 1]
  BY <1>8 DEF ChildrenOf
<1> QED BY <1>8, <1>9, <1>10, <1>11

(* The ancestors of p, by the number of steps from p. *)
IsUp(layer, p) ==
  layer = [d \in Depths |-> IF d = 0 THEN {p} ELSE {q \in known : \E c \in layer[d - 1] : PpidOf(c) = q}]
Up(p) == CHOOSE layer : IsUp(layer, p)

LEMMA AncestorDepths ==
  ASSUME known \subseteq Pids, NEW p \in known
  PROVE  /\ Ancestors(p) = UNION {Up(p)[d] : d \in Depths}
         /\ \A d \in Depths : Up(p)[d] \subseteq known
         /\ Up(p)[0] = {p}
         /\ \A d \in Depths \ {0} :
              Up(p)[d] = {q \in known : \E c \in Up(p)[d - 1] : PpidOf(c) = q}
<1> DEFINE step == [A \in SUBSET known |-> {q \in known : \E c \in A : PpidOf(c) = q}]
<1>1. Ancestors(p) = UNION {Up(p)[d] : d \in DOMAIN Up(p)}
  BY DEF Ancestors, Up, IsUp, Depths
<1>2. {p} \in SUBSET known /\ step \in [SUBSET known -> SUBSET known]
  OBVIOUS
<1>3. Cardinality(known) \in Nat
  BY KnownFinite
<1>4. PICK g \in [Depths -> SUBSET known] : g = [d \in Depths |-> IF d = 0 THEN {p} ELSE step[g[d - 1]]]
  <2> DEFINE R == SUBSET known
             n == Cardinality(known)
             base == {p}
  <2>1. base \in R /\ step \in [R -> R] /\ n \in Nat
    BY <1>2, <1>3
  <2> HIDE DEF step, R, n, base
  <2>2. \E g \in [0 .. n -> R] : IsIteration(g, base, step, n)
    BY <2>1, IterateExists
  <2> QED BY <2>2 DEF R, n, base, Depths, IsIteration
<1>5. \A d \in Depths : d # 0 => d - 1 \in Depths
  BY <1>3 DEF Depths
<1>6. IsUp(g, p)
  <2>1. \A d \in Depths : d # 0 => step[g[d - 1]] = {q \in known : \E c \in g[d - 1] : PpidOf(c) = q}
    BY <1>4, <1>5
  <2> HIDE DEF step
  <2> QED BY <1>4, <2>1 DEF IsUp
<1>7. IsUp(Up(p), p)
  BY <1>6 DEF Up
<1>8. /\ DOMAIN Up(p) = Depths /\ Up(p)[0] = {p}
      /\ \A d \in Depths \ {0} : Up(p)[d] = {q \in known : \E c \in Up(p)[d - 1] : PpidOf(c) = q}
  <2>1. 0 \in Depths
    BY <1>3 DEF Depths
  <2> QED BY <1>7, <2>1 DEF IsUp
<1>9. \A d \in Depths : Up(p)[d] \subseteq known
  BY <1>8
<1> QED BY <1>1, <1>8, <1>9

(* A process at one depth has its parent one depth higher: so no process   *)
(* is at two depths.                                                       *)
LEMMA ListedOnce ==
  ASSUME known \subseteq Pids
  PROVE  \A d, e \in Depths : d < e => Listed[d] \cap Listed[e] = {}
<1> DEFINE n == Cardinality(known)
           T == {d \in Depths : \A e \in Depths : d < e => Listed[d] \cap Listed[e] = {}}
<1>1. n \in Nat /\ Depths = 0 .. n
  BY KnownFinite DEF Depths
<1>2. 0 \in T
  <2> SUFFICES ASSUME NEW e \in Depths, 0 < e, NEW p \in Listed[0], p \in Listed[e] PROVE FALSE
    BY <1>1
  <2>1. e \in Depths \ {0} /\ e - 1 \in Depths /\ 0 \in Depths
    BY <1>1
  <2>2. p \in known /\ PpidOf(p) \notin known /\ PpidOf(p) \in Listed[e - 1]
    BY <2>1, ListedDepths
  <2> QED BY <2>1, <2>2, ListedDepths
<1>3. ASSUME NEW d \in 0 .. n, d # n, d \in T PROVE d + 1 \in T
  <2> SUFFICES ASSUME NEW e \in Depths, d + 1 < e, NEW p \in Listed[d + 1], p \in Listed[e] PROVE FALSE
    BY <1>1, <1>3
  <2>1. /\ e \in Depths \ {0} /\ e - 1 \in Depths /\ d < e - 1
        /\ d + 1 \in Depths \ {0} /\ (d + 1) - 1 = d
    BY <1>1, <1>3
  <2>2. p \in known
    BY <2>1, ListedDepths
  <2>3. PpidOf(p) \in Listed[e - 1] /\ PpidOf(p) \in Listed[d]
    BY <2>1, <2>2, ListedDepths
  <2> QED BY <1>3, <2>1, <2>3
<1>4. 0 .. n \subseteq T
  <2> HIDE DEF T, n
  <2> QED BY <1>1, <1>2, <1>3, AllUpTo
<1> QED BY <1>1, <1>4

(* The depths are disjoint, so the one that is as deep as there are        *)
(* processes is empty: build does not go on for ever.                      *)
LEMMA ListedEnds ==
  ASSUME known \subseteq Pids
  PROVE  Listed[Cardinality(known)] = {}
<1> DEFINE n == Cardinality(known)
           T == {k \in 0 .. n : Listed[n - k] # {}}
<1> SUFFICES ASSUME Listed[n] # {} PROVE FALSE
  OBVIOUS
<1>1. n \in Nat /\ Depths = 0 .. n /\ IsFiniteSet(known)
  BY KnownFinite DEF Depths
<1>2. 0 \in T
  BY <1>1
<1>3. ASSUME NEW k \in 0 .. n, k # n, k \in T PROVE k + 1 \in T
  <2>1. /\ n - k \in Depths \ {0} /\ k + 1 \in 0 .. n /\ n - (k + 1) = (n - k) - 1
    BY <1>1, <1>3
  <2>2. PICK p : p \in Listed[n - k]
    BY <1>3
  <2>3. p \in known
    BY <2>1, <2>2, ListedDepths
  <2>4. PpidOf(p) \in Listed[(n - k) - 1]
    BY <2>1, <2>2, <2>3, ListedDepths
  <2> QED BY <2>1, <2>4
<1>4. 0 .. n \subseteq T
  <2> HIDE DEF T, n
  <2> QED BY <1>1, <1>2, <1>3, AllUpTo
<1>5. \A d \in 0 .. n : Listed[d] \subseteq known /\ Listed[d] # {}
  <2> SUFFICES ASSUME NEW d \in 0 .. n PROVE Listed[d] \subseteq known /\ Listed[d] # {}
    OBVIOUS
  <2>1. n - d \in 0 .. n /\ n - (n - d) = d
    BY <1>1
  <2>2. Listed[d] # {}
    BY <1>4, <2>1
  <2> QED BY <1>1, <2>2, ListedDepths
<1>6. PICK d \in 0 .. n, e \in 0 .. n : d < e /\ Listed[d] \cap Listed[e] # {}
  BY <1>1, <1>5, Crowded
<1> QED BY <1>1, <1>6, ListedOnce

(* Who is listed leads up to a root, and who leads up to one is listed.    *)
LEMMA HiddenInCircles ==
  ASSUME known \subseteq Pids, NEW p \in known
  PROVE  (\A d \in Depths : p \notin Listed[d]) <=> (\A q \in Ancestors(p) : PpidOf(q) \in known)
<1> DEFINE n == Cardinality(known)
<1>1. n \in Nat /\ Depths = 0 .. n
  BY KnownFinite DEF Depths
<1>2. ASSUME NEW q \in Ancestors(p), PpidOf(q) \notin known
      PROVE  \E d \in Depths : p \in Listed[d]
  <2>1. PICK d \in Depths : q \in Up(p)[d]
    BY AncestorDepths
  <2> DEFINE T == {k \in 0 .. d : Up(p)[d - k] \cap Listed[k] # {}}
  <2>2. 0 \in T
    <3>1. q \in known
      BY <2>1, AncestorDepths
    <3>2. q \in Listed[0] /\ 0 \in 0 .. d /\ d - 0 = d
      BY <1>1, <1>2, <3>1, ListedDepths
    <3> QED BY <2>1, <3>2
  <2>3. ASSUME NEW k \in 0 .. d, k # d, k \in T PROVE k + 1 \in T
    <3>1. /\ k + 1 \in 0 .. d /\ k + 1 \in Depths \ {0} /\ (k + 1) - 1 = k
          /\ d - k \in Depths \ {0} /\ d - (k + 1) = (d - k) - 1 /\ (d - k) - 1 \in Depths
      BY <1>1, <2>3
    <3>2. PICK c \in Up(p)[d - k] : c \in Listed[k]
      BY <2>3
    <3>3. PICK b \in Up(p)[(d - k) - 1] : PpidOf(b) = c
      BY <3>1, <3>2, AncestorDepths
    <3>4. b \in known
      BY <3>1, <3>3, AncestorDepths
    <3>5. b \in Listed[k + 1]
      BY <3>1, <3>2, <3>3, <3>4, ListedDepths
    <3> QED BY <3>1, <3>3, <3>5
  <2>4. d \in Nat /\ d \in 0 .. d /\ d - d = 0
    BY <1>1
  <2>5. d \in T
    <3>1. 0 .. d \subseteq T
      <4> HIDE DEF T
      <4> QED BY <2>2, <2>3, <2>4, AllUpTo
    <3> QED BY <2>4, <3>1
  <2>6. Up(p)[0] = {p}
    BY AncestorDepths
  <2> QED BY <2>4, <2>5, <2>6
<1>3. ASSUME NEW d \in Depths, p \in Listed[d], \A q \in Ancestors(p) : PpidOf(q) \in known
      PROVE  FALSE
  <2> DEFINE T == {k \in 0 .. d : Up(p)[k] \cap Listed[d - k] # {}}
  <2>1. d \in Nat /\ d \in 0 .. d /\ d - d = 0 /\ 0 \in 0 .. d /\ d - 0 = d
    BY <1>1
  <2>2. 0 \in T
    <3>1. Up(p)[0] = {p}
      BY AncestorDepths
    <3> QED BY <1>3, <2>1, <3>1
  <2>3. ASSUME NEW k \in 0 .. d, k # d, k \in T PROVE k + 1 \in T
    <3>1. /\ k + 1 \in 0 .. d /\ k + 1 \in Depths \ {0} /\ (k + 1) - 1 = k /\ k \in Depths
          /\ d - k \in Depths \ {0} /\ d - (k + 1) = (d - k) - 1 /\ (d - k) - 1 \in Depths
      BY <1>1, <2>3
    <3>2. PICK c \in Up(p)[k] : c \in Listed[d - k]
      BY <2>3
    <3>3. c \in known
      BY <3>1, <3>2, ListedDepths
    <3>4. PpidOf(c) \in Listed[(d - k) - 1]
      BY <3>1, <3>2, <3>3, ListedDepths
    <3>5. PpidOf(c) \in known
      BY <3>1, <3>4, ListedDepths
    <3>6. PpidOf(c) \in Up(p)[k + 1]
      BY <3>1, <3>2, <3>5, AncestorDepths
    <3> QED BY <3>1, <3>4, <3>6
  <2>4. 0 .. d \subseteq T
    <3> HIDE DEF T
    <3> QED BY <2>1, <2>2, <2>3, AllUpTo
  <2>5. PICK c \in Up(p)[d] : c \in Listed[0]
    BY <2>1, <2>4
  <2>6. c \in known /\ c \in Ancestors(p)
    BY AncestorDepths
  <2> QED BY <1>3, <2>5, <2>6, ListedDepths
<1> QED BY <1>2, <1>3

(* By single entries that point downwards one does not come round.         *)
LEMMA CirclesNeedReuse ==
  ASSUME TreeInv, NEW p \in known, \A q \in Ancestors(p) : PpidOf(q) \in known
  PROVE  \E q \in Ancestors(p) : lives[q] > 1
<1> DEFINE n == Cardinality(known)
           S == {d \in 0 .. n : \E x \in known : Up(p)[d] = {x}}
           T(d) == {k \in 0 .. n - d : k > 0 => \A x \in Up(p)[d], y \in Up(p)[d + k] : y < x}
<1> SUFFICES ASSUME \A q \in Ancestors(p) : ~ lives[q] > 1 PROVE FALSE
  OBVIOUS
<1>1. known \subseteq Pids
  BY DEF TreeInv, TreeTypeOK
<1>2. n \in Nat /\ Depths = 0 .. n /\ IsFiniteSet(known)
  BY <1>1, KnownFinite DEF Depths
<1>3. \A d \in 0 .. n : Up(p)[d] \subseteq known /\ Up(p)[d] \subseteq Ancestors(p)
  BY <1>1, <1>2, AncestorDepths
<1>4. \A q \in Ancestors(p) : q \in known
  BY <1>1, AncestorDepths
<1>5. \A q \in Ancestors(p) : PpidOf(q) \in known /\ PpidOf(q) < q
  <2> SUFFICES ASSUME NEW q \in Ancestors(p) PROVE PpidOf(q) < q
    OBVIOUS
  <2>1. q \in Pids /\ lives[q] \in Nat /\ lives[q] <= 1
    BY <1>1, <1>4 DEF TreeInv, TreeTypeOK
  <2>2. pid_to_ppid[q] < q /\ NoParent < q
    BY <2>1, PidAssumption DEF TreeInv, NoParent
  <2> QED BY <2>2 DEF PpidOf
<1>6. \A d \in 0 .. n : d # n =>
        Up(p)[d + 1] = {q \in known : \E c \in Up(p)[d] : PpidOf(c) = q}
  <2> SUFFICES ASSUME NEW d \in 0 .. n, d # n
               PROVE  Up(p)[d + 1] = {q \in known : \E c \in Up(p)[d] : PpidOf(c) = q}
    OBVIOUS
  <2>1. d + 1 \in Depths \ {0} /\ (d + 1) - 1 = d
    BY <1>2
  <2> QED BY <1>1, <2>1, AncestorDepths
<1>7. 0 .. n \subseteq S
  <2>1. 0 \in S
    BY <1>1, <1>2, AncestorDepths
  <2>2. ASSUME NEW d \in 0 .. n, d # n, d \in S PROVE d + 1 \in S
    <3>1. PICK x \in known : Up(p)[d] = {x}
      BY <2>2
    <3>2. PpidOf(x) \in known
      BY <1>3, <1>5, <3>1
    <3>3. Up(p)[d + 1] = {PpidOf(x)}
      BY <1>6, <2>2, <3>1, <3>2
    <3> QED BY <1>2, <2>2, <3>2, <3>3
  <2> HIDE DEF S, n
  <2> QED BY <1>2, <2>1, <2>2, AllUpTo
<1>8. ASSUME NEW d \in 0 .. n PROVE 0 .. n - d \subseteq T(d)
  <2>1. n - d \in Nat /\ 0 \in T(d)
    BY <1>2
  <2>2. ASSUME NEW k \in 0 .. n - d, k # n - d, k \in T(d) PROVE k + 1 \in T(d)
    <3>1. d + k \in 0 .. n /\ d + k # n /\ (d + k) + 1 = d + (k + 1) /\ k + 1 \in 0 .. n - d
      BY <1>2, <2>2
    <3> SUFFICES ASSUME NEW x \in Up(p)[d], NEW y \in Up(p)[d + (k + 1)] PROVE y < x
      BY <3>1
    <3>2. PICK c \in Up(p)[d + k] : PpidOf(c) = y
      BY <1>6, <3>1
    <3>3. y < c /\ c \in known /\ x \in known /\ y \in known
      BY <1>3, <1>5, <3>1, <3>2
    <3>4. c \in Nat /\ x \in Nat /\ y \in Nat
      BY <1>1, <3>3, PidAssumption
    <3>5. CASE k = 0
      <4>1. d + k = d
        BY <1>2, <3>5
      <4>2. c = x
        BY <1>7, <3>2, <4>1
      <4> QED BY <3>3, <4>2
    <3>6. CASE k # 0
      <4>1. k > 0
        BY <1>2, <3>6
      <4>2. c < x
        BY <2>2, <3>2, <4>1
      <4> QED BY <3>3, <3>4, <4>2
    <3> QED BY <3>5, <3>6
  <2> HIDE DEF T
  <2> QED BY <2>1, <2>2, AllUpTo
<1>9. PICK d \in 0 .. n, e \in 0 .. n : d < e /\ Up(p)[d] \cap Up(p)[e] # {}
  <2>1. \A d \in 0 .. n : Up(p)[d] \subseteq known /\ Up(p)[d] # {}
    BY <1>3, <1>7
  <2> DEFINE ups == [d \in 0 .. n |-> Up(p)[d]]
  <2>2. \A d \in 0 .. n : ups[d] = Up(p)[d]
    OBVIOUS
  <2> HIDE DEF ups
  <2>3. PICK d \in 0 .. n, e \in 0 .. n : d < e /\ ups[d] \cap ups[e] # {}
    BY <1>2, <2>1, <2>2, Crowded
  <2> QED BY <2>2, <2>3
<1>10. PICK x \in Up(p)[d] : x \in Up(p)[e]
  BY <1>9
<1>11. e - d \in 0 .. n - d /\ e - d > 0 /\ d + (e - d) = e
  BY <1>2, <1>9
<1>12. x < x
  BY <1>8, <1>10, <1>11
<1>13. x \in Nat
  BY <1>1, <1>3, <1>10, PidAssumption
<1> QED BY <1>12, <1>13

LEMMA TreeIsExact == TreeInv => TreeExact
<1> SUFFICES ASSUME TreeInv PROVE TreeExact
  OBVIOUS
<1> DEFINE hidden == known \ UNION {Listed[d] : d \in DOMAIN Listed}
<1>1. known \subseteq Pids
  BY DEF TreeInv, TreeTypeOK
<1>2. DOMAIN Listed = Depths
  BY <1>1, ListedDepths
<1>3. Listed[Cardinality(known)] = {}
  BY <1>1, ListedEnds
<1>4. \A d, e \in DOMAIN Listed : d # e => Listed[d] \cap Listed[e] = {}
  <2> SUFFICES ASSUME NEW d \in Depths, NEW e \in Depths, d # e
               PROVE  Listed[d] \cap Listed[e] = {}
    BY <1>2
  <2>1. d < e \/ e < d
    BY <1>1, KnownFinite DEF Depths
  <2>2. Listed[d] \cap Listed[e] = Listed[e] \cap Listed[d]
    OBVIOUS
  <2> QED BY <1>1, <2>1, <2>2, ListedOnce
<1>5. \A p \in known : p \in hidden <=> \A d \in Depths : p \notin Listed[d]
  BY <1>2
<1>6. \A p \in known : p \in hidden <=> \A q \in Ancestors(p) : PpidOf(q) \in known
  <2> HIDE DEF hidden
  <2> QED BY <1>1, <1>5, HiddenInCircles
<1>7. \A p \in hidden : \E q \in Ancestors(p) : lives[q] > 1
  <2> SUFFICES ASSUME NEW p \in hidden PROVE \E q \in Ancestors(p) : lives[q] > 1
    OBVIOUS
  <2>1. p \in known
    OBVIOUS
  <2>2. \A q \in Ancestors(p) : PpidOf(q) \in known
    BY <1>6, <2>1
  <2> HIDE DEF hidden
  <2> QED BY <2>1, <2>2, CirclesNeedReuse
<1> QED BY <1>3, <1>4, <1>6, <1>7 DEF TreeExact

(* For any pids and any forks, exits and late readings of /proc: the       *)
(* recursion of build ends, lists nobody twice, and leaves out a process   *)
(* exactly when the entries above it run in a circle, which takes a pid    *)
(* that was given out twice.                                               *)
THEOREM TreeIsComplete == TreeSpec => []TreeExact
<1>1. TreeSpec => []TreeInv
  BY TreeInvariance
<1>2. TreeInv => TreeExact
  BY TreeIsExact
<1> QED BY <1>1, <1>2, PTL

=============================================================================
