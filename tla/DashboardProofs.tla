-------------------------- MODULE DashboardProofs ---------------------------
(***************************************************************************)
(* Proofs about what a person sits in front of, for any number of          *)
(* children, programs, events, limits and signals.                         *)
(* Of Shell: what get_status says is true.  The invariant says where the   *)
(* main thread is when the two variables do not agree, and that without an *)
(* overlap the threads of all children but the latest are done.            *)
(* Of Tui: a pause takes nothing away, and nothing is suppressed without   *)
(* cause.  The invariant says how far each snapshot reaches, and how many  *)
(* lines of the log the counter of a program stands for.                   *)
(* Of Program: however the process ends, the terminal is restored and the  *)
(* exit tells why.  The invariant says which signal is pending before and  *)
(* after the last look, and who restored the terminal last.                *)
(***************************************************************************)
EXTENDS Shell, Tui, Program, DataLemmas

Places == {"idle", "spawn", "set pid", "set running", "kill", "clear running", "clear pid"}

ShellTypeOK ==
  /\ running \in BOOLEAN
  /\ child \in Nat /\ child <= MaxChildren
  /\ pid \in Nat /\ pid <= child
  /\ at \in Places
  /\ alive \subseteq Children /\ \A c \in alive : c <= child
  /\ thread \in [Children -> {"none", "draining", "clearing", "done"}]
  /\ overlap \in BOOLEAN

(* A thread begins with the end of its start, and then waits for its child. *)
Threads ==
  /\ \A c \in Children :
       c <= child => (thread[c] = "none" <=> c = child /\ at \in {"set pid", "set running"})
  /\ \A c \in Children : thread[c] \in {"clearing", "done"} => c \notin alive
  /\ \A c \in Children : c > child => thread[c] = "none"
  /\ at \in {"set pid", "set running"} => child \in Children
  /\ at = "spawn" => child < MaxChildren

(* Running is said of the latest child only. *)
OfLatest ==
  /\ running => /\ at \in {"idle", "kill", "clear running"}
                /\ child \in Children
                /\ thread[child] = "draining"
  /\ at # "set pid" => pid \in {None, child}

(* Without an overlap only the latest child can live unasked, and it is    *)
(* shown, but while its start has not come to an end.                      *)
Shown ==
  ~ overlap =>
    /\ \A c \in Children : c < child => thread[c] = "done"
    /\ at = "set running" => pid = child
    /\ at \in {"clear running", "clear pid"} => alive \subseteq asked
    /\ at \in {"idle", "spawn", "kill"} /\ child \in alive \ asked => running /\ pid = child

ShellInv == ShellTypeOK /\ Threads /\ OfLatest /\ Shown

-----------------------------------------------------------------------------

LEMMA ShellInitInv == Init => ShellInv
<1> SUFFICES ASSUME Init PROVE ShellInv
  OBVIOUS
<1> USE ChildAssumption DEF Init, Children, None
<1>1. ShellTypeOK
  <2>1. child \in Nat /\ child <= MaxChildren /\ pid \in Nat /\ pid <= child
    OBVIOUS
  <2>2. thread \in [Children -> {"none", "draining", "clearing", "done"}]
    OBVIOUS
  <2> QED
    BY <2>1, <2>2 DEF ShellTypeOK, Places
<1>2. Threads
  BY DEF Threads
<1>3. OfLatest
  BY DEF OfLatest
<1>4. Shown
  BY DEF Shown
<1> QED
  BY <1>1, <1>2, <1>3, <1>4 DEF ShellInv

(* Every step of the main thread, of a child and of a thread keeps ShellInv. *)
LEMMA ShellInvKept == ShellInv /\ [Next]_vars => ShellInv'
<1> USE DEF Children, None
<1> SUFFICES ASSUME ShellInv, [Next]_vars PROVE ShellInv'
  OBVIOUS
<1>a. /\ MaxChildren \in Nat
      /\ child \in Nat /\ child <= MaxChildren
      /\ pid \in Nat /\ pid <= child
      /\ 0 <= child
  BY ChildAssumption DEF ShellInv, ShellTypeOK
<1>b. /\ alive \subseteq Children /\ \A c \in alive : c <= child
      /\ thread \in [Children -> {"none", "draining", "clearing", "done"}]
      /\ running \in BOOLEAN /\ overlap \in BOOLEAN /\ at \in Places
  BY DEF ShellInv, ShellTypeOK
<1>c. Threads /\ OfLatest /\ Shown
  BY DEF ShellInv
<1>d. /\ 0 \notin Children
      /\ \A c \in Children : /\ c <= child <=> c < child \/ c = child
                             /\ c > child <=> ~ c <= child
                             /\ c < child => c # child
  <2> SUFFICES ASSUME NEW c \in Children
               PROVE  /\ 0 \notin Children
                      /\ c <= child <=> c < child \/ c = child
                      /\ c > child <=> ~ c <= child
                      /\ c < child => c # child
    BY <1>a
  <2> QED
    BY <1>a
<1>1. CASE Start
  <2>1. /\ child < MaxChildren
        /\ pid' = pid
        /\ child' = child
        /\ alive' = alive
        /\ thread' = thread
        /\ asked' = asked
    BY <1>1 DEF Start
  <2>b. /\ at = "idle"
        /\ ~ running
        /\ running' = running
        /\ at' = "spawn"
        /\ overlap' = overlap
    BY <1>1 DEF Start
  <2>2. ShellTypeOK'
    <3>1. (child \in Nat /\ child <= MaxChildren /\ pid \in Nat /\ pid <= child)'
      BY <2>1, <1>a
    <3>2. at' \in Places
      BY <2>b, <1>b DEF Places
    <3> QED
      BY <2>1, <2>b, <3>1, <3>2, <1>b DEF ShellTypeOK
  <2>3. Threads'
    BY <2>1, <2>b, <1>b, <1>c, <1>d DEF Threads
  <2>4. OfLatest'
    BY <2>1, <2>b, <1>b, <1>c, <1>d DEF Threads, OfLatest
  <2>5. Shown'
    BY <2>1, <2>b, <1>b, <1>c, <1>d DEF Threads, OfLatest, Shown
  <2> QED
    BY <2>2, <2>3, <2>4, <2>5 DEF ShellInv
<1>2. CASE Stop
  <2>1. /\ pid' = pid
        /\ child' = child
        /\ alive' = alive
        /\ thread' = thread
        /\ asked' = asked
    BY <1>2 DEF Stop
  <2>b. /\ at = "idle"
        /\ running
        /\ running' = running
        /\ at' = "kill"
        /\ overlap' = overlap
    BY <1>2 DEF Stop
  <2>2. ShellTypeOK'
    <3>1. (child \in Nat /\ child <= MaxChildren /\ pid \in Nat /\ pid <= child)'
      BY <2>1, <1>a
    <3>2. at' \in Places
      BY <2>b, <1>b DEF Places
    <3> QED
      BY <2>1, <2>b, <3>1, <3>2, <1>b DEF ShellTypeOK
  <2>3. Threads'
    BY <2>1, <2>b, <1>b, <1>c, <1>d DEF Threads
  <2>4. OfLatest'
    BY <2>1, <2>b, <1>b, <1>c, <1>d DEF Threads, OfLatest
  <2>5. Shown'
    BY <2>1, <2>b, <1>b, <1>c, <1>d DEF Threads, OfLatest, Shown
  <2> QED
    BY <2>2, <2>3, <2>4, <2>5 DEF ShellInv
<1>3. CASE Spawn
  <2>1. /\ pid' = pid
        /\ child' = child + 1
        /\ alive' = alive \cup {child + 1}
        /\ thread' = thread
        /\ asked' = asked
    BY <1>3 DEF Spawn
  <2>b. /\ at = "spawn"
        /\ running' = running
        /\ at' = "set pid"
        /\ overlap' = (overlap \/ \E c \in 1 .. child : thread[c] # "done")
    BY <1>3 DEF Spawn
  <2>a. child < MaxChildren
    BY <2>b, <1>c DEF Threads
  <2>c. /\ child + 1 \in Children
        /\ \A c \in Children : /\ c <= child + 1 <=> c <= child \/ c = child + 1
                               /\ c > child + 1 => c > child
                               /\ c < child + 1 => c \in 1 .. child
                               /\ c <= child => c # child + 1
                               /\ c = child + 1 => c > child
    BY <2>a, <1>a
  <2>2. ShellTypeOK'
    <3>1. (child \in Nat /\ child <= MaxChildren /\ pid \in Nat /\ pid <= child)'
      BY <2>1, <2>a, <1>a
    <3>2. at' \in Places
      BY <2>b DEF Places
    <3>3. (alive \subseteq Children /\ \A c \in alive : c <= child)'
      BY <2>1, <2>c, <1>b
    <3> QED
      BY <2>1, <2>b, <3>1, <3>2, <3>3, <1>b DEF ShellTypeOK
  <2>3. Threads'
    BY <2>1, <2>b, <2>c, <1>b, <1>c, <1>d DEF Threads
  <2>4. OfLatest'
    BY <2>1, <2>b, <1>b, <1>c, <1>d DEF Threads, OfLatest
  <2>5. Shown'
    BY <2>1, <2>b, <2>c DEF Shown
  <2> QED
    BY <2>2, <2>3, <2>4, <2>5 DEF ShellInv
<1>4. CASE SpawnFails
  <2>1. /\ pid' = pid
        /\ child' = child
        /\ alive' = alive
        /\ thread' = thread
        /\ asked' = asked
    BY <1>4 DEF SpawnFails
  <2>b. /\ at = "spawn"
        /\ running' = running
        /\ at' = "idle"
        /\ overlap' = overlap
    BY <1>4 DEF SpawnFails
  <2>2. ShellTypeOK'
    <3>1. (child \in Nat /\ child <= MaxChildren /\ pid \in Nat /\ pid <= child)'
      BY <2>1, <1>a
    <3>2. at' \in Places
      BY <2>b, <1>b DEF Places
    <3> QED
      BY <2>1, <2>b, <3>1, <3>2, <1>b DEF ShellTypeOK
  <2>3. Threads'
    BY <2>1, <2>b, <1>b, <1>c, <1>d DEF Threads
  <2>4. OfLatest'
    BY <2>1, <2>b, <1>b, <1>c, <1>d DEF Threads, OfLatest
  <2>5. Shown'
    BY <2>1, <2>b, <1>b, <1>c, <1>d DEF Threads, OfLatest, Shown
  <2> QED
    BY <2>2, <2>3, <2>4, <2>5 DEF ShellInv
<1>5. CASE SetPid
  <2>1. /\ pid' = child
        /\ child' = child
        /\ alive' = alive
        /\ thread' = thread
        /\ asked' = asked
    BY <1>5 DEF SetPid, ThreadsNow, Begin
  <2>b. /\ at = "set pid"
        /\ running' = running
        /\ at' = "set running"
        /\ overlap' = overlap
    BY <1>5 DEF SetPid, ThreadsNow, Begin
  <2>2. ShellTypeOK'
    <3>1. (child \in Nat /\ child <= MaxChildren /\ pid \in Nat /\ pid <= child)'
      BY <2>1, <1>a
    <3>2. at' \in Places
      BY <2>b, <1>b DEF Places
    <3> QED
      BY <2>1, <2>b, <3>1, <3>2, <1>b DEF ShellTypeOK
  <2>3. Threads'
    BY <2>1, <2>b, <1>b, <1>c, <1>d DEF Threads
  <2>4. OfLatest'
    BY <2>1, <2>b, <1>b, <1>c, <1>d DEF Threads, OfLatest
  <2>5. Shown'
    BY <2>1, <2>b, <1>b, <1>c, <1>d DEF Threads, OfLatest, Shown
  <2> QED
    BY <2>2, <2>3, <2>4, <2>5 DEF ShellInv
<1>6. CASE SetRunning
  <2>1. /\ pid' = pid
        /\ child' = child
        /\ alive' = alive
        /\ thread' = [thread EXCEPT ![child] = "draining"]
        /\ asked' = asked
    BY <1>6 DEF SetRunning, ThreadsNow, Begin
  <2>b. /\ at = "set running"
        /\ running' = TRUE
        /\ at' = "idle"
        /\ overlap' = overlap
    BY <1>6 DEF SetRunning, ThreadsNow, Begin
  <2>2. ShellTypeOK'
    <3>1. (child \in Nat /\ child <= MaxChildren /\ pid \in Nat /\ pid <= child)'
      BY <2>1, <1>a
    <3>2. at' \in Places
      BY <2>b, <1>b DEF Places
    <3> QED
      BY <2>1, <2>b, <3>1, <3>2, <1>b DEF ShellTypeOK
  <2>3. Threads'
    BY <2>1, <2>b, <1>b, <1>c, <1>d DEF Threads
  <2>4. OfLatest'
    BY <2>1, <2>b, <1>b, <1>c, <1>d DEF Threads, OfLatest
  <2>5. Shown'
    BY <2>1, <2>b, <1>b, <1>c, <1>d DEF Threads, OfLatest, Shown
  <2> QED
    BY <2>2, <2>3, <2>4, <2>5 DEF ShellInv
<1>7. CASE Kill
  <2>1. /\ pid' = pid
        /\ child' = child
        /\ alive' = alive
        /\ thread' = thread
        /\ asked' = asked \cup ({pid} \ {None})
    BY <1>7 DEF Kill
  <2>b. /\ at = "kill"
        /\ running' = running
        /\ at' = "clear running"
        /\ overlap' = overlap
    BY <1>7 DEF Kill
  <2>2. ShellTypeOK'
    <3>1. (child \in Nat /\ child <= MaxChildren /\ pid \in Nat /\ pid <= child)'
      BY <2>1, <1>a
    <3>2. at' \in Places
      BY <2>b, <1>b DEF Places
    <3> QED
      BY <2>1, <2>b, <3>1, <3>2, <1>b DEF ShellTypeOK
  <2>3. Threads'
    BY <2>1, <2>b, <1>b, <1>c, <1>d DEF Threads
  <2>4. OfLatest'
    BY <2>1, <2>b, <1>b, <1>c, <1>d DEF Threads, OfLatest
  <2>5. Shown'
    BY <2>1, <2>b, <1>b, <1>c, <1>d DEF Threads, OfLatest, Shown
  <2> QED
    BY <2>2, <2>3, <2>4, <2>5 DEF ShellInv
<1>8. CASE ClearRunning
  <2>1. /\ pid' = pid
        /\ child' = child
        /\ alive' = alive
        /\ thread' = thread
        /\ asked' = asked
    BY <1>8 DEF ClearRunning
  <2>b. /\ at = "clear running"
        /\ running' = FALSE
        /\ at' = "clear pid"
        /\ overlap' = overlap
    BY <1>8 DEF ClearRunning
  <2>2. ShellTypeOK'
    <3>1. (child \in Nat /\ child <= MaxChildren /\ pid \in Nat /\ pid <= child)'
      BY <2>1, <1>a
    <3>2. at' \in Places
      BY <2>b, <1>b DEF Places
    <3> QED
      BY <2>1, <2>b, <3>1, <3>2, <1>b DEF ShellTypeOK
  <2>3. Threads'
    BY <2>1, <2>b, <1>b, <1>c, <1>d DEF Threads
  <2>4. OfLatest'
    BY <2>1, <2>b, <1>b, <1>c, <1>d DEF Threads, OfLatest
  <2>5. Shown'
    BY <2>1, <2>b, <1>b, <1>c, <1>d DEF Threads, OfLatest, Shown
  <2> QED
    BY <2>2, <2>3, <2>4, <2>5 DEF ShellInv
<1>9. CASE ClearPid
  <2>1. /\ pid' = None
        /\ child' = child
        /\ alive' = alive
        /\ thread' = thread
        /\ asked' = asked
    BY <1>9 DEF ClearPid
  <2>b. /\ at = "clear pid"
        /\ running' = running
        /\ at' = "idle"
        /\ overlap' = overlap
    BY <1>9 DEF ClearPid
  <2>2. ShellTypeOK'
    <3>1. (child \in Nat /\ child <= MaxChildren /\ pid \in Nat /\ pid <= child)'
      BY <2>1, <1>a
    <3>2. at' \in Places
      BY <2>b, <1>b DEF Places
    <3> QED
      BY <2>1, <2>b, <3>1, <3>2, <1>b DEF ShellTypeOK
  <2>3. Threads'
    BY <2>1, <2>b, <1>b, <1>c, <1>d DEF Threads
  <2>4. OfLatest'
    BY <2>1, <2>b, <1>b, <1>c, <1>d DEF Threads, OfLatest
  <2>5. Shown'
    BY <2>1, <2>b, <1>b, <1>c, <1>d DEF Threads, OfLatest, Shown
  <2> QED
    BY <2>2, <2>3, <2>4, <2>5 DEF ShellInv
<1>10. ASSUME NEW c \in Children, End(c) PROVE ShellInv'
  <2>1. /\ pid' = pid
        /\ child' = child
        /\ alive' = alive \ {c}
        /\ thread' = thread
        /\ asked' = asked
    BY <1>10 DEF End
  <2>b. /\ running' = running
        /\ at' = at
        /\ overlap' = overlap
    BY <1>10 DEF End
  <2>2. ShellTypeOK'
    <3>1. (child \in Nat /\ child <= MaxChildren /\ pid \in Nat /\ pid <= child)'
      BY <2>1, <1>a
    <3>2. at' \in Places
      BY <2>b, <1>b DEF Places
    <3> QED
      BY <2>1, <2>b, <3>1, <3>2, <1>b DEF ShellTypeOK
  <2>3. Threads'
    BY <2>1, <2>b, <1>b, <1>c, <1>d DEF Threads
  <2>4. OfLatest'
    BY <2>1, <2>b, <1>b, <1>c, <1>d DEF Threads, OfLatest
  <2>5. Shown'
    BY <2>1, <2>b, <1>b, <1>c, <1>d DEF Threads, OfLatest, Shown
  <2> QED
    BY <2>2, <2>3, <2>4, <2>5 DEF ShellInv
<1>11. ASSUME NEW c \in Children, ThreadMarks(c) PROVE ShellInv'
  <2>1. /\ c \notin alive
        /\ pid' = pid
        /\ child' = child
        /\ alive' = alive
        /\ thread' = [thread EXCEPT ![c] = "clearing"]
        /\ asked' = asked
    BY <1>11 DEF ThreadMarks
  <2>b. /\ thread[c] = "draining"
        /\ running' = FALSE
        /\ at' = at
        /\ overlap' = overlap
    BY <1>11 DEF ThreadMarks
  <2>2. ShellTypeOK'
    <3>1. (child \in Nat /\ child <= MaxChildren /\ pid \in Nat /\ pid <= child)'
      BY <2>1, <1>a
    <3>2. at' \in Places
      BY <2>b, <1>b DEF Places
    <3> QED
      BY <2>1, <2>b, <3>1, <3>2, <1>b DEF ShellTypeOK
  <2>3. Threads'
    BY <2>1, <2>b, <1>b, <1>c, <1>d DEF Threads
  <2>4. OfLatest'
    BY <2>1, <2>b, <1>b, <1>c, <1>d DEF Threads, OfLatest
  <2>5. Shown'
    BY <2>1, <2>b, <1>b, <1>c, <1>d DEF Threads, OfLatest, Shown
  <2> QED
    BY <2>2, <2>3, <2>4, <2>5 DEF ShellInv
<1>12. ASSUME NEW c \in Children, ThreadClears(c) PROVE ShellInv'
  <2>1. /\ pid' = None
        /\ child' = child
        /\ alive' = alive
        /\ thread' = [thread EXCEPT ![c] = "done"]
        /\ asked' = asked
    BY <1>12 DEF ThreadClears
  <2>b. /\ thread[c] = "clearing"
        /\ running' = running
        /\ at' = at
        /\ overlap' = overlap
    BY <1>12 DEF ThreadClears
  <2>2. ShellTypeOK'
    <3>1. (child \in Nat /\ child <= MaxChildren /\ pid \in Nat /\ pid <= child)'
      BY <2>1, <1>a
    <3>2. at' \in Places
      BY <2>b, <1>b DEF Places
    <3> QED
      BY <2>1, <2>b, <3>1, <3>2, <1>b DEF ShellTypeOK
  <2>3. Threads'
    BY <2>1, <2>b, <1>b, <1>c, <1>d DEF Threads
  <2>4. OfLatest'
    BY <2>1, <2>b, <1>b, <1>c, <1>d DEF Threads, OfLatest
  <2>5. Shown'
    BY <2>1, <2>b, <1>b, <1>c, <1>d DEF Threads, OfLatest, Shown
  <2> QED
    BY <2>2, <2>3, <2>4, <2>5 DEF ShellInv
<1>13. CASE UNCHANGED vars
  BY <1>13 DEF vars, ShellInv, ShellTypeOK, Threads, OfLatest, Shown
<1> QED
  BY <1>1, <1>2, <1>3, <1>4, <1>5, <1>6, <1>7, <1>8, <1>9, <1>10, <1>11, <1>12, <1>13 DEF Next, Command, Thread

(* ShellInv says enough of the states in which no command is under way. *)
LEMMA InvStatus == ShellInv => StatusTrue
BY ChildAssumption DEF ShellInv, ShellTypeOK, Threads, OfLatest, Shown, StatusTrue, Children, None

(* However the threads of earlier children get in between, the status that *)
(* the desktop shell shows is that of its latest child, and complete       *)
(* unless a start overtook one of those threads.                           *)
THEOREM StatusIsTrue == Spec => []StatusTrue
<1>1. Init => ShellInv
  BY ShellInitInv
<1>2. ShellInv /\ [Next]_vars => ShellInv'
  BY ShellInvKept
<1>3. ShellInv => StatusTrue
  BY InvStatus
<1> QED
  BY <1>1, <1>2, <1>3, PTL DEF Spec

-----------------------------------------------------------------------------

Line == [ev : Nat, at : Nat]

TuiTypeOK ==
  /\ clock \in Nat
  /\ evts \in Seq(Samples)
  /\ channel \in Seq(Nat)
  /\ app \in {"idle", "draining", "quit"}
  /\ snapshot \in Nat /\ applied \in Nat
  /\ rate \in DOMAIN Limits
  /\ rate_counters \in [Comms -> [n : Nat, start : Nat]]
  /\ log \in Seq(Line)
  /\ suppressed \subseteq Line
  /\ alert_count \in Nat

(* Nothing reaches beyond what it comes from. *)
Bounds ==
  /\ applied <= snapshot /\ snapshot <= Len(evts)
  /\ \A j \in DOMAIN channel : channel[j] <= Len(evts)
  /\ \A j \in DOMAIN log : 1 <= log[j].ev /\ log[j].ev <= applied /\ log[j].at <= clock
  /\ \A s \in suppressed : 1 <= s.ev /\ s.ev <= applied /\ s.at <= clock

(* The snapshots, as they are received one after the other. *)
Chain ==
  app # "quit" =>
    /\ channel = <<>> => snapshot = Len(evts)
    /\ channel # <<>> => channel[Len(channel)] = Len(evts) /\ snapshot <= channel[1]
    /\ \A j \in 1 .. Len(channel) - 1 : channel[j] <= channel[j + 1]

(* What NothingLost says of the log. *)
Accounted ==
  /\ \A j \in 1 .. Len(log) - 1 : log[j].ev < log[j + 1].ev
  /\ \A i \in 1 .. applied : \/ \E l \in Range(log) : l.ev = i
                             \/ \E s \in suppressed : s.ev = i /\ ~ evts[i].is_alert
                             \/ evts[i].comm \in Noisy
  /\ alert_count = Cardinality({i \in 1 .. applied : evts[i].is_alert})

(* In the window of a program every event counted is a line of the log, or *)
(* as many lines are there as one of the limits asks for.                  *)
SinceStart(c) == {l \in Lines(c) : rate_counters[c].start <= l.at}

Counted ==
  \A c \in Comms \ Noisy :
    rate_counters[c].n > 0 =>
      \/ Cardinality(SinceStart(c)) >= rate_counters[c].n
      \/ \E j \in DOMAIN Limits : Cardinality(SinceStart(c)) >= Limits[j]

TuiInv == TuiTypeOK /\ Bounds /\ Chain /\ Accounted /\ Counted /\ SuppressedForCause

-----------------------------------------------------------------------------

LEMMA TuiInitInv == TuiInit => TuiInv
<1> SUFFICES ASSUME TuiInit PROVE TuiInv
  OBVIOUS
<1> USE DEF TuiInit
<1>1. /\ evts = <<>> /\ channel = <<>> /\ log = <<>>
      /\ evts \in Seq(Samples) /\ channel \in Seq(Nat) /\ log \in Seq(Line)
      /\ Len(evts) = 0 /\ Len(log) = 0 /\ DOMAIN channel = {} /\ DOMAIN log = {}
  BY EmptySeq
<1>2. TuiTypeOK
  <2>1. rate \in DOMAIN Limits
    BY TuiAssumption
  <2> QED
    BY <1>1, <2>1 DEF TuiTypeOK
<1>3. Bounds /\ Chain
  BY <1>1 DEF Bounds, Chain
<1>4. Accounted
  <2>1. {i \in 1 .. applied : evts[i].is_alert} = {}
    OBVIOUS
  <2> QED
    BY <1>1, <2>1, FS_EmptySet DEF Accounted
<1>5. Counted /\ SuppressedForCause
  BY DEF Counted, SuppressedForCause
<1> QED
  BY <1>2, <1>3, <1>4, <1>5 DEF TuiInv

LEMMA LogLines ==
  ASSUME TuiTypeOK
  PROVE  /\ IsFiniteSet(Range(log))
         /\ \A l \in Range(log) : l \in Line /\ \E j \in DOMAIN log : l = log[j]
<1>1. log \in Seq(Line) /\ DOMAIN log = 1 .. Len(log) /\ Len(log) \in Nat
  BY DEF TuiTypeOK
<1>2. Range(log) = {log[j] : j \in DOMAIN log}
  BY <1>1, RangeEquality
<1>3. log \in Surjection(DOMAIN log, Range(log))
  BY <1>1, <1>2 DEF Surjection
<1>4. IsFiniteSet(Range(log))
  BY <1>1, <1>3, FS_Interval, FS_Surjection
<1> QED
  BY <1>1, <1>2, <1>4

(* Events that come later change nothing of the lines there are. *)
LEMMA LinesStay ==
  ASSUME TuiTypeOK, Bounds, UNCHANGED log, \A i \in 1 .. Len(evts) : evts'[i] = evts[i]
  PROVE  \A c : Lines(c)' = Lines(c)
<1>1. \A l \in Range(log) : l.ev \in 1 .. Len(evts)
  BY LogLines DEF Bounds, Line, TuiTypeOK
<1>2. \A l \in Range(log) : evts'[l.ev] = evts[l.ev]
  BY <1>1
<1>3. Range(log)' = Range(log)
  OBVIOUS
<1> QED
  BY <1>2, <1>3 DEF Lines

(* A step that applies no event keeps what is said of those applied. *)
LEMMA NotApplied ==
  ASSUME TuiInv, clock \in Nat, clock' \in Nat, clock <= clock',
         UNCHANGED <<applied, rate_counters, log, suppressed, alert_count>>,
         \A i \in 1 .. Len(evts) : evts'[i] = evts[i]
  PROVE  Accounted' /\ Counted' /\ SuppressedForCause'
<1>1. \A c : Lines(c)' = Lines(c)
  BY LinesStay DEF TuiInv
<1>2. applied \in Nat /\ Len(evts) \in Nat /\ applied <= Len(evts)
  BY DEF TuiInv, TuiTypeOK, Bounds
<1>3. \A i \in 1 .. applied : evts'[i] = evts[i]
  BY <1>2
<1>4. Accounted'
  <2>1. {i \in 1 .. applied : evts'[i].is_alert} = {i \in 1 .. applied : evts[i].is_alert}
    BY <1>3
  <2>2. Range(log)' = Range(log)
    OBVIOUS
  <2> QED
    BY <1>3, <2>1, <2>2 DEF TuiInv, Accounted
<1>5. Counted'
  BY <1>1 DEF TuiInv, Counted, SinceStart
<1>6. SuppressedForCause'
  <2>1. \A s \in suppressed : s.ev \in 1 .. applied
    BY <1>2 DEF TuiInv, TuiTypeOK, Bounds, Line
  <2>2. \A s \in suppressed : evts'[s.ev] = evts[s.ev]
    BY <1>3, <2>1
  <2> QED
    BY <1>1, <2>2 DEF TuiInv, SuppressedForCause
<1> QED
  BY <1>4, <1>5, <1>6

LEMMA PollKeeps == TuiInv /\ Poll => TuiInv'
<1> SUFFICES ASSUME TuiInv, Poll PROVE TuiInv'
  OBVIOUS
<1> USE DEF TuiInv
<1>1. PICK n \in 0 .. MaxBatch :
        /\ \E new \in [1 .. n -> Samples] : evts' = evts \o new
        /\ poll_thread' = ~ (Due(n) /\ app = "quit")
        /\ channel' = IF Due(n) /\ poll_thread' THEN Append(channel, Len(evts')) ELSE channel
  BY DEF Poll
<1>2. PICK new \in [1 .. n -> Samples] : evts' = evts \o new
  BY <1>1
<1>3. UNCHANGED <<clock, app, snapshot, applied, paused, help, rate, rate_counters, log,
                  suppressed, alert_count>>
  BY DEF Poll, ui_vars, log_vars
<1>4. n \in Nat /\ evts \in Seq(Samples) /\ channel \in Seq(Nat) /\ TuiTypeOK
  BY TuiAssumption DEF TuiTypeOK
<1>5. new \in Seq(Samples) /\ Len(new) = n
  BY <1>4
<1>6. /\ evts' \in Seq(Samples) /\ Len(evts') = Len(evts) + n
      /\ \A i \in 1 .. Len(evts) : evts'[i] = evts[i]
  <2>1. evts \o new \in Seq(Samples) /\ Len(evts \o new) = Len(evts) + Len(new)
    BY <1>4, <1>5, ConcatProperties
  <2>2. \A i \in 1 .. Len(evts) : (evts \o new)[i] = evts[i]
    BY <1>4, <1>5, ConcatProperties
  <2> QED
    BY <1>2, <1>5, <2>1, <2>2
<1>7. /\ Len(evts) \in Nat /\ Len(evts') \in Nat /\ Len(evts) <= Len(evts')
      /\ n = 0 => Len(evts') = Len(evts)
  BY <1>4, <1>6
<1>8. /\ channel' = channel \/ channel' = Append(channel, Len(evts'))
      /\ app # "quit" /\ channel' = channel => Len(evts') = Len(evts)
  <2>1. channel' = channel \/ channel' = Append(channel, Len(evts'))
    BY <1>1
  <2>2. CASE app # "quit" /\ n # 0
    <3>1. Due(n) /\ poll_thread'
      <4>1. Due(n)
        BY <1>4, <2>2 DEF Due
      <4>2. poll_thread'
        BY <1>1, <2>2, Zenon
      <4> QED
        BY <4>1, <4>2
    <3>2. channel' = Append(channel, Len(evts'))
      BY <1>1, <3>1
    <3>3. Len(channel') # Len(channel)
      BY <1>4, <1>7, <3>2
    <3> QED
      BY <3>2, <3>3
  <2> QED
    BY <1>7, <2>1, <2>2
<1>9. TuiTypeOK'
  <2>1. channel' \in Seq(Nat)
    <3>1. CASE channel' = channel
      BY <1>4, <3>1
    <3>2. CASE channel' = Append(channel, Len(evts'))
      BY <1>4, <1>7, <3>2
    <3> QED
      BY <1>8, <3>1, <3>2
  <2> QED
    BY <1>3, <1>4, <1>6, <2>1 DEF TuiTypeOK
<1>10. Bounds' /\ Chain'
  <2>1. /\ snapshot \in Nat /\ applied \in Nat
        /\ Len(channel) \in Nat /\ DOMAIN channel = 1 .. Len(channel)
        /\ \A j \in 1 .. Len(channel) : channel[j] \in Nat /\ channel[j] <= Len(evts)
    BY <1>4 DEF TuiTypeOK, Bounds
  <2>2. snapshot' <= Len(evts') /\ \A j \in 1 .. Len(channel) : channel[j] <= Len(evts')
    BY <1>3, <1>7, <2>1 DEF Bounds
  <2>3. CASE channel' = channel
    <3>1. Bounds'
      BY <1>3, <2>1, <2>2, <2>3 DEF Bounds
    <3>2. Chain'
      BY <1>3, <1>8, <2>3 DEF Chain
    <3> QED
      BY <3>1, <3>2
  <2>4. CASE channel' = Append(channel, Len(evts'))
    <3>1. /\ Len(channel') = Len(channel) + 1 /\ DOMAIN channel' = 1 .. Len(channel) + 1
          /\ channel' # <<>> /\ channel'[Len(channel) + 1] = Len(evts')
          /\ \A j \in 1 .. Len(channel) : channel'[j] = channel[j]
      BY <1>4, <1>7, <2>4
    <3>2. \A j \in 1 .. Len(channel) + 1 : channel'[j] <= Len(evts')
      BY <1>7, <2>1, <2>2, <3>1
    <3>3. Bounds'
      BY <1>3, <2>1, <2>2, <3>1, <3>2 DEF Bounds
    <3>4. Chain'
      <4> SUFFICES ASSUME app # "quit" PROVE Chain'
        BY <1>3 DEF Chain
      <4>1. channel'[Len(channel')] = Len(evts')
        BY <3>1
      <4>2. snapshot <= channel'[1]
        BY <1>4, <1>7, <2>1, <2>2, <3>1, <1>3 DEF Chain, Bounds
      <4>3. ASSUME NEW j \in 1 .. Len(channel') - 1 PROVE channel'[j] <= channel'[j + 1]
        <5>1. j \in 1 .. Len(channel) /\ channel'[j] = channel[j]
          BY <2>1, <3>1
        <5>2. CASE j = Len(channel)
          BY <2>1, <2>2, <3>1, <5>1, <5>2
        <5>3. CASE j # Len(channel)
          <6>1. j \in 1 .. Len(channel) - 1 /\ j + 1 \in 1 .. Len(channel)
            <7>1. Len(channel) \in Nat
              BY <2>1
            <7> QED
              BY <5>1, <5>3, <7>1
          <6> QED
            BY <3>1, <5>1, <6>1 DEF Chain
        <5> QED
          BY <5>2, <5>3
      <4> QED
        BY <1>3, <3>1, <4>1, <4>2, <4>3 DEF Chain
    <3> QED
      BY <3>3, <3>4
  <2> QED
    BY <1>8, <2>3, <2>4
<1>11. Accounted' /\ Counted' /\ SuppressedForCause'
  BY <1>3, <1>4, <1>6, NotApplied DEF TuiTypeOK
<1> QED
  BY <1>9, <1>10, <1>11

LEMMA ReceiveKeeps == TuiInv /\ Receive => TuiInv'
<1> SUFFICES ASSUME TuiInv, Receive PROVE TuiInv'
  OBVIOUS
<1> USE DEF TuiInv
<1>1. /\ app = "draining" /\ applied = snapshot
      /\ UNCHANGED <<clock, evts, applied, rate, rate_counters, log, suppressed, alert_count>>
  BY DEF Receive, poll_vars, ui_vars, log_vars
<1>2. /\ TuiTypeOK /\ clock \in Nat /\ evts \in Seq(Samples) /\ channel \in Seq(Nat)
      /\ Len(channel) \in Nat /\ DOMAIN channel = 1 .. Len(channel)
  BY DEF TuiTypeOK
<1>3. TuiTypeOK' /\ Bounds' /\ Chain'
  <2>1. CASE channel = <<>>
    <3>1. app' = "idle" /\ channel' = channel /\ snapshot' = snapshot
      BY <2>1 DEF Receive
    <3> QED
      BY <1>1, <3>1 DEF TuiTypeOK, Bounds, Chain
  <2>2. CASE channel # <<>>
    <3>1. snapshot' = Head(channel) /\ channel' = Tail(channel) /\ app' = app
      BY <2>2 DEF Receive
    <3>2. /\ snapshot' = channel[1] /\ channel[1] \in Nat /\ 1 \in DOMAIN channel
          /\ channel' \in Seq(Nat) /\ Len(channel') = Len(channel) - 1
          /\ DOMAIN channel' = 1 .. Len(channel) - 1
          /\ \A j \in 1 .. Len(channel) - 1 : channel'[j] = channel[j + 1]
      BY <1>2, <2>2, <3>1
    <3>3. TuiTypeOK'
      BY <1>1, <3>1, <3>2 DEF TuiTypeOK
    <3>4. channel[1] <= Len(evts) /\ snapshot <= channel[1]
      BY <1>1, <2>2, <3>2 DEF Bounds, Chain
    <3>5. \A j \in 1 .. Len(channel) - 1 : channel[j + 1] <= Len(evts)
      BY <1>2 DEF Bounds
    <3>6. Bounds'
      BY <1>1, <3>2, <3>4, <3>5 DEF Bounds
    <3>7. /\ channel[Len(channel)] = Len(evts)
          /\ \A j \in 1 .. Len(channel) - 1 : channel[j] <= channel[j + 1]
      BY <1>1, <2>2 DEF Chain
    <3>8. Chain'
      <4>1. CASE Len(channel) = 1
        <5>1. channel' = <<>> /\ snapshot' = Len(evts')
          BY <1>1, <3>2, <3>7, <4>1
        <5> QED
          BY <5>1, EmptySeq DEF Chain
      <4>2. CASE Len(channel) # 1
        <5>1. Len(channel) - 1 \in 1 .. Len(channel) - 1 /\ 1 \in 1 .. Len(channel) - 1
          BY <1>2, <2>2, <4>2
        <5>2. channel'[Len(channel')] = channel[Len(channel) - 1 + 1] /\ channel'[1] = channel[1 + 1]
          BY <3>2, <5>1
        <5>3. channel'[Len(channel')] = Len(evts') /\ snapshot' <= channel'[1]
          BY <1>1, <1>2, <3>2, <3>7, <5>1, <5>2
        <5>4. ASSUME NEW j \in 1 .. Len(channel') - 1 PROVE channel'[j] <= channel'[j + 1]
          <6>1. /\ j \in 1 .. Len(channel) - 1 /\ j + 1 \in 1 .. Len(channel) - 1
            BY <1>2, <3>2
          <6> QED
            BY <3>2, <3>7, <6>1
        <5>5. channel' # <<>>
          BY <1>2, <3>2, <5>1
        <5> QED
          BY <5>3, <5>4, <5>5 DEF Chain
      <4> QED
        BY <4>1, <4>2
    <3> QED
      BY <3>3, <3>6, <3>8
  <2> QED
    BY <2>1, <2>2
<1>4. Accounted' /\ Counted' /\ SuppressedForCause'
  BY <1>1, <1>2, NotApplied
<1> QED
  BY <1>3, <1>4

(* The counter after one more event: of a new window, or one higher. *)
LEMMA CounterCounts ==
  ASSUME TuiTypeOK, NEW counter \in [n : Nat, start : Nat]
  PROVE  /\ CountOne(counter) \in [n : Nat, start : Nat]
         /\ \/ CountOne(counter).n = 1 /\ CountOne(counter).start = clock
            \/ /\ CountOne(counter).n = counter.n + 1
               /\ CountOne(counter).start = counter.start
               /\ counter.n > 0 /\ clock - counter.start < Window
<1>1. clock \in Nat /\ counter.n \in Nat /\ counter.start \in Nat /\ Window \in Nat
  BY TuiAssumption DEF TuiTypeOK
<1>2. CASE NewWindow(counter)
  <2>1. CountOne(counter) = [n |-> 1, start |-> clock]
    BY <1>2 DEF CountOne
  <2> QED
    BY <1>1, <2>1
<1>3. CASE ~ NewWindow(counter)
  <2> DEFINE m == counter.n + 1
  <2>1. CountOne(counter) = [counter EXCEPT !.n = m] /\ m \in Nat
    BY <1>1, <1>3 DEF CountOne
  <2>2. counter.n > 0 /\ clock - counter.start < Window
    BY <1>1, <1>3 DEF NewWindow
  <2>3. m = counter.n + 1
    OBVIOUS
  <2> HIDE DEF m
  <2> QED
    BY <1>1, <2>1, <2>2, <2>3
<1> QED
  BY <1>2, <1>3

LEMMA ApplyKeeps == TuiInv /\ Apply => TuiInv'
<1> SUFFICES ASSUME TuiInv, Apply PROVE TuiInv'
  OBVIOUS
<1> DEFINE
      i       == applied + 1
      e       == evts[i]
      counter == IF e.is_alert THEN rate_counters[e.comm] ELSE CountOne(rate_counters[e.comm])
      over    == OverLimit(e, counter)
      line    == [ev |-> i, at |-> clock]
      logged  == ~ over /\ e.comm \notin Noisy
<1>1. /\ app = "draining" /\ applied < snapshot
      /\ applied' = i
      /\ rate_counters' = [rate_counters EXCEPT ![e.comm] = counter]
      /\ suppressed' = IF over THEN suppressed \cup {line} ELSE suppressed
      /\ log' = IF logged THEN Append(log, line) ELSE log
      /\ alert_count' = alert_count + (IF e.is_alert /\ ~ over THEN 1 ELSE 0)
      /\ UNCHANGED <<clock, evts, channel, app, snapshot, rate>>
  BY DEF Apply, poll_vars, ui_vars
<1>2. /\ TuiTypeOK /\ Bounds /\ Chain /\ Accounted /\ Counted /\ SuppressedForCause
      /\ clock \in Nat /\ applied \in Nat /\ snapshot \in Nat /\ evts \in Seq(Samples)
      /\ Len(evts) \in Nat /\ log \in Seq(Line) /\ suppressed \subseteq Line
      /\ alert_count \in Nat /\ rate_counters \in [Comms -> [n : Nat, start : Nat]]
      /\ rate \in DOMAIN Limits
  BY DEF TuiInv, TuiTypeOK
<1>3. /\ i \in 1 .. Len(evts) /\ i \in Nat /\ i > applied
      /\ \A k \in 1 .. i : k \in 1 .. applied \/ k = i
      /\ i <= snapshot
  BY <1>1, <1>2 DEF Bounds
<1>4. e \in Samples /\ e.comm \in Comms /\ e.is_alert \in BOOLEAN
  <2>1. e \in Samples
    BY <1>2, <1>3, ElementOfSeq
  <2> HIDE DEF e
  <2> QED
    BY <2>1, TuiAssumption
<1>5. /\ rate_counters[e.comm] \in [n : Nat, start : Nat]
      /\ counter \in [n : Nat, start : Nat]
      /\ e.is_alert => counter = rate_counters[e.comm]
      /\ ~ e.is_alert =>
           \/ counter.n = 1 /\ counter.start = clock
           \/ /\ counter.n = rate_counters[e.comm].n + 1
              /\ counter.start = rate_counters[e.comm].start
              /\ rate_counters[e.comm].n > 0
              /\ clock - rate_counters[e.comm].start < Window
  <2> HIDE DEF e
  <2>1. rate_counters[e.comm] \in [n : Nat, start : Nat]
    BY <1>2, <1>4
  <2> QED
    BY <1>2, <1>4, <2>1, CounterCounts
<1>6. over => ~ e.is_alert /\ counter.n > Limits[rate]
  BY DEF OverLimit
<1>7. line \in Line /\ line.ev = i /\ line.at = clock
  BY <1>2, <1>3 DEF Line
<1>8. over \in BOOLEAN
  BY DEF OverLimit
<1>9. i = applied + 1 /\ e = evts[i] /\ (logged <=> ~ over /\ e.comm \notin Noisy)
  OBVIOUS
<1> HIDE DEF i, e, counter, over, line, logged
<1>10. TuiTypeOK'
  <2>1. rate_counters' \in [Comms -> [n : Nat, start : Nat]]
    BY <1>1, <1>2, <1>4, <1>5
  <2>2. log' \in Seq(Line)
    BY <1>1, <1>2, <1>7, AppendProperties
  <2>3. suppressed' \subseteq Line /\ alert_count' \in Nat
    BY <1>1, <1>2, <1>7
  <2> QED
    BY <1>1, <1>2, <1>3, <2>1, <2>2, <2>3 DEF TuiTypeOK
<1>11. /\ DOMAIN log = 1 .. Len(log) /\ Len(log) \in Nat
       /\ ~ logged => log' = log
       /\ logged => /\ Len(log') = Len(log) + 1 /\ DOMAIN log' = 1 .. Len(log) + 1
                    /\ log'[Len(log) + 1] = line
                    /\ \A j \in 1 .. Len(log) : log'[j] = log[j]
  BY <1>1, <1>2, <1>7, AppendProperties
<1>12. Range(log') = IF logged THEN Range(log) \cup {line} ELSE Range(log)
  <2>1. CASE logged
    <3>1. Range(Append(log, line)) = Range(log) \cup {line}
      BY <1>2, <1>7, RangeAppend
    <3> QED
      BY <1>1, <2>1, <3>1
  <2> QED
    BY <1>1, <2>1
<1>13. \A l \in Range(log) : /\ l \in Line /\ l.ev \in 1 .. applied /\ l.at <= clock
                             /\ l.ev # i /\ l.ev < i
  <2> SUFFICES ASSUME NEW l \in Range(log)
               PROVE  /\ l \in Line /\ l.ev \in 1 .. applied /\ l.at <= clock
                      /\ l.ev # i /\ l.ev < i
    OBVIOUS
  <2>1. l \in Line /\ \E j \in DOMAIN log : l = log[j]
    BY <1>2, LogLines
  <2>2. l.ev \in Nat /\ 1 <= l.ev /\ l.ev <= applied /\ l.at <= clock
    BY <1>2, <2>1 DEF Bounds, Line
  <2> QED
    BY <1>2, <1>3, <2>1, <2>2
<1>14. Bounds' /\ Chain'
  <2>1. \A j \in DOMAIN log' : /\ 1 <= log'[j].ev /\ log'[j].ev <= applied'
                               /\ log'[j].at <= clock'
    <3> SUFFICES ASSUME NEW j \in DOMAIN log'
                 PROVE  1 <= log'[j].ev /\ log'[j].ev <= applied' /\ log'[j].at <= clock'
      OBVIOUS
    <3>1. (j \in 1 .. Len(log) /\ log'[j] = log[j]) \/ log'[j] = line
      BY <1>11
    <3>2. CASE log'[j] = line
      BY <1>1, <1>2, <1>3, <1>7, <3>2
    <3>3. CASE j \in 1 .. Len(log) /\ log'[j] = log[j]
      <4>1. log[j] \in Line
        BY <1>2, <3>3, ElementOfSeq
      <4>2. 1 <= log[j].ev /\ log[j].ev <= applied /\ log[j].at <= clock /\ log[j].ev \in Nat
        BY <1>2, <1>11, <3>3, <4>1 DEF Bounds, Line
      <4> QED
        BY <1>1, <1>2, <1>3, <3>3, <4>2
    <3> QED
      BY <3>1, <3>2, <3>3
  <2>2. \A s \in suppressed' : 1 <= s.ev /\ s.ev <= applied' /\ s.at <= clock'
    <3> SUFFICES ASSUME NEW s \in suppressed'
                 PROVE  1 <= s.ev /\ s.ev <= applied' /\ s.at <= clock'
      OBVIOUS
    <3>1. CASE s = line
      BY <1>1, <1>2, <1>3, <1>7, <3>1
    <3>2. CASE s \in suppressed
      <4>1. s.ev \in Nat /\ 1 <= s.ev /\ s.ev <= applied /\ s.at <= clock
        BY <1>2, <3>2 DEF Bounds, Line
      <4> QED
        BY <1>1, <1>2, <1>3, <4>1
    <3> QED
      BY <1>1, <3>1, <3>2
  <2>3. Bounds'
    BY <1>1, <1>2, <1>3, <2>1, <2>2 DEF Bounds
  <2> QED
    BY <1>1, <1>2, <2>3 DEF Chain
<1>15. Accounted'
  <2>1. \A j \in 1 .. Len(log') - 1 : log'[j].ev < log'[j + 1].ev
    <3> SUFFICES ASSUME NEW j \in 1 .. Len(log') - 1 PROVE log'[j].ev < log'[j + 1].ev
      OBVIOUS
    <3>1. CASE ~ logged
      BY <1>2, <1>11, <3>1 DEF Accounted
    <3>2. CASE logged
      <4>1. j \in 1 .. Len(log) /\ log'[j] = log[j]
        BY <1>11, <3>2
      <4>2. log[j] \in Range(log)
        BY <1>2, <4>1, RangeEquality
      <4>3. CASE j = Len(log)
        BY <1>7, <1>11, <1>13, <3>2, <4>1, <4>2, <4>3
      <4>4. CASE j # Len(log)
        <5>1. j \in 1 .. Len(log) - 1 /\ j + 1 \in 1 .. Len(log)
          <6>1. Len(log) \in Nat
            BY <1>11
          <6> QED
            BY <4>1, <4>4, <6>1
        <5> QED
          BY <1>2, <1>11, <3>2, <4>1, <5>1 DEF Accounted
      <4> QED
        BY <4>3, <4>4
    <3> QED
      BY <3>1, <3>2
  <2>2. \A k \in 1 .. applied' : \/ \E l \in Range(log') : l.ev = k
                                 \/ \E s \in suppressed' : s.ev = k /\ ~ evts[k].is_alert
                                 \/ evts[k].comm \in Noisy
    <3> SUFFICES ASSUME NEW k \in 1 .. applied'
                 PROVE  \/ \E l \in Range(log') : l.ev = k
                        \/ \E s \in suppressed' : s.ev = k /\ ~ evts[k].is_alert
                        \/ evts[k].comm \in Noisy
      OBVIOUS
    <3>1. CASE k \in 1 .. applied
      <4>1. Range(log) \subseteq Range(log') /\ suppressed \subseteq suppressed'
        BY <1>1, <1>12
      <4> QED
        BY <1>2, <3>1, <4>1 DEF Accounted
    <3>2. CASE k = i
      BY <1>1, <1>4, <1>6, <1>7, <1>9, <1>12, <3>2
    <3> QED
      BY <1>1, <1>3, <3>1, <3>2
  <2>3. alert_count' = Cardinality({k \in 1 .. applied' : evts[k].is_alert})
    <3> DEFINE A == {k \in 1 .. applied : evts[k].is_alert}
               B == {k \in 1 .. applied' : evts[k].is_alert}
    <3>1. IsFiniteSet(A) /\ i \notin A
      <4>1. applied \in Int /\ applied < i
        BY <1>2, <1>3
      <4>2. IsFiniteSet(1 .. applied)
        BY <4>1, FS_Interval
      <4>3. A \in SUBSET (1 .. applied)
        OBVIOUS
      <4>4. i \notin 1 .. applied
        BY <1>3, <4>1
      <4> QED
        BY <4>2, <4>3, <4>4, FS_Subset
    <3>2. alert_count = Cardinality(A)
      BY <1>2 DEF Accounted
    <3>3. alert_count' = alert_count + (IF e.is_alert THEN 1 ELSE 0)
      BY <1>1, <1>6
    <3>4. CASE e.is_alert
      <4>1. B = A \cup {i}
        BY <1>1, <1>2, <1>3, <1>9, <3>4
      <4> QED
        BY <3>1, <3>2, <3>3, <3>4, <4>1, FS_AddElement
    <3>5. CASE ~ e.is_alert
      <4>1. B = A
        BY <1>1, <1>2, <1>3, <1>9, <3>5
      <4> QED
        <5>1. alert_count' = alert_count
          BY <1>2, <3>3, <3>5
        <5> QED
          BY <3>2, <4>1, <5>1
    <3> QED
      BY <3>4, <3>5
  <2> QED
    BY <1>1, <2>1, <2>2, <2>3 DEF Accounted
<1>16. \A c : Lines(c)' = IF logged /\ c = e.comm /\ ~ e.is_alert
                          THEN Lines(c) \cup {line} ELSE Lines(c)
  <2>1. evts[line.ev] = e
    BY <1>7, <1>9
  <2>2. \A c : Lines(c)' = {l \in Range(log') : evts[l.ev].comm = c /\ ~ evts[l.ev].is_alert}
    BY <1>1 DEF Lines
  <2> QED
    BY <1>12, <2>1, <2>2 DEF Lines
<1>17. \A c : IsFiniteSet(Lines(c)) /\ Lines(c) \subseteq Range(log) /\ line \notin Lines(c)
  <2>1. \A c : Lines(c) \subseteq Range(log)
    BY DEF Lines
  <2> QED
    BY <1>2, <1>7, <1>13, <2>1, LogLines, FS_Subset
<1>18. \A c \in Comms : c # e.comm => rate_counters'[c] = rate_counters[c]
  BY <1>1, <1>2
<1>19. rate_counters'[e.comm] = counter
  BY <1>1, <1>2, <1>4
<1>20. Counted'
  <2> SUFFICES ASSUME NEW c \in Comms \ Noisy, rate_counters'[c].n > 0
               PROVE  \/ Cardinality(SinceStart(c)') >= rate_counters'[c].n
                      \/ \E j \in DOMAIN Limits : Cardinality(SinceStart(c)') >= Limits[j]
    BY DEF Counted
  <2>1. SinceStart(c)' = {l \in Lines(c)' : rate_counters'[c].start <= l.at}
    BY DEF SinceStart
  <2>2. CASE c # e.comm \/ e.is_alert
    <3>1. rate_counters'[c] = rate_counters[c] /\ Lines(c)' = Lines(c)
      BY <1>5, <1>16, <1>18, <1>19, <2>2
    <3> QED
      BY <1>2, <2>1, <3>1 DEF Counted, SinceStart
  <2>3. CASE c = e.comm /\ ~ e.is_alert
    <3>1. /\ rate_counters'[c] = counter
          /\ counter.n \in Nat /\ counter.start \in Nat
          /\ rate_counters[c].n \in Nat /\ rate_counters[c].start \in Nat
      BY <1>5, <1>19, <2>3
    <3>2. logged <=> ~ over
      BY <1>9, <2>3
    <3>3. /\ IsFiniteSet(SinceStart(c)) /\ Cardinality(SinceStart(c)) \in Nat
          /\ line \notin SinceStart(c)
      BY <1>17, FS_Subset, FS_CardinalityType DEF SinceStart
    <3>4. /\ IsFiniteSet(SinceStart(c)') /\ Cardinality(SinceStart(c)') \in Nat
      <4>1. IsFiniteSet(Lines(c)')
        BY <1>16, <1>17, FS_AddElement
      <4> QED
        BY <2>1, <4>1, FS_Subset, FS_CardinalityType
    <3>5. CASE counter.n = 1 /\ counter.start = clock
      <4>1. Limits[rate] \in Nat /\ Limits[rate] >= 1
        BY <1>2, TuiAssumption, ElementOfSeq
      <4>2. ~ over
        BY <1>6, <3>5, <4>1
      <4>3. line \in SinceStart(c)'
        BY <1>2, <1>7, <1>16, <2>1, <2>3, <3>1, <3>2, <3>5, <4>2
      <4>4. Cardinality(SinceStart(c)') # 0
        BY <3>4, <4>3, FS_EmptySet
      <4> QED
        BY <3>1, <3>4, <3>5, <4>4
    <3>6. CASE /\ counter.n = rate_counters[c].n + 1
               /\ counter.start = rate_counters[c].start /\ rate_counters[c].n > 0
               /\ clock - rate_counters[c].start < Window
      <4>1. \/ Cardinality(SinceStart(c)) >= rate_counters[c].n
            \/ \E j \in DOMAIN Limits : Cardinality(SinceStart(c)) >= Limits[j]
        BY <1>2, <3>6 DEF Counted
      <4>2. CASE over
        <5>1. SinceStart(c)' = SinceStart(c)
          BY <1>16, <2>1, <3>1, <3>2, <3>6, <4>2 DEF SinceStart
        <5>2. rate_counters[c].n + 1 > Limits[rate] /\ Limits[rate] \in Nat
          BY <1>2, <1>6, <3>6, <4>2, TuiAssumption, ElementOfSeq
        <5> QED
          BY <1>2, <3>1, <3>3, <4>1, <5>1, <5>2
      <4>3. CASE ~ over
        <5>1. line.at >= counter.start
          <6>1. \A l \in SinceStart(c) : rate_counters[c].start <= l.at /\ l.at <= clock /\ l.at \in Nat
            BY <1>13, <1>17 DEF SinceStart, Line
          <6>2. SinceStart(c) # {}
            <7>1. \A j \in DOMAIN Limits : Limits[j] \in Nat /\ Limits[j] >= 1
              BY TuiAssumption, ElementOfSeq
            <7>2. Cardinality(SinceStart(c)) # 0
              BY <3>1, <3>3, <3>6, <4>1, <7>1
            <7> QED
              BY <7>2, FS_EmptySet
          <6> QED
            BY <1>2, <1>7, <3>1, <3>6, <6>1, <6>2
        <5>2. SinceStart(c)' = SinceStart(c) \cup {line}
          BY <1>16, <2>1, <2>3, <3>1, <3>2, <3>6, <4>3, <5>1 DEF SinceStart
        <5>3. Cardinality(SinceStart(c)') = Cardinality(SinceStart(c)) + 1
          BY <3>3, <5>2, FS_AddElement
        <5>4. \A j \in DOMAIN Limits : Limits[j] \in Nat
          BY TuiAssumption, ElementOfSeq
        <5> QED
          BY <3>1, <3>3, <3>6, <4>1, <5>3, <5>4
      <4> QED
        BY <4>2, <4>3
    <3> QED
      BY <1>5, <2>3, <3>5, <3>6
  <2> QED
    BY <2>2, <2>3
<1>21. \A j \in DOMAIN Limits : Limits[j] \in Nat /\ Limits[j] >= 1
  BY TuiAssumption, ElementOfSeq
<1>22. SuppressedForCause'
  <2> DEFINE near(s, lines) == {l \in lines : s.at - Window < l.at /\ l.at <= s.at /\ l.ev < s.ev}
  <2> SUFFICES ASSUME NEW s \in suppressed', NEW c, c = evts[s.ev].comm, c \notin Noisy
               PROVE  \E j \in DOMAIN Limits : Cardinality(near(s, Lines(c)')) >= Limits[j]
    BY <1>1 DEF SuppressedForCause
  <2>a. \/ Lines(c)' = Lines(c)
        \/ logged /\ c = e.comm /\ Lines(c)' = Lines(c) \cup {line}
    <3>1. Lines(c)' = IF logged /\ c = e.comm /\ ~ e.is_alert
                      THEN Lines(c) \cup {line} ELSE Lines(c)
      BY <1>16
    <3>2. CASE logged /\ c = e.comm /\ ~ e.is_alert
      BY <3>1, <3>2
    <3>3. CASE ~ (logged /\ c = e.comm /\ ~ e.is_alert)
      BY <3>1, <3>3
    <3> QED
      BY <3>2, <3>3
  <2>1. CASE s \in suppressed
    <3>1. s.ev \in Nat /\ s.ev <= applied
      BY <1>2, <2>1 DEF Bounds, Line
    <3>2. ~ line.ev < s.ev
      BY <1>2, <1>3, <1>7, <3>1
    <3>3. near(s, Lines(c)') = near(s, Lines(c))
      BY <2>a, <3>2
    <3>4. \E j \in DOMAIN Limits : Cardinality(near(s, Lines(c))) >= Limits[j]
      BY <1>2, <2>1 DEF SuppressedForCause
    <3> QED
      BY <3>3, <3>4
  <2>2. CASE over /\ s = line
    <3>1. c = e.comm /\ c \in Comms \ Noisy /\ s.at = clock /\ s.ev = i
      BY <1>4, <1>7, <1>9, <2>2
    <3>2. /\ ~ e.is_alert /\ counter.n > Limits[rate] /\ Limits[rate] >= 1
          /\ counter.n \in Nat /\ Limits[rate] \in Nat
          /\ rate_counters[c].n \in Nat /\ rate_counters[c].start \in Nat
      BY <1>2, <1>5, <1>6, <1>21, <2>2, <3>1
    <3>3. /\ counter.n = rate_counters[c].n + 1 /\ rate_counters[c].n > 0
          /\ clock - rate_counters[c].start < Window
      BY <1>5, <3>1, <3>2
    <3>4. Lines(c)' = Lines(c)
      BY <1>9, <2>2, <2>a
    <3>5. near(s, Lines(c)') = {l \in Lines(c) : clock - Window < l.at /\ l.at <= clock /\ l.ev < i}
      BY <3>1, <3>4
    <3>6. \A l \in Lines(c) : l.at \in Nat /\ l.at <= clock /\ l.ev < i
      BY <1>13, <1>17 DEF Line
    <3>7. SinceStart(c) \subseteq near(s, Lines(c)')
      <4> SUFFICES ASSUME NEW l \in SinceStart(c) PROVE clock - Window < l.at
        BY <3>5, <3>6 DEF SinceStart
      <4>1. l.at \in Nat /\ rate_counters[c].start <= l.at
        BY <3>6 DEF SinceStart
      <4>2. Window \in Nat
        BY TuiAssumption
      <4> QED
        <5>1. rate_counters[c].start \in Nat /\ clock - rate_counters[c].start < Window /\ clock \in Nat
          BY <1>2, <3>2, <3>3
        <5> QED
          BY <4>1, <4>2, <5>1
    <3>8. /\ IsFiniteSet(near(s, Lines(c)')) /\ Cardinality(near(s, Lines(c)')) \in Nat
          /\ Cardinality(SinceStart(c)) \in Nat
          /\ Cardinality(SinceStart(c)) <= Cardinality(near(s, Lines(c)'))
      <4>1. IsFiniteSet(near(s, Lines(c)'))
        BY <1>17, <3>5, FS_Subset
      <4> QED
        BY <3>7, <4>1, FS_Subset, FS_CardinalityType
    <3>9. \/ Cardinality(SinceStart(c)) >= rate_counters[c].n
          \/ \E j \in DOMAIN Limits : Cardinality(SinceStart(c)) >= Limits[j]
      BY <1>2, <3>1, <3>3 DEF Counted
    <3>10. CASE Cardinality(SinceStart(c)) >= rate_counters[c].n
      <4>1. Cardinality(near(s, Lines(c)')) >= Limits[rate]
        <5> HIDE DEF near
        <5> QED
          BY <3>2, <3>3, <3>8, <3>10
      <4> QED
        BY <1>2, <4>1
    <3>11. CASE \E j \in DOMAIN Limits : Cardinality(SinceStart(c)) >= Limits[j]
      <4> HIDE DEF near
      <4> QED
        BY <1>21, <3>8, <3>11
    <3> QED
      BY <3>9, <3>10, <3>11
  <2> QED
    BY <1>1, <2>1, <2>2
<1> QED
  BY <1>10, <1>14, <1>15, <1>20, <1>22 DEF TuiInv

(* Keys and the clock: where the dashboard is in its log does not change. *)
LEMMA OthersKeep == TuiInv /\ (Tick \/ Key \/ Advance \/ UNCHANGED tui_vars) => TuiInv'
<1> SUFFICES ASSUME TuiInv, Tick \/ Key \/ Advance \/ UNCHANGED tui_vars PROVE TuiInv'
  OBVIOUS
<1> USE DEF poll_vars, ui_vars, log_vars
<1>1. TuiTypeOK /\ Bounds /\ Chain /\ clock \in Nat /\ rate \in DOMAIN Limits
  BY DEF TuiInv, TuiTypeOK
<1>2. /\ UNCHANGED <<evts, channel, snapshot, applied, rate_counters, log, suppressed, alert_count>>
      /\ app' \in {"idle", "draining", "quit"} /\ (app = "quit" => app' = "quit")
  BY <1>1 DEF Tick, Key, CloseHelp, Press, Quit, ShowHelp, Pause, NextLimit, Advance, tui_vars,
     TuiTypeOK
<1>3. clock' = clock \/ clock' = clock + 1
  BY DEF Tick, Key, CloseHelp, Quit, ShowHelp, Pause, NextLimit, Advance, tui_vars
<1>4. rate' \in DOMAIN Limits
  <2>1. rate' = rate \/ rate' = (rate % Len(Limits)) + 1
    BY DEF Tick, Key, CloseHelp, Quit, ShowHelp, Pause, NextLimit, Advance, tui_vars
  <2>2. /\ Len(Limits) \in Nat /\ Len(Limits) > 0 /\ DOMAIN Limits = 1 .. Len(Limits)
        /\ rate \in 1 .. Len(Limits)
    BY <1>1, TuiAssumption
  <2>3. (rate % Len(Limits)) + 1 \in 1 .. Len(Limits)
    BY <2>2
  <2> QED
    BY <1>1, <2>1, <2>2, <2>3
<1>5. TuiTypeOK'
  BY <1>1, <1>2, <1>3, <1>4 DEF TuiTypeOK
<1>6. Bounds'
  <2>1. \A j \in DOMAIN log : log[j].at <= clock'
    <3> SUFFICES ASSUME NEW j \in DOMAIN log PROVE log[j].at <= clock'
      OBVIOUS
    <3>1. log[j] \in Line
      BY <1>1, ElementOfSeq DEF TuiTypeOK
    <3>2. log[j].at \in Nat /\ log[j].at <= clock
      BY <1>1, <3>1 DEF Bounds, Line
    <3> QED
      BY <1>1, <1>3, <3>2
  <2>2. \A s \in suppressed : s.at <= clock'
    <3> SUFFICES ASSUME NEW s \in suppressed PROVE s.at <= clock'
      OBVIOUS
    <3>1. s.at \in Nat /\ s.at <= clock
      BY <1>1 DEF Bounds, Line, TuiTypeOK
    <3> QED
      BY <1>1, <1>3, <3>1
  <2> QED
    BY <1>1, <1>2, <2>1, <2>2 DEF Bounds
<1>7. Chain'
  BY <1>1, <1>2 DEF Chain
<1>8. Accounted' /\ Counted' /\ SuppressedForCause'
  BY <1>1, <1>2, <1>3, NotApplied
<1> QED
  BY <1>5, <1>6, <1>7, <1>8 DEF TuiInv

LEMMA TuiInvKept == TuiInv /\ [TuiNext]_tui_vars => TuiInv'
BY PollKeeps, ReceiveKeeps, ApplyKeeps, OthersKeep DEF TuiNext

LEMMA TuiInvNothingLost == TuiInv => NothingLost
<1> SUFFICES ASSUME TuiInv PROVE NothingLost
  OBVIOUS
<1>1. /\ channel \in Seq(Nat) /\ snapshot \in Nat /\ Len(channel) \in Nat
      /\ Chain /\ Accounted
  BY DEF TuiInv, TuiTypeOK
<1>2. ASSUME app # "quit"
      PROVE  LET ends == <<snapshot>> \o channel
             IN  Last(ends) = Len(evts) /\ \A j \in 1 .. Len(ends) - 1 : ends[j] <= ends[j + 1]
  <2> DEFINE ends == <<snapshot>> \o channel
  <2>1. /\ Len(ends) = Len(channel) + 1 /\ ends[1] = snapshot
        /\ \A j \in 1 .. Len(channel) : ends[j + 1] = channel[j]
    BY <1>1
  <2> HIDE DEF ends
  <2>2. Last(ends) = Len(evts)
    <3>1. CASE channel = <<>>
      BY <1>1, <1>2, <2>1, <3>1 DEF Last, Chain
    <3>2. CASE channel # <<>>
      <4>1. Len(channel) \in 1 .. Len(channel)
        BY <1>1, <3>2
      <4>2. ends[Len(channel) + 1] = channel[Len(channel)]
        BY <2>1, <4>1
      <4> QED
        BY <1>1, <1>2, <2>1, <3>2, <4>2 DEF Last, Chain
    <3> QED
      BY <3>1, <3>2
  <2>3. ASSUME NEW j \in 1 .. Len(ends) - 1 PROVE ends[j] <= ends[j + 1]
    <3>1. j \in 1 .. Len(channel) /\ ends[j + 1] = channel[j] /\ channel # <<>>
      BY <1>1, <2>1
    <3>2. CASE j = 1
      BY <1>1, <1>2, <2>1, <3>1, <3>2 DEF Chain
    <3>3. CASE j # 1
      <4>1. j - 1 \in 1 .. Len(channel) - 1 /\ j - 1 \in 1 .. Len(channel) /\ (j - 1) + 1 = j
        BY <1>1, <3>1, <3>3
      <4>2. ends[j] = channel[j - 1]
        BY <2>1, <4>1
      <4>3. channel[j - 1] <= channel[j]
        BY <1>1, <1>2, <4>1 DEF Chain
      <4> QED
        BY <3>1, <4>2, <4>3
    <3> QED
      BY <3>2, <3>3
  <2> QED
    BY <2>2, <2>3 DEF ends
<1> QED
  BY <1>1, <1>2 DEF NothingLost, Accounted

(* For any events and pauses: the snapshots that wait go on where the one  *)
(* applied ends and reach to the last event, and every event applied is a  *)
(* line of the log, in order, suppressed or of a noisy program.            *)
THEOREM NothingIsLost == TuiSpec => []NothingLost
<1>1. TuiInit => TuiInv
  BY TuiInitInv
<1>2. TuiInv /\ [TuiNext]_tui_vars => TuiInv'
  BY TuiInvKept
<1>3. TuiInv => NothingLost
  BY TuiInvNothingLost
<1> QED
  BY <1>1, <1>2, <1>3, PTL DEF TuiSpec

(* For any limits and length of window: an event is suppressed only when   *)
(* the window before it had a limit's worth of lines of its program.       *)
THEOREM SuppressionHasCause == TuiSpec => []SuppressedForCause
<1>1. TuiInit => TuiInv
  BY TuiInitInv
<1>2. TuiInv /\ [TuiNext]_tui_vars => TuiInv'
  BY TuiInvKept
<1>3. TuiInv => SuppressedForCause
  BY DEF TuiInv
<1> QED
  BY <1>1, <1>2, <1>3, PTL DEF TuiSpec

-----------------------------------------------------------------------------

Turning == {"start", "started", "subscribe", "render", "present", "top", "poll",
            "polled", "drain", "drained", "work", "worked", "tick", "ticked",
            "quit", "last render", "last present", "complete"}
Leaving == {"shutdown", "result", "drop", "cleanup", "lock", "close", "join", "exit"}

ProgramTypeOK ==
  /\ main \in Turning \cup Leaving
  /\ {seen, pending} \subseteq Signals \cup {NoSignal}
  /\ failed \in BOOLEAN
  /\ sig \in {"forever", "cleanup", "emit", "latch", "grace", "ended"}
  /\ flagged \subseteq Signals
  /\ output \in {"free", "main", "signal"}
  /\ recorded \in Seq([signal : Signals, late : BOOLEAN])

(* Who holds TERMINAL_OUTPUT_LOCK can be told from where the threads are.  *)
Lock ==
  /\ output = "main" <=> main \in {"present", "last present", "close", "join"}
  /\ output = "signal" <=> sig = "emit"

(* Before the last look at most one signal is recorded, and it is pending  *)
(* until the main thread is through with it.                               *)
BeforeLastLook ==
  ~ LastLookDone =>
    /\ seen \in {NoSignal, pending}
    /\ recorded = <<>> => pending = NoSignal
    /\ recorded # <<>> => /\ Len(recorded) = 1
                          /\ ~ recorded[1].late
                          /\ pending = recorded[1].signal

(* After it the signal seen is the one recorded in time, and all others    *)
(* are late.                                                               *)
AfterLastLook ==
  LastLookDone =>
    /\ \A i \in DOMAIN recorded : i > 1 => recorded[i].late
    /\ seen = IF recorded # <<>> /\ ~ recorded[1].late THEN recorded[1].signal ELSE NoSignal
    /\ pending # NoSignal => recorded # <<>>
    /\ pending # NoSignal /\ main \notin {"shutdown", "result"} => Last(recorded).late

(* The terminal is restored when the signal thread waits and main is kept. *)
Restored ==
  /\ sig \in {"latch", "grace"} /\ pending # NoSignal /\ main = "drain" => screen = "restored"
  /\ sig \in {"latch", "grace"} /\ LastLookDone /\ recorded # <<>> /\ Last(recorded).late
       => screen = "restored"
  /\ main = "exit" => screen = "restored" /\ sig = "ended"

Ended ==
  /\ exit.how \in {"none", "forced", "signal", "error", "ok"}
  /\ exit.how = "forced" => /\ main = "drain" \/ (LastLookDone /\ recorded # <<>> /\ Last(recorded).late)
                            /\ screen = "restored"
  /\ exit.how \in {"signal", "error", "ok"} =>
       main = "exit" /\ exit = [how |-> Ending, signal |-> seen]

ProgramInv == ProgramTypeOK /\ Lock /\ BeforeLastLook /\ AfterLastLook /\ Restored /\ Ended

-----------------------------------------------------------------------------

LEMMA ProgramInitInv == ProgramInit => ProgramInv
<1> SUFFICES ASSUME ProgramInit PROVE ProgramInv
  OBVIOUS
<1> USE DEF ProgramInit, LastLookDone
<1>1. ProgramTypeOK
  <2>1. recorded \in Seq([signal : Signals, late : BOOLEAN])
    BY EmptySeq
  <2> QED
    BY <2>1 DEF ProgramTypeOK, Turning, Leaving
<1>2. Lock /\ BeforeLastLook /\ AfterLastLook
  BY DEF Lock, BeforeLastLook, AfterLastLook
<1>3. Restored /\ Ended
  BY DEF Restored, Ended
<1> QED
  BY <1>1, <1>2, <1>3 DEF ProgramInv

(* Where looking and working lead: to no place where the lock is held, and *)
(* with a signal pending never to the input that may not stop.             *)
LEMMA LookLeads ==
  Look => /\ main \in Turning /\ main' \in Turning
          /\ {main, main'} \cap {"present", "last present"} = {}
          /\ main' = "drain" => pending = NoSignal
<1> SUFFICES ASSUME Look
             PROVE  /\ main \in Turning /\ main' \in Turning
                    /\ {main, main'} \cap {"present", "last present"} = {}
                    /\ main' = "drain" => pending = NoSignal
  OBVIOUS
<1>1. main \in {"started", "top", "polled", "drained", "worked", "ticked", "quit"}
  BY DEF Look, After
<1>2. /\ After["started"] = {"subscribe"} /\ After["top"] = {"poll"}
      /\ After["polled"] = {"drain", "drained"} /\ After["drained"] = {"work"}
      /\ After["worked"] = {"tick"} /\ After["ticked"] = {"render"}
      /\ After["quit"] = {"last render"}
  BY DEF After
<1>3. \/ pending # NoSignal /\ main' = "complete"
      \/ pending = NoSignal /\ main' \in After[main]
  BY DEF Look
<1> QED
  BY <1>1, <1>2, <1>3, ZenonT(40) DEF Turning

LEMMA WorkLeads ==
  Work => /\ main \in Turning /\ main' \in Turning
          /\ {main, main'} \cap {"present", "last present"} = {}
          /\ main' = "drain" => main = "drain"
<1> SUFFICES ASSUME Work
             PROVE  /\ main \in Turning /\ main' \in Turning
                    /\ {main, main'} \cap {"present", "last present"} = {}
                    /\ main' = "drain" => main = "drain"
  OBVIOUS
<1>1. main \in {"start", "subscribe", "poll", "drain", "work", "tick"}
  BY DEF Work, Following
<1>2. /\ Following["start"] = {"started", "complete"} /\ Following["poll"] = {"polled"}
      /\ Following["subscribe"] = {"render", "complete"}
      /\ Following["drain"] = {"drain", "drained", "complete"}
      /\ Following["work"] = {"worked", "complete"} /\ Following["tick"] = {"ticked", "quit"}
  BY DEF Following
<1>3. main' = "complete" \/ main' \in Following[main]
  BY DEF Work
<1> QED
  BY <1>1, <1>2, <1>3 DEF Turning

LEMMA FirstRecorded ==
  ASSUME ProgramTypeOK, recorded # <<>>
  PROVE  /\ 1 \in DOMAIN recorded
         /\ recorded[1].signal \in Signals /\ recorded[1].signal # NoSignal
<1>1. recorded \in Seq([signal : Signals, late : BOOLEAN])
  BY DEF ProgramTypeOK
<1>2. 1 \in DOMAIN recorded
  BY <1>1
<1>3. recorded[1] \in [signal : Signals, late : BOOLEAN]
  <2> DEFINE R == [signal : Signals, late : BOOLEAN]
  <2>1. recorded \in Seq(R) /\ 1 \in 1 .. Len(recorded)
    BY <1>1, <1>2
  <2> HIDE DEF R
  <2>2. recorded[1] \in R
    BY <2>1, ElementOfSeq
  <2> QED
    BY <2>2 DEF R
<1> QED
  BY <1>2, <1>3, SignalAssumption

LEMMA MainInvKept == ProgramInv /\ MainStep => ProgramInv'
<1> SUFFICES ASSUME ProgramInv, MainStep PROVE ProgramInv'
  OBVIOUS
<1> USE DEF ProgramInv, MainStep, Alive
<1>1. CASE Look
  <2>1. /\ main \in Turning /\ main' \in Turning
        /\ {main, main'} \cap {"present", "last present"} = {}
        /\ main' = "drain" => pending = NoSignal
    BY <1>1, LookLeads
  <2>a. seen' \in {seen, pending}
    BY <1>1 DEF Look
  <2>b. UNCHANGED <<failed, sig, handled, flagged, closed, pending, teardown, output, screen,
                    exit, sent, recorded>>
    BY <1>1 DEF Look, thread_vars, hook_vars
  <2> USE <2>1, <2>a, <2>b
  <2>2. ProgramTypeOK'
    BY DEF ProgramTypeOK
  <2>3. Lock'
    BY DEF Lock, Turning
  <2>4. BeforeLastLook' /\ AfterLastLook'
    BY DEF BeforeLastLook, AfterLastLook, LastLookDone, Turning
  <2>5. Restored' /\ Ended'
    BY DEF Restored, Ended, LastLookDone, Turning
  <2> QED
    BY <2>2, <2>3, <2>4, <2>5
<1>2. CASE Work
  <2>1. /\ main \in Turning /\ main' \in Turning
        /\ {main, main'} \cap {"present", "last present"} = {}
        /\ main' = "drain" => main = "drain"
    BY <1>2, WorkLeads
  <2>a. failed' \in {failed, TRUE}
    BY <1>2 DEF Work
  <2>b. UNCHANGED <<seen, sig, handled, flagged, closed, pending, teardown, output, screen,
                    exit, sent, recorded>>
    BY <1>2 DEF Work, thread_vars, hook_vars
  <2> USE <2>1, <2>a, <2>b
  <2>2. ProgramTypeOK'
    BY DEF ProgramTypeOK
  <2>3. Lock'
    BY DEF Lock, Turning
  <2>4. BeforeLastLook' /\ AfterLastLook'
    BY DEF BeforeLastLook, AfterLastLook, LastLookDone, Turning
  <2>5. Restored' /\ Ended'
    BY DEF Restored, Ended, LastLookDone, Turning
  <2> QED
    BY <2>2, <2>3, <2>4, <2>5
<1>3. CASE Render
  <2> USE <1>3 DEF Render, TurnEnds, main_vars, thread_vars, hook_vars
  <2>1. ProgramTypeOK'
    BY DEF ProgramTypeOK, Turning, Leaving
  <2>2. Lock'
    BY DEF Lock
  <2>3. BeforeLastLook'
    BY DEF BeforeLastLook, LastLookDone
  <2>4. AfterLastLook'
    BY DEF ProgramTypeOK, BeforeLastLook, AfterLastLook, LastLookDone
  <2>5. Restored'
    BY DEF Restored, AfterLastLook, BeforeLastLook, Lock, LastLookDone
  <2>6. Ended'
    BY DEF Ended, LastLookDone, Restored
  <2> QED
    BY <2>1, <2>2, <2>3, <2>4, <2>5, <2>6
<1>4. CASE Present
  <2> USE <1>4 DEF Present, TurnEnds, main_vars, thread_vars, hook_vars
  <2>1. ProgramTypeOK'
    BY DEF ProgramTypeOK, Turning, Leaving
  <2>2. Lock'
    BY DEF Lock
  <2>3. BeforeLastLook'
    BY DEF BeforeLastLook, LastLookDone
  <2>4. AfterLastLook'
    BY DEF ProgramTypeOK, BeforeLastLook, AfterLastLook, LastLookDone
  <2>5. Restored'
    BY DEF Restored, AfterLastLook, BeforeLastLook, Lock, LastLookDone
  <2>6. Ended'
    BY DEF Ended, LastLookDone, Restored
  <2> QED
    BY <2>1, <2>2, <2>3, <2>4, <2>5, <2>6
<1>5. CASE Complete
  <2> USE <1>5 DEF Complete, main_vars, thread_vars, hook_vars
  <2>1. ProgramTypeOK'
    BY DEF ProgramTypeOK, Turning, Leaving
  <2>2. Lock'
    BY DEF Lock
  <2>3. BeforeLastLook'
    BY DEF BeforeLastLook, LastLookDone
  <2>4. AfterLastLook'
    BY DEF ProgramTypeOK, BeforeLastLook, AfterLastLook, LastLookDone
  <2>5. Restored'
    BY DEF Last, Restored, AfterLastLook, BeforeLastLook, Lock, LastLookDone
  <2>6. Ended'
    BY DEF Ended, LastLookDone, Restored
  <2> QED
    BY <2>1, <2>2, <2>3, <2>4, <2>5, <2>6
<1>6. CASE Shutdown
  <2> USE <1>6 DEF Shutdown, main_vars, thread_vars, hook_vars
  <2>1. ProgramTypeOK'
    BY DEF ProgramTypeOK, Turning, Leaving
  <2>2. Lock'
    BY DEF Lock
  <2>3. BeforeLastLook'
    BY DEF BeforeLastLook, LastLookDone
  <2>4. AfterLastLook'
    BY DEF ProgramTypeOK, BeforeLastLook, AfterLastLook, LastLookDone
  <2>5. Restored'
    BY DEF Restored, AfterLastLook, BeforeLastLook, Lock, LastLookDone
  <2>6. Ended'
    BY DEF Ended, LastLookDone, Restored
  <2> QED
    BY <2>1, <2>2, <2>3, <2>4, <2>5, <2>6
<1>7. CASE Result
  <2> USE <1>7 DEF Result, main_vars, thread_vars, hook_vars
  <2>1. ProgramTypeOK'
    BY DEF ProgramTypeOK, Turning, Leaving
  <2>2. Lock'
    BY DEF Lock
  <2>3. BeforeLastLook'
    BY DEF BeforeLastLook, LastLookDone
  <2>4. AfterLastLook'
    <3>1. recorded # <<>> => Len(recorded) \in DOMAIN recorded /\ Len(recorded) \in Nat
      BY DEF ProgramTypeOK
    <3>2. pending' # NoSignal => seen = NoSignal /\ pending # NoSignal
      OBVIOUS
    <3>3. seen = NoSignal /\ recorded # <<>> => recorded[1].late
      BY FirstRecorded DEF AfterLastLook, LastLookDone
    <3>4. seen = NoSignal /\ recorded # <<>> => Last(recorded).late
      BY <3>1, <3>3 DEF AfterLastLook, LastLookDone, Last
    <3> QED
      BY <3>2, <3>4 DEF AfterLastLook, LastLookDone
  <2>5. Restored'
    BY DEF Restored, AfterLastLook, BeforeLastLook, Lock, LastLookDone
  <2>6. Ended'
    BY DEF Ended, LastLookDone, Restored
  <2> QED
    BY <2>1, <2>2, <2>3, <2>4, <2>5, <2>6
<1>8. CASE DropWriter
  <2> USE <1>8 DEF DropWriter, main_vars, thread_vars, hook_vars
  <2>1. ProgramTypeOK'
    BY DEF ProgramTypeOK, Turning, Leaving
  <2>2. Lock'
    BY DEF Lock
  <2>3. BeforeLastLook'
    BY DEF BeforeLastLook, LastLookDone
  <2>4. AfterLastLook'
    BY DEF ProgramTypeOK, BeforeLastLook, AfterLastLook, LastLookDone
  <2>5. Restored'
    BY DEF Restored, AfterLastLook, BeforeLastLook, Lock, LastLookDone
  <2>6. Ended'
    BY DEF Ended, LastLookDone, Restored
  <2> QED
    BY <2>1, <2>2, <2>3, <2>4, <2>5, <2>6
<1>9. CASE Latch
  <2> USE <1>9 DEF Latch, main_vars, thread_vars, hook_vars
  <2>1. ProgramTypeOK'
    BY DEF ProgramTypeOK, Turning, Leaving
  <2>2. Lock'
    BY DEF Lock
  <2>3. BeforeLastLook'
    BY DEF BeforeLastLook, LastLookDone
  <2>4. AfterLastLook'
    BY DEF ProgramTypeOK, BeforeLastLook, AfterLastLook, LastLookDone
  <2>5. Restored'
    BY DEF Restored, AfterLastLook, BeforeLastLook, Lock, LastLookDone
  <2>6. Ended'
    BY DEF Ended, LastLookDone, Restored
  <2> QED
    BY <2>1, <2>2, <2>3, <2>4, <2>5, <2>6
<1>10. CASE LockOutput
  <2> USE <1>10 DEF LockOutput, main_vars, thread_vars, hook_vars
  <2>1. ProgramTypeOK'
    BY DEF ProgramTypeOK, Turning, Leaving
  <2>2. Lock'
    BY DEF Lock
  <2>3. BeforeLastLook'
    BY DEF BeforeLastLook, LastLookDone
  <2>4. AfterLastLook'
    BY DEF ProgramTypeOK, BeforeLastLook, AfterLastLook, LastLookDone
  <2>5. Restored'
    BY DEF Restored, AfterLastLook, BeforeLastLook, Lock, LastLookDone
  <2>6. Ended'
    BY DEF Ended, LastLookDone, Restored
  <2> QED
    BY <2>1, <2>2, <2>3, <2>4, <2>5, <2>6
<1>11. CASE Close
  <2> USE <1>11 DEF Close, main_vars, thread_vars, hook_vars
  <2>1. ProgramTypeOK'
    BY DEF ProgramTypeOK, Turning, Leaving
  <2>2. Lock'
    BY DEF Lock
  <2>3. BeforeLastLook'
    BY DEF BeforeLastLook, LastLookDone
  <2>4. AfterLastLook'
    BY DEF ProgramTypeOK, BeforeLastLook, AfterLastLook, LastLookDone
  <2>5. Restored'
    BY DEF Restored, AfterLastLook, BeforeLastLook, Lock, LastLookDone
  <2>6. Ended'
    BY DEF Ended, LastLookDone, Restored
  <2> QED
    BY <2>1, <2>2, <2>3, <2>4, <2>5, <2>6
<1>12. CASE JoinAndRestore
  <2> USE <1>12 DEF JoinAndRestore, main_vars, thread_vars, hook_vars
  <2>1. ProgramTypeOK'
    BY DEF ProgramTypeOK, Turning, Leaving
  <2>2. Lock'
    BY DEF Lock
  <2>3. BeforeLastLook'
    BY DEF BeforeLastLook, LastLookDone
  <2>4. AfterLastLook'
    BY DEF ProgramTypeOK, BeforeLastLook, AfterLastLook, LastLookDone
  <2>5. Restored'
    BY DEF Restored, AfterLastLook, BeforeLastLook, Lock, LastLookDone
  <2>6. Ended'
    BY DEF Ended, LastLookDone, Restored
  <2> QED
    BY <2>1, <2>2, <2>3, <2>4, <2>5, <2>6
<1>13. CASE Exit
  <2> USE <1>13 DEF Exit, Ending, main_vars, thread_vars, hook_vars
  <2>1. ProgramTypeOK'
    BY DEF ProgramTypeOK, Turning, Leaving
  <2>2. Lock'
    BY DEF Lock
  <2>3. BeforeLastLook'
    BY DEF BeforeLastLook, LastLookDone
  <2>4. AfterLastLook'
    BY DEF ProgramTypeOK, BeforeLastLook, AfterLastLook, LastLookDone
  <2>5. Restored'
    BY DEF Restored, AfterLastLook, BeforeLastLook, Lock, LastLookDone
  <2>6. Ended'
    BY DEF Ended, LastLookDone, Restored
  <2> QED
    BY <2>1, <2>2, <2>3, <2>4, <2>5, <2>6
<1> QED
  BY <1>1, <1>2, <1>3, <1>4, <1>5, <1>6, <1>7, <1>8, <1>9, <1>10, <1>11, <1>12, <1>13

LEMMA Recording ==
  ASSUME ProgramTypeOK, NEW r \in [signal : Signals, late : BOOLEAN],
         recorded' = Append(recorded, r)
  PROVE  /\ recorded' \in Seq([signal : Signals, late : BOOLEAN])
         /\ recorded' # <<>> /\ Len(recorded') = Len(recorded) + 1
         /\ Last(recorded') = r
         /\ \A i \in DOMAIN recorded' :
              \/ i \in DOMAIN recorded /\ recorded'[i] = recorded[i]
              \/ i = Len(recorded) + 1 /\ recorded'[i] = r
BY DEF ProgramTypeOK, Last

LEMMA SignalInvKept == ProgramInv /\ SignalStep => ProgramInv'
<1> SUFFICES ASSUME ProgramInv, SignalStep PROVE ProgramInv'
  OBVIOUS
<1> USE DEF ProgramInv, SignalStep, Alive
<1>1. ASSUME NEW s \in Signals, TakeSignal(s) PROVE ProgramInv'
  <2> DEFINE r == [signal |-> s, late |-> LastLookDone]
  <2>1. /\ sig = "forever" /\ sig' = "cleanup" /\ handled' = s /\ flagged' = flagged \ {s}
        /\ UNCHANGED <<main, seen, failed, closed, teardown, output, screen, exit, sent>>
    BY <1>1 DEF TakeSignal, main_vars
  <2>2. ProgramTypeOK /\ exit.how = "none"
    OBVIOUS
  <2>3. LastLookDone \in BOOLEAN /\ LastLookDone' = LastLookDone
    BY <2>1 DEF LastLookDone
  <2>4. CASE pending # NoSignal
    <3>1. UNCHANGED <<pending, recorded>>
      BY <1>1, <2>4 DEF TakeSignal
    <3> QED
      BY <2>1, <2>3, <3>1 DEF ProgramTypeOK, Lock, BeforeLastLook, AfterLastLook, Restored, Ended
  <2>5. CASE pending = NoSignal
    <3>1. pending' = s /\ recorded' = Append(recorded, r)
      BY <1>1, <2>5 DEF TakeSignal
    <3>2. r \in [signal : Signals, late : BOOLEAN] /\ r.signal = s /\ r.late = LastLookDone
      BY <2>3
    <3> HIDE DEF r
    <3>3. /\ recorded' \in Seq([signal : Signals, late : BOOLEAN])
          /\ recorded' # <<>> /\ Len(recorded') = Len(recorded) + 1
          /\ Last(recorded') = r
          /\ \A i \in DOMAIN recorded' :
               \/ i \in DOMAIN recorded /\ recorded'[i] = recorded[i]
               \/ i = Len(recorded) + 1 /\ recorded'[i] = r
      BY <2>2, <3>1, <3>2, Recording
    <3>4. ProgramTypeOK'
      BY <2>1, <3>1, <3>3 DEF ProgramTypeOK
    <3>5. Lock'
      BY <2>1 DEF Lock
    <3>6. BeforeLastLook'
      <4> SUFFICES ASSUME ~ LastLookDone PROVE BeforeLastLook'
        BY <2>3 DEF BeforeLastLook
      <4>1. recorded = <<>>
        BY <2>2, <2>5, FirstRecorded DEF BeforeLastLook
      <4>2. Len(recorded') = 1 /\ recorded'[1] = r /\ seen = NoSignal
        BY <2>5, <3>3, <4>1 DEF Last, BeforeLastLook
      <4> QED
        BY <2>1, <3>1, <3>2, <3>3, <4>2 DEF BeforeLastLook
    <3>7. AfterLastLook'
      <4> SUFFICES ASSUME LastLookDone PROVE AfterLastLook'
        BY <2>3 DEF AfterLastLook
      <4>1. Len(recorded) \in Nat /\ DOMAIN recorded = 1 .. Len(recorded)
            /\ DOMAIN recorded' = 1 .. Len(recorded') /\ (recorded = <<>> <=> Len(recorded) = 0)
        BY <2>2, <3>3 DEF ProgramTypeOK
      <4>2. \A i \in DOMAIN recorded' : i > 1 => recorded'[i].late
        BY <3>2, <3>3 DEF AfterLastLook
      <4>3. recorded = <<>> => recorded'[1] = r
        BY <3>3, <4>1 DEF Last
      <4>4. recorded # <<>> => recorded'[1] = recorded[1]
        BY <3>3, <4>1
      <4>5. seen = IF ~ recorded'[1].late THEN recorded'[1].signal ELSE NoSignal
        BY <3>2, <4>3, <4>4 DEF AfterLastLook
      <4> QED
        BY <2>1, <3>2, <3>3, <4>2, <4>5 DEF AfterLastLook
    <3>8. Restored'
      BY <2>1 DEF Restored
    <3>9. Ended'
      BY <2>1, <2>2 DEF Ended
    <3> QED
      BY <3>4, <3>5, <3>6, <3>7, <3>8, <3>9
  <2> QED
    BY <2>4, <2>5
<1>2. CASE LockCleanup
  <2> USE <1>2 DEF LockCleanup, main_vars, thread_vars, hook_vars
  <2>1. ProgramTypeOK'
    BY DEF ProgramTypeOK
  <2>2. Lock'
    BY DEF Lock
  <2>3. BeforeLastLook'
    BY DEF BeforeLastLook, LastLookDone
  <2>4. AfterLastLook'
    BY DEF AfterLastLook, LastLookDone
  <2>5. Restored'
    BY DEF Restored, LastLookDone
  <2>6. Ended'
    BY DEF Ended, AfterLastLook, LastLookDone, Restored
  <2> QED
    BY <2>1, <2>2, <2>3, <2>4, <2>5, <2>6
<1>3. CASE EmitCleanup
  <2> USE <1>3 DEF EmitCleanup, main_vars, thread_vars, hook_vars
  <2>1. ProgramTypeOK'
    BY DEF ProgramTypeOK
  <2>2. Lock'
    BY DEF Lock
  <2>3. BeforeLastLook'
    BY DEF BeforeLastLook, LastLookDone
  <2>4. AfterLastLook'
    BY DEF AfterLastLook, LastLookDone
  <2>5. Restored'
    BY DEF Restored, LastLookDone
  <2>6. Ended'
    BY DEF Ended, AfterLastLook, LastLookDone, Restored
  <2> QED
    BY <2>1, <2>2, <2>3, <2>4, <2>5, <2>6
<1>4. CASE ReadLatch
  <2> USE <1>4 DEF ReadLatch, main_vars, thread_vars, hook_vars
  <2>1. ProgramTypeOK'
    BY DEF ProgramTypeOK
  <2>2. Lock'
    BY DEF Lock
  <2>3. BeforeLastLook'
    BY DEF BeforeLastLook, LastLookDone
  <2>4. AfterLastLook'
    BY DEF AfterLastLook, LastLookDone
  <2>5. Restored'
    BY DEF Restored, LastLookDone
  <2>6. Ended'
    BY DEF Ended, AfterLastLook, LastLookDone, Restored
  <2> QED
    BY <2>1, <2>2, <2>3, <2>4, <2>5, <2>6
<1>5. CASE Acknowledged
  <2> USE <1>5 DEF Acknowledged, main_vars, thread_vars, hook_vars
  <2>1. ProgramTypeOK'
    BY DEF ProgramTypeOK
  <2>2. Lock'
    BY DEF Lock
  <2>3. BeforeLastLook'
    BY DEF BeforeLastLook, LastLookDone
  <2>4. AfterLastLook'
    BY DEF AfterLastLook, LastLookDone
  <2>5. Restored'
    BY DEF Restored, LastLookDone
  <2>6. Ended'
    BY DEF Ended, AfterLastLook, LastLookDone, Restored
  <2> QED
    BY <2>1, <2>2, <2>3, <2>4, <2>5, <2>6
<1>6. CASE GiveUp
  <2> USE <1>6 DEF GiveUp, main_vars, thread_vars, hook_vars
  <2>1. ProgramTypeOK'
    BY DEF ProgramTypeOK
  <2>2. Lock'
    BY DEF Lock
  <2>3. BeforeLastLook'
    BY DEF BeforeLastLook, LastLookDone
  <2>4. AfterLastLook'
    BY DEF AfterLastLook, LastLookDone
  <2>5. Restored'
    BY DEF Restored, LastLookDone
  <2>6. Ended'
    BY DEF Ended, AfterLastLook, LastLookDone, Restored
  <2> QED
    BY <2>1, <2>2, <2>3, <2>4, <2>5, <2>6
<1>7. CASE EndThread
  <2> USE <1>7 DEF EndThread, main_vars, thread_vars, hook_vars
  <2>1. ProgramTypeOK'
    BY DEF ProgramTypeOK
  <2>2. Lock'
    BY DEF Lock
  <2>3. BeforeLastLook'
    BY DEF BeforeLastLook, LastLookDone
  <2>4. AfterLastLook'
    BY DEF AfterLastLook, LastLookDone
  <2>5. Restored'
    BY DEF Restored, LastLookDone
  <2>6. Ended'
    BY DEF Ended, AfterLastLook, LastLookDone, Restored
  <2> QED
    BY <2>1, <2>2, <2>3, <2>4, <2>5, <2>6
<1> QED
  BY <1>1, <1>2, <1>3, <1>4, <1>5, <1>6, <1>7

LEMMA ProgramInvKept == ProgramInv /\ [ProgramNext]_program_vars => ProgramInv'
<1>1. ASSUME ProgramInv, NEW s \in Signals, Send(s) PROVE ProgramInv'
  <2>1. /\ flagged' = flagged \cup {s}
        /\ UNCHANGED <<main, seen, failed, sig, pending, output, screen, exit, recorded>>
    BY <1>1 DEF Send, main_vars, thread_vars
  <2>2. ProgramTypeOK'
    BY <1>1, <2>1 DEF ProgramInv, ProgramTypeOK
  <2>3. Lock' /\ BeforeLastLook' /\ AfterLastLook'
    BY <1>1, <2>1 DEF ProgramInv, Lock, BeforeLastLook, AfterLastLook, LastLookDone
  <2>4. Restored' /\ Ended'
    BY <1>1, <2>1 DEF ProgramInv, Restored, Ended, Ending, LastLookDone
  <2> QED
    BY <2>2, <2>3, <2>4 DEF ProgramInv
<1>2. ASSUME ProgramInv, UNCHANGED program_vars PROVE ProgramInv'
  <2>1. UNCHANGED <<main, seen, failed, sig, flagged, pending, output, screen, exit, recorded>>
    BY <1>2 DEF program_vars, main_vars, thread_vars, hook_vars
  <2>2. ProgramTypeOK'
    BY <1>2, <2>1 DEF ProgramInv, ProgramTypeOK
  <2>3. Lock' /\ BeforeLastLook' /\ AfterLastLook'
    BY <1>2, <2>1 DEF ProgramInv, Lock, BeforeLastLook, AfterLastLook, LastLookDone
  <2>4. Restored' /\ Ended'
    BY <1>2, <2>1 DEF ProgramInv, Restored, Ended, Ending, LastLookDone
  <2> QED
    BY <2>2, <2>3, <2>4 DEF ProgramInv
<1> QED
  BY <1>1, <1>2, MainInvKept, SignalInvKept DEF ProgramNext

LEMMA ProgramInvOrderly == ProgramInv => OrderlyEnd
<1> SUFFICES ASSUME ProgramInv PROVE OrderlyEnd
  OBVIOUS
<1>1. exit.how = "forced" => main = "drain" \/ Last(recorded).late
  BY DEF ProgramInv, Ended
<1>2. ~ Alive => screen = "restored"
  BY DEF ProgramInv, Ended, Restored, Alive
<1>3. ASSUME exit.how \in {"signal", "error", "ok"}
      PROVE  LET in_time == {i \in DOMAIN recorded : ~ recorded[i].late}
             IN  IF in_time # {}
                 THEN \E i \in in_time : /\ \A j \in in_time : i <= j
                                         /\ exit = [how |-> "signal", signal |-> recorded[i].signal]
                 ELSE exit.how = (IF failed THEN "error" ELSE "ok")
  <2> DEFINE in_time == {i \in DOMAIN recorded : ~ recorded[i].late}
  <2>1. main = "exit" /\ exit = [how |-> Ending, signal |-> seen]
    BY <1>3 DEF ProgramInv, Ended
  <2>2. /\ \A i \in DOMAIN recorded : i > 1 => recorded[i].late
        /\ seen = IF recorded # <<>> /\ ~ recorded[1].late THEN recorded[1].signal ELSE NoSignal
    BY <2>1 DEF ProgramInv, AfterLastLook, LastLookDone
  <2>3. recorded \in Seq([signal : Signals, late : BOOLEAN])
    BY DEF ProgramInv, ProgramTypeOK
  <2>4. /\ Len(recorded) \in Nat /\ DOMAIN recorded = 1 .. Len(recorded)
        /\ recorded # <<>> => 1 \in DOMAIN recorded
    BY <2>3
  <2>5. \A i \in in_time : i = 1
    BY <2>2, <2>4
  <2>6. CASE recorded # <<>> /\ ~ recorded[1].late
    <3>1. recorded[1].signal \in Signals
      BY <2>6, FirstRecorded DEF ProgramInv
    <3>2. exit = [how |-> "signal", signal |-> recorded[1].signal]
      BY <2>1, <2>2, <2>6, <3>1, SignalAssumption DEF Ending
    <3>3. 1 \in in_time /\ \A j \in in_time : 1 <= j
      BY <2>4, <2>5, <2>6
    <3> QED
      BY <3>2, <3>3
  <2>7. CASE ~ (recorded # <<>> /\ ~ recorded[1].late)
    <3>1. in_time = {}
      BY <2>4, <2>5, <2>7
    <3>2. exit.how = (IF failed THEN "error" ELSE "ok")
      BY <2>1, <2>2, <2>7 DEF Ending
    <3> QED
      BY <3>1, <3>2
  <2> QED
    BY <2>6, <2>7
<1> QED
  BY <1>1, <1>2, <1>3 DEF OrderlyEnd

(* However signals, errors and input come, the process ends with the       *)
(* terminal restored, and its exit tells of the first signal recorded      *)
(* before the last look, then of an error.                                 *)
THEOREM EndsOrderly == ProgramSpec => []OrderlyEnd
<1>1. ProgramInit => ProgramInv
  BY ProgramInitInv
<1>2. ProgramInv /\ [ProgramNext]_program_vars => ProgramInv'
  BY ProgramInvKept
<1>3. ProgramInv => OrderlyEnd
  BY ProgramInvOrderly
<1> QED
  BY <1>1, <1>2, <1>3, PTL DEF ProgramSpec

=============================================================================
