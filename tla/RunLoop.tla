------------------------------- MODULE RunLoop -------------------------------
(***************************************************************************)
(* The loops of the agent without a screen, run_json and run_plain of      *)
(* process-monitor/src/main.rs: poll, print, forward to Storage, look at   *)
(* QUIT, sleep.  run_json prints into a BufWriter and forwards the batch   *)
(* afterwards; run_plain forwards first and prints line by line.           *)
(*                                                                         *)
(* A signal may come at any point and only sets QUIT.  A write to stdout   *)
(* may fail (the reader of the pipe has gone): run_json returns the error, *)
(* println! panics, and either ends the process.  When the process ends so *)
(* do the threads of Storage, wherever they are.                           *)
(***************************************************************************)
EXTENDS Storage, SequencesExt

CONSTANTS
  MaxOutputs,   (* bound on the outputs polled                             *)
  MaxBatch      (* bound on the outputs of one poll                        *)

ASSUME LoopAssumption == MaxOutputs \in Nat /\ MaxBatch \in Nat \ {0}

(* Output: shown is FALSE for the events run_plain leaves out (comm in     *)
(* NOISY, or an open without a path).                                      *)
Bodies == [type : {"Event"}, pid : Pids, target : Targets \cup {NoTarget},
           net : BOOLEAN, shown : BOOLEAN]
            \cup [type : {"Alert", "Action"}, pid : Pids, target : {NoTarget},
                  net : {FALSE}, shown : {TRUE}]

CONSTANT Samples   (* the outputs of the instance *)

ASSUME SampleAssumption == Samples \subseteq Bodies

VARIABLES
  mode,         (* "json" or "plain"                                       *)
  pc,           (* place in the loop                                       *)
  polled,       (* every output poll has returned                          *)
  first,        (* the first output of the present batch                   *)
  next,         (* the next one to print or to forward                     *)
  held,         (* what is in the BufWriter                                *)
  stdout,       (* what has been written                                   *)
  QUIT,
  ended         (* the process: "no", "quit" or "error"                    *)

loop_vars == <<mode, pc, polled, first, next, held, stdout, QUIT, ended>>
run_vars  == <<loop_vars, store_vars>>

-----------------------------------------------------------------------------

Poll ==
  /\ pc = "poll"
  /\ \E n \in 0 .. MaxBatch :
       /\ Len(polled) + n <= MaxOutputs
       /\ \E outputs \in [1 .. n -> Samples] : polled' = polled \o outputs
  /\ first' = Len(polled) + 1
  /\ next' = first'
  /\ pc' = IF mode = "json" THEN "print" ELSE "forward"
  /\ UNCHANGED <<mode, held, stdout, QUIT, ended, store_vars>>

BatchDone == next > Len(polled)

(* writeln! to the BufWriter, which writes what it holds when it is full.  *)
PrintJson ==
  /\ mode = "json" /\ pc = "print" /\ ~ BatchDone
  /\ \/ held' = Append(held, next) /\ stdout' = stdout
     \/ held' = <<next>> /\ stdout' = stdout \o held
  /\ next' = next + 1
  /\ UNCHANGED <<mode, pc, polled, first, QUIT, ended, store_vars>>

(* println!, or nothing for an event that is not shown. *)
PrintPlain ==
  /\ mode = "plain" /\ pc = "print" /\ ~ BatchDone
  /\ stdout' = IF polled[next].shown THEN Append(stdout, next) ELSE stdout
  /\ next' = next + 1
  /\ UNCHANGED <<mode, pc, polled, first, held, QUIT, ended, store_vars>>

(* The batch is printed. *)
Printed ==
  /\ pc = "print" /\ BatchDone
  /\ IF mode = "json" THEN pc' = "forward" /\ next' = first
                      ELSE pc' = "check" /\ next' = next
  /\ UNCHANGED <<mode, polled, first, held, stdout, QUIT, ended, store_vars>>

(* forward_outputs: the next output goes to forward_event, an Action not.  *)
Forward ==
  /\ pc = "forward" /\ ~ BatchDone
  /\ call.at = "none"
  /\ next' = next + 1
  /\ LET o == polled[next]
     IN  call' = IF o.type = "Action" THEN call
                 ELSE [at |-> "kafka", ev |-> next, pid |-> o.pid, target |-> o.target, net |-> o.net]
  /\ UNCHANGED <<mode, pc, polled, first, held, stdout, QUIT, ended,
                 active, house_vars, kafka_vars, graph_vars>>

Forwarded ==
  /\ pc = "forward" /\ BatchDone
  /\ call.at = "none"
  /\ IF mode = "json" THEN pc' = "flush" /\ next' = next
                      ELSE pc' = "print" /\ next' = first
  /\ UNCHANGED <<mode, polled, first, held, stdout, QUIT, ended, store_vars>>

FlushForgotten ==
  /\ pc = "flush"
  /\ pc' = "check"
  /\ UNCHANGED <<mode, polled, first, next, held, stdout, QUIT, ended, store_vars>>

(* out.flush() *)
Flush ==
  /\ pc = "flush"
  /\ stdout' = stdout \o held
  /\ held' = <<>>
  /\ pc' = "check"
  /\ UNCHANGED <<mode, polled, first, next, QUIT, ended, store_vars>>

(* The look at QUIT at the end of a turn. *)
Check ==
  /\ pc = "check"
  /\ IF QUIT THEN ended' = "quit" /\ pc' = pc
             ELSE pc' = "poll" /\ ended' = ended
  /\ UNCHANGED <<mode, polled, first, next, held, stdout, QUIT, store_vars>>

(* A write to stdout fails where one is made. *)
WriteFails ==
  /\ \/ pc = "print" /\ ~ BatchDone /\ (mode = "json" \/ polled[next].shown)
     \/ pc = "flush"
  /\ ended' = "error"
  /\ UNCHANGED <<mode, pc, polled, first, next, held, stdout, QUIT, store_vars>>

handle_signal ==
  /\ ~ QUIT
  /\ QUIT' = TRUE
  /\ UNCHANGED <<mode, pc, polled, first, next, held, stdout, ended, store_vars>>

Loop ==
  \/ Poll \/ PrintJson \/ PrintPlain \/ Printed \/ Forward \/ Forwarded \/ Flush \/ Check
  \/ Calling /\ UNCHANGED loop_vars

Threads == Background /\ UNCHANGED loop_vars

RunInit ==
  /\ StoreInit
  /\ mode \in {"json", "plain"}
  /\ pc = "poll"
  /\ polled = <<>> /\ first = 1 /\ next = 1
  /\ held = <<>> /\ stdout = <<>>
  /\ QUIT = FALSE
  /\ ended = "no"

RunNext == ended = "no" /\ (Loop \/ Threads \/ WriteFails \/ handle_signal)

(* The loops never block: polls and sends do not wait, a request to a      *)
(* database is given up after ten seconds.  The threads of ClickHouse and  *)
(* MemGraph wake up by themselves.                                         *)
RunFairness ==
  /\ WF_run_vars(ended = "no" /\ Loop)
  /\ WF_run_vars(ended = "no" /\ HouseThread /\ UNCHANGED loop_vars)

RunSpec == RunInit /\ [][RunNext]_run_vars /\ RunFairness

-----------------------------------------------------------------------------

Increasing(s) == \A i, j \in DOMAIN s : i < j => s[i] < s[j]

(* What is stored: events and alerts. *)
Storable == {i \in DOMAIN polled : polled[i].type # "Action"}

(* No event is stored twice or waits in two batches, and none whose batch  *)
(* was reported as failed waits to be posted again: it may be stored, as   *)
(* the answer may be all that failed.  librdkafka is given the events in   *)
(* the order of the outputs, and none that was dropped for want of room.   *)
StoredOnce ==
  /\ IsInjective(rows \o own \o flush \o buffer)
  /\ Range(own \o flush \o buffer) \cap failures = {}
  /\ Increasing(handed \o rx)
  /\ Range(handed \o rx) \cap overflow = {}

(* Outputs that have gone through forward_event. *)
Ingested ==
  LET last == CASE pc = "forward" -> next - 1
                [] pc = "print" /\ mode = "json" -> first - 1
                [] OTHER -> Len(polled)
  IN  {i \in Storable : i <= last /\ i # call.ev}

(* The graph, the two batches under way and the caches together hold every *)
(* access once, except what a failed request or a missing node cost.       *)
GraphAgrees ==
  "memgraph" \in active =>
    \A k \in Pairs :
      LET about == {i \in Ingested : <<polled[i].pid, polled[i].target>> = k}
      IN  /\ edges.opened[k] + unlinked.opened[k] + graph.files[k] + file_cache[k]
               = Cardinality(about)
          /\ k \in edges.connected \cup unlinked.connected \cup graph.nets \cup net_cache
               <=> \E i \in about : polled[i].net

(* At the end of a turn, and so when a signal ends the loop, everything    *)
(* polled so far has been written, in order and once, and given to the     *)
(* backends.                                                               *)
TurnComplete ==
  pc = "check" =>
    /\ held = <<>>
    /\ Increasing(stdout)
    /\ Range(stdout) = {i \in DOMAIN polled : mode = "json" \/ polled[i].shown}
    /\ "clickhouse" \in active =>
         Range(rows \o own \o flush \o buffer) \cup failures = Storable
    /\ "kafka" \in active => Range(handed \o rx) \cup overflow = Storable

(* An event in ClickHouse's buffer is stored, or its batch reported as     *)
(* failed, unless the process ends first.                                  *)
EventuallyStored ==
  \A i \in 1 .. MaxOutputs :
    i \in Range(flush \o buffer) ~> i \in Range(rows) \cup failures \/ ended # "no"

=============================================================================
