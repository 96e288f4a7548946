------------------------------- MODULE Storage -------------------------------
(***************************************************************************)
(* The storage pipeline (process-monitor/src/storage): forward_event hands *)
(* an event to every active backend in turn, and each backend has a thread *)
(* of its own behind it.                                                   *)
(*                                                                         *)
(*   kafka       an unbounded channel, and a thread that gives what comes  *)
(*               out of it to librdkafka, whose queue is bounded;          *)
(*   clickhouse  a buffer, emptied by a thread once a second, and by the   *)
(*               caller when it has a full batch; a batch is one INSERT;   *)
(*   memgraph    two caches, emptied by a thread every half second; the    *)
(*               node of the process is posted by the caller.              *)
(*                                                                         *)
(* No request is retried and no failure reaches the caller.  An event is   *)
(* its place in the sequence of outputs the monitor made; what an event    *)
(* says is left out, but for what the graph is built from.  Which features *)
(* are compiled in and requested is the set active.                        *)
(***************************************************************************)
EXTENDS Integers, Sequences, Functions

CONSTANTS
  BatchSize,    (* ClickHouseConfig.batch_size (1000)                      *)
  QueueCap,     (* queue.buffering.max.messages of librdkafka (100000)     *)
  Pids,
  Targets,      (* paths and addresses: what StorageEvent.file may hold    *)
  NoTarget      (* StorageEvent.file is None                               *)

ASSUME StorageAssumption == /\ BatchSize \in Nat \ {0}
                            /\ QueueCap \in Nat
                            /\ NoTarget \notin Targets

Backends == {"kafka", "clickhouse", "memgraph"}

VARIABLES
  active,       (* the backends that were started                          *)
  call,         (* how far forward_event has come, and with which event    *)
  buffer,       (* ClickHouseStore.buffer                                  *)
  own,          (* batch the caller of insert is posting                   *)
  flush,        (* batch the thread "clickhouse-flush" is posting          *)
  rows,         (* talus.events in ClickHouse                              *)
  failures,     (* history: events of the batches flush_batch gave up on   *)
  rx,           (* the channel of KafkaProducer                            *)
  queue,        (* librdkafka's queue                                      *)
  handed,       (* history: every event librdkafka accepted                *)
  overflow,     (* history: the events it had no room for                  *)
  nodes,        (* :Process nodes of the graph                             *)
  file_cache,   (* MemGraphStore.file_access_cache                         *)
  net_cache,    (* MemGraphStore.network_cache                             *)
  graph,        (* the thread "memgraph-flush": stage and its two batches  *)
  edges,        (* OPENED counts and CONNECTED_TO edges of the graph       *)
  unlinked      (* history: counts and connections that did not get there  *)

house_vars  == <<buffer, own, flush, rows, failures>>
kafka_vars  == <<rx, queue, handed, overflow>>
graph_vars  == <<nodes, file_cache, net_cache, graph, edges, unlinked>>
store_vars  == <<active, call, house_vars, kafka_vars, graph_vars>>

Pairs    == Pids \X Targets
NoCounts == [k \in Pairs |-> 0]
NoCall   == [at |-> "none", ev |-> 0, pid |-> "none", target |-> NoTarget, net |-> FALSE]

-----------------------------------------------------------------------------

(* KafkaProducer::send, then on to ClickHouse. *)
SendKafka ==
  /\ call.at = "kafka"
  /\ rx' = IF "kafka" \in active THEN Append(rx, call.ev) ELSE rx
  /\ call' = [call EXCEPT !.at = "clickhouse"]
  /\ UNCHANGED <<active, house_vars, queue, handed, overflow, graph_vars>>

Full(batch)     == Len(batch) >= BatchSize

(* ClickHouseStore::insert under its lock: one more event, and the whole   *)
(* batch taken out when it is full.                                        *)
Insert ==
  LET batch == Append(buffer, call.ev)
      on    == "clickhouse" \in active
      post  == on /\ Full(batch)
  IN
  /\ call.at = "clickhouse"
  /\ buffer' = IF ~ on THEN buffer ELSE IF post THEN <<>> ELSE batch
  /\ own' = IF post THEN batch ELSE own
  /\ call' = [call EXCEPT !.at = IF post THEN "post" ELSE "memgraph"]
  /\ UNCHANGED <<active, flush, rows, failures, kafka_vars, graph_vars>>

(* flush_batch: the INSERT takes effect, whole, or it does not.  An error  *)
(* is reported if it does not, and also if only the answer was lost, came  *)
(* too late or was bad.  The caller goes on, whatever is reported.         *)
Outcome(batch) ==
  \/ /\ rows' = rows \o batch
     /\ failures' \in {failures, failures \cup Range(batch)}
  \/ /\ rows' = rows
     /\ failures' = failures \cup Range(batch)

(* The caller posts the full batch, the lock released. *)
PostOwn ==
  /\ call.at = "post"
  /\ Outcome(own)
  /\ own' = <<>>
  /\ call' = [call EXCEPT !.at = "memgraph"]
  /\ UNCHANGED <<active, buffer, flush, kafka_vars, graph_vars>>

(* MemGraphStore::ingest posts the node of the process, and then counts,   *)
(* whatever became of the post.                                            *)
MergeNode ==
  /\ call.at = "memgraph"
  /\ IF "memgraph" \in active
     THEN /\ nodes' \in {nodes, nodes \cup {call.pid}}
          /\ call' = [call EXCEPT !.at = "cache"]
     ELSE call' = NoCall /\ nodes' = nodes
  /\ UNCHANGED <<active, house_vars, kafka_vars, file_cache, net_cache, graph, edges, unlinked>>

(* Any event that names a file counts as an access, a network event as a   *)
(* connection besides.  The two caches have a lock each; nothing relates   *)
(* them, so both are filled in one step.                                   *)
CountAccess ==
  LET k == <<call.pid, call.target>>
  IN
  /\ call.at = "cache"
  /\ file_cache' = IF k \in Pairs THEN [file_cache EXCEPT ![k] = @ + 1] ELSE file_cache
  /\ net_cache' = IF k \in Pairs /\ call.net THEN net_cache \cup {k} ELSE net_cache
  /\ call' = NoCall
  /\ UNCHANGED <<active, house_vars, kafka_vars, nodes, graph, edges, unlinked>>

Calling == SendKafka \/ Insert \/ PostOwn \/ MergeNode \/ CountAccess

-----------------------------------------------------------------------------

FlushCopies ==
  /\ flush = <<>>
  /\ buffer # <<>>
  /\ flush' = buffer
  /\ UNCHANGED <<active, call, buffer, own, rows, failures, kafka_vars, graph_vars>>

FlushFull ==
  /\ flush = <<>>
  /\ Full(buffer)
  /\ flush' = buffer
  /\ buffer' = <<>>
  /\ UNCHANGED <<active, call, own, rows, failures, kafka_vars, graph_vars>>

(* "clickhouse-flush" wakes up and drains the buffer under the lock; with  *)
(* an empty buffer it goes back to sleep.                                  *)
FlushWake ==
  /\ flush = <<>>
  /\ buffer # <<>>
  /\ flush' = buffer
  /\ buffer' = <<>>
  /\ UNCHANGED <<active, call, own, rows, failures, kafka_vars, graph_vars>>

FlushPost ==
  /\ flush # <<>>
  /\ Outcome(flush)
  /\ flush' = <<>>
  /\ UNCHANGED <<active, call, buffer, own, kafka_vars, graph_vars>>

HouseThread == FlushWake \/ FlushPost

(* "kafka-producer" takes one event; librdkafka has room or it is lost.    *)
Take ==
  LET ev   == Head(rx)
      room == Len(queue) < QueueCap
  IN
  /\ rx # <<>>
  /\ rx' = Tail(rx)
  /\ queue' = IF room THEN Append(queue, ev) ELSE queue
  /\ handed' = IF room THEN Append(handed, ev) ELSE handed
  /\ overflow' = IF room THEN overflow ELSE overflow \cup {ev}
  /\ UNCHANGED <<active, call, house_vars, graph_vars>>

(* Having found the channel empty the thread polls librdkafka, which gives *)
(* back the places of messages it has delivered, or given up.              *)
Acknowledge ==
  /\ rx = <<>> /\ queue # <<>>
  /\ \E n \in 1 .. Len(queue) : queue' = SubSeq(queue, n + 1, Len(queue))
  /\ UNCHANGED <<active, call, rx, handed, overflow, house_vars, graph_vars>>

-----------------------------------------------------------------------------

GraphWakeKeeps ==
  /\ graph.at = "sleep" /\ "memgraph" \in active
  /\ graph' = [graph EXCEPT !.at = "files", !.files = file_cache]
  /\ UNCHANGED <<active, call, house_vars, kafka_vars, nodes, file_cache, net_cache, edges, unlinked>>

(* "memgraph-flush" wakes up and drains the file cache. *)
GraphWake ==
  /\ graph.at = "sleep" /\ "memgraph" \in active
  /\ graph' = [graph EXCEPT !.at = "files", !.files = file_cache]
  /\ file_cache' = NoCounts
  /\ UNCHANGED <<active, call, house_vars, kafka_vars, nodes, net_cache, edges, unlinked>>

(* One MERGE of an OPENED edge: it adds to the count if the request gets   *)
(* through and the graph has the process.                                  *)
LinkFile(k) ==
  /\ graph.at = "files" /\ graph.files[k] > 0
  /\ graph' = [graph EXCEPT !.files[k] = 0]
  /\ \/ /\ k[1] \in nodes
        /\ edges' = [edges EXCEPT !.opened[k] = @ + graph.files[k]]
        /\ unlinked' = unlinked
     \/ /\ unlinked' = [unlinked EXCEPT !.opened[k] = @ + graph.files[k]]
        /\ edges' = edges
  /\ UNCHANGED <<active, call, house_vars, kafka_vars, nodes, file_cache, net_cache>>

(* The file batch is done, the network cache is drained. *)
DrainNet ==
  /\ graph.at = "files" /\ graph.files = NoCounts
  /\ graph' = [graph EXCEPT !.at = "nets", !.nets = net_cache]
  /\ net_cache' = {}
  /\ UNCHANGED <<active, call, house_vars, kafka_vars, nodes, file_cache, edges, unlinked>>

LinkNet(k) ==
  /\ graph.at = "nets" /\ k \in graph.nets
  /\ graph' = [graph EXCEPT !.nets = @ \ {k}]
  /\ \/ /\ k[1] \in nodes
        /\ edges' = [edges EXCEPT !.connected = @ \cup {k}]
        /\ unlinked' = unlinked
     \/ /\ unlinked' = [unlinked EXCEPT !.connected = @ \cup {k}]
        /\ edges' = edges
  /\ UNCHANGED <<active, call, house_vars, kafka_vars, nodes, file_cache, net_cache>>

GraphSleep ==
  /\ graph.at = "nets" /\ graph.nets = {}
  /\ graph' = [graph EXCEPT !.at = "sleep"]
  /\ UNCHANGED <<active, call, house_vars, kafka_vars, nodes, file_cache, net_cache, edges, unlinked>>

GraphThread ==
  GraphWake \/ DrainNet \/ GraphSleep \/ \E k \in Pairs : LinkFile(k) \/ LinkNet(k)

StoreInit ==
  /\ active \in SUBSET Backends
  /\ call = NoCall
  /\ buffer = <<>> /\ own = <<>> /\ flush = <<>> /\ rows = <<>> /\ failures = {}
  /\ rx = <<>> /\ queue = <<>> /\ handed = <<>> /\ overflow = {}
  /\ nodes = {} /\ file_cache = NoCounts /\ net_cache = {}
  /\ graph = [at |-> "sleep", files |-> NoCounts, nets |-> {}]
  /\ edges = [opened |-> NoCounts, connected |-> {}]
  /\ unlinked = edges

Background == HouseThread \/ Take \/ Acknowledge \/ GraphThread

=============================================================================
