--------------------------------- MODULE Nixl ---------------------------------
(***************************************************************************)
(* The NIXL weight transport: the trainer's ranks stage one group of       *)
(* weights after the other in a few buffers, the inference workers pull    *)
(* them out of the ranks' memory, and all of them agree through READY and  *)
(* INITIALIZING statuses, kept by a ModelExpress server, that carry no     *)
(* version: transports/weights/nixl/nixl.py (sender and receiver),         *)
(* inference/vllm/worker/nixl.py (worker), clients.update_weights.         *)
(*                                                                         *)
(* A piece of weights is the version and the group it was copied from.     *)
(* Which tensor goes into which group, the routing of shards, and the      *)
(* setting up of the agents are left out.  A wait may time out and a pull  *)
(* may fail at any time: whoever waited raises.  The post that called a    *)
(* worker is then repeated, in the middle of the same broadcast.           *)
(***************************************************************************)
EXTENDS Integers, FiniteSets

CONSTANTS
  Rank, Master,
  Serving,      (* the ranks with is_serving_rank                          *)
  Engines,      (* the engines with an admin client: sets of workers       *)
  MaxAttempts,  (* posts of one /update_weights to an engine: 10           *)
  Groups,       (* transfer groups: non_layer and one per layer            *)
  MaxStaging,   (* MAX_STAGING_BUFFER_COUNT                                *)
  MaxVersion,   (* bound: the last version the trainer broadcasts          *)
  Faults        (* whether waits may time out and pulls fail               *)

Worker == UNION Engines
EngineOf(w) == CHOOSE e \in Engines : w \in e

ASSUME NixlAssumption ==
  /\ IsFiniteSet(Rank) /\ Serving \subseteq Rank /\ Master \in Serving
  /\ Engines # {} /\ \A e, f \in Engines : e # {} /\ (e # f => e \cap f = {})
  /\ {"trainer", "orchestrator"} \cap Worker = {} /\ MaxAttempts \in Nat \ {0}
  /\ Groups \in Nat \ {0} /\ MaxStaging \in Nat \ {0} /\ MaxVersion \in Nat
  /\ Faults \in BOOLEAN

Group == 0 .. (Groups - 1)
Version == 0 .. MaxVersion
MaxCount == IF Groups < MaxStaging THEN Groups ELSE MaxStaging
Nothing == <<-1, -1>>
Piece == (Version \X Group) \cup {Nothing}
Status == {"none", "initializing", "ready"}

VARIABLES
  (* the trainer *)
  at,        (* what each rank is about to do or waits for                 *)
  pos,       (* where each rank is in _broadcast: see GroupAt              *)
  version,   (* the policy the ranks hold: they train it together          *)
  buffers,   (* staging_buffer_count, 0 before initialize_transfer         *)
  staging,   (* what each serving rank has in each staging buffer          *)
  (* markers and ModelExpress *)
  offered,   (* newest version with .sender_ready                          *)
  acked,     (* newest version with .receiver_ready                        *)
  table,     (* statuses of the policy session, per role (or worker)       *)
  buf,       (* statuses of the buffer sessions                            *)
  (* the receiver and the engines *)
  receiver,  (* what the orchestrator's NIXLWeightReceiver does            *)
  paused,    (* whether the engines are paused                             *)
  waiting,   (* the engines whose _admin_post has not ended                *)
  posts,     (* how often /update_weights was posted to each in the update *)
  (* the workers *)
  calls,     (* how many of these posts each worker has begun to serve     *)
  doing,     (* what update_weights_from_path does                         *)
  next,      (* the group it works on                                      *)
  count,     (* receive_buffer_count, 0 before initialize_transfer         *)
  pull,      (* the pull under way: its group, step and ranks not yet read *)
  received,  (* what is in each receive buffer, per serving rank           *)
  weights    (* what the model of the worker is made of                    *)

trainerVars == <<at, pos, version, buffers, staging>>
postVars == <<paused, waiting, posts>>
receiverVars == <<receiver, postVars>>
workerVars == <<calls, doing, next, count, pull, received, weights>>
vars == <<trainerVars, offered, acked, table, buf, receiverVars, workerVars>>

NoPull == [group |-> 0, step |-> "none", unread |-> {}]
Blank == [r \in Serving |-> Nothing]

Place == {"offer", "acked", "setup", "publish", "engines", "opened", "stage", "staged", "raise",
          "finish", "drain", "finished", "close", "closing", "end", "done", "failed"}
Progress == {"idle", "await", "fetch", "replay", "acknowledge", "returned", "failed"}
Pull == [group : Group, unread : SUBSET Serving,
         step : {"none", "wanted", "reading", "acked", "done"}]

TypeOK ==
  /\ at \in [Rank -> Place]
  /\ pos \in [Rank -> 0 .. (Groups + MaxCount)]
  /\ version \in Version
  /\ buffers \in 0 .. MaxCount
  /\ staging \in [Serving -> [0 .. (MaxCount - 1) -> Piece]]
  /\ offered \in Version \cup {-1} /\ acked \in Version \cup {-1}
  /\ table \in [{"trainer", "orchestrator"} \cup Worker -> Status]
  /\ buf \in [0 .. (MaxCount - 1) -> [{"trainer"} \cup Worker -> Status]]
  /\ receiver \in {"watch", "announce", "call", "update", "retract", "settle", "failed"}
  /\ paused \in BOOLEAN
  /\ waiting \subseteq Engines /\ posts \in [Engines -> 0 .. MaxAttempts]
  /\ calls \in [Worker -> 0 .. MaxAttempts]
  /\ doing \in [Worker -> Progress]
  /\ next \in [Worker -> 0 .. Groups]
  /\ count \in [Worker -> 0 .. 2]
  /\ pull \in [Worker -> Pull]
  /\ received \in [Worker -> [0 .. 1 -> [Serving -> Piece]]]
  /\ weights \in [Worker -> [Group -> [Serving -> Piece]]]

Init ==
  /\ at = [r \in Rank |-> IF r = Master THEN "offer" ELSE "setup"]
  /\ pos = [r \in Rank |-> 0]
  /\ version = 0
  /\ buffers = 0
  /\ staging = [r \in Serving |-> [b \in 0 .. (MaxCount - 1) |-> Nothing]]
  /\ offered = -1 /\ acked = -1
  /\ table = [p \in {"trainer", "orchestrator"} \cup Worker |->
                IF p = "orchestrator" THEN "initializing" ELSE "none"]
  /\ buf = [b \in 0 .. (MaxCount - 1) |-> [p \in {"trainer"} \cup Worker |-> "none"]]
  /\ receiver = "watch"
  /\ paused = FALSE
  /\ waiting = {} /\ posts = [e \in Engines |-> 0]
  /\ calls = [w \in Worker |-> 0]
  /\ doing = [w \in Worker |-> "idle"]
  /\ next = [w \in Worker |-> 0]
  /\ count = [w \in Worker |-> 0]
  /\ pull = [w \in Worker |-> NoPull]
  /\ received = [w \in Worker |-> [k \in 0 .. 1 |-> Blank]]
  /\ weights = [w \in Worker |-> [g \in Group |-> [r \in Serving |-> Nothing]]]
-----------------------------------------------------------------------------
(* The sender.  A broadcast stages the groups one after the other and then *)
(* finishes the buffers still out: positions 0 .. Groups - 1 are the first *)
(* loop of _broadcast, the rest its second.                                *)
FirstPendingLate == Groups - buffers + 1                             \* mutant
FirstPending == Groups - buffers                       (* first_pending_group *)
GroupAt(i) == IF i < Groups THEN i ELSE FirstPending + (i - Groups)
BufferAt(i) == GroupAt(i) % buffers
LastPosition == Groups + (Groups - FirstPending) - 1

(* What a rank does on coming to position i: the others of a rank's calls  *)
(* to finish_staging_buffer_transfer only wait in its barrier.             *)
From(r, i) ==
  IF i > LastPosition THEN IF r = Master THEN "close" ELSE "end"
  ELSE IF i < buffers THEN "stage"
  ELSE IF r = Master THEN "finish" ELSE "finished"

Begin(r) == IF buffers = 0 THEN "setup" ELSE IF r = Master THEN "publish" ELSE From(r, 0)

Everyone(s, status) == \A w \in Worker : s[w] = status

(* WeightSender.broadcast: the master offers the version and waits.        *)
Offer ==
  /\ at[Master] = "offer"
  /\ offered' = version
  /\ at' = [at EXCEPT ![Master] = "acked"]
  /\ UNCHANGED <<pos, version, buffers, staging, acked, table, buf, receiverVars, workerVars>>

SeeAck ==
  /\ at[Master] = "acked"
  /\ acked = version
  /\ at' = [at EXCEPT ![Master] = Begin(Master)]
  /\ UNCHANGED <<pos, version, buffers, staging, offered, acked, table, buf, receiverVars,
                 workerVars>>

(* initialize_transfer, a collective of all ranks: they agree on a number  *)
(* of staging buffers, and the master publishes the table afterwards.      *)
Setup ==
  /\ \A r \in Rank : at[r] = "setup"
  /\ buffers' \in 1 .. MaxCount
  /\ at' = [r \in Rank |-> IF r = Master THEN "publish" ELSE "stage"]
  /\ UNCHANGED <<pos, version, staging, offered, acked, table, buf, receiverVars, workerVars>>

(* The first broadcast publishes the sessions, INITIALIZING.  Every        *)
(* broadcast opens with the master's READY.                                *)
Published == table["trainer"] # "none"
Open ==
  /\ at[Master] = "publish"
  /\ IF Published
     THEN /\ table' = [table EXCEPT !["trainer"] = "ready"]
          /\ at' = [at EXCEPT ![Master] = "opened"]
          /\ UNCHANGED buf
     ELSE /\ table' = [table EXCEPT !["trainer"] = "initializing"]
          /\ buf' = [b \in DOMAIN buf |->
                       IF b < buffers THEN [buf[b] EXCEPT !["trainer"] = "initializing"]
                       ELSE buf[b]]
          /\ UNCHANGED at
  /\ UNCHANGED <<pos, version, buffers, staging, offered, acked, receiverVars, workerVars>>

AwaitOrchestrator ==
  /\ at[Master] = "opened"
  /\ table["orchestrator"] = "ready"
  /\ at' = [at EXCEPT ![Master] = "engines"]
  /\ UNCHANGED <<pos, version, buffers, staging, offered, acked, table, buf, receiverVars,
                 workerVars>>

AwaitEngines ==
  /\ at[Master] = "engines"
  /\ Everyone(table, "initializing")
  /\ at' = [at EXCEPT ![Master] = From(Master, 0)]
  /\ UNCHANGED <<pos, version, buffers, staging, offered, acked, table, buf, receiverVars,
                 workerVars>>

(* copy_to_staging: only the master has waited for the orchestrator and    *)
(* the engines when the first groups are copied.                           *)
Stage(r) ==
  /\ at[r] = "stage"
  /\ staging' = IF r \in Serving
                THEN [staging EXCEPT ![r][BufferAt(pos[r])] = <<version, GroupAt(pos[r])>>]
                ELSE staging
  /\ at' = [at EXCEPT ![r] = "staged"]
  /\ UNCHANGED <<pos, version, buffers, offered, acked, table, buf, receiverVars, workerVars>>

(* finish_staging_buffer_transfer: every worker has pulled, and every      *)
(* worker has seen that the master knows.                                  *)
DrainedAtOnce(b) == TRUE                                             \* mutant
Drained(b) == Everyone(buf[b], "initializing")
Finish ==
  /\ at[Master] = "finish"
  /\ Everyone(buf[BufferAt(pos[Master])], "ready")
  /\ buf' = [buf EXCEPT ![BufferAt(pos[Master])]["trainer"] = "initializing"]
  /\ at' = [at EXCEPT ![Master] = "drain"]
  /\ UNCHANGED <<pos, version, buffers, staging, offered, acked, table, receiverVars, workerVars>>

Drain ==
  /\ at[Master] = "drain"
  /\ Drained(BufferAt(pos[Master]))
  /\ at' = [at EXCEPT ![Master] = "finished"]
  /\ UNCHANGED <<pos, version, buffers, staging, offered, acked, table, buf, receiverVars,
                 workerVars>>

(* dist.barrier, in finish_staging_buffer_transfer and after the copy.     *)
FinishedBarrier ==
  /\ \A r \in Rank : at[r] = "finished"
  /\ IF pos[Master] < Groups
     THEN at' = [r \in Rank |-> "stage"] /\ UNCHANGED pos
     ELSE /\ pos' = [r \in Rank |-> pos[r] + 1]
          /\ at' = [r \in Rank |-> From(r, pos[r] + 1)]
  /\ UNCHANGED <<version, buffers, staging, offered, acked, table, buf, receiverVars, workerVars>>

StagedBarrier ==
  /\ \A r \in Rank : at[r] = "staged"
  /\ pos' = [r \in Rank |-> IF r = Master THEN pos[r] ELSE pos[r] + 1]
  /\ at' = [r \in Rank |-> IF r = Master THEN "raise" ELSE From(r, pos[r] + 1)]
  /\ UNCHANGED <<version, buffers, staging, offered, acked, table, buf, receiverVars, workerVars>>

(* The master announces the staged group.                                  *)
Raise ==
  /\ at[Master] = "raise"
  /\ buf' = [buf EXCEPT ![BufferAt(pos[Master])]["trainer"] = "ready"]
  /\ pos' = [pos EXCEPT ![Master] = @ + 1]
  /\ at' = [at EXCEPT ![Master] = From(Master, pos[Master] + 1)]
  /\ UNCHANGED <<version, buffers, staging, offered, acked, table, receiverVars, workerVars>>

AwaitApplied ==
  /\ at[Master] = "close"
  /\ Everyone(table, "ready")
  /\ at' = [at EXCEPT ![Master] = "closing"]
  /\ UNCHANGED <<pos, version, buffers, staging, offered, acked, table, buf, receiverVars,
                 workerVars>>

Close ==
  /\ at[Master] = "closing"
  /\ table["orchestrator"] = "initializing"
  /\ table' = [table EXCEPT !["trainer"] = "initializing"]
  /\ at' = [at EXCEPT ![Master] = "end"]
  /\ UNCHANGED <<pos, version, buffers, staging, offered, acked, buf, receiverVars, workerVars>>

(* The last barrier, and the training step behind it.                      *)
EndBarrier ==
  /\ \A r \in Rank : at[r] = "end"
  /\ pos' = [r \in Rank |-> 0]
  /\ IF version < MaxVersion
     THEN /\ version' = version + 1
          /\ at' = [r \in Rank |-> IF r = Master THEN "offer" ELSE Begin(r)]
     ELSE at' = [r \in Rank |-> "done"] /\ UNCHANGED version
  /\ UNCHANGED <<buffers, staging, offered, acked, table, buf, receiverVars, workerVars>>
-----------------------------------------------------------------------------
(* NIXLWeightReceiver.receive, one version after the other.                *)
Ack ==
  /\ receiver = "watch"
  /\ offered > acked
  /\ acked' = offered
  /\ receiver' = "announce"
  /\ UNCHANGED <<trainerVars, offered, table, buf, postVars, workerVars>>

Announce ==
  /\ receiver = "announce"
  /\ table' = [table EXCEPT !["orchestrator"] = "ready"]
  /\ receiver' = "call"
  /\ UNCHANGED <<trainerVars, offered, acked, buf, postVars, workerVars>>

(* update_weights: the engines pause, and each of them is posted the call. *)
Call ==
  /\ receiver = "call"
  /\ paused' = TRUE
  /\ waiting' = Engines
  /\ posts' = [e \in Engines |-> 1]
  /\ calls' = [w \in Worker |-> 0]
  /\ receiver' = "update"
  /\ UNCHANGED <<trainerVars, offered, acked, table, buf, doing, next, count, pull, received,
                 weights>>

(* An engine answers when all of its workers have served the last post.    *)
Served(w) == calls[w] = posts[EngineOf(w)] /\ doing[w] = "returned"
Answer(e) ==
  /\ e \in waiting
  /\ \A w \in e : Served(w)
  /\ waiting' = waiting \ {e}
  /\ UNCHANGED <<trainerVars, offered, acked, table, buf, receiver, paused, posts, workerVars>>

(* _admin_post: a post fails when a worker raises (the server answers 500),*)
(* when the answer is late and when the connection breaks.  It is repeated *)
(* up to MaxAttempts, whatever became of the calls it led to: a worker     *)
(* serves one call after the other.  posts counts the attempts that reach  *)
(* the engine; one that does not is as if it had never been made.          *)
Retry(e) ==
  /\ Faults
  /\ e \in waiting
  /\ posts[e] < MaxAttempts
  /\ posts' = [posts EXCEPT ![e] = @ + 1]
  /\ UNCHANGED <<trainerVars, offered, acked, table, buf, receiver, paused, waiting, workerVars>>

(* No attempt or no time is left, or the error is not retryable.  gather   *)
(* raises with the first, which resumes the engines and takes the receiver *)
(* down; the posts to the other engines go on.                             *)
GiveUp(e) ==
  /\ Faults
  /\ e \in waiting
  /\ waiting' = waiting \ {e}
  /\ paused' = FALSE
  /\ receiver' = "failed"
  /\ UNCHANGED <<trainerVars, offered, acked, table, buf, posts, workerVars>>

Resume ==
  /\ receiver = "update"
  /\ waiting = {}
  /\ paused' = FALSE
  /\ receiver' = "retract"
  /\ UNCHANGED <<trainerVars, offered, acked, table, buf, waiting, posts, workerVars>>

Retract ==
  /\ receiver = "retract"
  /\ table' = [table EXCEPT !["orchestrator"] = "initializing"]
  /\ receiver' = "settle"
  /\ UNCHANGED <<trainerVars, offered, acked, buf, postVars, workerVars>>

Settle ==
  /\ receiver = "settle"
  /\ table["trainer"] = "initializing"
  /\ receiver' = "watch"
  /\ UNCHANGED <<trainerVars, offered, acked, table, buf, postVars, workerVars>>
-----------------------------------------------------------------------------
(* A worker.  Its buffer sessions are INITIALIZING before the policy       *)
(* session is, and nobody looks at them before that.                       *)
Called(w) == doing[w] \in {"idle", "returned", "failed"} /\ calls[w] < posts[EngineOf(w)]
Join(w) ==
  /\ Called(w)
  /\ calls' = [calls EXCEPT ![w] = @ + 1]
  /\ IF count[w] = 0
     THEN /\ Published
          /\ \E n \in 1 .. (IF buffers = 1 THEN 1 ELSE 2) : count' = [count EXCEPT ![w] = n]
          /\ buf' = [b \in DOMAIN buf |->
                       IF b < buffers THEN [buf[b] EXCEPT ![w] = "initializing"] ELSE buf[b]]
     ELSE UNCHANGED <<count, buf>>
  /\ table' = [table EXCEPT ![w] = "initializing"]
  /\ doing' = [doing EXCEPT ![w] = "await"]
  /\ UNCHANGED <<trainerVars, offered, acked, receiverVars, next, pull, received, weights>>

Wanted(g) == [group |-> g, step |-> "wanted", unread |-> Serving]
Pipelined(w) == count[w] > 1

(* apply_transfer_plan starts with the first group, in the prefetch thread *)
(* if there are two receive buffers.                                       *)
Start(w) ==
  /\ doing[w] = "await"
  /\ table["trainer"] = "ready"
  /\ next' = [next EXCEPT ![w] = 0]
  /\ pull' = [pull EXCEPT ![w] = Wanted(0)]
  /\ doing' = [doing EXCEPT ![w] = "fetch"]
  /\ UNCHANGED <<trainerVars, offered, acked, table, buf, receiverVars, calls, count, received,
                 weights>>

(* pull_group: the pieces of the ranks are read one after the other.       *)
SessionOf(g) == g % buffers
SeeStaged(w) ==
  /\ pull[w].step = "wanted"
  /\ buf[SessionOf(pull[w].group)]["trainer"] = "ready"
  /\ pull' = [pull EXCEPT ![w].step = "reading"]
  /\ UNCHANGED <<trainerVars, offered, acked, table, buf, receiverVars, calls, doing, next, count,
                 received, weights>>

Read(w, r) ==
  /\ pull[w].step = "reading"
  /\ r \in pull[w].unread
  /\ received' = [received EXCEPT ![w][pull[w].group % count[w]][r] =
                    staging[r][SessionOf(pull[w].group)]]
  /\ pull' = [pull EXCEPT ![w].unread = @ \ {r}]
  /\ UNCHANGED <<trainerVars, offered, acked, table, buf, receiverVars, calls, doing, next, count,
                 weights>>

(* prefetch_group acknowledges when the group is read, the loop without    *)
(* prefetching when it is replayed.                                        *)
HaveRead(w) == pull[w].step = "reading" /\ pull[w].unread = {}
Pulled(w) ==
  /\ HaveRead(w) /\ ~Pipelined(w)
  /\ pull' = [pull EXCEPT ![w].step = "done"]
  /\ UNCHANGED <<trainerVars, offered, acked, table, buf, receiverVars, calls, doing, next, count,
                 received, weights>>

Acknowledge(w) ==
  /\ \/ HaveRead(w) /\ Pipelined(w) /\ UNCHANGED doing
     \/ doing[w] = "acknowledge" /\ pull[w].step = "done" /\ UNCHANGED doing
  /\ buf' = [buf EXCEPT ![SessionOf(pull[w].group)][w] = "ready"]
  /\ pull' = [pull EXCEPT ![w].step = "acked"]
  /\ UNCHANGED <<trainerVars, offered, acked, table, receiverVars, calls, next, count, received,
                 weights>>

(* What follows a group that is replayed and acknowledged.                 *)
Advance(w) ==
  /\ next' = [next EXCEPT ![w] = @ + 1]
  /\ doing' = [doing EXCEPT ![w] = "fetch"]

SeeFinish(w) ==
  /\ pull[w].step = "acked"
  /\ buf[SessionOf(pull[w].group)]["trainer"] = "initializing"
  /\ buf' = [buf EXCEPT ![SessionOf(pull[w].group)][w] = "initializing"]
  /\ IF Pipelined(w)
     THEN pull' = [pull EXCEPT ![w].step = "done"] /\ UNCHANGED <<doing, next>>
     ELSE /\ Advance(w)
          /\ pull' = [pull EXCEPT ![w] =
                        IF next[w] + 1 < Groups THEN Wanted(next[w] + 1) ELSE NoPull]
  /\ UNCHANGED <<trainerVars, offered, acked, table, receiverVars, calls, count, received, weights>>

(* The loop takes a group, and with prefetching asks for the next one.     *)
Take(w) ==
  /\ doing[w] = "fetch"
  /\ next[w] < Groups
  /\ pull[w].step = "done"
  /\ pull' = IF Pipelined(w)
             THEN [pull EXCEPT ![w] = IF next[w] + 1 < Groups THEN Wanted(next[w] + 1) ELSE NoPull]
             ELSE pull
  /\ doing' = [doing EXCEPT ![w] = "replay"]
  /\ UNCHANGED <<trainerVars, offered, acked, table, buf, receiverVars, calls, next, count,
                 received, weights>>

(* replay_group, up to the synchronize behind it.                          *)
Replay(w) ==
  /\ doing[w] = "replay"
  /\ weights' = [weights EXCEPT ![w][next[w]] = received[w][next[w] % count[w]]]
  /\ IF Pipelined(w) THEN Advance(w)
     ELSE doing' = [doing EXCEPT ![w] = "acknowledge"] /\ UNCHANGED next
  /\ UNCHANGED <<trainerVars, offered, acked, table, buf, receiverVars, calls, count, pull,
                 received>>

AllButOne(w) == next[w] = Groups - 1                                 \* mutant
Replayed(w) == next[w] = Groups
Return(w) ==
  /\ doing[w] = "fetch"
  /\ Replayed(w)
  /\ table' = [table EXCEPT ![w] = "ready"]
  /\ doing' = [doing EXCEPT ![w] = "returned"]
  /\ UNCHANGED <<trainerVars, offered, acked, buf, receiverVars, calls, next, count, pull, received,
                 weights>>
-----------------------------------------------------------------------------
(* Waits that time out and pulls that fail.  A trainer that raises takes   *)
(* all of its ranks with it; a worker's call fails and ends its prefetch.  *)
TrainerRaises ==
  /\ Faults
  /\ at[Master] \in {"acked", "opened", "engines", "finish", "drain", "close", "closing"}
  /\ at' = [r \in Rank |-> "failed"]
  /\ UNCHANGED <<pos, version, buffers, staging, offered, acked, table, buf, receiverVars,
                 workerVars>>

WorkerRaises(w) ==
  /\ Faults
  /\ \/ Called(w) /\ count[w] = 0 /\ calls' = [calls EXCEPT ![w] = @ + 1]
     \/ doing[w] \in {"await", "fetch", "acknowledge"} /\ UNCHANGED calls
  /\ doing' = [doing EXCEPT ![w] = "failed"]
  /\ pull' = [pull EXCEPT ![w] = NoPull]
  /\ UNCHANGED <<trainerVars, offered, acked, table, buf, receiverVars, next, count, received,
                 weights>>

ReceiverRaises ==
  /\ Faults
  /\ receiver = "settle"
  /\ receiver' = "failed"
  /\ UNCHANGED <<trainerVars, offered, acked, table, buf, postVars, workerVars>>
-----------------------------------------------------------------------------
Sender ==
  \/ Offer \/ SeeAck \/ Setup \/ Open \/ AwaitOrchestrator \/ AwaitEngines
  \/ \E r \in Rank : Stage(r)
  \/ Finish \/ Drain \/ FinishedBarrier \/ StagedBarrier \/ Raise
  \/ AwaitApplied \/ Close \/ EndBarrier

Receiver ==
  \/ Ack \/ Announce \/ Call \/ (\E e \in Engines : Answer(e)) \/ Resume \/ Retract \/ Settle

Updating(w) ==
  \/ Join(w) \/ Start(w) \/ SeeStaged(w) \/ (\E r \in Serving : Read(w, r)) \/ Pulled(w)
  \/ Acknowledge(w) \/ SeeFinish(w) \/ Take(w) \/ Replay(w) \/ Return(w)

Raises ==
  \/ \E e \in Engines : Retry(e) \/ GiveUp(e)
  \/ TrainerRaises \/ ReceiverRaises \/ \E w \in Worker : WorkerRaises(w)

Next == Sender \/ Receiver \/ (\E w \in Worker : Updating(w)) \/ Raises

Spec == Init /\ [][Next]_vars

(* Every process is a thread of its own and runs on while it can.          *)
FairSpec ==
  /\ Spec
  /\ WF_vars(Sender) /\ \A r \in Rank : WF_vars(Stage(r))
  /\ WF_vars(Receiver)
  /\ \A w \in Worker : WF_vars(Updating(w)) /\ WF_vars(Take(w) \/ Replay(w) \/ Return(w))
-----------------------------------------------------------------------------
(* Nothing is overwritten while it is read.  While a worker pulls a group, *)
(* every rank keeps one and the same group of the present version in the   *)
(* staging buffer, although the other ranks copy the first groups of the   *)
(* next version before the master has shaken hands (nixl.py:434-444).  It  *)
(* is the group asked for in a worker's first call of the broadcast; and   *)
(* while that call replays a group, its receive buffer holds all of it,    *)
(* although the next pull has begun (worker/nixl.py:618-628).              *)
FirstCall(w) == calls[w] = 1
TransfersHold ==
  \A w \in Worker :
    /\ pull[w].step = "reading" => \E g \in Group :
         /\ SessionOf(g) = SessionOf(pull[w].group)
         /\ FirstCall(w) => g = pull[w].group
         /\ \A r \in Serving : staging[r][SessionOf(g)] = <<acked, g>>
    /\ doing[w] = "replay" /\ FirstCall(w) => \A r \in Serving :
         received[w][next[w] % count[w]][r] = <<acked, next[w]>>

(* The same of every call: not so, a worker called again in the middle of  *)
(* a broadcast starts with the first group and takes for it the one that   *)
(* has since been staged in its buffer (clients.py:262-279,                *)
(* worker/nixl.py:507-563).                                                *)
CallsHold ==
  \A w \in Worker, r \in Serving :
    pull[w].step = "reading" =>
      staging[r][SessionOf(pull[w].group)] = <<acked, pull[w].group>>

(* Engines that run hold one whole version, the same on every worker and   *)
(* from every rank, unless the update has failed: then they are resumed    *)
(* with what they have, and the receiver takes the run down                *)
(* (clients.py:322-338).                                                   *)
WholeWeights ==
  ~paused /\ receiver # "failed" =>
    \E v \in Version \cup {-1} : \A w \in Worker, g \in Group, r \in Serving :
      weights[w][g][r] = IF v = -1 THEN Nothing ELSE <<v, g>>

(* Unless a wait times out or a pull fails, every version is broadcast and *)
(* the engines run the last one: the statuses, which name no version, are  *)
(* never mistaken for those of another round (nixl.py:394-472).            *)
Failed ==
  \/ receiver = "failed" \/ at[Master] = "failed"
  \/ \E w \in Worker : doing[w] = "failed"
  \/ \E e \in Engines : posts[e] > 1
BroadcastsEnd ==
  <>(Failed \/ (at[Master] = "done" /\ receiver = "watch" /\ acked = MaxVersion))
=============================================================================
