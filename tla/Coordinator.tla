---------------------------- MODULE Coordinator ----------------------------
(***************************************************************************)
(* The coordinator process with its connection threads, the worker         *)
(* processes that report to it, and clients that query it.  The coordinator *)
(* owns one observatory: its threads take the steps of Observatory, and    *)
(* its restart loads the history file.                                     *)
(*                                                                         *)
(* A worker process is a boot: a pair of a worker id and a boot id.  Every *)
(* client has one connection.  TCP delivers the frames of a connection in  *)
(* order; the death of a client may lose a suffix of them.  A process that *)
(* is killed takes no further step, and neither does a worker whose        *)
(* coordinator is gone: every frame it still sends fails.                  *)
(*                                                                         *)
(* Between a thread taking the save mutex g_save and releasing it, saver   *)
(* holds the copy it writes; the guard of SaveSnapshot is that mutex.      *)
(***************************************************************************)
EXTENDS Observatory

CONSTANTS
    Boots,     \* worker processes, records [worker, boot, mode, stay]
    Probes,    \* query clients
    Strays,    \* clients that send one observation without a Hello
    Rounds,    \* how often the modes active and retry repeat an execution
    id_span    \* the literal 1000000 of the id base

ASSUME ClientsAssumption ==
    /\ Boots \subseteq [worker : Nat \ {0}, boot : Nat,
                        mode : {"active", "idle", "retry", "reserved", "stranded", "once"},
                        stay : BOOLEAN]
    /\ Probes \subseteq [query : Nat]
    /\ Strays \subseteq [id : Nat, epoch : Nat, source : Nat, boot : Nat]
ASSUME RoundsAssumption == Rounds \in Nat /\ id_span \in Nat

VARIABLES
    up,       \* how far the coordinator's main has come: "load", "advance" or "serving"
    conn,     \* client -> its connection thread
    wire,     \* client -> frames sent and not yet received by the thread
    eof,      \* clients that have closed their side
    worker    \* boot -> the worker process

Clients == Boots \cup Probes \cup Strays

netVars == <<up, conn, wire, eof, worker>>
allVars == <<vars, netVars>>

Hello == [kind |-> "Hello"]
Obs(o) == [kind |-> "Observation", obs |-> o]
Query == [kind |-> "Query"]
Close == [kind |-> "Close"]

(* Plausible bug: the counters are read before the window. *)
MutAnswerSwapped(first, second) == [window |-> second, accepted |-> first]

(* What the first and the second read of a query saw, by the number of     *)
(* observations accepted at the time.                                      *)
Answer(first, second) == [window |-> first, accepted |-> second]

NoConn == [pc |-> "none", source |-> 0, then |-> "recv", seen |-> 0, reply |-> [window |-> 0, accepted |-> 0]]
NewConn == [NoConn EXCEPT !.pc = "recv"]

StartWorker == [pc |-> "start", epoch |-> 1, counter |-> 0]

CoordinatorInit ==
    /\ Init
    /\ up = "advance"
    /\ conn = [c \in Clients |-> NoConn]
    /\ wire = [c \in Clients |-> <<>>]
    /\ eof = {}
    /\ worker = [b \in Boots |-> StartWorker]

-----------------------------------------------------------------------------
(***************************************************************************)
(* main: load the file if there is one, advance the epoch, serve.          *)
(***************************************************************************)
StartLoad ==
    /\ up = "load"
    /\ Load
    /\ up' = IF historical_mode /\ ~historical_mode' THEN "advance" ELSE "load"
    /\ UNCHANGED <<conn, wire, eof, worker>>

Serve ==
    /\ up = "advance"
    /\ advance_epoch
    /\ up' = "serving"
    /\ UNCHANGED <<conn, wire, eof, worker>>

(* Plausible bug: a restarted coordinator does not look for the file. *)
MutStartsFresh(f) == "advance"

FirstStep(f) == IF f.exists THEN "load" ELSE "advance"

(* The process is killed and started again: memory and connections are     *)
(* gone and the file stays, unless it had been removed to make room for    *)
(* the one being written.                                                  *)
Restart ==
    /\ epoch' = InitialEpoch
    /\ ClearMemory
    /\ saver' = [pc |-> "idle", obs |-> <<>>]
    /\ loader' = [pc |-> "idle", obs |-> <<>>, next |-> 1, st |-> "Ok"]
    /\ file' \in {file} \cup (IF saver.pc = "writing" THEN {NoFile} ELSE {})
    /\ up' = FirstStep(file')
    /\ conn' = [c \in Clients |-> IF conn[c].pc = "none" THEN NoConn ELSE [NoConn EXCEPT !.pc = "done"]]
    /\ wire' = [c \in Clients |-> <<>>]
    /\ worker' = [b \in Boots |-> IF worker[b].pc = "start" THEN worker[b]
                                  ELSE [worker[b] EXCEPT !.pc = "gone"]]
    /\ UNCHANGED eof

-----------------------------------------------------------------------------
(***************************************************************************)
(* The connection thread of client c.                                      *)
(***************************************************************************)
Receives(c, kind) ==
    /\ conn[c].pc = "recv"
    /\ wire[c] # <<>> /\ Head(wire[c]).kind = kind
    /\ wire' = [wire EXCEPT ![c] = Tail(@)]

HelloInfo(b) == [id |-> b.worker, generation |-> 1, boot |-> b.boot, capabilities |-> {},
                 last_observation |-> 0]

(* Register the source and answer with the epoch. *)
RecvHello(c) ==
    /\ Receives(c, "Hello")
    /\ register_source(HelloInfo(c))
    /\ conn' = [conn EXCEPT ![c].source = c.worker]
    /\ worker' = [worker EXCEPT ![c].pc = IF @ = "hello" THEN "running" ELSE @,
                                ![c].epoch = epoch]
    /\ UNCHANGED <<up, eof>>

RecvObservation(c) ==
    /\ Receives(c, "Observation")
    /\ ingest(Head(wire[c]).obs)
    /\ UNCHANGED <<up, conn, eof, worker>>

(* A query reads the window of the device first ... *)
RecvQuery(c) ==
    /\ Receives(c, "Query")
    /\ ReadOnly
    /\ conn' = [conn EXCEPT ![c].pc = "reply", ![c].seen = health["accepted"]]
    /\ UNCHANGED <<up, eof, worker>>

(* ... and the counters in a call of their own, before which other       *)
(* threads may ingest; then it answers and saves the history.              *)
Reply(c) ==
    /\ conn[c].pc = "reply"
    /\ ReadOnly
    /\ conn' = [conn EXCEPT ![c].pc = "save", ![c].then = "recv",
                            ![c].reply = Answer(conn[c].seen, health["accepted"])]
    /\ UNCHANGED <<up, wire, eof, worker>>

(* Plausible bug: a connection that breaks without Close is not noticed. *)
MutEndsOnClose(c) == Receives(c, "Close")

(* The receive loop ends at a Close frame or when the peer is gone and     *)
(* everything it sent has been received.                                   *)
Ends(c) ==
    \/ Receives(c, "Close")
    \/ conn[c].pc = "recv" /\ wire[c] = <<>> /\ c \in eof /\ UNCHANGED wire

(* Plausible bug: the source of the connection stays connected. *)
MutLeaveKeepsSource(c) ==
    /\ Ends(c)
    /\ conn' = [conn EXCEPT ![c].pc = "save", ![c].then = "done"]
    /\ UNCHANGED <<vars, up, eof, worker>>

(* Plausible bug: the thread ends without saving. *)
MutLeaveWithoutSave(c) ==
    /\ Ends(c)
    /\ conn' = [conn EXCEPT ![c].pc = "done"]
    /\ IF conn[c].source # 0 THEN mark_source_disconnected(conn[c].source, 0)
                             ELSE UNCHANGED vars
    /\ UNCHANGED <<up, eof, worker>>

(* The loop is left, the source of the connection goes down. *)
Leave(c) ==
    /\ Ends(c)
    /\ conn' = [conn EXCEPT ![c].pc = "save", ![c].then = "done"]
    /\ IF conn[c].source # 0 THEN mark_source_disconnected(conn[c].source, 0)
                             ELSE UNCHANGED vars
    /\ UNCHANGED <<up, eof, worker>>

(* Take g_save and copy the history. *)
Copy(c) ==
    /\ conn[c].pc = "save"
    /\ SaveSnapshot
    /\ conn' = [conn EXCEPT ![c].pc = "write"]
    /\ UNCHANGED <<up, wire, eof, worker>>

(* Write the copy, or fail, and release g_save. *)
Write(c) ==
    /\ conn[c].pc = "write"
    /\ SaveReplaces \/ SaveFails \/ SaveLosesFile
    /\ conn' = [conn EXCEPT ![c].pc = conn[c].then]
    /\ UNCHANGED <<up, wire, eof, worker>>

Thread(c) ==
    /\ up = "serving"
    /\ (c \in Boots /\ RecvHello(c)) \/ RecvObservation(c) \/ RecvQuery(c) \/ Reply(c) \/ Leave(c)
       \/ Copy(c) \/ Write(c)

-----------------------------------------------------------------------------
(***************************************************************************)
(* The clients.                                                            *)
(***************************************************************************)
Dial(c, frames) ==
    /\ up = "serving" /\ conn[c].pc = "none"
    /\ conn' = [conn EXCEPT ![c] = NewConn]
    /\ wire' = [wire EXCEPT ![c] = frames]

Connect(b) ==
    /\ worker[b].pc = "start"
    /\ Dial(b, <<Hello>>)
    /\ worker' = [worker EXCEPT ![b].pc = "hello"]
    /\ UNCHANGED <<vars, up, eof>>

ObservationId(b, n) == b.worker * id_span + n

Interval(begin, end, st) == <<[type |-> begin, state |-> st], [type |-> end, state |-> st]>>

Executions(n, st) ==
    [i \in 1..(2 * n) |-> Interval("ExecutionBegin", "ExecutionEnd", st)[2 - (i % 2)]]

(* What a worker reports, by its mode. *)
Script(b) ==
    CASE b.mode = "active"   -> Executions(Rounds, "UsefulExecution")
      [] b.mode = "idle"     -> <<[type |-> "DeviceSample", state |-> "Unknown"]>>
      [] b.mode = "retry"    -> Executions(Rounds, "RetryExecution")
                                \o Executions(Rounds, "UsefulExecution")
      [] b.mode = "reserved" -> Interval("ReservationBegin", "ReservationEnd", "ReservedIdle")
      [] b.mode = "stranded" -> <<[type |-> "FragmentationObserved",
                                   state |-> "FragmentationStranded"]>>
      [] b.mode = "once"     -> Executions(1, "UsefulExecution")

(* The n-th observation of boot b; ticks advance with every observation, *)
(* and percent and sizes are tokens for the literals of the code.          *)
WorkerObservation(b, e, n) ==
    LET step == Script(b)[n + 1]
    IN  [id |-> ObservationId(b, n), epoch |-> e,
         type |-> step.type, begin |-> n, end |-> n,
         source |-> b.worker, source_generation |-> 1, worker_boot |-> b.boot,
         device |-> 1, device_generation |-> 1, workload |-> 0, workload_generation |-> 0,
         evidence |-> 0, evidence_generation |-> 0, scope |-> 0,
         state |-> step.state, classification |-> "Unknown", device_state |-> "Unknown",
         ratio |-> 0, percent |-> IF b.mode = "idle" THEN 5 ELSE 0,
         bytes |-> IF b.mode = "stranded" THEN 12 ELSE 0,
         capacity_bytes |-> IF b.mode = "stranded" THEN 32 ELSE 0]

HasMore(b) == worker[b].counter < Len(Script(b))

(* Plausible bug: the counter is not advanced. *)
MutSendsAgain(b) ==
    /\ worker[b].pc = "running" /\ HasMore(b)
    /\ wire' = [wire EXCEPT ![b] = Append(@, Obs(
                  WorkerObservation(b, worker[b].epoch, worker[b].counter)))]
    /\ UNCHANGED <<vars, up, conn, eof, worker>>

SendObservation(b) ==
    /\ worker[b].pc = "running" /\ HasMore(b)
    /\ wire' = [wire EXCEPT ![b] = Append(@, Obs(
                  WorkerObservation(b, worker[b].epoch, worker[b].counter)))]
    /\ worker' = [worker EXCEPT ![b].counter = @ + 1]
    /\ UNCHANGED <<vars, up, conn, eof>>

(* A worker that was told to stay ends after a minute without a Close. *)
Finish(b) ==
    /\ worker[b].pc = "running" /\ ~HasMore(b)
    /\ wire' = [wire EXCEPT ![b] = IF b.stay /\ b.mode # "once" THEN @ ELSE Append(@, Close)]
    /\ worker' = [worker EXCEPT ![b].pc = "gone"]
    /\ eof' = eof \cup {b}
    /\ UNCHANGED <<vars, up, conn>>

(* A worker process dies; frames that were on their way may be lost. *)
Die(b) ==
    /\ worker[b].pc \in {"hello", "running"}
    /\ \E n \in 0..Len(wire[b]) : wire' = [wire EXCEPT ![b] = SubSeq(@, 1, n)]
    /\ worker' = [worker EXCEPT ![b].pc = "gone"]
    /\ eof' = eof \cup {b}
    /\ UNCHANGED <<vars, up, conn>>

Ask(q) ==
    /\ Dial(q, <<Query, Close>>)
    /\ eof' = eof \cup {q}
    /\ UNCHANGED <<vars, up, worker>>

(* One sample under a name, a boot and an epoch the client was given. *)
make_client_obs(q) ==
    [WorkerObservation([worker |-> q.source, boot |-> q.boot, mode |-> "idle"], q.epoch, 0)
        EXCEPT !.id = q.id, !.begin = 90000, !.end = 90000, !.state = "UsefulExecution",
               !.percent = 10]

send_observation(q) ==
    /\ Dial(q, <<Obs(make_client_obs(q)), Close>>)
    /\ eof' = eof \cup {q}
    /\ UNCHANGED <<vars, up, worker>>

(* The observations and descriptors of Observatory include what the        *)
(* clients of a serving coordinator send it.                               *)
ASSUME UniverseAssumption ==
    /\ 0 \in Ticks
    /\ \A b \in Boots :
          /\ HelloInfo(b) \in SourceInfos
          /\ \A n \in 0..(Len(Script(b)) - 1) :
                WorkerObservation(b, InitialEpoch + 1, n) \in Observations
    /\ \A q \in Strays : make_client_obs(q) \in Observations

ClientStep ==
    \/ \E b \in Boots : Connect(b) \/ SendObservation(b) \/ Finish(b) \/ Die(b)
    \/ \E q \in Probes : Ask(q)
    \/ \E q \in Strays : send_observation(q)

Startup == StartLoad \/ Serve

CoordinatorNext == Startup \/ Restart \/ (\E c \in Clients : Thread(c)) \/ ClientStep

(* The operating system schedules main and every connection thread.        *)
Fairness == WF_allVars(Startup) /\ \A c \in Clients : WF_allVars(Thread(c))

CoordinatorSpec == CoordinatorInit /\ [][CoordinatorNext]_allVars /\ Fairness

-----------------------------------------------------------------------------
Serving(c) == conn[c].pc \notin {"none", "done"}

(* When no connection is being served, the file holds the whole history,   *)
(* whatever order the threads ended, copied and wrote in, and a restart    *)
(* has brought it back, unless a save failed or a load stopped.            *)
HistoryOnDisk ==
    up = "serving" /\ (\A c \in Clients : ~Serving(c))
    /\ health["persist_errors"] = 0 /\ loader.st = "Ok"
        => file.obs = history

IsPrefixOf(a, b) == Len(a) <= Len(b) /\ a = SubSeq(b, 1, Len(a))

(* What is on disk is only ever added to: across restarts, crashes in the  *)
(* middle of a save and threads that save one after another, no file gives *)
(* way to one that lacks an observation it had, as long as this run of the *)
(* coordinator has loaded the whole file and has not had to drop anything. *)
HistoryNeverShrinks ==
    [][file.exists /\ file'.exists /\ health["dropped"] = 0 /\ loader.st = "Ok"
          => IsPrefixOf(file.obs, file'.obs)]_allVars

(* As long as only workers that said Hello have reported, a source counts  *)
(* as connected only while a thread that registered it is receiving: no    *)
(* source outlives its connections, however boots of one worker overlap    *)
(* and whatever late frames take its authority over.                       *)
NoPhantomSource ==
    up = "serving" /\ (\A q \in Strays : conn[q].pc = "none") =>
        \A s \in DOMAIN sources :
            sources[s].connected => \E c \in Clients : conn[c].pc = "recv" /\ conn[c].source = s

(* A reply never reports the time of more observations than it counts,     *)
(* although its parts are read at different moments.                       *)
RepliesInOrder == \A q \in Probes : conn[q].reply.window <= conn[q].reply.accepted

(* A worker's observation is dropped as a duplicate only if another boot   *)
(* of the worker had its turn first: ids start over at every boot, and a   *)
(* boot loses at most as many observations as an earlier one reported.     *)
OnlyAnotherBootCollides ==
    [][\A b \in Boots :
          health'["duplicates"] > health["duplicates"] /\ RecvObservation(b)
            => \E i \in DOMAIN history :
                  /\ history[i].id = Head(wire[b]).obs.id
                  /\ history[i].source = b.worker /\ history[i].worker_boot # b.boot]_allVars

(***************************************************************************)
(* What makes the properties above inductive.                              *)
(***************************************************************************)
Reports(b) == {o \in Observations : o.source = b.worker /\ o.worker_boot = b.boot}

(* The frames a client may have on their way. *)
FramesOf(c) ==
    {Close} \cup (IF c \in Boots THEN {Hello} \cup {Obs(o) : o \in Reports(c)} ELSE {})
            \cup (IF c \in Probes THEN {Query} ELSE {})
            \cup (IF c \in Strays THEN {Obs(make_client_obs(c))} ELSE {})

ThreadStates == [pc : {"none", "recv", "reply", "save", "write", "done"}, source : Nat,
                 then : {"recv", "done"}, seen : Nat, reply : [window : Nat, accepted : Nat]]

WorkerStates == [pc : {"start", "hello", "running", "gone"}, epoch : Nat, counter : Nat]

NetTypeOK ==
    /\ up \in {"load", "advance", "serving"}
    /\ conn \in [Clients -> ThreadStates]
    /\ DOMAIN wire = Clients /\ \A c \in Clients : wire[c] \in Seq(FramesOf(c))
    /\ eof \subseteq Clients
    /\ worker \in [Boots -> WorkerStates]

(* The epoch is the second one of the run while the coordinator serves,    *)
(* and a worker that runs has been told so.                                *)
EpochsAgree ==
    /\ epoch = IF up = "serving" THEN InitialEpoch + 1 ELSE InitialEpoch
    /\ \A b \in Boots : worker[b].pc = "running" => worker[b].epoch = InitialEpoch + 1

(* Threads exist only while the coordinator serves, a load only before,    *)
(* and a save is some thread's.                                            *)
MainInOrder ==
    /\ up # "serving" => \A c \in Clients : ~Serving(c)
    /\ historical_mode => up = "load"
    /\ saver.pc = "writing" => \E c \in Clients : conn[c].pc = "write"

(* Only workers register a source, their own, and a worker reports only on *)
(* a connection on which it is registered.                                 *)
HelloFirst ==
    /\ \A c \in Clients : conn[c].source # 0 => c \in Boots /\ conn[c].source = c.worker
    /\ \A b \in Boots :
          /\ conn[b].source # 0 \/ wire[b] \in {<<>>, <<Hello>>}
          /\ worker[b].pc = "running" => conn[b].source # 0

(* Before the coordinator serves all sources are down; then each that is   *)
(* up has its thread.                                                      *)
SourcesServed ==
    (\A q \in Strays : conn[q].pc = "none") /\ ~historical_mode =>
        \A s \in DOMAIN sources :
            sources[s].connected =>
                /\ up = "serving" /\ s # 0
                /\ \E c \in Clients : conn[c].pc = "recv" /\ conn[c].source = s

(* What the first read of a query saw is no more than there is now. *)
ReadsInOrder ==
    \A c \in Clients :
        /\ conn[c].reply.window <= conn[c].reply.accepted
        /\ conn[c].pc = "reply" => conn[c].seen <= health["accepted"]

(* A load works on the file as it is; before the coordinator serves, a     *)
(* load that went through has brought it all back.                         *)
FileLoaded ==
    /\ ~file.exists => file.obs = <<>>
    /\ up = "load" /\ loader.pc # "idle" => loader.obs = file.obs
    /\ up = "advance" /\ loader.st = "Ok" => history = file.obs

WillCopy(c) ==
    conn[c].pc \in {"recv", "reply", "save"} \/ (conn[c].pc = "write" /\ conn[c].then = "recv")

(* What the file holds, or will hold when the write in progress is over. *)
Newest == IF saver.pc = "writing" THEN saver.obs ELSE file.obs

(* Whatever is not on disk has a thread that is yet to copy it. *)
NothingForgotten ==
    up = "serving" /\ health["persist_errors"] = 0 /\ loader.st = "Ok"
        => Newest = history \/ \E c \in Clients : WillCopy(c)

(* The file, the copy being written and the history extend one another. *)
CopiesExtend ==
    up = "serving" /\ health["dropped"] = 0 /\ loader.st = "Ok"
        => IsPrefixOf(file.obs, Newest) /\ IsPrefixOf(Newest, history)

CoordinatorInv ==
    /\ TypeOK /\ ReplayInv /\ NetTypeOK
    /\ EpochsAgree /\ MainInOrder /\ HelloFirst
    /\ SourcesServed /\ ReadsInOrder
    /\ FileLoaded /\ NothingForgotten /\ CopiesExtend

(* Every connection whose client has closed or died is given up in the     *)
(* end, and for good.                                                      *)
ConnectionsEnd == <>[](\A c \in Clients : Serving(c) => c \notin eof)

(* A boot that holds the authority of its worker and is still being served *)
(* is connected, so that its observations are not turned away.             *)
FreshBootHeard ==
    \A b \in Boots :
        conn[b].pc = "recv" /\ conn[b].source # 0 /\ sources[b.worker].boot = b.boot
            => sources[b.worker].connected
=============================================================================
