------------------------- MODULE Coordinator_proofs -------------------------
(***************************************************************************)
(* Theorems about Coordinator, for every set of worker boots and clients,  *)
(* every length of a worker's script and every configuration.              *)
(***************************************************************************)
EXTENDS Coordinator, Observatory_proofs

(* Workers, query clients and stray clients are different processes. *)
LEMMA Disjoint == Boots \cap (Probes \cup Strays) = {}
<1>1. \A b \in Boots : DOMAIN b = {"worker", "boot", "mode", "stay"}
  BY ClientsAssumption
<1>2. \A q \in Probes : DOMAIN q = {"query"}
  BY ClientsAssumption
<1>3. \A q \in Strays : DOMAIN q = {"id", "epoch", "source", "boot"}
  BY ClientsAssumption
<1> QED BY <1>1, <1>2, <1>3

(* A list of executions is a sequence. *)
LEMMA ExecutionsSeq ==
    ASSUME NEW n \in Nat, NEW st
    PROVE  Executions(n, st) \in Seq({Executions(n, st)[i] : i \in 1..(2 * n)})
<1> DEFINE e == Executions(n, st)
<1>1. 2 * n \in Nat /\ DOMAIN e = 1..(2 * n)
  BY DEF Executions
<1>2. e \in [1..(2 * n) -> {e[i] : i \in 1..(2 * n)}]
  BY DEF Executions
<1> HIDE DEF e
<1>3. e \in Seq({e[i] : i \in 1..(2 * n)})
  BY <1>1, <1>2, SMTT(30)
<1> QED BY <1>3 DEF e

(* Every worker has a finite number of things to report. *)
LEMMA ScriptLength == ASSUME NEW b \in Boots PROVE Len(Script(b)) \in Nat
<1>1. b.mode \in {"active", "idle", "retry", "reserved", "stranded", "once"}
  BY ClientsAssumption
<1>2. Rounds \in Nat
  BY RoundsAssumption
<1>3. CASE b.mode = "active"
  <2>1. Len(Executions(Rounds, "UsefulExecution")) \in Nat
    BY <1>2, ExecutionsSeq, LenProperties
  <2> QED BY <1>3, <2>1 DEF Script
<1>4. CASE b.mode = "once"
  <2>1. Len(Executions(1, "UsefulExecution")) \in Nat
    BY ExecutionsSeq, LenProperties
  <2> QED BY <1>4, <2>1 DEF Script
<1>5. CASE b.mode = "retry"
  <2> DEFINE r == Executions(Rounds, "RetryExecution")
             u == Executions(Rounds, "UsefulExecution")
             R == {r[i] : i \in 1..(2 * Rounds)}
             U == {u[i] : i \in 1..(2 * Rounds)}
  <2>1. r \in Seq(R) /\ u \in Seq(U)
    BY <1>2, ExecutionsSeq
  <2> HIDE DEF r, u, R, U
  <2>2. r \in Seq(R \cup U) /\ u \in Seq(R \cup U)
    BY <2>1
  <2>3. Len(r \o u) \in Nat
    BY <2>2
  <2> QED BY <1>5, <2>3 DEF Script, r, u
<1>6. CASE b.mode \in {"idle", "reserved", "stranded"}
  BY <1>6 DEF Script, Interval
<1> QED BY <1>1, <1>3, <1>4, <1>5, <1>6

-----------------------------------------------------------------------------
(***************************************************************************)
(* A thread takes steps of the observatory; a restart empties it.          *)
(***************************************************************************)
(* What a thread receives was sent by its client. *)
LEMMA ReceivedFrame ==
    ASSUME NetTypeOK, NEW c \in Clients, NEW kind, Receives(c, kind)
    PROVE  Head(wire[c]) \in FramesOf(c) /\ Tail(wire[c]) \in Seq(FramesOf(c))
BY DEF NetTypeOK, Receives

(* An observation a thread receives is a worker's own or a stray client's. *)
LEMMA ReceivedObservation ==
    ASSUME NetTypeOK, NEW c \in Clients, Receives(c, "Observation")
    PROVE  /\ Head(wire[c]).obs \in Observations
           /\ \/ c \in Boots /\ Head(wire[c]).obs \in Reports(c)
              \/ c \in Strays
<1>1. Head(wire[c]) \in FramesOf(c) /\ Head(wire[c]).kind = "Observation"
  BY ReceivedFrame DEF Receives
<1>2. \/ c \in Boots /\ \E o \in Reports(c) : Head(wire[c]) = Obs(o)
      \/ c \in Strays /\ Head(wire[c]) = Obs(make_client_obs(c))
  BY <1>1 DEF FramesOf, Hello, Query, Close
<1>3. CASE c \in Boots /\ \E o \in Reports(c) : Head(wire[c]) = Obs(o)
  <2>1. PICK o \in Reports(c) : Head(wire[c]) = Obs(o)
    BY <1>3
  <2>2. Head(wire[c]).obs = o
    BY <2>1 DEF Obs
  <2> QED BY <1>3, <2>1, <2>2 DEF Reports
<1>4. CASE c \in Strays /\ Head(wire[c]) = Obs(make_client_obs(c))
  <2>1. Head(wire[c]).obs = make_client_obs(c)
    BY <1>4 DEF Obs
  <2> QED BY <1>4, <2>1, UniverseAssumption
<1> QED BY <1>2, <1>3, <1>4

(* Every step of the coordinator and its clients but a restart is a step   *)
(* of the observatory or leaves it alone.                                  *)
LEMMA CoreStep ==
    ASSUME NetTypeOK, [CoordinatorNext]_allVars
    PROVE  [Next]_vars \/ Restart
<1>1. CASE Startup
  BY <1>1 DEF Startup, StartLoad, Serve, Next, Call
<1>2. ASSUME NEW c \in Clients, Thread(c) PROVE [Next]_vars
  <2>1. CASE c \in Boots /\ RecvHello(c)
    <3>1. HelloInfo(c) \in SourceInfos /\ register_source(HelloInfo(c))
      BY <2>1, UniverseAssumption DEF RecvHello
    <3> QED BY <3>1 DEF Next, Call
  <2>2. CASE RecvObservation(c)
    <3>1. Head(wire[c]).obs \in Observations /\ ingest(Head(wire[c]).obs)
      BY <2>2, ReceivedObservation DEF RecvObservation
    <3> QED BY <3>1 DEF Next, Call
  <2>3. CASE RecvQuery(c) \/ Reply(c)
    BY <2>3 DEF RecvQuery, Reply, Next
  <2>4. CASE Leave(c)
    <3>1. mark_source_disconnected(conn[c].source, 0) \/ UNCHANGED vars
      BY <2>4 DEF Leave
    <3>2. CASE mark_source_disconnected(conn[c].source, 0)
      <4>1. conn[c].source \in DOMAIN sources /\ 0 \in Ticks
        BY <3>2, UniverseAssumption DEF mark_source_disconnected
      <4> QED BY <3>2, <4>1 DEF Next, Call
    <3> QED BY <3>1, <3>2
  <2>5. CASE Copy(c) \/ Write(c)
    BY <2>5 DEF Copy, Write, Next, Save
  <2> QED BY <1>2, <2>1, <2>2, <2>3, <2>4, <2>5 DEF Thread
<1>3. CASE ClientStep
  BY <1>3 DEF ClientStep, Connect, SendObservation, Finish, Die, Ask, send_observation
<1>4. CASE UNCHANGED allVars
  BY <1>4 DEF allVars
<1> QED BY <1>1, <1>2, <1>3, <1>4 DEF CoordinatorNext

(* A restart leaves a well-typed observatory ... *)
LEMMA RestartType == ASSUME TypeOK, Restart PROVE TypeOK'
<1>1. IsMap(EmptyMap, Nat, SourceStates) /\ IsMap(EmptyMap, Nat, DeviceAccums)
      /\ IsGens(EmptyMap)
  BY EmptyMapType DEF IsGens
<1>2. ZeroHealth \in [HealthCounters -> Nat]
  BY DEF ZeroHealth
<1>3. file' = file \/ file' = NoFile
  BY DEF Restart
<1>4. file' \in [exists : BOOLEAN, obs : Seq(Observations)]
  <2>1. file \in [exists : BOOLEAN, obs : Seq(Observations)]
    BY DEF TypeOK
  <2>2. NoFile \in [exists : BOOLEAN, obs : Seq(Observations)]
    BY DEF NoFile
  <2> QED BY <1>3, <2>1, <2>2, Zenon
<1>5. saver' \in SaverStates /\ loader' \in LoaderStates
  BY DEF Restart, SaverStates, LoaderStates, Statuses
<1> QED BY <1>1, <1>2, <1>4, <1>5, ConfigAssumption
    DEF Restart, ClearMemory, ClearGens, ClearIds, ClearDevices, ClearHistory, TypeOK

(* ... that satisfies the invariant of the ledger and of the replay ... *)
LEMMA RestartKeeps == ASSUME ReplayInv, Restart PROVE ReplayInv'
<1>1. Committed(file.obs) /\ Committed(<<>>)
  BY EmptyCommitted DEF ReplayInv, CommittedEverywhere
<1>2. /\ history' = <<>> /\ health' = ZeroHealth
      /\ saver'.obs = <<>> /\ loader'.obs = <<>> /\ file'.obs \in {file.obs, <<>>}
  BY DEF Restart, ClearMemory, ClearHistory, NoFile
<1>3. CommittedEverywhere'
  BY <1>1, <1>2 DEF CommittedEverywhere
<1>4. LedgerBalances' /\ MarksCoverHistory'
  BY <1>2, ConfigAssumption DEF LedgerBalances, MarksCoverHistory, ZeroHealth, HealthCounters
<1>5. LoadPosition' /\ ReplayNeverStale'
  BY DEF Restart, LoadPosition, ReplayNeverStale, historical_mode
<1> QED BY <1>3, <1>4, <1>5 DEF ReplayInv

(* ... and is a crash of the ledger. *)
LEMMA RestartCrashes == ASSUME Restart PROVE L!Crash
<1>1. file'.obs \in {file.obs, <<>>}
  BY DEF Restart, NoFile
<1> QED BY <1>1 DEF Restart, ClearMemory, ClearHistory, L!Crash, historical_mode

-----------------------------------------------------------------------------
(***************************************************************************)
(* Threads, frames and workers.                                            *)
(***************************************************************************)
(* Receiving a frame leaves the rest of what is on its way. *)
LEMMA ReceiveType ==
    ASSUME NetTypeOK, NEW c \in Clients, NEW kind, Receives(c, kind)
    PROVE  DOMAIN wire' = Clients /\ \A d \in Clients : wire'[d] \in Seq(FramesOf(d))
<1>1. Tail(wire[c]) \in Seq(FramesOf(c))
  BY ReceivedFrame
<1> QED BY <1>1 DEF NetTypeOK, Receives

(* So does sending one the client may send. *)
LEMMA SendType ==
    ASSUME NetTypeOK, NEW c \in Clients, NEW f \in FramesOf(c),
           wire' = [wire EXCEPT ![c] = Append(@, f)]
    PROVE  DOMAIN wire' = Clients /\ \A d \in Clients : wire'[d] \in Seq(FramesOf(d))
<1>1. Append(wire[c], f) \in Seq(FramesOf(c))
  BY AppendProperties DEF NetTypeOK
<1> QED BY <1>1 DEF NetTypeOK

(* A connection starts with frames its client may send. *)
LEMMA DialType ==
    ASSUME NetTypeOK, NEW c \in Clients, NEW frames \in Seq(FramesOf(c)), Dial(c, frames)
    PROVE  /\ conn' \in [Clients -> ThreadStates]
           /\ DOMAIN wire' = Clients /\ \A d \in Clients : wire'[d] \in Seq(FramesOf(d))
<1>1. NewConn \in ThreadStates
  BY DEF NewConn, NoConn, ThreadStates
<1> QED BY <1>1 DEF NetTypeOK, Dial

(* What a running worker sends is one of its reports. *)
LEMMA WorkerReports ==
    ASSUME NetTypeOK, EpochsAgree, NEW b \in Boots, worker[b].pc = "running", HasMore(b)
    PROVE  Obs(WorkerObservation(b, worker[b].epoch, worker[b].counter)) \in FramesOf(b)
<1> DEFINE o == WorkerObservation(b, worker[b].epoch, worker[b].counter)
<1>1. worker[b].epoch = InitialEpoch + 1 /\ worker[b].counter \in Nat
  BY DEF EpochsAgree, NetTypeOK, WorkerStates
<1>2. worker[b].counter \in 0..(Len(Script(b)) - 1)
  BY <1>1, ScriptLength DEF HasMore
<1>3. o \in Observations
  BY <1>1, <1>2, UniverseAssumption
<1>4. o.source = b.worker /\ o.worker_boot = b.boot
  BY DEF WorkerObservation
<1> HIDE DEF o
<1>5. o \in Reports(b)
  BY <1>3, <1>4 DEF Reports
<1> QED BY <1>5 DEF FramesOf, o

(* Every step keeps the types of the network. *)
LEMMA NetTypeStep ==
    ASSUME TypeOK, NetTypeOK, EpochsAgree, [CoordinatorNext]_allVars
    PROVE  NetTypeOK'
<1>0. /\ epoch \in Nat /\ health["accepted"] \in Nat
      /\ up \in {"load", "advance", "serving"} /\ eof \subseteq Clients
      /\ conn \in [Clients -> ThreadStates] /\ worker \in [Boots -> WorkerStates]
      /\ DOMAIN wire = Clients /\ \A c \in Clients : wire[c] \in Seq(FramesOf(c))
      /\ Boots \subseteq Clients
  BY DEF TypeOK, NetTypeOK, HealthCounters, Clients
<1>1. CASE StartLoad \/ Serve
  BY <1>0, <1>1 DEF StartLoad, Serve, NetTypeOK
<1>2. CASE Restart
  <2>1. conn' \in [Clients -> ThreadStates]
    <3>1. conn' = [c \in Clients |-> IF conn[c].pc = "none" THEN NoConn
                                     ELSE [NoConn EXCEPT !.pc = "done"]]
      BY <1>2 DEF Restart
    <3>2. NoConn \in ThreadStates /\ [NoConn EXCEPT !.pc = "done"] \in ThreadStates
      BY DEF NoConn, ThreadStates
    <3> QED BY <3>1, <3>2
  <2>2. worker' \in [Boots -> WorkerStates]
    <3>1. worker' = [b \in Boots |-> IF worker[b].pc = "start" THEN worker[b]
                                     ELSE [worker[b] EXCEPT !.pc = "gone"]]
      BY <1>2 DEF Restart
    <3>2. \A b \in Boots : /\ worker[b] \in WorkerStates
                           /\ [worker[b] EXCEPT !.pc = "gone"] \in WorkerStates
      BY <1>0 DEF WorkerStates
    <3> QED BY <3>1, <3>2
  <2>3. wire' = [c \in Clients |-> <<>>] /\ up' \in {"load", "advance"} /\ eof' = eof
    BY <1>2 DEF Restart, FirstStep
  <2> QED BY <1>0, <2>1, <2>2, <2>3 DEF NetTypeOK
<1>3. ASSUME NEW c \in Clients, Thread(c) PROVE NetTypeOK'
  <2>1. CASE c \in Boots /\ RecvHello(c)
    <3>1. c.worker \in Nat
      BY <2>1, ClientsAssumption
    <3>2. conn' \in [Clients -> ThreadStates]
      BY <1>0, <2>1, <3>1, ZenonT(30) DEF RecvHello, ThreadStates
    <3>3. worker' \in [Boots -> WorkerStates]
      BY <1>0, <2>1, ZenonT(30) DEF RecvHello, WorkerStates
    <3>4. DOMAIN wire' = Clients /\ \A d \in Clients : wire'[d] \in Seq(FramesOf(d))
      BY <2>1, ReceiveType DEF RecvHello
    <3> QED BY <1>0, <2>1, <3>2, <3>3, <3>4 DEF RecvHello, NetTypeOK
  <2>2. CASE RecvObservation(c)
    <3>1. DOMAIN wire' = Clients /\ \A d \in Clients : wire'[d] \in Seq(FramesOf(d))
      BY <2>2, ReceiveType DEF RecvObservation
    <3> QED BY <1>0, <2>2, <3>1 DEF RecvObservation, NetTypeOK
  <2>3. CASE RecvQuery(c)
    <3>1. DOMAIN wire' = Clients /\ \A d \in Clients : wire'[d] \in Seq(FramesOf(d))
      BY <2>3, ReceiveType DEF RecvQuery
    <3>2. conn' \in [Clients -> ThreadStates]
      BY <1>0, <2>3, ZenonT(30) DEF RecvQuery, ThreadStates
    <3> QED BY <1>0, <2>3, <3>1, <3>2 DEF RecvQuery, NetTypeOK
  <2>4. CASE Reply(c)
    <3>1. Answer(conn[c].seen, health["accepted"]) \in [window : Nat, accepted : Nat]
      BY <1>0 DEF Answer, ThreadStates
    <3>2. PICK r \in [window : Nat, accepted : Nat] :
             conn' = [conn EXCEPT ![c].pc = "save", ![c].then = "recv", ![c].reply = r]
      BY <2>4, <3>1 DEF Reply
    <3>3. [conn[c] EXCEPT !.pc = "save", !.then = "recv", !.reply = r] \in ThreadStates
      BY <1>0, ZenonT(30) DEF ThreadStates
    <3>4. conn' \in [Clients -> ThreadStates]
      BY <1>0, <3>2, <3>3
    <3> QED BY <1>0, <2>4, <3>4 DEF Reply, NetTypeOK
  <2>5. CASE Leave(c)
    <3>1. DOMAIN wire' = Clients /\ \A d \in Clients : wire'[d] \in Seq(FramesOf(d))
      BY <1>0, <2>5, ReceiveType DEF Leave, Ends
    <3>2. conn' \in [Clients -> ThreadStates]
      BY <1>0, <2>5, ZenonT(30) DEF Leave, ThreadStates
    <3> QED BY <1>0, <2>5, <3>1, <3>2 DEF Leave, NetTypeOK
  <2>6. CASE Copy(c)
    <3>1. conn' \in [Clients -> ThreadStates]
      BY <1>0, <2>6, ZenonT(30) DEF Copy, ThreadStates
    <3> QED BY <1>0, <2>6, <3>1 DEF Copy, NetTypeOK
  <2>7. CASE Write(c)
    <3>1. conn' \in [Clients -> ThreadStates]
      BY <1>0, <2>7, ZenonT(30) DEF Write, ThreadStates
    <3> QED BY <1>0, <2>7, <3>1 DEF Write, NetTypeOK
  <2> QED BY <1>3, <2>1, <2>2, <2>3, <2>4, <2>5, <2>6, <2>7 DEF Thread
<1>4. ASSUME NEW b \in Boots, Connect(b) PROVE NetTypeOK'
  <2>1. <<Hello>> \in Seq(FramesOf(b)) /\ b \in Clients
    BY <1>0 DEF FramesOf
  <2>2. worker' \in [Boots -> WorkerStates]
    BY <1>0, <1>4 DEF Connect, WorkerStates
  <2> QED BY <1>0, <1>4, <2>1, <2>2, DialType DEF Connect, NetTypeOK
<1>5. ASSUME NEW b \in Boots, SendObservation(b) PROVE NetTypeOK'
  <2>1. DOMAIN wire' = Clients /\ \A d \in Clients : wire'[d] \in Seq(FramesOf(d))
    BY <1>0, <1>5, WorkerReports, SendType DEF SendObservation
  <2>2. worker' \in [Boots -> WorkerStates]
    BY <1>0, <1>5 DEF SendObservation, WorkerStates
  <2> QED BY <1>0, <1>5, <2>1, <2>2 DEF SendObservation, NetTypeOK
<1>6. ASSUME NEW b \in Boots, Finish(b) PROVE NetTypeOK'
  <2>1. Close \in FramesOf(b)
    BY DEF FramesOf
  <2>2. DOMAIN wire' = Clients /\ \A d \in Clients : wire'[d] \in Seq(FramesOf(d))
    <3>1. CASE wire' = [wire EXCEPT ![b] = Append(@, Close)]
      BY <1>0, <2>1, <3>1, SendType
    <3>2. CASE wire' = [wire EXCEPT ![b] = @]
      BY <1>0, <3>2
    <3> QED BY <1>6, <3>1, <3>2 DEF Finish
  <2>3. worker' \in [Boots -> WorkerStates]
    BY <1>0, <1>6 DEF Finish, WorkerStates
  <2> QED BY <1>0, <1>6, <2>2, <2>3 DEF Finish, NetTypeOK
<1>7. ASSUME NEW b \in Boots, Die(b) PROVE NetTypeOK'
  <2>1. PICK n \in 0..Len(wire[b]) : wire' = [wire EXCEPT ![b] = SubSeq(@, 1, n)]
    BY <1>7 DEF Die
  <2>2. SubSeq(wire[b], 1, n) \in Seq(FramesOf(b))
    BY <1>0
  <2>3. DOMAIN wire' = Clients /\ \A d \in Clients : wire'[d] \in Seq(FramesOf(d))
    BY <1>0, <2>1, <2>2
  <2>4. worker' \in [Boots -> WorkerStates]
    BY <1>0, <1>7 DEF Die, WorkerStates
  <2> QED BY <1>0, <1>7, <2>3, <2>4 DEF Die, NetTypeOK
<1>8. ASSUME NEW q \in Probes, Ask(q) PROVE NetTypeOK'
  <2>1. <<Query, Close>> \in Seq(FramesOf(q)) /\ q \in Clients
    BY DEF FramesOf, Clients
  <2> QED BY <1>0, <1>8, <2>1, DialType DEF Ask, NetTypeOK
<1>9. ASSUME NEW q \in Strays, send_observation(q) PROVE NetTypeOK'
  <2>1. <<Obs(make_client_obs(q)), Close>> \in Seq(FramesOf(q)) /\ q \in Clients
    BY DEF FramesOf, Clients
  <2> QED BY <1>0, <1>9, <2>1, DialType DEF send_observation, NetTypeOK
<1>10. CASE UNCHANGED allVars
  BY <1>0, <1>10 DEF allVars, netVars, NetTypeOK
<1> QED BY <1>1, <1>2, <1>3, <1>4, <1>5, <1>6, <1>7, <1>8, <1>9, <1>10
        DEF CoordinatorNext, Startup, ClientStep

(* Threads run only while the coordinator serves, and do not load. *)
LEMMA ThreadFrame ==
    ASSUME NEW c \in Clients, Thread(c)
    PROVE  up = "serving" /\ UNCHANGED <<up, epoch, loader, eof>>
BY DEF Thread, RecvHello, RecvObservation, RecvQuery, Reply, Leave, Copy, Write, ReadOnly,
       register_source, ingest, mark_source_disconnected, SaveSnapshot, SaveReplaces, SaveFails,
       SaveLosesFile, vars

(* main does not touch connections, workers or saves. *)
LEMMA StartupFrame ==
    ASSUME Startup
    PROVE  up # "serving" /\ UNCHANGED <<conn, wire, eof, worker, file, saver>>
BY DEF Startup, StartLoad, Serve, advance_epoch, Load, LoadParse, LoadClear, LoadStep, LoadReturns

(* A client opens its connection or leaves it alone. *)
LEMMA ClientFrame ==
    ASSUME ClientStep
    PROVE  /\ UNCHANGED <<vars, up>>
           /\ \/ UNCHANGED conn
              \/ \E c \in Clients : /\ up = "serving" /\ conn[c].pc = "none"
                                    /\ conn' = [conn EXCEPT ![c] = NewConn]
BY DEF ClientStep, Connect, SendObservation, Finish, Die, Ask, send_observation, Dial, Clients

(* The epoch follows main, and workers are told the current one. *)
LEMMA EpochStep ==
    ASSUME TypeOK, NetTypeOK, EpochsAgree, [CoordinatorNext]_allVars
    PROVE  EpochsAgree'
<1>0. worker \in [Boots -> WorkerStates] /\ up \in {"load", "advance", "serving"}
      /\ InitialEpoch \in Nat
  BY ConfigAssumption DEF NetTypeOK
<1>1. CASE StartLoad
  BY <1>1 DEF StartLoad, Load, LoadParse, LoadClear, LoadStep, LoadReturns, EpochsAgree
<1>2. CASE Serve
  BY <1>0, <1>2 DEF Serve, advance_epoch, EpochsAgree
<1>3. CASE Restart
  <2>1. \A b \in Boots : worker'[b].pc # "running"
    BY <1>0, <1>3 DEF Restart, WorkerStates
  <2> QED BY <1>3, <2>1 DEF Restart, FirstStep, EpochsAgree
<1>4. ASSUME NEW c \in Clients, Thread(c) PROVE EpochsAgree'
  <2>1. up' = "serving" /\ up = "serving" /\ epoch' = epoch
    BY <1>4, ThreadFrame
  <2>2. epoch = InitialEpoch + 1
    BY <2>1 DEF EpochsAgree
  <2>3. \A b \in Boots : worker'[b].pc = "running" => worker'[b].epoch = InitialEpoch + 1
    <3>1. CASE c \in Boots /\ RecvHello(c)
      BY <1>0, <2>2, <3>1 DEF RecvHello, WorkerStates, EpochsAgree
    <3>2. CASE worker' = worker
      BY <3>2 DEF EpochsAgree
    <3> QED BY <1>4, <3>1, <3>2
            DEF Thread, RecvObservation, RecvQuery, Reply, Leave, Copy, Write
  <2> QED BY <2>1, <2>2, <2>3 DEF EpochsAgree
<1>5. CASE ClientStep
  <2>1. up' = up /\ epoch' = epoch
    BY <1>5, ClientFrame DEF vars
  <2>2. \A b \in Boots : worker'[b].pc = "running" =>
           worker[b].pc = "running" /\ worker'[b].epoch = worker[b].epoch
    <3>1. ASSUME NEW b \in Boots, Connect(b) \/ SendObservation(b) \/ Finish(b) \/ Die(b)
          PROVE  \/ worker' = [worker EXCEPT ![b].pc = "hello"]
                 \/ worker' = [worker EXCEPT ![b].counter = @ + 1]
                 \/ worker' = [worker EXCEPT ![b].pc = "gone"]
      BY <3>1 DEF Connect, SendObservation, Finish, Die
    <3>2. CASE \E b \in Boots : \/ worker' = [worker EXCEPT ![b].pc = "hello"]
                               \/ worker' = [worker EXCEPT ![b].counter = @ + 1]
                               \/ worker' = [worker EXCEPT ![b].pc = "gone"]
      BY <1>0, <3>2 DEF WorkerStates
    <3>3. CASE UNCHANGED worker
      BY <3>3
    <3> QED BY <1>5, <3>1, <3>2, <3>3 DEF ClientStep, Ask, send_observation
  <2> QED BY <2>1, <2>2 DEF EpochsAgree
<1>6. CASE UNCHANGED allVars
  BY <1>6 DEF allVars, netVars, vars, EpochsAgree
<1> QED BY <1>1, <1>2, <1>3, <1>4, <1>5, <1>6 DEF CoordinatorNext, Startup

(* Threads, loads and saves keep to their part of main. *)
LEMMA MainStep ==
    ASSUME TypeOK, NetTypeOK, MainInOrder, [CoordinatorNext]_allVars
    PROVE  MainInOrder'
<1>0. conn \in [Clients -> ThreadStates] /\ saver \in SaverStates
  BY DEF NetTypeOK, TypeOK
<1>1. CASE Startup
  <2>1. up # "serving" /\ conn' = conn /\ saver' = saver
    BY <1>1, StartupFrame
  <2>2. historical_mode' => up' = "load"
    BY <1>1 DEF Startup, StartLoad, Serve, advance_epoch, Unlocked, historical_mode
  <2> QED BY <2>1, <2>2 DEF MainInOrder, Serving
<1>2. CASE Restart
  <2>1. \A c \in Clients : conn'[c].pc \in {"none", "done"}
    BY <1>2 DEF Restart, NoConn
  <2>2. saver'.pc = "idle" /\ loader'.pc = "idle"
    BY <1>2 DEF Restart
  <2> QED BY <2>1, <2>2 DEF MainInOrder, Serving, historical_mode
<1>3. ASSUME NEW c \in Clients, Thread(c) PROVE MainInOrder'
  <2>1. up' = "serving" /\ up = "serving" /\ loader' = loader
    BY <1>3, ThreadFrame
  <2>2. saver'.pc = "writing" => \E d \in Clients : conn'[d].pc = "write"
    <3>1. CASE Copy(c)
      BY <1>0, <3>1 DEF Copy, ThreadStates
    <3>2. CASE Write(c)
      BY <3>2 DEF Write, SaveReplaces, SaveFails, SaveLosesFile, SaveReturns
    <3>3. CASE ~Copy(c) /\ ~Write(c)
      <4>1. saver' = saver
        BY <1>3, <3>3 DEF Thread, RecvHello, RecvObservation, RecvQuery, Reply, Leave, ReadOnly,
             register_source, ingest, mark_source_disconnected, vars
      <4>2. \A d \in Clients : conn[d].pc = "write" => conn'[d].pc = "write"
        BY <1>0, <1>3, <3>3 DEF Thread, RecvHello, RecvObservation, RecvQuery, Reply, Leave,
             Ends, Receives, ThreadStates
      <4> QED BY <4>1, <4>2 DEF MainInOrder
    <3> QED BY <3>1, <3>2, <3>3
  <2> QED BY <2>1, <2>2 DEF MainInOrder, historical_mode
<1>4. CASE ClientStep
  <2>1. /\ UNCHANGED <<up, loader, saver>>
        /\ \/ UNCHANGED conn
           \/ \E c \in Clients : /\ up = "serving" /\ conn[c].pc = "none"
                                 /\ conn' = [conn EXCEPT ![c] = NewConn]
    BY <1>4, ClientFrame DEF vars
  <2>2. \A d \in Clients : conn[d].pc = "write" => conn'[d].pc = "write"
    BY <1>0, <2>1
  <2> QED BY <2>1, <2>2 DEF MainInOrder, Serving, historical_mode
<1>5. CASE UNCHANGED allVars
  BY <1>5 DEF allVars, netVars, vars, MainInOrder, Serving, historical_mode
<1> QED BY <1>1, <1>2, <1>3, <1>4, <1>5 DEF CoordinatorNext

(* A worker is registered on its connection before it reports there. *)
LEMMA HelloStep ==
    ASSUME NetTypeOK, HelloFirst, [CoordinatorNext]_allVars
    PROVE  HelloFirst'
<1>0. /\ conn \in [Clients -> ThreadStates] /\ worker \in [Boots -> WorkerStates]
      /\ DOMAIN wire = Clients /\ \A c \in Clients : wire[c] \in Seq(FramesOf(c))
      /\ Boots \subseteq Clients
  BY DEF NetTypeOK, Clients
<1>1. CASE Startup
  BY <1>1, StartupFrame DEF HelloFirst
<1>2. CASE Restart
  <2>1. \A c \in Clients : conn'[c].source = 0 /\ wire'[c] = <<>>
    BY <1>2 DEF Restart, NoConn
  <2>2. \A b \in Boots : worker'[b].pc # "running"
    BY <1>0, <1>2 DEF Restart, WorkerStates
  <2> QED BY <1>0, <2>1, <2>2 DEF HelloFirst
<1>3. ASSUME NEW c \in Clients, c \in Boots /\ RecvHello(c) PROVE HelloFirst'
  <2>1. c.worker # 0
    BY <1>3, ClientsAssumption
  <2>2. conn' = [conn EXCEPT ![c].source = c.worker]
    BY <1>3 DEF RecvHello
  <2>3. conn'[c].source = c.worker /\ \A d \in Clients : d # c => conn'[d] = conn[d]
    BY <1>0, <2>2 DEF ThreadStates
  <2>4. \A d \in Boots : d # c => wire'[d] = wire[d] /\ worker'[d] = worker[d]
    BY <1>0, <1>3 DEF RecvHello, Receives
  <2> QED BY <1>0, <1>3, <2>1, <2>3, <2>4 DEF HelloFirst
<1>4. ASSUME NEW c \in Clients, NEW kind, Receives(c, kind), kind # "Hello", c \in Boots
      PROVE  conn[c].source # 0
  BY <1>4 DEF Receives, HelloFirst, Hello
<1>5. ASSUME NEW c \in Clients, ~(c \in Boots /\ RecvHello(c)), Thread(c) PROVE HelloFirst'
  <2>1. \A d \in Clients : conn'[d].source = conn[d].source
    BY <1>0, <1>5 DEF Thread, RecvObservation, RecvQuery, Reply, Leave, Copy, Write, ThreadStates
  <2>2. worker' = worker
    BY <1>5 DEF Thread, RecvObservation, RecvQuery, Reply, Leave, Copy, Write
  <2>3. \A d \in Boots : conn[d].source # 0 \/ wire'[d] = wire[d]
    <3>1. CASE wire' = wire
      BY <3>1
    <3>2. ASSUME NEW kind, Receives(c, kind), kind # "Hello"
          PROVE  \A d \in Boots : conn[d].source # 0 \/ wire'[d] = wire[d]
      BY <1>0, <1>4, <3>2 DEF Receives
    <3> QED BY <1>5, <3>1, <3>2
            DEF Thread, RecvObservation, RecvQuery, Reply, Leave, Ends, Copy, Write
  <2> QED BY <1>0, <2>1, <2>2, <2>3 DEF HelloFirst
<1>6. ASSUME NEW b \in Boots, Connect(b) PROVE HelloFirst'
  <2>1. conn' = [conn EXCEPT ![b] = NewConn] /\ wire' = [wire EXCEPT ![b] = <<Hello>>]
        /\ worker' = [worker EXCEPT ![b].pc = "hello"]
    BY <1>6 DEF Connect, Dial
  <2>2. /\ conn'[b].source = 0 /\ \A d \in Clients : d # b => conn'[d] = conn[d]
        /\ wire'[b] = <<Hello>> /\ \A d \in Clients : d # b => wire'[d] = wire[d]
        /\ worker'[b].pc = "hello" /\ \A d \in Boots : d # b => worker'[d] = worker[d]
    BY <1>0, <2>1 DEF NewConn, NoConn, WorkerStates
  <2> QED BY <1>0, <2>2 DEF HelloFirst
<1>7. ASSUME NEW b \in Boots, SendObservation(b) \/ Finish(b) PROVE HelloFirst'
  <2>1. conn[b].source # 0 /\ conn' = conn
    BY <1>7 DEF SendObservation, Finish, HelloFirst
  <2>2. \A d \in Boots : d # b => wire'[d] = wire[d] /\ worker'[d] = worker[d]
    BY <1>0, <1>7 DEF SendObservation, Finish
  <2> QED BY <1>0, <2>1, <2>2 DEF HelloFirst
<1>8. ASSUME NEW b \in Boots, Die(b) PROVE HelloFirst'
  <2>1. PICK n \in 0..Len(wire[b]) : wire' = [wire EXCEPT ![b] = SubSeq(@, 1, n)]
    BY <1>8 DEF Die
  <2>2. conn' = conn /\ worker' = [worker EXCEPT ![b].pc = "gone"]
    BY <1>8 DEF Die
  <2>3. wire[b] \in {<<>>, <<Hello>>} => SubSeq(wire[b], 1, n) \in {<<>>, <<Hello>>}
    <3>1. CASE wire[b] = <<>>
      BY <3>1
    <3>2. CASE wire[b] = <<Hello>>
      <4>1. n = 0 \/ n = 1
        BY <3>2
      <4>2. SubSeq(<<Hello>>, 1, 0) = <<>>
        BY SubSeqEmpty
      <4>3. <<Hello>> \in Seq({Hello}) /\ Len(<<Hello>>) = 1
        OBVIOUS
      <4>4. SubSeq(<<Hello>>, 1, 1) = <<Hello>>
        BY <4>3, SubSeqFull
      <4> QED BY <3>2, <4>1, <4>2, <4>4
    <3> QED BY <3>1, <3>2
  <2>4. /\ wire'[b] = SubSeq(wire[b], 1, n) /\ \A d \in Boots : d # b => wire'[d] = wire[d]
        /\ worker'[b].pc = "gone" /\ \A d \in Boots : d # b => worker'[d] = worker[d]
    BY <1>0, <2>1, <2>2 DEF WorkerStates
  <2> QED BY <1>0, <2>2, <2>3, <2>4 DEF HelloFirst
<1>9. ASSUME NEW q \in Probes \cup Strays, NEW frames, Dial(q, frames), worker' = worker
      PROVE  HelloFirst'
  <2>1. q \in Clients /\ q \notin Boots
    BY Disjoint DEF Clients
  <2>2. conn'[q].source = 0 /\ \A d \in Clients : d # q => conn'[d] = conn[d] /\ wire'[d] = wire[d]
    BY <1>0, <1>9, <2>1 DEF Dial, NewConn, NoConn
  <2> QED BY <1>0, <1>9, <2>1, <2>2 DEF HelloFirst
<1>10. CASE UNCHANGED allVars
  BY <1>10 DEF allVars, netVars, HelloFirst
<1> QED BY <1>1, <1>2, <1>3, <1>5, <1>6, <1>7, <1>8, <1>9, <1>10
        DEF CoordinatorNext, ClientStep, Ask, send_observation

-----------------------------------------------------------------------------
(***************************************************************************)
(* Sources and their threads.                                              *)
(***************************************************************************)
(* An observation connects no source but its own. *)
LEMMA IngestConnects ==
    ASSUME NEW o, NEW st, ingest_locked(o, st),
           NEW s \in DOMAIN sources', sources'[s].connected
    PROVE  s = o.source \/ (s \in DOMAIN sources /\ sources[s].connected)
<1>1. \/ UNCHANGED sources
      \/ \E src : sources' = Put(sources, o.source, src)
  BY DEF ingest_locked, RejectEpoch, RejectAuthority, RejectDisconnected, RejectDevice,
         RejectWorkload, RejectEvidence, RejectDuplicate, RejectMalformed, Accept, Admit
<1> QED BY <1>1 DEF Put

(* Clients do not take back a connection. *)
LEMMA ConnectionsOpen ==
    ASSUME NetTypeOK, [CoordinatorNext]_allVars, NEW q \in Clients, conn'[q].pc = "none"
    PROVE  conn[q].pc = "none"
<1>0. conn \in [Clients -> ThreadStates]
  BY DEF NetTypeOK
<1>1. CASE Startup \/ UNCHANGED allVars
  BY <1>1, StartupFrame DEF allVars, netVars
<1>2. CASE Restart
  BY <1>2 DEF Restart, NoConn
<1>3. ASSUME NEW c \in Clients, Thread(c) PROVE conn[q].pc = "none"
  <2>1. CASE q # c
    BY <1>0, <1>3, <2>1 DEF Thread, RecvHello, RecvObservation, RecvQuery, Reply, Leave, Copy, Write
  <2>2. CASE q = c
    <3>1. conn[c] \in ThreadStates
      BY <1>0
    <3>2. conn'[c].pc # "none" \/ conn'[c].pc = conn[c].pc
      BY <1>0, <1>3, <3>1 DEF Thread, RecvHello, RecvObservation, RecvQuery, Reply, Leave, Copy,
                        Write, ThreadStates
    <3> QED BY <2>2, <3>2
  <2> QED BY <2>1, <2>2
<1>4. CASE ClientStep
  <2>1. UNCHANGED conn \/ \E c \in Clients : conn' = [conn EXCEPT ![c] = NewConn]
    BY <1>4, ClientFrame
  <2> QED BY <1>0, <2>1 DEF NewConn, NoConn
<1> QED BY <1>1, <1>2, <1>3, <1>4 DEF CoordinatorNext

(* While no stray client has connected, a connected source has a thread    *)
(* that receives for it.                                                   *)
LEMMA ServedStep ==
    ASSUME TypeOK, NetTypeOK, EpochsAgree, MainInOrder, HelloFirst, SourcesServed,
           [CoordinatorNext]_allVars
    PROVE  SourcesServed'
<1> SUFFICES ASSUME \A q \in Strays : conn'[q].pc = "none", ~historical_mode',
                    NEW s \in DOMAIN sources', sources'[s].connected
             PROVE  /\ up' = "serving" /\ s # 0
                    /\ \E d \in Clients : conn'[d].pc = "recv" /\ conn'[d].source = s
  BY DEF SourcesServed
<1>0. conn \in [Clients -> ThreadStates]
  BY DEF NetTypeOK
<1>1. \A q \in Strays : conn[q].pc = "none"
  BY ConnectionsOpen DEF Clients
<1>2. ASSUME ~historical_mode, s \in DOMAIN sources, sources[s].connected
      PROVE  /\ up = "serving" /\ s # 0
             /\ \E d \in Clients : conn[d].pc = "recv" /\ conn[d].source = s
  BY <1>1, <1>2 DEF SourcesServed
<1>3. CASE StartLoad
  <2>1. up # "serving"
    BY <1>3 DEF StartLoad
  <2>2. CASE LoadReturns
    BY <2>2 DEF LoadReturns, NeedsRevalidation, TypeOK, IsMap, SourceStates
  <2>3. CASE LoadParse
    <3>1. sources' = sources /\ ~historical_mode
      BY <2>3 DEF LoadParse, historical_mode
    <3> QED BY <1>2, <2>1, <3>1
  <2>4. ~LoadClear
    BY DEF LoadClear, historical_mode, TypeOK, LoaderStates
  <2>5. ~LoadStep
    BY DEF LoadStep, Replaying, historical_mode, TypeOK, LoaderStates
  <2> QED BY <1>3, <2>2, <2>3, <2>4, <2>5 DEF StartLoad, Load
<1>4. CASE Serve
  <2>1. sources' = sources /\ ~historical_mode /\ up # "serving"
    BY <1>4 DEF Serve, advance_epoch, Unlocked
  <2> QED BY <1>2, <2>1
<1>5. CASE Restart
  BY <1>5 DEF Restart, ClearMemory, EmptyMap
<1>6. ASSUME NEW c \in Clients, Thread(c)
      PROVE  /\ up' = "serving" /\ s # 0
             /\ \E d \in Clients : conn'[d].pc = "recv" /\ conn'[d].source = s
  <2>0. up' = "serving" /\ up = "serving" /\ ~historical_mode
    BY <1>6, ThreadFrame DEF historical_mode
  <2>1. CASE c \in Boots /\ RecvHello(c)
    <3>1. /\ conn' = [conn EXCEPT ![c].source = c.worker] /\ conn[c].pc = "recv"
          /\ c.worker # 0
      BY <2>1, ClientsAssumption DEF RecvHello, Receives
    <3>2. conn'[c].pc = "recv" /\ conn'[c].source = c.worker
          /\ \A d \in Clients : d # c => conn'[d] = conn[d]
      BY <1>0, <3>1 DEF ThreadStates
    <3>3. sources' = Put(sources, c.worker, sources'[c.worker])
      BY <2>1 DEF RecvHello, register_source, HelloInfo, Put
    <3>4. CASE s = c.worker
      BY <2>0, <3>1, <3>2, <3>4
    <3>5. CASE s # c.worker
      <4>1. s \in DOMAIN sources /\ sources[s].connected
        BY <3>3, <3>5 DEF Put
      <4>2. PICK d \in Clients : conn[d].pc = "recv" /\ conn[d].source = s /\ s # 0
        BY <1>2, <2>0, <4>1
      <4>3. d # c
        BY <3>5, <4>2 DEF HelloFirst
      <4> QED BY <2>0, <3>2, <4>2, <4>3
    <3> QED BY <3>4, <3>5
  <2>2. CASE RecvObservation(c)
    <3>1. /\ Receives(c, "Observation") /\ conn' = conn /\ conn[c].pc = "recv"
          /\ \E st \in Statuses : ingest_locked(Head(wire[c]).obs, st)
      BY <2>2 DEF RecvObservation, Receives, ingest
    <3>2. c \in Boots /\ Head(wire[c]).obs \in Reports(c)
      BY <1>1, <3>1, ReceivedObservation
    <3>3. Head(wire[c]).obs.source = c.worker
      BY <3>2 DEF Reports
    <3>4. conn[c].source = c.worker /\ c.worker # 0
      BY <3>1, <3>2, ClientsAssumption DEF HelloFirst, Receives, Hello
    <3>5. s = c.worker \/ (s \in DOMAIN sources /\ sources[s].connected)
      BY <3>1, <3>3, IngestConnects
    <3> QED BY <1>2, <2>0, <3>1, <3>4, <3>5
  <2>3. CASE RecvQuery(c)
    <3>1. /\ sources' = sources /\ conn[c].pc = "recv" /\ Receives(c, "Query")
          /\ \A d \in Clients : d # c => conn'[d] = conn[d]
      BY <1>0, <2>3 DEF RecvQuery, ReadOnly, vars, Receives
    <3>2. c \notin Boots
      <4>1. Head(wire[c]) \in FramesOf(c) /\ Head(wire[c]).kind = "Query"
        BY <3>1, ReceivedFrame DEF Receives
      <4> QED BY <4>1, Disjoint DEF FramesOf, Hello, Obs, Close
    <3>3. conn[c].source = 0
      BY <3>2 DEF HelloFirst
    <3> QED BY <1>2, <2>0, <3>1, <3>3
  <2>4. CASE Leave(c)
    <3>1. \A d \in Clients : d # c => conn'[d] = conn[d]
      BY <1>0, <2>4 DEF Leave
    <3>2. CASE conn[c].source = 0
      <4>1. sources' = sources
        BY <2>4, <3>2 DEF Leave, vars
      <4> QED BY <1>2, <2>0, <3>1, <3>2, <4>1
    <3>3. CASE conn[c].source # 0
      <4> DEFINE r == conn[c].source
      <4>1. mark_source_disconnected(r, 0)
        BY <2>4, <3>3 DEF Leave
      <4>2. r \in DOMAIN sources /\ sources[r] \in SourceStates
            /\ sources' = Put(sources, r, [sources[r] EXCEPT !.connected = FALSE,
                                                             !.last_observation = 0])
        BY <4>1 DEF mark_source_disconnected, TypeOK, IsMap
      <4> HIDE DEF r
      <4>3. ~sources'[r].connected
        BY <4>2 DEF Put, SourceStates
      <4>4. s # r /\ s \in DOMAIN sources /\ sources[s].connected
        BY <4>2, <4>3 DEF Put
      <4>5. PICK d \in Clients : conn[d].pc = "recv" /\ conn[d].source = s
        BY <1>2, <2>0, <4>4
      <4>6. d # c
        BY <4>4, <4>5 DEF r
      <4> QED BY <1>2, <2>0, <3>1, <4>4, <4>5, <4>6
    <3> QED BY <3>2, <3>3
  <2>5. CASE Reply(c) \/ Copy(c) \/ Write(c)
    <3>1. /\ sources' = sources /\ conn[c].pc # "recv"
          /\ \A d \in Clients : d # c => conn'[d] = conn[d]
      BY <1>0, <2>5 DEF Reply, ReadOnly, vars, Copy, SaveSnapshot, Write, SaveReplaces, SaveFails,
                        SaveLosesFile
    <3> QED BY <1>2, <2>0, <3>1
  <2> QED BY <1>6, <2>1, <2>2, <2>3, <2>4, <2>5 DEF Thread
<1>7. CASE ClientStep
  <2>1. UNCHANGED <<sources, loader, up>>
    BY <1>7, ClientFrame DEF vars
  <2>2. \A d \in Clients : conn[d].pc = "recv" => conn'[d] = conn[d]
    BY <1>0, <1>7, ClientFrame
  <2> QED BY <1>2, <2>1, <2>2 DEF historical_mode
<1>8. CASE UNCHANGED allVars
  BY <1>2, <1>8 DEF allVars, netVars, vars, historical_mode
<1> QED BY <1>3, <1>4, <1>5, <1>6, <1>7, <1>8 DEF CoordinatorNext, Startup

-----------------------------------------------------------------------------
(***************************************************************************)
(* Replies.                                                                *)
(***************************************************************************)
(* A thread never makes the observatory forget that it accepted something. *)
LEMMA AcceptedGrows ==
    ASSUME TypeOK, NEW c \in Clients, Thread(c)
    PROVE  health["accepted"] <= health'["accepted"]
<1>0. health["accepted"] \in Nat
  BY DEF TypeOK, HealthCounters
<1>1. CASE RecvObservation(c)
  <2>1. PICK o, st : ingest_locked(o, st)
    BY <1>1 DEF RecvObservation, ingest
  <2>2. Rejected(o, st) \/ Accepted(o, st)
    BY <2>1, IngestEffect
  <2> QED BY <1>0, <2>2 DEF Rejected, Accepted
<1>2. CASE ~RecvObservation(c)
  <2>1. health' = health \/ Count({"disconnects"}) \/ Count({"persist_errors"})
    BY <1>2 DEF Thread, RecvHello, register_source, RecvQuery, Reply, ReadOnly, Leave, vars,
                mark_source_disconnected, Copy, SaveSnapshot, Write, SaveReplaces, SaveFails,
                SaveLosesFile
  <2>2. health'["accepted"] = health["accepted"]
    BY <2>1, CountOthers
  <2> QED BY <1>0, <2>2
<1> QED BY <1>1, <1>2

(* What a query has read stays behind the counters. *)
LEMMA ReadsStep ==
    ASSUME TypeOK, NetTypeOK, MainInOrder, ReadsInOrder, [CoordinatorNext]_allVars
    PROVE  ReadsInOrder'
<1>0. /\ conn \in [Clients -> ThreadStates] /\ health["accepted"] \in Nat
      /\ \A c \in Clients : /\ conn[c].seen \in Nat
                            /\ conn[c].reply.window \in Nat /\ conn[c].reply.accepted \in Nat
  BY DEF NetTypeOK, TypeOK, HealthCounters, ThreadStates
<1>1. CASE Startup
  <2>1. conn' = conn /\ \A c \in Clients : conn[c].pc # "reply"
    BY <1>1, StartupFrame DEF MainInOrder, Serving
  <2> QED BY <2>1 DEF ReadsInOrder
<1>2. CASE Restart
  <2>1. \A c \in Clients : conn'[c] = NoConn \/ conn'[c] = [NoConn EXCEPT !.pc = "done"]
    BY <1>2 DEF Restart
  <2> QED BY <2>1 DEF ReadsInOrder, NoConn
<1>3. ASSUME NEW c \in Clients, Thread(c) PROVE ReadsInOrder'
  <2>0. health["accepted"] <= health'["accepted"] /\ health'["accepted"] \in Nat
    <3>1. TypeOK'
      BY <1>3, CoreStep, TypeStep, RestartType DEF CoordinatorNext
    <3> QED BY <1>3, <3>1, AcceptedGrows DEF TypeOK, HealthCounters
  <2>1. \A d \in Clients : d # c => conn'[d] = conn[d]
    BY <1>0, <1>3 DEF Thread, RecvHello, RecvObservation, RecvQuery, Reply, Leave, Copy, Write
  <2>2. /\ conn'[c].reply.window <= conn'[c].reply.accepted
        /\ conn'[c].pc = "reply" => conn'[c].seen <= health'["accepted"]
    <3>1. CASE RecvQuery(c)
      <4>1. /\ conn' = [conn EXCEPT ![c].pc = "reply", ![c].seen = health["accepted"]]
            /\ health' = health
        BY <3>1 DEF RecvQuery, ReadOnly, vars
      <4>2. conn'[c].reply = conn[c].reply /\ conn'[c].seen = health["accepted"]
        BY <1>0, <4>1 DEF ThreadStates
      <4> QED BY <1>0, <4>1, <4>2 DEF ReadsInOrder
    <3>2. CASE Reply(c)
      <4>1. conn' = [conn EXCEPT ![c].pc = "save", ![c].then = "recv",
                                 ![c].reply = Answer(conn[c].seen, health["accepted"])]
            /\ conn[c].pc = "reply"
        BY <3>2 DEF Reply
      <4>2. conn'[c].pc = "save" /\ conn'[c].reply = Answer(conn[c].seen, health["accepted"])
        BY <1>0, <4>1 DEF ThreadStates
      <4>3. conn[c].seen <= health["accepted"]
        BY <4>1 DEF ReadsInOrder
      <4> QED BY <4>2, <4>3 DEF Answer
    <3>3. CASE ~RecvQuery(c) /\ ~Reply(c)
      <4>1. conn[c] \in ThreadStates
        BY <1>0
      <4>2. \/ conn' = [conn EXCEPT ![c].source = c.worker] /\ conn[c].pc = "recv"
            \/ conn' = conn /\ conn[c].pc = "recv"
            \/ conn' = [conn EXCEPT ![c].pc = "save", ![c].then = "done"]
            \/ conn' = [conn EXCEPT ![c].pc = "write"]
            \/ conn' = [conn EXCEPT ![c].pc = conn[c].then]
        BY <1>3, <3>3 DEF Thread, RecvHello, RecvObservation, Leave, Receives, Copy, Write
      <4>3. conn'[c].reply = conn[c].reply /\ conn'[c].pc # "reply"
        BY <1>0, <4>1, <4>2 DEF ThreadStates
      <4> QED BY <4>3 DEF ReadsInOrder
    <3> QED BY <3>1, <3>2, <3>3
  <2>3. \A d \in Clients : d # c /\ conn[d].pc = "reply" => conn[d].seen <= health'["accepted"]
    BY <1>0, <2>0 DEF ReadsInOrder
  <2> QED BY <2>1, <2>2, <2>3 DEF ReadsInOrder
<1>4. CASE ClientStep
  <2>1. /\ health' = health
        /\ UNCHANGED conn \/ \E c \in Clients : conn' = [conn EXCEPT ![c] = NewConn]
    BY <1>4, ClientFrame DEF vars
  <2> QED BY <1>0, <2>1 DEF ReadsInOrder, NewConn, NoConn
<1>5. CASE UNCHANGED allVars
  BY <1>5 DEF allVars, netVars, vars, ReadsInOrder
<1> QED BY <1>1, <1>2, <1>3, <1>4, <1>5 DEF CoordinatorNext

-----------------------------------------------------------------------------
(***************************************************************************)
(* The file.                                                               *)
(***************************************************************************)
(* A prefix, position by position. *)
LEMMA PrefixOf ==
    ASSUME NEW S, NEW a \in Seq(S), NEW b \in Seq(S)
    PROVE  IsPrefixOf(a, b) <=> Len(a) <= Len(b) /\ \A i \in 1..Len(a) : a[i] = b[i]
<1> DEFINE p == SubSeq(b, 1, Len(a))
<1>1. Len(a) \in Nat /\ Len(b) \in Nat
  BY LenProperties
<1>2. Len(a) <= Len(b) => /\ p \in Seq(S) /\ Len(p) = Len(a)
                          /\ \A i \in 1..Len(a) : p[i] = b[i]
  BY <1>1, SubSeqProperties
<1> HIDE DEF p
<1>3. ASSUME Len(a) <= Len(b), \A i \in 1..Len(a) : a[i] = b[i] PROVE a = p
  BY <1>2, <1>3, SeqEqual
<1> QED BY <1>2, <1>3 DEF IsPrefixOf, p

(* Being a prefix is an order, with the empty sequence below all others. *)
LEMMA PrefixOrder ==
    ASSUME NEW S
    PROVE  /\ \A a \in Seq(S) : IsPrefixOf(<<>>, a) /\ IsPrefixOf(a, a)
           /\ \A a, b, c \in Seq(S) :
                 IsPrefixOf(a, b) /\ IsPrefixOf(b, c) => IsPrefixOf(a, c)
           /\ \A a \in Seq(S), x \in S : IsPrefixOf(a, Append(a, x))
<1>0. ASSUME NEW e \in Seq(S), NEW a \in Seq(S), Len(e) = 0 PROVE IsPrefixOf(e, a)
  <2>1. IsPrefixOf(e, a) <=> Len(e) <= Len(a) /\ \A i \in 1..Len(e) : e[i] = a[i]
    BY PrefixOf
  <2>2. Len(a) \in Nat
    BY LenProperties
  <2> QED BY <1>0, <2>1, <2>2
<1>1. ASSUME NEW a \in Seq(S) PROVE IsPrefixOf(<<>>, a) /\ IsPrefixOf(a, a)
  <2>1. <<>> \in Seq(S) /\ Len(<<>>) = 0 /\ Len(a) \in Nat
    BY LenProperties
  <2>2. IsPrefixOf(<<>>, a)
    BY <1>0, <2>1
  <2>3. IsPrefixOf(a, a) <=> Len(a) <= Len(a) /\ \A i \in 1..Len(a) : a[i] = a[i]
    BY PrefixOf
  <2> QED BY <2>1, <2>2, <2>3
<1>2. ASSUME NEW a \in Seq(S), NEW b \in Seq(S), NEW c \in Seq(S),
             IsPrefixOf(a, b), IsPrefixOf(b, c)
      PROVE  IsPrefixOf(a, c)
  <2>1. Len(a) \in Nat /\ Len(b) \in Nat /\ Len(c) \in Nat
    BY LenProperties
  <2>2. /\ Len(a) <= Len(b) /\ \A i \in 1..Len(a) : a[i] = b[i]
        /\ Len(b) <= Len(c) /\ \A i \in 1..Len(b) : b[i] = c[i]
    BY <1>2, PrefixOf
  <2>3. Len(a) <= Len(c) /\ \A i \in 1..Len(a) : a[i] = c[i]
    BY <2>1, <2>2
  <2> QED BY <2>3, PrefixOf
<1>3. ASSUME NEW a \in Seq(S), NEW x \in S PROVE IsPrefixOf(a, Append(a, x))
  <2>1. /\ Append(a, x) \in Seq(S) /\ Len(Append(a, x)) = Len(a) + 1 /\ Len(a) \in Nat
        /\ \A i \in 1..Len(a) : a[i] = Append(a, x)[i]
    BY AppendProperties, LenProperties
  <2> DEFINE b == Append(a, x)
  <2> HIDE DEF b
  <2>2. IsPrefixOf(a, b) <=> Len(a) <= Len(b) /\ \A i \in 1..Len(a) : a[i] = b[i]
    BY <2>1, PrefixOf DEF b
  <2> QED BY <2>1, <2>2 DEF b
<1> QED BY <1>1, <1>2, <1>3

(* A load works on the file, and one that goes through restores it. *)
LEMMA FileStep ==
    ASSUME TypeOK, ReplayInv, NetTypeOK, FileLoaded, [CoordinatorNext]_allVars
    PROVE  FileLoaded'
<1>1. CASE StartLoad
  <2>1. up = "load" /\ up' = (IF historical_mode /\ ~historical_mode' THEN "advance" ELSE "load")
        /\ file' = file /\ loader \in LoaderStates
    BY <1>1, StartupFrame DEF StartLoad, Startup, TypeOK
  <2>2. CASE LoadReturns
    <3>1. historical_mode /\ ~historical_mode' /\ loader'.st = loader.st /\ history' = history
      BY <2>2 DEF LoadReturns, historical_mode
    <3>2. ASSUME loader.st = "Ok" PROVE history = file.obs
      <4>1. history \in Seq(Observations) /\ loader.obs \in Seq(Observations)
            /\ Len(history) \in Nat /\ Len(loader.obs) \in Nat
        BY <2>1 DEF TypeOK, LoaderStates
      <4>2. ~(loader.next <= Len(loader.obs))
        BY <2>2, <3>1, <3>2 DEF LoadReturns, Replaying, historical_mode
      <4>3. /\ loader.next = Len(history) + 1 /\ Len(history) <= Len(loader.obs)
            /\ \A i \in 1..Len(history) : history[i] = loader.obs[i]
        BY <3>1 DEF ReplayInv, LoadPosition
      <4>4. Len(history) = Len(loader.obs)
        BY <4>1, <4>2, <4>3
      <4>5. history = loader.obs
        BY <4>1, <4>3, <4>4, SeqEqual
      <4>6. loader.obs = file.obs
        BY <2>1, <3>1 DEF FileLoaded, historical_mode
      <4> QED BY <4>5, <4>6
    <3> QED BY <2>1, <3>1, <3>2 DEF FileLoaded
  <2>3. CASE LoadParse
    <3>1. loader'.obs = file.obs /\ ~historical_mode
      BY <2>3 DEF LoadParse, historical_mode
    <3> QED BY <2>1, <3>1 DEF FileLoaded
  <2>4. CASE LoadClear \/ LoadStep
    <3>1. loader'.pc = "replay" /\ loader'.obs = loader.obs /\ loader.pc # "idle"
      BY <2>1, <2>4 DEF LoadClear, LoadStep, Replaying, LoaderStates
    <3> QED BY <2>1, <3>1 DEF FileLoaded, historical_mode
  <2> QED BY <1>1, <2>2, <2>3, <2>4 DEF StartLoad, Load
<1>2. CASE Serve
  BY <1>2 DEF Serve, advance_epoch, FileLoaded
<1>3. CASE Restart
  <2>1. file' = file \/ file' = NoFile
    BY <1>3 DEF Restart
  <2>2. ~file'.exists => file'.obs = <<>>
    BY <2>1 DEF NoFile, FileLoaded
  <2>3. history' = <<>> /\ loader'.pc = "idle" /\ (up' = "advance" => ~file'.exists)
    BY <1>3 DEF Restart, FirstStep, ClearMemory, ClearHistory
  <2> QED BY <2>2, <2>3 DEF FileLoaded
<1>4. ASSUME NEW c \in Clients, Thread(c) PROVE FileLoaded'
  <2>1. up' = "serving"
    BY <1>4, ThreadFrame
  <2>2. file' = file \/ file' = NoFile \/ file'.exists
    BY <1>4 DEF Thread, RecvHello, register_source, RecvObservation, ingest, RecvQuery, Reply,
                ReadOnly, Leave, vars, mark_source_disconnected, Copy, SaveSnapshot, Write,
                SaveReplaces, SaveFails, SaveLosesFile
  <2> QED BY <2>1, <2>2 DEF FileLoaded, NoFile
<1>5. CASE ClientStep
  BY <1>5, ClientFrame DEF vars, FileLoaded
<1>6. CASE UNCHANGED allVars
  BY <1>6 DEF allVars, netVars, vars, FileLoaded
<1> QED BY <1>1, <1>2, <1>3, <1>4, <1>5, <1>6 DEF CoordinatorNext, Startup

(* When main starts to serve, nothing is missing on disk. *)
LEMMA ServeComplete ==
    ASSUME TypeOK, MainInOrder, FileLoaded, Serve, loader.st = "Ok"
    PROVE  Newest' = history' /\ file'.obs = history'
<1>1. up = "advance" /\ UNCHANGED <<history, file, saver>> /\ saver \in SaverStates
  BY DEF Serve, advance_epoch, TypeOK
<1>2. saver.pc # "writing"
  BY <1>1 DEF MainInOrder, Serving
<1> QED BY <1>1, <1>2 DEF FileLoaded, Newest

(* What a thread writes is the copy it has taken. *)
LEMMA WriteNewest ==
    ASSUME TypeOK, NEW c, Write(c)
    PROVE  /\ saver.pc = "writing" /\ saver'.pc = "idle" /\ Newest = saver.obs
           /\ Newest' = file'.obs /\ history' = history
           /\ \/ SaveReplaces /\ file'.obs = saver.obs /\ health' = health
              \/ file'.obs \in {file.obs, <<>>} /\ Count({"persist_errors"})
<1>1. SaveReplaces \/ SaveFails \/ SaveLosesFile
  BY DEF Write
<1>2. saver.pc = "writing" /\ saver'.pc = "idle" /\ history' = history
  BY <1>1 DEF SaveReplaces, SaveFails, SaveLosesFile, SaveReturns
<1>3. CASE SaveReplaces
  BY <1>2, <1>3 DEF SaveReplaces, Written, Newest
<1>4. CASE SaveFails \/ SaveLosesFile
  BY <1>2, <1>4 DEF SaveFails, SaveLosesFile, NoFile, Newest
<1> QED BY <1>1, <1>3, <1>4

(* Every thread that adds to the history copies it before it ends, and     *)
(* every copy is written.                                                  *)
LEMMA ForgetStep ==
    ASSUME TypeOK, NetTypeOK, MainInOrder, FileLoaded, NothingForgotten,
           [CoordinatorNext]_allVars
    PROVE  NothingForgotten'
<1> SUFFICES ASSUME up' = "serving", health'["persist_errors"] = 0, loader'.st = "Ok"
             PROVE  Newest' = history' \/ \E d \in Clients : WillCopy(d)'
  BY DEF NothingForgotten
<1>0. conn \in [Clients -> ThreadStates] /\ health \in [HealthCounters -> Nat]
  BY DEF NetTypeOK, TypeOK
<1>1. CASE StartLoad \/ Restart
  BY <1>1 DEF StartLoad, Restart, FirstStep
<1>2. CASE Serve
  <2>1. loader' = loader
    BY <1>2 DEF Serve, advance_epoch
  <2> QED BY <1>2, <2>1, ServeComplete
<1>3. ASSUME NEW c \in Clients, Thread(c)
      PROVE  Newest' = history' \/ \E d \in Clients : WillCopy(d)'
  <2>0. up = "serving" /\ loader' = loader
    BY <1>3, ThreadFrame
  <2>1. CASE (c \in Boots /\ RecvHello(c)) \/ RecvObservation(c) \/ RecvQuery(c) \/ Reply(c)
             \/ Leave(c)
    <3>1. conn'[c].pc \in {"recv", "reply", "save"}
      BY <1>0, <2>1 DEF RecvHello, RecvObservation, RecvQuery, Reply, Leave, Receives, ThreadStates
    <3> QED BY <3>1 DEF WillCopy
  <2>2. CASE Copy(c)
    <3>1. saver' = [pc |-> "writing", obs |-> history] /\ history' = history
      BY <2>2 DEF Copy, SaveSnapshot
    <3> QED BY <3>1 DEF Newest
  <2>3. CASE Write(c)
    <3>1. health' = health /\ file'.obs = saver.obs
      BY <1>0, <2>3, WriteNewest DEF Count, HealthCounters
    <3>2. Newest' = Newest /\ history' = history
      BY <2>3, <3>1, WriteNewest
    <3>3. Newest = history \/ \E d \in Clients : WillCopy(d)
      BY <2>0, <3>1 DEF NothingForgotten
    <3>4. \A d \in Clients : WillCopy(d) => WillCopy(d)'
      <4>1. conn' = [conn EXCEPT ![c].pc = conn[c].then] /\ conn[c].pc = "write"
        BY <2>3 DEF Write
      <4>2. conn'[c].pc = conn[c].then /\ conn'[c].then = conn[c].then
            /\ \A d \in Clients : d # c => conn'[d] = conn[d]
        BY <1>0, <4>1 DEF ThreadStates
      <4> QED BY <4>1, <4>2 DEF WillCopy
    <3> QED BY <3>2, <3>3, <3>4
  <2> QED BY <1>3, <2>1, <2>2, <2>3 DEF Thread
<1>4. CASE ClientStep
  <2>1. /\ UNCHANGED <<up, health, loader, file, saver, history>>
        /\ \/ UNCHANGED conn
           \/ \E c \in Clients : conn[c].pc = "none" /\ conn' = [conn EXCEPT ![c] = NewConn]
    BY <1>4, ClientFrame DEF vars
  <2>2. \A d \in Clients : WillCopy(d) => WillCopy(d)'
    BY <1>0, <2>1 DEF WillCopy
  <2> QED BY <2>1, <2>2 DEF NothingForgotten, Newest
<1>5. CASE UNCHANGED allVars
  BY <1>5 DEF allVars, netVars, vars, NothingForgotten, Newest, WillCopy
<1> QED BY <1>1, <1>2, <1>3, <1>4, <1>5 DEF CoordinatorNext, Startup

(* Outside a load the history of an observatory that drops nothing grows   *)
(* at its end.                                                             *)
LEMMA HistoryGrows ==
    ASSUME TypeOK, NEW o \in Observations, ingest(o), health'["dropped"] = 0
    PROVE  health["dropped"] = 0 /\ IsPrefixOf(history, history')
<1>1. PICK st : ingest_locked(o, st)
  BY DEF ingest
<1>2. history \in Seq(Observations) /\ health["dropped"] \in Nat
  BY DEF TypeOK, HealthCounters
<1>3. CASE Rejected(o, st)
  BY <1>2, <1>3, PrefixOrder DEF Rejected
<1>4. CASE Accepted(o, st)
  <2>1. Len(history) < max_observations /\ health["dropped"] = 0
    BY <1>2, <1>4 DEF Accepted
  <2>2. history' = Append(history, o)
    BY <1>4, <2>1 DEF Accepted, Retain
  <2> QED BY <1>2, <2>1, <2>2, PrefixOrder
<1> QED BY <1>1, <1>3, <1>4, IngestEffect

(* File, copy and history are sequences of observations. *)
LEMMA CopiesType ==
    ASSUME TypeOK
    PROVE  /\ history \in Seq(Observations) /\ file.obs \in Seq(Observations)
           /\ saver.obs \in Seq(Observations) /\ Newest \in Seq(Observations)
BY DEF TypeOK, SaverStates, Newest

(* File, copy and history keep extending one another. *)
LEMMA CopiesStep ==
    ASSUME TypeOK, NetTypeOK, MainInOrder, FileLoaded, CopiesExtend, [CoordinatorNext]_allVars
    PROVE  CopiesExtend'
<1> SUFFICES ASSUME up' = "serving", health'["dropped"] = 0, loader'.st = "Ok"
             PROVE  IsPrefixOf(file'.obs, Newest') /\ IsPrefixOf(Newest', history')
  BY DEF CopiesExtend, IsPrefixOf
<1>0. /\ history \in Seq(Observations) /\ file.obs \in Seq(Observations)
      /\ saver.obs \in Seq(Observations) /\ Newest \in Seq(Observations)
  BY CopiesType
<1>1. CASE StartLoad \/ Restart
  BY <1>1 DEF StartLoad, Restart, FirstStep
<1>2. CASE Serve
  <2>1. loader' = loader /\ history' = history
    BY <1>2 DEF Serve, advance_epoch
  <2>2. Newest' = history' /\ file'.obs = history'
    BY <1>2, <2>1, ServeComplete
  <2> QED BY <1>0, <2>1, <2>2, PrefixOrder
<1>3. ASSUME up = "serving", health["dropped"] = 0, loader.st = "Ok"
      PROVE  IsPrefixOf(file.obs, Newest) /\ IsPrefixOf(Newest, history)
  BY <1>3 DEF CopiesExtend
<1>4. ASSUME NEW c \in Clients, Thread(c)
      PROVE  IsPrefixOf(file'.obs, Newest') /\ IsPrefixOf(Newest', history')
  <2>0. up = "serving" /\ loader' = loader
    BY <1>4, ThreadFrame
  <2>1. CASE RecvObservation(c)
    <3>1. Head(wire[c]).obs \in Observations /\ ingest(Head(wire[c]).obs)
      BY <2>1, ReceivedObservation DEF RecvObservation
    <3>2. health["dropped"] = 0 /\ IsPrefixOf(history, history')
      BY <3>1, HistoryGrows
    <3>3. UNCHANGED <<file, saver>> /\ Newest' = Newest
      BY <3>1 DEF ingest, Newest
    <3>4. history' \in Seq(Observations)
      <4>1. [Next]_vars
        BY <3>1 DEF Next, Call
      <4> QED BY <4>1, TypeStep DEF TypeOK
    <3> QED BY <1>0, <1>3, <2>0, <3>2, <3>3, <3>4, PrefixOrder
  <2>2. CASE Copy(c)
    <3>1. /\ saver.pc = "idle" /\ saver' = [pc |-> "writing", obs |-> history]
          /\ UNCHANGED <<history, file, health>>
      BY <2>2 DEF Copy, SaveSnapshot
    <3>2. Newest = file.obs /\ Newest' = history
      BY <3>1 DEF Newest
    <3> QED BY <1>0, <1>3, <2>0, <3>1, <3>2, PrefixOrder
  <2>3. CASE Write(c)
    <3>1. /\ Newest = saver.obs /\ Newest' = file'.obs /\ history' = history
          /\ file'.obs \in {saver.obs, file.obs, <<>>} /\ health'["dropped"] = health["dropped"]
      BY <2>3, WriteNewest, CountOthers
    <3>2. IsPrefixOf(file.obs, Newest) /\ IsPrefixOf(Newest, history)
      BY <1>3, <2>0, <3>1
    <3>3. IsPrefixOf(<<>>, history) /\ IsPrefixOf(file.obs, history) /\ <<>> \in Seq(Observations)
      BY <1>0, <3>2, PrefixOrder
    <3>4. file'.obs \in Seq(Observations) /\ IsPrefixOf(file'.obs, history)
      BY <1>0, <3>1, <3>2, <3>3
    <3> QED BY <3>1, <3>4, PrefixOrder
  <2>4. CASE (c \in Boots /\ RecvHello(c)) \/ RecvQuery(c) \/ Reply(c) \/ Leave(c)
    <3>1. UNCHANGED <<history, file, saver>> /\ (health' = health \/ Count({"disconnects"}))
      BY <2>4 DEF RecvHello, register_source, RecvQuery, Reply, ReadOnly, Leave, vars,
                  mark_source_disconnected
    <3>2. Newest' = Newest /\ health'["dropped"] = health["dropped"]
      BY <3>1, CountOthers DEF Newest
    <3> QED BY <1>3, <2>0, <3>1, <3>2
  <2> QED BY <1>4, <2>1, <2>2, <2>3, <2>4 DEF Thread
<1>5. CASE ClientStep
  <2>1. UNCHANGED <<up, health, loader, file, saver, history>>
    BY <1>5, ClientFrame DEF vars
  <2> QED BY <1>3, <2>1 DEF Newest
<1>6. CASE UNCHANGED allVars
  BY <1>3, <1>6 DEF allVars, netVars, vars, Newest
<1> QED BY <1>1, <1>2, <1>4, <1>5, <1>6 DEF CoordinatorNext, Startup

-----------------------------------------------------------------------------
(***************************************************************************)
(* The theorems.                                                           *)
(***************************************************************************)
(* The invariant holds when the processes are started ... *)
LEMMA CoordinatorStarts == ASSUME CoordinatorInit PROVE CoordinatorInv
<1>1. TypeOK /\ ReplayInv
  BY TypeInit, ReplayInit DEF CoordinatorInit
<1>2. NetTypeOK
  <2>1. NoConn \in ThreadStates /\ StartWorker \in WorkerStates
    BY DEF NoConn, ThreadStates, StartWorker, WorkerStates
  <2> QED BY <2>1 DEF CoordinatorInit, NetTypeOK
<1>3. /\ epoch = InitialEpoch /\ history = <<>> /\ sources = EmptyMap /\ up = "advance"
      /\ file = [exists |-> FALSE, obs |-> <<>>] /\ saver.pc = "idle" /\ loader.pc = "idle"
      /\ \A c \in Clients : conn[c] = NoConn /\ wire[c] = <<>>
      /\ \A b \in Boots : worker[b].pc = "start"
  BY DEF CoordinatorInit, Init, StartWorker
<1>4. EpochsAgree /\ MainInOrder /\ HelloFirst
  BY <1>3 DEF EpochsAgree, MainInOrder, HelloFirst, Serving, NoConn, historical_mode, Clients
<1>5. SourcesServed /\ ReadsInOrder
  BY <1>3 DEF SourcesServed, ReadsInOrder, EmptyMap, NoConn
<1>6. FileLoaded /\ NothingForgotten /\ CopiesExtend
  BY <1>3 DEF FileLoaded, NothingForgotten, CopiesExtend
<1> QED BY <1>1, <1>2, <1>4, <1>5, <1>6 DEF CoordinatorInv

(* ... and every step of any of them keeps it. *)
LEMMA CoordinatorKeeps ==
    ASSUME CoordinatorInv, [CoordinatorNext]_allVars PROVE CoordinatorInv'
<1>1. TypeOK' /\ ReplayInv'
  BY CoreStep, TypeStep, RestartType, ReplayStep, RestartKeeps DEF CoordinatorInv
<1>2. NetTypeOK' /\ EpochsAgree' /\ MainInOrder' /\ HelloFirst'
  BY NetTypeStep, EpochStep, MainStep, HelloStep DEF CoordinatorInv
<1>3. SourcesServed' /\ ReadsInOrder'
  BY ServedStep, ReadsStep DEF CoordinatorInv
<1>4. FileLoaded' /\ NothingForgotten' /\ CopiesExtend'
  BY FileStep, ForgetStep, CopiesStep DEF CoordinatorInv
<1> QED BY <1>1, <1>2, <1>3, <1>4 DEF CoordinatorInv

(* Every state the coordinator, its threads, the workers and the clients   *)
(* can reach satisfies the invariant.                                      *)
THEOREM CoordinatorCorrect == CoordinatorSpec => []CoordinatorInv
BY CoordinatorStarts, CoordinatorKeeps, PTL DEF CoordinatorSpec

(* While only workers have reported, a source counts as connected only     *)
(* while a thread that registered it receives (handle_connection in        *)
(* coordinator.cpp).                                                       *)
THEOREM NoPhantomEver == CoordinatorSpec => []NoPhantomSource
<1>1. CoordinatorInv => NoPhantomSource
  BY DEF CoordinatorInv, SourcesServed, MainInOrder, NoPhantomSource
<1> QED BY <1>1, CoordinatorCorrect, PTL

(* A reply counts at least the observations whose time it reports (query   *)
(* handling in coordinator.cpp: two calls, one after the other).           *)
THEOREM RepliesAlwaysInOrder == CoordinatorSpec => []RepliesInOrder
<1>1. CoordinatorInv => RepliesInOrder
  BY DEF CoordinatorInv, ReadsInOrder, RepliesInOrder, Clients
<1> QED BY <1>1, CoordinatorCorrect, PTL

(* When no connection is served any more, the file holds the whole         *)
(* history, unless a save failed or a load stopped.                        *)
THEOREM HistoryReachesDisk == CoordinatorSpec => []HistoryOnDisk
<1>1. ASSUME CoordinatorInv PROVE HistoryOnDisk
  <2> SUFFICES ASSUME up = "serving", \A c \in Clients : ~Serving(c),
                      health["persist_errors"] = 0, loader.st = "Ok"
               PROVE  file.obs = history
    BY DEF HistoryOnDisk
  <2>1. \A c \in Clients : ~WillCopy(c) /\ conn[c].pc # "write"
    BY DEF Serving, WillCopy
  <2>2. Newest = history /\ saver.pc # "writing"
    BY <1>1, <2>1 DEF CoordinatorInv, NothingForgotten, MainInOrder
  <2> QED BY <2>2 DEF Newest
<1> QED BY <1>1, CoordinatorCorrect, PTL

(* No file gives way to one that lacks an observation it had, as long as   *)
(* the run of the coordinator has loaded all of it and dropped nothing.    *)
THEOREM FileOnlyGrows == CoordinatorSpec => HistoryNeverShrinks
<1> DEFINE Grows == file.exists /\ file'.exists /\ health["dropped"] = 0 /\ loader.st = "Ok"
                       => IsPrefixOf(file.obs, file'.obs)
<1>1. ASSUME CoordinatorInv, [CoordinatorNext]_allVars PROVE [Grows]_allVars
  <2>0. /\ file.obs \in Seq(Observations) /\ TypeOK
    BY <1>1, CopiesType DEF CoordinatorInv
  <2>1. ASSUME file' = file PROVE Grows
    BY <2>0, <2>1, PrefixOrder
  <2>2. ASSUME Restart PROVE Grows
    <3>1. file' = file \/ ~file'.exists
      BY <2>2 DEF Restart, NoFile
    <3> QED BY <2>1, <3>1
  <2>3. ASSUME NEW c \in Clients, Write(c), up = "serving" PROVE Grows
    <3>1. file' = file \/ ~file'.exists \/ file'.obs = Newest
      <4>1. CASE SaveReplaces
        BY <2>0, <4>1 DEF SaveReplaces, Written, Newest
      <4>2. CASE SaveFails \/ SaveLosesFile
        BY <4>2 DEF SaveFails, SaveLosesFile, NoFile
      <4> QED BY <2>3, <4>1, <4>2 DEF Write
    <3>2. health["dropped"] = 0 /\ loader.st = "Ok" => IsPrefixOf(file.obs, Newest)
      BY <1>1, <2>3 DEF CoordinatorInv, CopiesExtend
    <3> QED BY <2>1, <3>1, <3>2
  <2>4. ASSUME NEW c \in Clients, Thread(c), ~Write(c) PROVE file' = file
    BY <2>4 DEF Thread, RecvHello, register_source, RecvObservation, ingest, RecvQuery, Reply,
                ReadOnly, Leave, vars, mark_source_disconnected, Copy, SaveSnapshot
  <2>5. Startup \/ ClientStep \/ UNCHANGED allVars => file' = file
    BY StartupFrame, ClientFrame DEF allVars, vars
  <2> QED BY <1>1, <2>1, <2>2, <2>3, <2>4, <2>5, ThreadFrame DEF CoordinatorNext
<1> QED BY <1>1, CoordinatorCorrect, PTL DEF CoordinatorSpec, HistoryNeverShrinks

(* The coordinator implements the ledger, across crashes and restarts:     *)
(* every step of a thread is a step of the ledger or none, and a restart   *)
(* is a crash of the ledger that keeps the file or loses it as a whole.    *)
THEOREM CoordinatorImplementsLedger == CoordinatorSpec => LedgerKept
<1>1. CoordinatorInit => L!Init
  BY LedgerInit DEF CoordinatorInit
<1>2. ASSUME CoordinatorInv, [CoordinatorNext]_allVars PROVE [L!Next]_(L!ledgerVars)
  BY <1>2, CoreStep, LedgerStep, RestartCrashes DEF CoordinatorInv, L!Next
<1> QED BY <1>1, <1>2, CoordinatorCorrect, PTL DEF CoordinatorSpec, LedgerKept, L!Spec
=============================================================================
