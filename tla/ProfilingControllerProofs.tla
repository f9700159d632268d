--------------------- MODULE ProfilingControllerProofs ---------------------
(* Theorems about ProfilingController, for every set of intervals and       *)
(* configurations, and every number of jobs and sessions.                   *)
EXTENDS ProfilingController, TLAPS

SessionRecords == [interval : Intervals, memory : BOOLEAN, ready : BOOLEAN,
                   cpuLoop : BOOLEAN, memLoop : BOOLEAN, early : BOOLEAN]

Natives == [loaded : BOOLEAN, cpu : Intervals \cup {0}, heap : BOOLEAN, heapFlag : BOOLEAN]

Effectives == [cpu : BOOLEAN, memory : BOOLEAN, interval : Intervals \cup {0},
               calls : BOOLEAN, callsInterval : Intervals]

(***************************************************************************)
(* Sessions and the native profilers.  Few steps change them: a session is *)
(* started, halted or readied.  That the native profiler is the running    *)
(* session's needs that at most one session runs, and that a session that  *)
(* leaks was stopped early needs that a session is readied once.           *)
(***************************************************************************)

SessionTypeOK ==
  /\ sessions \in Seq(SessionRecords)
  /\ running \in [Controllers -> DOMAIN sessions \cup {NoSession}]
  /\ immediates \in Seq(DOMAIN sessions)
  /\ native \in Natives

OneRuns ==
  \A c, d \in Controllers : running[c] # NoSession /\ running[d] # NoSession => c = d

ReadiedOnce ==
  /\ \A k \in DOMAIN immediates : ~sessions[immediates[k]].ready
  /\ \A k, l \in DOMAIN immediates : immediates[k] = immediates[l] => k = l

StoppedIsReadyOrEarly ==
  \A i \in DOMAIN sessions : ~Runs(i) => sessions[i].early \/ (sessions[i].ready /\ ~Collects(i))

SessionInv ==
  /\ SessionTypeOK /\ OneRuns /\ RunningIsNative /\ ReadiedOnce /\ StoppedIsReadyOrEarly
  /\ native.heap => native.heapFlag
  /\ NothingReadyLeaks

LEMMA SessionInvKept ==
  ASSUME SessionInv, UNCHANGED <<sessions, running, immediates, native>>
  PROVE  SessionInv'
BY DEF SessionInv, SessionTypeOK, OneRuns, RunningIsNative, ReadiedOnce, StoppedIsReadyOrEarly,
       NothingReadyLeaks, Collects, Runs

LEMMA StartCpuType ==
  ASSUME SessionTypeOK, NEW c \in Controllers, NEW interval \in Intervals, NEW memory \in BOOLEAN,
         CanStart(native), StartCpu(c, interval, memory, native)
  PROVE  /\ SessionTypeOK'
         /\ Len(sessions') = Len(sessions) + 1 /\ Len(sessions) \in Nat
         /\ DOMAIN sessions = 1 .. Len(sessions) /\ DOMAIN sessions' = 1 .. Len(sessions) + 1
         /\ \A i \in DOMAIN sessions : sessions'[i] = sessions[i]
         /\ sessions'[Len(sessions) + 1] = Session(interval, memory)
         /\ running' = [running EXCEPT ![c] = Len(sessions) + 1]
         /\ native' = [native EXCEPT !.cpu = interval]
<1>1. Session(interval, memory) \in SessionRecords
  BY DEF Session, SessionRecords
<1>2. /\ sessions' = Append(sessions, Session(interval, memory))
      /\ immediates' = Append(immediates, Len(sessions) + 1)
      /\ running' = [running EXCEPT ![c] = Len(sessions) + 1]
      /\ native' = [native EXCEPT !.cpu = interval]
  BY DEF StartCpu
<1>3. /\ sessions' \in Seq(SessionRecords)
      /\ Len(sessions') = Len(sessions) + 1 /\ Len(sessions) \in Nat
      /\ DOMAIN sessions = 1 .. Len(sessions) /\ DOMAIN sessions' = 1 .. Len(sessions) + 1
      /\ \A i \in DOMAIN sessions : sessions'[i] = sessions[i]
      /\ sessions'[Len(sessions) + 1] = Session(interval, memory)
  BY <1>1, <1>2 DEF SessionTypeOK
<1>4. immediates' \in Seq(DOMAIN sessions')
  <2>1. immediates \in Seq(DOMAIN sessions')
    BY <1>3 DEF SessionTypeOK
  <2> QED
    BY <2>1, <1>2, <1>3
<1>5. running' \in [Controllers -> DOMAIN sessions' \cup {NoSession}]
  BY <1>2, <1>3 DEF SessionTypeOK
<1>6. native' \in Natives
  BY <1>2 DEF SessionTypeOK, Natives
<1> QED
  BY <1>2, <1>3, <1>4, <1>5, <1>6 DEF SessionTypeOK

\* A session's interval is not 0, so nobody runs while the native profiler is off.
LEMMA OffIsIdle ==
  ASSUME SessionInv, native.cpu = 0
  PROVE  \A c \in Controllers : running[c] = NoSession
<1> SUFFICES ASSUME NEW c \in Controllers, running[c] # NoSession PROVE FALSE
  OBVIOUS
<1>1. running[c] \in DOMAIN sessions /\ sessions[running[c]] \in SessionRecords
  BY DEF SessionInv, SessionTypeOK
<1>2. sessions[running[c]].interval \in Intervals
  BY <1>1 DEF SessionRecords
<1> QED
  BY <1>2, IntervalAssumption DEF SessionInv, RunningIsNative

LEMMA StartKeeps ==
  ASSUME SessionInv, NEW c \in Controllers, NEW interval \in Intervals, NEW memory \in BOOLEAN,
         StartCpu(c, interval, memory, native)
  PROVE  SessionInv'
<1>1. CASE ~CanStart(native)
  BY <1>1, SessionInvKept DEF StartCpu
<1>2. CASE CanStart(native)
  <2> DEFINE n == Len(sessions) + 1
             s == Session(interval, memory)
  <2>1. /\ SessionTypeOK'
        /\ n \in Nat /\ DOMAIN sessions = 1 .. n - 1 /\ DOMAIN sessions' = 1 .. n
        /\ \A i \in DOMAIN sessions : sessions'[i] = sessions[i]
        /\ sessions'[n] = s
        /\ running' = [running EXCEPT ![c] = n]
        /\ native' = [native EXCEPT !.cpu = interval]
    BY <1>2, StartCpuType DEF SessionInv
  <2>2. /\ n \notin DOMAIN sessions /\ DOMAIN sessions' = DOMAIN sessions \cup {n}
        /\ n # NoSession
    BY <2>1, NullAssumption
  <2>3. \A d \in Controllers : running[d] = NoSession
    BY <1>2, OffIsIdle DEF CanStart
  <2>4. \A d \in Controllers : running'[d] = IF d = c THEN n ELSE NoSession
    BY <2>1, <2>3 DEF SessionInv, SessionTypeOK
  <2>5. s.interval = interval /\ s.ready = FALSE /\ s.early = FALSE
        /\ s.cpuLoop = FALSE /\ s.memLoop = FALSE
    BY DEF Session
  <2>6. native'.cpu = interval /\ native'.heap = native.heap /\ native'.heapFlag = native.heapFlag
    BY <2>1 DEF SessionInv, SessionTypeOK, Natives
  <2>7. \A i \in DOMAIN sessions' : Runs(i)' <=> i = n
    <3>1. \A i \in DOMAIN sessions' : i # NoSession
      BY <2>1, NullAssumption
    <3> QED
      BY <3>1, <2>4 DEF Runs
  <2>8. OneRuns' /\ RunningIsNative'
    BY <2>1, <2>2, <2>4, <2>5, <2>6 DEF OneRuns, RunningIsNative
  <2>9. ReadiedOnce'
    <3>1. immediates \in Seq(DOMAIN sessions) /\ immediates' = Append(immediates, n)
      BY <1>2 DEF StartCpu, SessionInv, SessionTypeOK
    <3>2. /\ DOMAIN immediates = 1 .. Len(immediates) /\ Len(immediates) \in Nat
          /\ DOMAIN immediates' = 1 .. Len(immediates) + 1
          /\ immediates'[Len(immediates) + 1] = n
          /\ \A k \in DOMAIN immediates :
                immediates'[k] = immediates[k] /\ immediates[k] \in DOMAIN sessions
      BY <3>1
    <3> QED
      BY <3>2, <2>1, <2>2, <2>5 DEF SessionInv, ReadiedOnce
  <2>10. \A i \in DOMAIN sessions : ~Runs(i)
    BY <2>2, <2>3, NullAssumption, <2>1 DEF Runs
  <2>11. StoppedIsReadyOrEarly'
    BY <2>1, <2>2, <2>7, <2>10 DEF SessionInv, StoppedIsReadyOrEarly, Collects
  <2>12. NothingReadyLeaks'
    BY <2>1, <2>2, <2>5, <2>6, <2>7, <2>10 DEF SessionInv, NothingReadyLeaks, Collects
  <2> QED
    BY <2>1, <2>6, <2>8, <2>9, <2>11, <2>12 DEF SessionInv
<1> QED
  BY <1>1, <1>2

LEMMA HaltKeeps ==
  ASSUME SessionInv, NEW c \in Controllers, NEW i, i = running[c], i # NoSession,
         running' = [running EXCEPT ![c] = NoSession],
         sessions' = [sessions EXCEPT ![i] = Halted(@)],
         native' = HaltNative(sessions[i], native),
         UNCHANGED immediates
  PROVE  SessionInv'
<1>1. /\ i \in DOMAIN sessions /\ sessions[i] \in SessionRecords
      /\ sessions \in Seq(SessionRecords) /\ native \in Natives
  BY DEF SessionInv, SessionTypeOK
<1>2. /\ Halted(sessions[i]) \in SessionRecords
      /\ Halted(sessions[i]).ready = sessions[i].ready
      /\ Halted(sessions[i]).memory = sessions[i].memory
      /\ Halted(sessions[i]).early = ~sessions[i].ready
      /\ ~Halted(sessions[i]).cpuLoop /\ ~Halted(sessions[i]).memLoop
  BY <1>1 DEF Halted, SessionRecords
<1>3. /\ native' \in Natives /\ native'.cpu = 0
      /\ native'.heap = (native.heap /\ ~(sessions[i].memory /\ native.heapFlag))
      /\ native'.heapFlag = native.heapFlag
  BY <1>1 DEF HaltNative, StopHeapProfiler, StopCpuProfiler, Natives, SessionRecords
<1>4. /\ sessions' \in Seq(SessionRecords) /\ DOMAIN sessions' = DOMAIN sessions
      /\ sessions'[i] = Halted(sessions[i])
      /\ \A k \in DOMAIN sessions : k # i => sessions'[k] = sessions[k]
  BY <1>1, <1>2
<1>5. SessionTypeOK'
  BY <1>3, <1>4 DEF SessionInv, SessionTypeOK
<1>6. \A d \in Controllers : running'[d] = NoSession
  BY DEF SessionInv, SessionTypeOK, OneRuns
<1>7. \A k \in DOMAIN sessions : k # NoSession
  BY <1>1, NullAssumption
<1>8. \A k \in DOMAIN sessions : ~Runs(k)'
  BY <1>6, <1>7 DEF Runs
<1>9. \A k \in DOMAIN sessions : k # i => ~Runs(k)
  BY <1>7 DEF Runs, SessionInv, OneRuns
<1>10. OneRuns' /\ RunningIsNative'
  BY <1>3, <1>6 DEF OneRuns, RunningIsNative
<1>11. ReadiedOnce'
  <2>1. \A k \in DOMAIN sessions : sessions'[k].ready = sessions[k].ready
    BY <1>2, <1>4
  <2>2. \A k \in DOMAIN immediates : immediates[k] \in DOMAIN sessions
    BY DEF SessionInv, SessionTypeOK
  <2> QED
    BY <2>1, <2>2 DEF SessionInv, ReadiedOnce
<1>12. StoppedIsReadyOrEarly'
  BY <1>1, <1>2, <1>4, <1>8, <1>9 DEF SessionInv, StoppedIsReadyOrEarly, Collects, SessionRecords
<1>13. NothingReadyLeaks'
  <2>1. \A k \in DOMAIN sessions : Collects(k)' => sessions'[k].early
    BY <1>2, <1>4, <1>9 DEF SessionInv, NothingReadyLeaks, Collects
  <2>2. ASSUME native'.heap
        PROVE  \E k \in DOMAIN sessions : sessions'[k].memory /\ sessions'[k].early /\ sessions'[k].ready
    <3>1. native.heap /\ ~sessions[i].memory
      BY <2>2, <1>3 DEF SessionInv
    <3>2. PICK k \in DOMAIN sessions :
            sessions[k].memory /\ (Runs(k) \/ (sessions[k].early /\ sessions[k].ready))
      BY <3>1 DEF SessionInv, NothingReadyLeaks
    <3>3. k # i /\ sessions'[k] = sessions[k] /\ ~Runs(k)
      BY <3>1, <3>2, <1>4, <1>9
    <3> QED
      BY <3>2, <3>3
  <2> QED
    BY <2>1, <2>2, <1>4 DEF NothingReadyLeaks
<1> QED
  BY <1>3, <1>5, <1>10, <1>11, <1>12, <1>13 DEF SessionInv

LEMMA ImmediateKeeps ==
  ASSUME SessionInv, RunImmediate
  PROVE  SessionInv'
<1> DEFINE i == Head(immediates)
<1>1. /\ immediates \in Seq(DOMAIN sessions) /\ immediates # <<>>
      /\ sessions' = [sessions EXCEPT ![i] = Readied(@)]
      /\ native' = IF sessions[i].memory THEN StartHeapProfiler(native) ELSE native
      /\ immediates' = Tail(immediates) /\ running' = running
      /\ sessions \in Seq(SessionRecords) /\ native \in Natives
  BY DEF RunImmediate, SessionInv, SessionTypeOK
<1>2. /\ i \in DOMAIN sessions /\ 1 \in DOMAIN immediates /\ i = immediates[1]
      /\ immediates' \in Seq(DOMAIN sessions)
      /\ \A k \in DOMAIN immediates' :
            k \in Nat /\ k + 1 # 1 /\ k + 1 \in DOMAIN immediates /\ immediates'[k] = immediates[k + 1]
  BY <1>1
<1>3. sessions[i] \in SessionRecords /\ ~sessions[i].ready
  BY <1>1, <1>2 DEF SessionInv, ReadiedOnce
<1>4. /\ Readied(sessions[i]) \in SessionRecords
      /\ Readied(sessions[i]).ready
      /\ Readied(sessions[i]).interval = sessions[i].interval
      /\ Readied(sessions[i]).memory = sessions[i].memory
      /\ Readied(sessions[i]).early = sessions[i].early
  BY <1>3 DEF Readied, SessionRecords
<1>5. /\ sessions' \in Seq(SessionRecords) /\ DOMAIN sessions' = DOMAIN sessions
      /\ sessions'[i] = Readied(sessions[i])
      /\ \A k \in DOMAIN sessions : k # i => sessions'[k] = sessions[k]
  BY <1>1, <1>2, <1>4
<1>6. /\ native' \in Natives /\ native'.cpu = native.cpu
      /\ native'.heap => native.heap \/ sessions[i].memory
      /\ native'.heap => native'.heapFlag
  BY <1>1, <1>3 DEF StartHeapProfiler, Natives, SessionInv
<1>7. SessionTypeOK'
  BY <1>1, <1>2, <1>5, <1>6 DEF SessionInv, SessionTypeOK
<1>8. OneRuns'
  BY <1>1 DEF SessionInv, OneRuns
<1>9. RunningIsNative'
  BY <1>1, <1>2, <1>4, <1>5, <1>6 DEF SessionInv, SessionTypeOK, RunningIsNative
<1>10. ReadiedOnce'
  <2>1. \A k \in DOMAIN immediates' : immediates'[k] # i /\ immediates'[k] \in DOMAIN sessions
    BY <1>1, <1>2 DEF SessionInv, ReadiedOnce
  <2>2. \A k \in DOMAIN immediates' : ~sessions'[immediates'[k]].ready
    BY <2>1, <1>2, <1>5 DEF SessionInv, ReadiedOnce
  <2>3. \A k, l \in DOMAIN immediates' : immediates'[k] = immediates'[l] => k = l
    BY <1>2 DEF SessionInv, ReadiedOnce
  <2> QED
    BY <2>2, <2>3 DEF ReadiedOnce
<1>11. \A k \in DOMAIN sessions : Runs(k)' = Runs(k)
  BY <1>1 DEF Runs
<1>12. Runs(i) \/ sessions[i].early
  BY <1>2, <1>3 DEF SessionInv, StoppedIsReadyOrEarly
<1>13. StoppedIsReadyOrEarly'
  BY <1>4, <1>5, <1>11, <1>12 DEF SessionInv, StoppedIsReadyOrEarly, Collects
<1>14. NothingReadyLeaks'
  <2>1. \A k \in DOMAIN sessions : Collects(k)' => Runs(k) \/ sessions'[k].early
    BY <1>4, <1>5, <1>12 DEF SessionInv, NothingReadyLeaks, Collects
  <2>2. ASSUME native'.heap
        PROVE  \E k \in DOMAIN sessions :
                 sessions'[k].memory /\ (Runs(k) \/ (sessions'[k].early /\ sessions'[k].ready))
    <3>1. CASE sessions[i].memory
      BY <3>1, <1>2, <1>4, <1>5, <1>12
    <3>2. CASE ~sessions[i].memory
      <4>1. PICK k \in DOMAIN sessions :
              sessions[k].memory /\ (Runs(k) \/ (sessions[k].early /\ sessions[k].ready))
        BY <2>2, <3>2, <1>6 DEF SessionInv, NothingReadyLeaks
      <4> QED
        BY <4>1, <3>2, <1>5
    <3> QED
      BY <3>1, <3>2
  <2> QED
    BY <2>1, <2>2, <1>5, <1>11 DEF NothingReadyLeaks
<1> QED
  BY <1>6, <1>7, <1>8, <1>9, <1>10, <1>13, <1>14 DEF SessionInv

(***************************************************************************)
(* The jobs.                                                               *)
(***************************************************************************)

JobTypeOK ==
  /\ phase \in [Controllers -> {"new", "up", "closing"}]
  /\ queue \in [Controllers -> Seq(Jobs)]
  /\ job \in [Controllers -> Jobs \cup {NoJob}]
  /\ flushing \in [Controllers -> BOOLEAN]
  /\ jobs \in 0 .. MaxJobs
  /\ last \in [Controllers -> [job : Jobs \cup {NoJob}, ok : BOOLEAN]]

ReportTypeOK ==
  /\ snapshot \in [registered : BOOLEAN, active : BOOLEAN, interval : Intervals]
  /\ effective \in Effectives

\* A controller that was not started has nothing; a job that awaits the stop of
\* a session has stopped it.
JobInv ==
  \A c \in Controllers :
    /\ phase[c] = "new" =>
         queue[c] = <<>> /\ job[c] = NoJob /\ running[c] = NoSession /\ last[c].job = NoJob
    /\ job[c] # NoJob => running[c] = NoSession

\* What the effective state says of callgraphs is always so.
ReportInv ==
  /\ effective.calls = snapshot.active /\ effective.callsInterval = snapshot.interval
  /\ ~snapshot.registered => ~snapshot.active

Inv == SessionInv /\ JobTypeOK /\ ReportTypeOK /\ JobInv /\ ReportInv

LEMMA InvInit == Init => Inv
<1> SUFFICES ASSUME Init PROVE Inv
  OBVIOUS
<1>1. SessionTypeOK /\ OneRuns /\ RunningIsNative /\ ReadiedOnce /\ StoppedIsReadyOrEarly
  <2>1. /\ sessions = <<>> /\ immediates = <<>> /\ running = [c \in Controllers |-> NoSession]
        /\ native \in Natives /\ native.cpu = 0
    BY DEF Init, Natives
  <2>2. SessionTypeOK
    BY <2>1 DEF SessionTypeOK
  <2> QED
    BY <2>1, <2>2 DEF OneRuns, RunningIsNative, ReadiedOnce, StoppedIsReadyOrEarly
<1>2. ~native.heap /\ sessions = <<>>
  BY DEF Init
<1>3. NothingReadyLeaks
  BY <1>2 DEF NothingReadyLeaks
<1>4. JobTypeOK
  BY BoundAssumption DEF Init, JobTypeOK
<1>5. ReportTypeOK /\ ReportInv
  <2>1. PICK registered \in BOOLEAN, active \in BOOLEAN :
          /\ active => registered
          /\ snapshot = [registered |-> registered, active |-> active, interval |-> SnapshotInterval]
          /\ effective = [cpu |-> FALSE, memory |-> FALSE, interval |-> 0,
                          calls |-> active, callsInterval |-> SnapshotInterval]
    BY DEF Init
  <2> QED
    BY <2>1, IntervalAssumption DEF ReportTypeOK, ReportInv, Effectives
<1>6. JobInv
  BY DEF Init, JobInv
<1> QED
  BY <1>1, <1>2, <1>3, <1>4, <1>5, <1>6 DEF Inv, SessionInv

LEMMA JobParts ==
  ASSUME NEW j \in Jobs
  PROVE  /\ j # NoJob
         /\ j.kind = "apply" =>
              /\ j.cfg \in Configs
              /\ j.cfg.cpu \in BOOLEAN /\ j.cfg.memory \in BOOLEAN /\ j.cfg.calls \in BOOLEAN
              /\ IntervalOf(j.cfg) \in Intervals
              /\ j.cfg.callsInterval \in Intervals \cup {0}
         /\ j # StopJob => j.kind = "apply"
<1>1. j # NoJob
  BY NullAssumption DEF Jobs
<1>2. j.kind = "apply" => j.cfg \in Configs
  BY DEF Jobs
<1>3. \A cfg \in Configs : /\ cfg.cpu \in BOOLEAN /\ cfg.memory \in BOOLEAN /\ cfg.calls \in BOOLEAN
                            /\ cfg.interval \in Intervals \cup {0}
                            /\ cfg.callsInterval \in Intervals \cup {0}
  BY ConfigAssumption
<1>4. \A cfg \in Configs : IntervalOf(cfg) \in Intervals
  BY <1>3, IntervalAssumption DEF IntervalOf
<1>5. j # StopJob => j.kind = "apply"
  BY DEF Jobs, StopJob
<1> QED
  BY <1>1, <1>2, <1>3, <1>4, <1>5

\* The session part of a job's end.
LEMMA FinishStarts ==
  ASSUME Inv, NEW c \in Controllers, NEW j \in Jobs, NEW stopped \in BOOLEAN,
         Finish(c, j, stopped)
  PROVE  SessionInv'
<1>1. CASE Starts(c, j, stopped)
  <2>1. StartCpu(c, IntervalOf(j.cfg), j.cfg.memory, native)
    BY <1>1 DEF Finish
  <2>2. IntervalOf(j.cfg) \in Intervals /\ j.cfg.memory \in BOOLEAN
    BY <1>1, JobParts DEF Starts
  <2> QED
    BY <2>1, <2>2, StartKeeps DEF Inv
<1>2. CASE ~Starts(c, j, stopped)
  BY <1>2, SessionInvKept DEF Finish, Inv
<1> QED
  BY <1>1, <1>2

LEMMA FinishReports ==
  ASSUME Inv, NEW c \in Controllers, NEW j \in Jobs, NEW stopped \in BOOLEAN,
         Finish(c, j, stopped)
  PROVE  ReportTypeOK' /\ ReportInv'
<1> DEFINE idle == IF stopped THEN [effective EXCEPT !.cpu = FALSE, !.memory = FALSE] ELSE effective
           cpu == IF Starts(c, j, stopped) THEN EffectiveStart(IntervalOf(j.cfg), j.cfg.memory) ELSE idle
<1>1. /\ idle \in Effectives /\ idle.calls = effective.calls
      /\ idle.callsInterval = effective.callsInterval
  BY DEF Inv, ReportTypeOK, Effectives
<1>2. Starts(c, j, stopped) =>
        /\ EffectiveStart(IntervalOf(j.cfg), j.cfg.memory) \in Effectives
        /\ EffectiveStart(IntervalOf(j.cfg), j.cfg.memory).calls = effective.calls
        /\ EffectiveStart(IntervalOf(j.cfg), j.cfg.memory).callsInterval = effective.callsInterval
  BY JobParts DEF Inv, ReportTypeOK, Effectives, EffectiveStart, Starts
<1>3. cpu \in Effectives /\ cpu.calls = effective.calls /\ cpu.callsInterval = effective.callsInterval
  BY <1>1, <1>2
<1>4. CASE j.kind = "apply" /\ snapshot.registered
  <2>1. /\ snapshot' = [snapshot EXCEPT !.active = j.cfg.calls,
                                        !.interval = IF j.cfg.callsInterval > 0
                                                       THEN j.cfg.callsInterval ELSE @]
        /\ effective' = [cpu EXCEPT !.calls = snapshot'.active, !.callsInterval = snapshot'.interval]
    BY <1>4 DEF Finish, ApplyCallgraphs
  <2>2. j.cfg.calls \in BOOLEAN /\ j.cfg.callsInterval \in Intervals \cup {0}
    BY <1>4, JobParts
  <2>3. snapshot' \in [registered : BOOLEAN, active : BOOLEAN, interval : Intervals]
        /\ snapshot'.registered
    <3>1. j.cfg.callsInterval > 0 => j.cfg.callsInterval \in Intervals
      BY <2>2, IntervalAssumption
    <3> QED
      BY <2>1, <2>2, <3>1, <1>4 DEF Inv, ReportTypeOK
  <2>4. effective' \in Effectives /\ effective'.calls = snapshot'.active
        /\ effective'.callsInterval = snapshot'.interval
    BY <2>1, <2>3, <1>3 DEF Effectives
  <2> QED
    BY <2>3, <2>4 DEF ReportTypeOK, ReportInv
<1>5. CASE ~(j.kind = "apply" /\ snapshot.registered)
  <2>1. snapshot' = snapshot /\ effective' = cpu
    BY <1>5 DEF Finish, ApplyCallgraphs
  <2> QED
    BY <2>1, <1>3 DEF Inv, ReportTypeOK, ReportInv
<1> QED
  BY <1>4, <1>5

LEMMA FinishKeeps ==
  ASSUME Inv, NEW c \in Controllers, NEW j \in Jobs, NEW stopped \in BOOLEAN,
         Finish(c, j, stopped), phase[c] # "new",
         \/ UNCHANGED queue
         \/ queue[c] # <<>> /\ queue' = [queue EXCEPT ![c] = Tail(@)]
  PROVE  Inv'
<1>1. SessionInv' /\ ReportTypeOK' /\ ReportInv'
  BY FinishStarts, FinishReports
<1>2. PICK ok \in BOOLEAN : Settled(c, j, ok)
  BY DEF Finish
<1>3. UNCHANGED <<phase, jobs>>
  BY DEF Finish
<1>4. queue' \in [Controllers -> Seq(Jobs)] /\ \A d \in Controllers : d # c => queue'[d] = queue[d]
  <2>1. queue[c] \in Seq(Jobs) /\ (queue[c] # <<>> => Tail(queue[c]) \in Seq(Jobs))
    BY DEF Inv, JobTypeOK
  <2> QED
    BY <2>1 DEF Inv, JobTypeOK
<1>5. JobTypeOK'
  BY <1>2, <1>3, <1>4 DEF Settled, Inv, JobTypeOK
<1>6. /\ \A d \in Controllers : d # c => job'[d] = job[d] /\ last'[d] = last[d]
      /\ job'[c] = NoJob
  BY <1>2 DEF Settled, Inv, JobTypeOK
<1>7. \A d \in Controllers : d # c => running'[d] = running[d]
  <2>1. running' = running \/ running' = [running EXCEPT ![c] = Len(sessions) + 1]
    BY DEF Finish, StartCpu
  <2> QED
    BY <2>1 DEF Inv, SessionInv, SessionTypeOK
<1>8. JobInv'
  BY <1>3, <1>4, <1>6, <1>7 DEF Inv, JobInv
<1> QED
  BY <1>1, <1>5, <1>8 DEF Inv

\* A queue that is not empty is a started controller's, and its head is a job.
LEMMA QueuedJob ==
  ASSUME Inv, NEW c \in Controllers, queue[c] # <<>>
  PROVE  Head(queue[c]) \in Jobs /\ phase[c] # "new"
BY DEF Inv, JobTypeOK, JobInv

LEMMA AwaitingJob ==
  ASSUME Inv, NEW c \in Controllers, job[c] # NoJob
  PROVE  job[c] \in Jobs /\ phase[c] # "new" /\ running[c] = NoSession
BY DEF Inv, JobTypeOK, JobInv

LEMMA BeginJobKeeps ==
  ASSUME Inv, NEW c \in Controllers, BeginJob(c)
  PROVE  Inv'
<1> DEFINE j == Head(queue[c])
           i == running[c]
<1>1. /\ job[c] = NoJob /\ queue[c] # <<>> /\ queue' = [queue EXCEPT ![c] = Tail(@)]
      /\ j \in Jobs /\ phase[c] # "new"
  BY QueuedJob DEF BeginJob
<1>2. CASE StopsFirst(c, j)
  <2>1. /\ job' = [job EXCEPT ![c] = j]
        /\ running' = [running EXCEPT ![c] = NoSession]
        /\ sessions' = [sessions EXCEPT ![i] = Halted(@)]
        /\ native' = HaltNative(sessions[i], native)
        /\ flushing' = [flushing EXCEPT ![c] = Flushes(sessions[i])]
        /\ UNCHANGED <<phase, immediates, snapshot, effective, jobs, last>>
    BY <1>2 DEF BeginJob
  <2>2. i # NoSession
    BY <1>2 DEF StopsFirst
  <2>3. SessionInv'
    BY <2>1, <2>2, HaltKeeps DEF Inv
  <2>4. Flushes(sessions[i]) \in BOOLEAN
    <3>1. i \in DOMAIN sessions /\ sessions \in Seq(SessionRecords)
      BY <2>2 DEF Inv, SessionInv, SessionTypeOK
    <3>2. sessions[i] \in SessionRecords
      BY <3>1
    <3> QED
      BY <3>2 DEF Flushes, SessionRecords
  <2>5. queue' \in [Controllers -> Seq(Jobs)]
    <3>1. queue[c] \in Seq(Jobs) /\ Tail(queue[c]) \in Seq(Jobs)
      BY <1>1 DEF Inv, JobTypeOK
    <3> QED
      BY <1>1, <3>1 DEF Inv, JobTypeOK
  <2>6. JobTypeOK'
    BY <1>1, <2>1, <2>4, <2>5 DEF Inv, JobTypeOK
  <2>7. ReportTypeOK' /\ ReportInv'
    BY <2>1 DEF Inv, ReportTypeOK, ReportInv
  <2>8. \A d \in Controllers :
          /\ d # c => queue'[d] = queue[d] /\ job'[d] = job[d] /\ running'[d] = running[d]
          /\ running'[c] = NoSession
    BY <1>1, <2>1 DEF Inv, JobTypeOK, SessionInv, SessionTypeOK
  <2>9. JobInv'
    BY <1>1, <2>1, <2>8 DEF Inv, JobInv
  <2> QED
    BY <2>3, <2>6, <2>7, <2>9 DEF Inv
<1>3. CASE ~StopsFirst(c, j)
  <2>1. Finish(c, j, FALSE)
    BY <1>3 DEF BeginJob
  <2> QED
    BY <1>1, <2>1, FinishKeeps
<1> QED
  BY <1>2, <1>3

LEMMA EndJobKeeps ==
  ASSUME Inv, NEW c \in Controllers, EndJob(c)
  PROVE  Inv'
<1>1. job[c] # NoJob /\ Finish(c, job[c], TRUE) /\ UNCHANGED queue
  BY DEF EndJob
<1> QED
  BY <1>1, AwaitingJob, FinishKeeps

LEMMA InitialSessionKeeps ==
  ASSUME Inv, NEW c \in Controllers, NEW enabled \in BOOLEAN, InitialSession(c, enabled),
         UNCHANGED <<queue, job, flushing, jobs, last>>
  PROVE  SessionInv' /\ JobTypeOK' /\ JobInv'
<1>1. /\ phase[c] = "new"
      /\ phase' = [phase EXCEPT ![c] = IF InitialThrows(enabled) THEN "closing" ELSE "up"]
      /\ enabled => StartCpu(c, BaseInterval, BaseMemory, native)
      /\ ~enabled => UNCHANGED <<sessions, immediates, running, native>>
  BY DEF InitialSession
<1>2. SessionInv'
  BY <1>1, StartKeeps, SessionInvKept, IntervalAssumption, OptionAssumption DEF Inv
<1>3. JobTypeOK'
  BY <1>1 DEF Inv, JobTypeOK
<1>4. JobInv'
  <2>1. \A d \in Controllers : d # c => running'[d] = running[d] /\ phase'[d] = phase[d]
    <3>1. running' = running \/ running' = [running EXCEPT ![c] = Len(sessions) + 1]
      BY <1>1 DEF StartCpu
    <3> QED
      BY <1>1, <3>1 DEF Inv, JobTypeOK, SessionInv, SessionTypeOK
  <2>2. phase'[c] # "new" /\ job'[c] = NoJob
    BY <1>1 DEF Inv, JobTypeOK, JobInv
  <2> QED
    BY <1>1, <2>1, <2>2 DEF Inv, JobInv
<1> QED
  BY <1>2, <1>3, <1>4

LEMMA InitialEffectiveType ==
  ASSUME Inv, NEW enabled \in BOOLEAN
  PROVE  /\ InitialEffective(enabled) \in Effectives
         /\ InitialEffective(enabled).calls = effective.calls
         /\ InitialEffective(enabled).callsInterval = effective.callsInterval
BY IntervalAssumption, OptionAssumption
DEF InitialEffective, EffectiveStart, Inv, ReportTypeOK, Effectives

LEMMA StartInitialKeeps ==
  ASSUME Inv, NEW c \in Controllers, NEW enabled \in BOOLEAN, StartInitial(c, enabled)
  PROVE  Inv'
<1>1. SessionInv' /\ JobTypeOK' /\ JobInv'
  BY InitialSessionKeeps DEF StartInitial
<1>2. ReportTypeOK' /\ ReportInv'
  BY InitialEffectiveType DEF StartInitial, Inv, ReportTypeOK, ReportInv
<1> QED
  BY <1>1, <1>2 DEF Inv

LEMMA ChainKeeps ==
  ASSUME Inv, NEW c \in Controllers, NEW j \in Jobs, Chain(c, j), phase[c] = "up",
         \/ UNCHANGED phase
         \/ phase' = [phase EXCEPT ![c] = "closing"]
  PROVE  SessionInv' /\ JobTypeOK' /\ JobInv'
<1>1. /\ jobs < MaxJobs /\ jobs' = jobs + 1 /\ queue' = [queue EXCEPT ![c] = Append(@, j)]
      /\ UNCHANGED <<job, flushing, running, sessions, immediates, native, last>>
  BY DEF Chain
<1>2. SessionInv'
  BY <1>1, SessionInvKept DEF Inv
<1>3. JobTypeOK'
  <2>1. jobs' \in 0 .. MaxJobs
    BY <1>1, BoundAssumption DEF Inv, JobTypeOK
  <2>2. queue[c] \in Seq(Jobs) /\ Append(queue[c], j) \in Seq(Jobs)
    BY DEF Inv, JobTypeOK
  <2> QED
    BY <1>1, <2>1, <2>2 DEF Inv, JobTypeOK
<1>4. JobInv'
  <2>1. phase'[c] # "new"
        /\ \A d \in Controllers : d # c => phase'[d] = phase[d] /\ queue'[d] = queue[d]
    BY <1>1 DEF Inv, JobTypeOK
  <2> QED
    BY <1>1, <2>1 DEF Inv, JobInv
<1> QED
  BY <1>2, <1>3, <1>4

LEMMA EnqueueKeeps ==
  ASSUME Inv, NEW c \in Controllers, NEW j \in Jobs, Enqueue(c, j), phase[c] = "up",
         \/ UNCHANGED phase
         \/ phase' = [phase EXCEPT ![c] = "closing"]
  PROVE  Inv'
BY ChainKeeps DEF Enqueue, Inv, ReportTypeOK, ReportInv

LEMMA InvStep == Inv /\ [Next]_vars => Inv'
<1> SUFFICES ASSUME Inv, [Next]_vars PROVE Inv'
  OBVIOUS
<1>1. CASE UNCHANGED vars
  <2>1. SessionInv'
    BY <1>1, SessionInvKept DEF Inv, vars
  <2> QED
    BY <1>1, <2>1 DEF Inv, JobTypeOK, ReportTypeOK, JobInv, ReportInv, vars
<1>2. ASSUME NEW c \in Controllers, BeginJob(c) PROVE Inv'
  BY <1>2, BeginJobKeeps
<1>3. ASSUME NEW c \in Controllers, EndJob(c) PROVE Inv'
  BY <1>3, EndJobKeeps
<1>4. ASSUME NEW c \in Controllers, NEW enabled \in BOOLEAN, StartInitial(c, enabled) PROVE Inv'
  BY <1>4, StartInitialKeeps
<1>5. ASSUME NEW c \in Controllers, NEW cfg \in Configs, ApplyRemoteConfiguration(c, cfg) PROVE Inv'
  <2>1. [kind |-> "apply", cfg |-> cfg] \in Jobs
    BY DEF Jobs
  <2> QED
    BY <1>5, <2>1, EnqueueKeeps DEF ApplyRemoteConfiguration
<1>6. ASSUME NEW c \in Controllers, StopAll(c) PROVE Inv'
  <2>1. StopJob \in Jobs
    BY DEF Jobs, StopJob
  <2> QED
    BY <1>6, <2>1, EnqueueKeeps DEF StopAll
<1>7. CASE RunImmediate
  <2>1. SessionInv'
    BY <1>7, ImmediateKeeps DEF Inv
  <2> QED
    BY <1>7, <2>1 DEF RunImmediate, Inv, JobTypeOK, ReportTypeOK, JobInv, ReportInv
<1> QED
  BY <1>1, <1>2, <1>3, <1>4, <1>5, <1>6, <1>7 DEF Next, Microtask, Macrotask

LEMMA InvAlways == Spec => []Inv
BY InvInit, InvStep, PTL DEF Spec

\* Every variable keeps its type.
THEOREM TypeCorrect == Spec => []TypeOK
<1>1. Inv => TypeOK
  BY DEF Inv, SessionInv, SessionTypeOK, JobTypeOK, ReportTypeOK, TypeOK,
         SessionRecords, Natives, Effectives
<1> QED
  BY <1>1, InvAlways, PTL

\* With any number of controllers, started and stopped in any order, the native
\* CPU profiler samples at the interval of the one session a controller thinks
\* is running, and is off when none does.
THEOREM RunningIsNativeCorrect == Spec => []RunningIsNative
<1>1. Inv => RunningIsNative
  BY DEF Inv, SessionInv
<1> QED
  BY <1>1, InvAlways, PTL

\* With any number of controllers, only a session stopped before its
\* setImmediate callback leaves a collection or the heap sampling behind.
THEOREM NothingReadyLeaksCorrect == Spec => []NothingReadyLeaks
<1>1. Inv => NothingReadyLeaks
  BY DEF Inv, SessionInv
<1> QED
  BY <1>1, InvAlways, PTL

(***************************************************************************)
(* With a single controller, as in a process that starts the SDK once, what *)
(* it reports is so.  (Of two, the second changes what the first applied.) *)
(***************************************************************************)

Lone == \A c, d \in Controllers : c = d

Alone(c) == \A d \in Controllers : d # c => running[d] = NoSession

\* The native profiler is off when the only session is stopped.
LEMMA AloneRunning ==
  ASSUME SessionInv, NEW c \in Controllers, Alone(c)
  PROVE  /\ running[c] = NoSession => native.cpu = 0
         /\ running[c] # NoSession =>
              /\ running[c] \in DOMAIN sessions /\ sessions[running[c]] \in SessionRecords
              /\ native.cpu = sessions[running[c]].interval /\ native.cpu # 0
<1>1. running[c] = NoSession => native.cpu = 0
  BY DEF Alone, SessionInv, RunningIsNative
<1>2. ASSUME running[c] # NoSession
      PROVE  /\ running[c] \in DOMAIN sessions /\ sessions[running[c]] \in SessionRecords
             /\ native.cpu = sessions[running[c]].interval
  BY <1>2 DEF SessionInv, SessionTypeOK, RunningIsNative
<1>3. running[c] # NoSession => native.cpu # 0
  BY <1>2, IntervalAssumption DEF SessionRecords
<1> QED
  BY <1>1, <1>2, <1>3

\* A session that a job starts, and what runs otherwise.
LEMMA FinishRuns ==
  ASSUME Inv, NEW c \in Controllers, NEW j \in Jobs, NEW stopped \in BOOLEAN,
         Finish(c, j, stopped)
  PROVE  /\ Starts(c, j, stopped) /\ CanStart(native) =>
              /\ running'[c] # NoSession
              /\ sessions'[running'[c]].interval = IntervalOf(j.cfg)
              /\ sessions'[running'[c]].memory = j.cfg.memory
              /\ native'.cpu = IntervalOf(j.cfg)
         /\ ~(Starts(c, j, stopped) /\ CanStart(native)) =>
              UNCHANGED <<sessions, running, native>>
<1>1. ASSUME Starts(c, j, stopped), CanStart(native)
      PROVE  /\ running'[c] # NoSession
             /\ sessions'[running'[c]].interval = IntervalOf(j.cfg)
             /\ sessions'[running'[c]].memory = j.cfg.memory
             /\ native'.cpu = IntervalOf(j.cfg)
  <2>1. StartCpu(c, IntervalOf(j.cfg), j.cfg.memory, native)
    BY <1>1 DEF Finish
  <2>2. IntervalOf(j.cfg) \in Intervals /\ j.cfg.memory \in BOOLEAN /\ SessionTypeOK
    BY <1>1, JobParts DEF Starts, Inv, SessionInv
  <2>3. /\ Len(sessions) \in Nat
        /\ sessions'[Len(sessions) + 1] = Session(IntervalOf(j.cfg), j.cfg.memory)
        /\ running' = [running EXCEPT ![c] = Len(sessions) + 1]
        /\ native' = [native EXCEPT !.cpu = IntervalOf(j.cfg)]
    BY <1>1, <2>1, <2>2, StartCpuType
  <2>4. running'[c] = Len(sessions) + 1 /\ running'[c] # NoSession
    BY <2>2, <2>3, NullAssumption DEF SessionTypeOK
  <2>5. native'.cpu = IntervalOf(j.cfg)
    BY <2>2, <2>3 DEF SessionTypeOK, Natives
  <2> QED
    BY <2>3, <2>4, <2>5 DEF Session
<1>2. ASSUME ~(Starts(c, j, stopped) /\ CanStart(native))
      PROVE  UNCHANGED <<sessions, running, native>>
  BY <1>2 DEF Finish, StartCpu
<1> QED
  BY <1>1, <1>2

\* The verdict and the effective state of controller c.
Verdict(c) ==
  AtRest(c) /\ last[c].job \in Jobs \ {StopJob} =>
    LET cfg == last[c].job.cfg IN
    /\ last[c].ok =>
         /\ cfg.cpu <=> running[c] # NoSession
         /\ cfg.cpu => /\ sessions[running[c]].interval = IntervalOf(cfg)
                       /\ sessions[running[c]].memory = cfg.memory
         /\ ~cfg.memory \/ cfg.cpu
         /\ snapshot.active = cfg.calls
    /\ snapshot.registered =>
         /\ snapshot.active = cfg.calls
         /\ cfg.callsInterval > 0 => snapshot.interval = cfg.callsInterval

EffectiveCpu(c) ==
  AtRest(c) /\ phase[c] # "new" =>
    /\ effective.cpu <=> native.cpu # 0
    /\ effective.cpu => effective.interval = native.cpu
    /\ effective.memory <=> (running[c] # NoSession /\ sessions[running[c]].memory)

\* A job that did not stop a session (it had none, or needed no change), or has.
LEMMA FinishVerdict ==
  ASSUME Inv, NEW c \in Controllers, NEW j \in Jobs, NEW stopped \in BOOLEAN,
         Finish(c, j, stopped),
         stopped => running[c] = NoSession,
         ~stopped => ~StopsFirst(c, j)
  PROVE  Verdict(c)'
<1>1. PICK ok \in BOOLEAN :
        /\ Settled(c, j, ok)
        /\ ok = (j.kind = "apply" =>
                   /\ ~Refused(j) /\ (Starts(c, j, stopped) => CanStart(native))
                   /\ CallgraphsReached(j.cfg))
  BY DEF Finish
<1>2. last'[c] = [job |-> j, ok |-> ok]
  BY <1>1 DEF Settled, Inv, JobTypeOK
<1> SUFFICES ASSUME j # StopJob
             PROVE  /\ ok =>
                         /\ j.cfg.cpu <=> running'[c] # NoSession
                         /\ j.cfg.cpu => /\ sessions'[running'[c]].interval = IntervalOf(j.cfg)
                                         /\ sessions'[running'[c]].memory = j.cfg.memory
                         /\ ~j.cfg.memory \/ j.cfg.cpu
                         /\ snapshot'.active = j.cfg.calls
                    /\ snapshot'.registered =>
                         /\ snapshot'.active = j.cfg.calls
                         /\ j.cfg.callsInterval > 0 => snapshot'.interval = j.cfg.callsInterval
  BY <1>2 DEF Verdict
<1>3. /\ j.kind = "apply" /\ j.cfg.cpu \in BOOLEAN /\ j.cfg.memory \in BOOLEAN
      /\ j.cfg.calls \in BOOLEAN
  BY JobParts
<1>4. /\ snapshot'.registered = snapshot.registered
      /\ snapshot.registered =>
           /\ snapshot'.active = j.cfg.calls
           /\ j.cfg.callsInterval > 0 => snapshot'.interval = j.cfg.callsInterval
      /\ ~snapshot.registered => snapshot' = snapshot /\ ~snapshot.active
  <2>1. ApplyCallgraphs(j.cfg)
    BY <1>3 DEF Finish
  <2> QED
    BY <2>1 DEF ApplyCallgraphs, Inv, ReportTypeOK, ReportInv
<1>5. ok => snapshot'.active = j.cfg.calls
  <2>1. snapshot.active \in BOOLEAN
    BY DEF Inv, ReportTypeOK
  <2> QED
    BY <1>1, <1>3, <1>4, <2>1 DEF CallgraphsReached
<1>6. ok => ~j.cfg.memory \/ j.cfg.cpu
  BY <1>1, <1>3 DEF Refused
<1>7. ASSUME ok, ~j.cfg.cpu PROVE running'[c] = NoSession
  <2>1. ~Refused(j) /\ ~Starts(c, j, stopped)
    BY <1>1, <1>3, <1>7 DEF Starts
  <2>2. running[c] = NoSession
    BY <2>1, <1>3, <1>7 DEF StopsFirst
  <2> QED
    BY <2>1, <2>2, FinishRuns
<1>8. ASSUME ok, j.cfg.cpu
      PROVE  /\ running'[c] # NoSession
             /\ sessions'[running'[c]].interval = IntervalOf(j.cfg)
             /\ sessions'[running'[c]].memory = j.cfg.memory
  <2>1. CASE Starts(c, j, stopped)
    BY <1>1, <1>3, <1>8, <2>1, FinishRuns
  <2>2. CASE ~Starts(c, j, stopped)
    <3>1. ~stopped /\ running[c] # NoSession
      BY <2>2, <1>3, <1>8 DEF Starts
    <3>2. Unchanged(sessions[running[c]], j.cfg)
      BY <3>1, <1>3, <1>8, <1>1 DEF StopsFirst, Refused
    <3> QED
      BY <2>2, <3>1, <3>2, FinishRuns DEF Unchanged
  <2> QED
    BY <2>1, <2>2
<1> QED
  BY <1>3, <1>4, <1>5, <1>6, <1>7, <1>8

LEMMA FinishEffective ==
  ASSUME Inv, NEW c \in Controllers, Alone(c), NEW j \in Jobs, NEW stopped \in BOOLEAN,
         Finish(c, j, stopped),
         stopped => running[c] = NoSession,
         ~stopped => EffectiveCpu(c) /\ AtRest(c) /\ phase[c] # "new"
  PROVE  EffectiveCpu(c)'
<1> DEFINE idle == IF stopped THEN [effective EXCEPT !.cpu = FALSE, !.memory = FALSE] ELSE effective
           cpu == IF Starts(c, j, stopped) THEN EffectiveStart(IntervalOf(j.cfg), j.cfg.memory) ELSE idle
<1>1. effective \in Effectives /\ native \in Natives
  BY DEF Inv, ReportTypeOK, SessionInv, SessionTypeOK
<1>2. Starts(c, j, stopped) => j.cfg.memory \in BOOLEAN /\ IntervalOf(j.cfg) \in Intervals
                               /\ IntervalOf(j.cfg) # 0
  BY JobParts, IntervalAssumption DEF Starts
<1>3. cpu \in Effectives
  BY <1>1, <1>2 DEF Effectives, EffectiveStart
<1>4. effective'.cpu = cpu.cpu /\ effective'.memory = cpu.memory /\ effective'.interval = cpu.interval
  <2>1. \/ effective' = cpu
        \/ effective' = [cpu EXCEPT !.calls = snapshot'.active, !.callsInterval = snapshot'.interval]
    BY DEF Finish
  <2> QED
    BY <2>1, <1>3 DEF Effectives
<1>5. CASE Starts(c, j, stopped)
  <2>1. running[c] = NoSession /\ native.cpu = 0
    BY <1>5, AloneRunning DEF Starts, Inv
  <2>2. CASE native.loaded
    <3>1. CanStart(native)
      BY <2>1, <2>2 DEF CanStart
    <3>2. cpu.cpu = TRUE /\ cpu.memory = j.cfg.memory /\ cpu.interval = IntervalOf(j.cfg)
      BY <1>1, <1>5, <2>2 DEF EffectiveStart, Effectives
    <3> QED
      BY <1>2, <1>4, <1>5, <3>1, <3>2, FinishRuns DEF EffectiveCpu
  <2>3. CASE ~native.loaded
    <3>1. ~CanStart(native)
      BY <2>3 DEF CanStart
    <3>2. cpu.cpu = FALSE /\ cpu.memory = FALSE
      BY <1>1, <1>5, <2>3 DEF EffectiveStart, Effectives
    <3>3. UNCHANGED <<sessions, running, native>>
      BY <3>1, FinishRuns
    <3> QED
      BY <1>4, <2>1, <3>2, <3>3 DEF EffectiveCpu
  <2> QED
    BY <2>2, <2>3
<1>6. CASE ~Starts(c, j, stopped)
  <2>1. UNCHANGED <<sessions, running, native>>
    BY <1>6, FinishRuns
  <2>2. CASE stopped
    <3>1. cpu.cpu = FALSE /\ cpu.memory = FALSE
      BY <1>1, <1>6, <2>2 DEF Effectives
    <3>2. running[c] = NoSession /\ native.cpu = 0
      BY <2>2, AloneRunning DEF Inv
    <3> QED
      BY <1>4, <2>1, <3>1, <3>2 DEF EffectiveCpu
  <2>3. CASE ~stopped
    <3>1. cpu = effective
      BY <1>6, <2>3
    <3> QED
      BY <1>4, <2>1, <2>3, <3>1 DEF EffectiveCpu
  <2> QED
    BY <2>2, <2>3
<1> QED
  BY <1>5, <1>6

Honest == \A c \in Controllers : Verdict(c) /\ EffectiveCpu(c)

LEMMA HonestInit == Init => Honest
<1> SUFFICES ASSUME Init, NEW c \in Controllers PROVE Verdict(c) /\ EffectiveCpu(c)
  BY DEF Honest
<1>1. phase[c] = "new" /\ last[c].job = NoJob
  BY DEF Init
<1>2. NoJob \notin Jobs
  BY NullAssumption DEF Jobs
<1> QED
  BY <1>1, <1>2 DEF Verdict, EffectiveCpu

LEMMA SettingsKept ==
  ASSUME Inv, NEW c \in Controllers, UNCHANGED running,
         \A i \in DOMAIN sessions : sessions'[i].interval = sessions[i].interval
                                    /\ sessions'[i].memory = sessions[i].memory
  PROVE  running[c] # NoSession =>
           /\ sessions'[running[c]].interval = sessions[running[c]].interval
           /\ sessions'[running[c]].memory = sessions[running[c]].memory
BY DEF Inv, SessionInv, SessionTypeOK

\* A step that leaves the jobs, the sessions' settings and the reports alone.
LEMMA HonestKept ==
  ASSUME Inv, Honest, UNCHANGED <<job, last, running, snapshot, effective, phase>>,
         native'.cpu = native.cpu,
         \A i \in DOMAIN sessions : sessions'[i].interval = sessions[i].interval
                                    /\ sessions'[i].memory = sessions[i].memory
  PROVE  Honest'
<1> SUFFICES ASSUME NEW c \in Controllers PROVE Verdict(c)' /\ EffectiveCpu(c)'
  BY DEF Honest
<1>1. Verdict(c) /\ EffectiveCpu(c)
  BY DEF Honest
<1>2. EffectiveCpu(c)'
  BY <1>1, SettingsKept DEF EffectiveCpu, AtRest
<1>3. Verdict(c)'
  BY <1>1, SettingsKept DEF Verdict, AtRest, IntervalOf
<1> QED
  BY <1>2, <1>3

LEMMA LoneIsAll ==
  ASSUME Lone, NEW c \in Controllers, Verdict(c)', EffectiveCpu(c)'
  PROVE  Honest'
<1> SUFFICES ASSUME NEW d \in Controllers PROVE Verdict(d)' /\ EffectiveCpu(d)'
  BY DEF Honest
<1>1. d = c
  BY DEF Lone
<1> QED
  BY <1>1

LEMMA BeginJobHonest ==
  ASSUME Lone, Inv, Honest, NEW c \in Controllers, BeginJob(c)
  PROVE  Honest'
<1> DEFINE j == Head(queue[c])
<1>1. job[c] = NoJob /\ queue[c] # <<>> /\ j \in Jobs /\ phase[c] # "new"
  BY QueuedJob DEF BeginJob
<1>2. CASE StopsFirst(c, j)
  <2>1. job'[c] # NoJob
    BY <1>1, <1>2, JobParts DEF BeginJob, Inv, JobTypeOK
  <2>2. Verdict(c)' /\ EffectiveCpu(c)'
    BY <2>1 DEF Verdict, EffectiveCpu, AtRest
  <2> QED
    BY <2>2, LoneIsAll
<1>3. CASE ~StopsFirst(c, j)
  <2>1. Finish(c, j, FALSE)
    BY <1>3 DEF BeginJob
  <2>2. EffectiveCpu(c) /\ AtRest(c)
    BY <1>1 DEF Honest, AtRest
  <2>3. Verdict(c)'
    BY <1>1, <1>3, <2>1, FinishVerdict
  <2>4. EffectiveCpu(c)'
    BY <1>1, <2>1, <2>2, FinishEffective DEF Lone, Alone
  <2> QED
    BY <2>3, <2>4, LoneIsAll
<1> QED
  BY <1>2, <1>3

LEMMA EndJobHonest ==
  ASSUME Lone, Inv, Honest, NEW c \in Controllers, EndJob(c)
  PROVE  Honest'
<1>1. job[c] # NoJob /\ Finish(c, job[c], TRUE)
  BY DEF EndJob
<1>2. job[c] \in Jobs /\ running[c] = NoSession
  BY <1>1, AwaitingJob
<1>3. Verdict(c)'
  BY <1>1, <1>2, FinishVerdict
<1>4. EffectiveCpu(c)'
  BY <1>1, <1>2, FinishEffective DEF Lone, Alone
<1> QED
  BY <1>3, <1>4, LoneIsAll

\* The effective state after startInitial(): what is in its other fields is left open.
LEMMA InitialEffectiveHonest ==
  ASSUME Inv, NEW c \in Controllers, Alone(c), NEW enabled \in BOOLEAN,
         InitialSession(c, enabled),
         effective'.cpu = InitialEffective(enabled).cpu,
         effective'.memory = InitialEffective(enabled).memory,
         effective'.interval = InitialEffective(enabled).interval
  PROVE  EffectiveCpu(c)'
<1>1. /\ phase[c] = "new"
      /\ enabled => StartCpu(c, BaseInterval, BaseMemory, native)
      /\ ~enabled => UNCHANGED <<sessions, immediates, running, native>>
  BY DEF InitialSession
<1>2. /\ running[c] = NoSession /\ native.cpu = 0
      /\ effective \in Effectives /\ SessionTypeOK
  BY <1>1, AloneRunning DEF Inv, JobInv, ReportTypeOK, SessionInv
<1>3. CASE enabled /\ native.loaded
  <2>1. CanStart(native)
    BY <1>2, <1>3 DEF CanStart
  <2>2. /\ Len(sessions) \in Nat
        /\ sessions'[Len(sessions) + 1] = Session(BaseInterval, BaseMemory)
        /\ running' = [running EXCEPT ![c] = Len(sessions) + 1]
        /\ native' = [native EXCEPT !.cpu = BaseInterval]
    BY <1>1, <1>2, <1>3, <2>1, StartCpuType, IntervalAssumption, OptionAssumption
  <2>3. running'[c] = Len(sessions) + 1 /\ running'[c] # NoSession
    BY <1>2, <2>2, NullAssumption DEF SessionTypeOK
  <2>4. sessions'[running'[c]].memory = BaseMemory
    BY <2>2, <2>3 DEF Session
  <2>5. native'.cpu = BaseInterval /\ BaseInterval # 0
    BY <1>2, <2>2, IntervalAssumption DEF SessionTypeOK, Natives
  <2>6. effective'.cpu = TRUE /\ effective'.memory = BaseMemory /\ effective'.interval = BaseInterval
    BY <1>2, <1>3 DEF InitialEffective, EffectiveStart, Effectives
  <2> QED
    BY <2>3, <2>4, <2>5, <2>6, OptionAssumption DEF EffectiveCpu
<1>4. CASE ~(enabled /\ native.loaded)
  <2>1. running'[c] = NoSession /\ native'.cpu = 0
    BY <1>1, <1>2, <1>4 DEF StartCpu, CanStart
  <2>2. effective'.cpu = FALSE /\ effective'.memory = FALSE
    BY <1>2, <1>4 DEF InitialEffective, EffectiveStart, Effectives
  <2> QED
    BY <2>1, <2>2 DEF EffectiveCpu
<1> QED
  BY <1>3, <1>4

LEMMA StartInitialHonest ==
  ASSUME Lone, Inv, NEW c \in Controllers, NEW enabled \in BOOLEAN, StartInitial(c, enabled)
  PROVE  Honest'
<1>1. /\ phase[c] = "new" /\ last' = last /\ last[c].job = NoJob
      /\ InitialSession(c, enabled) /\ effective' = InitialEffective(enabled)
  BY DEF StartInitial, InitialSession, Inv, JobInv
<1>2. Verdict(c)'
  BY <1>1, NullAssumption DEF Verdict, Jobs
<1>3. Alone(c)
  BY DEF Lone, Alone
<1>4. EffectiveCpu(c)'
  BY <1>1, <1>3, InitialEffectiveHonest
<1> QED
  BY <1>2, <1>4, LoneIsAll

LEMMA StopAllHonest ==
  ASSUME Inv, Honest, NEW c \in Controllers, StopAll(c)
  PROVE  Honest'
<1>1. /\ UNCHANGED <<job, last, running, sessions, native, snapshot, effective>>
      /\ \A d \in Controllers : phase'[d] # "new" => phase[d] # "new"
  BY DEF StopAll, Enqueue, Chain, Inv, JobTypeOK
<1> SUFFICES ASSUME NEW d \in Controllers PROVE Verdict(d)' /\ EffectiveCpu(d)'
  BY DEF Honest
<1>2. Verdict(d) /\ EffectiveCpu(d)
  BY DEF Honest
<1>3. Verdict(d)'
  BY <1>1, <1>2 DEF Verdict, AtRest, IntervalOf
<1>4. EffectiveCpu(d)'
  BY <1>1, <1>2 DEF EffectiveCpu, AtRest
<1> QED
  BY <1>3, <1>4

LEMMA ImmediateSettings ==
  ASSUME Inv, RunImmediate
  PROVE  /\ native'.cpu = native.cpu
         /\ \A i \in DOMAIN sessions : sessions'[i].interval = sessions[i].interval
                                       /\ sessions'[i].memory = sessions[i].memory
<1> DEFINE i == Head(immediates)
<1>1. /\ sessions' = [sessions EXCEPT ![i] = Readied(@)]
      /\ native' = IF sessions[i].memory THEN StartHeapProfiler(native) ELSE native
  BY DEF RunImmediate
<1>2. /\ native \in Natives
      /\ \A k \in DOMAIN sessions : sessions[k] \in SessionRecords
  BY DEF Inv, SessionInv, SessionTypeOK
<1>3. native'.cpu = native.cpu
  BY <1>1, <1>2 DEF StartHeapProfiler, Natives
<1>4. \A k \in DOMAIN sessions : /\ Readied(sessions[k]).interval = sessions[k].interval
                                 /\ Readied(sessions[k]).memory = sessions[k].memory
  BY <1>2 DEF Readied, SessionRecords
<1>5. \A k \in DOMAIN sessions : sessions'[k] = sessions[k] \/ sessions'[k] = Readied(sessions[k])
  BY <1>1
<1> QED
  BY <1>3, <1>4, <1>5

LEMMA HonestStep ==
  ASSUME Lone PROVE Inv /\ Honest /\ [Next]_vars => Honest'
<1> SUFFICES ASSUME Inv, Honest, [Next]_vars PROVE Honest'
  OBVIOUS
<1>1. CASE UNCHANGED vars
  BY <1>1, HonestKept DEF vars
<1>2. ASSUME NEW c \in Controllers, BeginJob(c) PROVE Honest'
  BY <1>2, BeginJobHonest
<1>3. ASSUME NEW c \in Controllers, EndJob(c) PROVE Honest'
  BY <1>3, EndJobHonest
<1>4. ASSUME NEW c \in Controllers, NEW enabled \in BOOLEAN, StartInitial(c, enabled) PROVE Honest'
  BY <1>4, StartInitialHonest
<1>5. ASSUME NEW c \in Controllers, NEW cfg \in Configs, ApplyRemoteConfiguration(c, cfg)
      PROVE  Honest'
  BY <1>5, HonestKept DEF ApplyRemoteConfiguration, Enqueue, Chain
<1>6. ASSUME NEW c \in Controllers, StopAll(c) PROVE Honest'
  BY <1>6, StopAllHonest
<1>7. CASE RunImmediate
  <2>1. UNCHANGED <<job, last, running, snapshot, effective, phase>>
    BY <1>7 DEF RunImmediate
  <2> QED
    BY <1>7, <2>1, ImmediateSettings, HonestKept
<1> QED
  BY <1>1, <1>2, <1>3, <1>4, <1>5, <1>6, <1>7 DEF Next, Microtask, Macrotask

\* With one controller, an apply that resolved put every part of its config in
\* force, whatever the jobs before it did and however they interleave with the
\* deferred halves of the sessions.
THEOREM VerdictHonestCorrect ==
  ASSUME Lone PROVE Spec => []VerdictHonest
<1>1. Honest => VerdictHonest
  BY DEF Honest, Verdict, VerdictHonest
<1>2. Inv /\ Honest /\ [Next]_vars => Honest'
  BY HonestStep
<1> QED
  BY <1>1, <1>2, HonestInit, InvAlways, PTL DEF Spec

\* With one controller, the effective state is the state of the profilers
\* whenever no job awaits the network.
THEOREM EffectiveHonestCorrect ==
  ASSUME Lone PROVE Spec => []EffectiveHonest
<1>1. Inv /\ Honest => EffectiveHonest
  BY DEF Inv, ReportInv, Honest, EffectiveCpu, EffectiveHonest
<1>2. Inv /\ Honest /\ [Next]_vars => Honest'
  BY HonestStep
<1> QED
  BY <1>1, <1>2, HonestInit, InvAlways, PTL DEF Spec
============================================================================
