--------------------------- MODULE TestRunnerProofs ---------------------------
(***************************************************************************)
(* Proofs about TestRunner for every number of tests, threads and rows:    *)
(* the inductive invariant RunnerInv, and what follows from it. Then the   *)
(* dashboard: what render_dashboard has counted and drawn at each of its   *)
(* steps, and that the last dashboard left on the terminal is true, which  *)
(* rests on RunnerInv: no worker is left by then.                          *)
(***************************************************************************)
EXTENDS TestRunner, FiniteSetTheorems, SequenceTheorems, TLAPS

USE TestRunnerAssumption

-----------------------------------------------------------------------------
(* There is a worker at least, and no more than there are tests. *)
LEMMA WorkersRange ==
  /\ active_threads \in Nat \ {0}
  /\ Workers \subseteq Nat \ {0}
  /\ Tests \subseteq Nat \ {0}
  /\ 1 \in Workers
  /\ NONE \notin Tests
BY DEF active_threads, Workers, Tests

(* The workers in any state are finitely many. *)
LEMMA FinitelyManyWorkers ==
  ASSUME NEW P, P \subseteq Workers
  PROVE  IsFiniteSet(P)
<1>1. IsFiniteSet(Workers)
  BY WorkersRange, FS_Interval DEF Workers
<1>2. QED
  BY <1>1, FS_Subset

(* A step that leaves the tests and the workers alone keeps what is said of  *)
(* them.                                                                     *)
LEMMA TestsAndWorkersSame ==
  ASSUME RunnerInv, UNCHANGED <<status, timed, runs>>, UNCHANGED workers
  PROVE  /\ TestsHeld'
         /\ TestsDivided'
         /\ \A w \in Workers : pc'[w] \in {"leave", "ended"} => NumTests <= current_test_index'
         /\ num_threads_working' = Cardinality({w \in Workers : Counted(w)'})
<1>1. /\ status' = status /\ timed' = timed /\ runs' = runs
      /\ pc' = pc /\ mine' = mine /\ current_test_index' = current_test_index
      /\ num_threads_working' = num_threads_working
  BY DEF workers
<1>2. TestsHeld'
  BY <1>1 DEF RunnerInv, TestsHeld, Busy
<1>3. TestsDivided'
  BY <1>1 DEF RunnerInv, TestsDivided, Busy
<1>4. {w \in Workers : Counted(w)'} = {w \in Workers : Counted(w)}
  BY <1>1 DEF Counted
<1>5. QED
  BY <1>1, <1>2, <1>3, <1>4 DEF RunnerInv, WorkersJoined

-----------------------------------------------------------------------------
(* The state run_tests starts from. *)
LEMMA InitInv == Init => RunnerInv
<1> SUFFICES ASSUME Init PROVE RunnerInv
  OBVIOUS
<1>1. RunnerTypes
  BY WorkersRange DEF Init, RunnerTypes, Places
<1>2. TestsHeld
  BY DEF Init, TestsHeld, Busy
<1>3. TestsDivided
  BY WorkersRange DEF Init, TestsDivided
<1>4. WorkersJoined
  <2>1. {w \in Workers : Counted(w)} = {}
    BY DEF Init, Counted
  <2>2. QED
    BY <2>1, FS_EmptySet DEF Init, WorkersJoined
<1>5. ThreadsCreated
  BY WorkersRange DEF Init, ThreadsCreated
<1>6. QED
  BY <1>1, <1>2, <1>3, <1>4, <1>5 DEF RunnerInv

(* run_tests keeps the invariant: the creation of a thread, *)
LEMMA CreateThreadKeepsInv ==
  ASSUME RunnerInv, CreateThread
  PROVE  RunnerInv'
<1>1. /\ i \in Workers /\ i \in Nat \ {0}
      /\ pc[i] = "none"
      /\ pc' = [pc EXCEPT ![i] = "start"]
      /\ at = "create"
      /\ UNCHANGED <<status, timed, runs, current_test_index, num_threads_working, mine>>
  BY WorkersRange DEF RunnerInv, ThreadsCreated, RunnerTypes, CreateThread, Goto, tests
<1>2. \A w \in Workers : /\ pc'[w] = IF w = i THEN "start" ELSE pc[w]
                         /\ Busy(w)' <=> Busy(w)
                         /\ Counted(w)' <=> Counted(w)
  BY <1>1 DEF RunnerInv, RunnerTypes, Busy, Counted
<1>3. \/ i < active_threads /\ i' = i + 1 /\ at' = "create"
      \/ i = active_threads /\ i' = 1 /\ at' = "scan"
  BY <1>1, WorkersRange DEF CreateThread, Advance, Workers
<1>4. RunnerTypes'
  BY <1>1, <1>2, <1>3 DEF RunnerInv, RunnerTypes, Places
<1>5. TestsHeld'
  BY <1>1, <1>2 DEF RunnerInv, TestsHeld, Busy
<1>6. TestsDivided'
  BY <1>1, <1>2 DEF RunnerInv, TestsDivided
<1>7. WorkersJoined'
  <2>1. {w \in Workers : Counted(w)'} = {w \in Workers : Counted(w)}
    BY <1>2
  <2>2. QED
    BY <1>1, <1>2, <1>3, <2>1 DEF RunnerInv, WorkersJoined
<1>8. ThreadsCreated'
  BY <1>1, <1>2, <1>3, WorkersRange DEF RunnerInv, ThreadsCreated, Workers
<1>9. QED
  BY <1>4, <1>5, <1>6, <1>7, <1>8 DEF RunnerInv

(* the joins, after which no worker is left, *)
LEMMA JoinThreadKeepsInv ==
  ASSUME RunnerInv, JoinThread
  PROVE  RunnerInv'
<1>1. /\ i \in Workers /\ i \in Nat \ {0}
      /\ pc[i] = "ended"
      /\ at = "join"
      /\ \A w \in Workers : w < i => pc[w] = "ended"
  BY WorkersRange DEF RunnerInv, ThreadsCreated, WorkersJoined, RunnerTypes, JoinThread
<1>2. UNCHANGED <<status, timed, runs>> /\ UNCHANGED workers /\ pc' = pc
  BY DEF JoinThread, tests, workers
<1>3. \/ i < active_threads /\ i' = i + 1 /\ at' = "join"
      \/ i = active_threads /\ i' = 1 /\ at' = "final_count"
  BY <1>1, WorkersRange DEF JoinThread, Advance, Workers
<1>4. \A w \in Workers : w <= i => pc'[w] = "ended"
  BY <1>1, <1>2, WorkersRange
<1>5. WorkersJoined'
  <2>1. at' = "join" => \A w \in Workers : w < i' => pc'[w] = "ended"
    BY <1>1, <1>3, <1>4, WorkersRange
  <2>2. at' \in {"final_count", "final_row", "done"} => \A w \in Workers : pc'[w] = "ended"
    BY <1>3, <1>4 DEF Workers
  <2>3. QED
    BY <1>2, <2>1, <2>2, TestsAndWorkersSame DEF WorkersJoined
<1>6. ThreadsCreated'
  BY <1>1, <1>3, WorkersRange DEF ThreadsCreated, Workers
<1>7. RunnerTypes'
  BY <1>1, <1>2, <1>3 DEF RunnerInv, RunnerTypes, workers
<1>8. QED
  BY <1>2, <1>5, <1>6, <1>7, TestsAndWorkersSame DEF RunnerInv

(* and its other steps, which stay on one side of the two loops. *)
LEMMA MainKeepsInv ==
  ASSUME RunnerInv, Main
  PROVE  RunnerInv'
<1>1. CASE CreateThread
  BY <1>1, CreateThreadKeepsInv
<1>2. CASE JoinThread
  BY <1>2, JoinThreadKeepsInv
<1>3. CASE CreateThreadFails \/ ScanTest \/ CountTest \/ RowStatus \/ RowMessage \/ Sleep
  <2>1. UNCHANGED <<status, timed, runs>> /\ UNCHANGED workers /\ pc' = pc
    BY <1>3 DEF CreateThreadFails, ScanTest, CountTest, RowStatus, RowMessage,
                Sleep, tests, workers
  <2>2. /\ i \in Nat \ {0}
        /\ at \in {"create", "scan", "count", "row", "sleep", "join",
                  "final_count", "final_row", "done", "exited"}
    BY DEF RunnerInv, RunnerTypes
  <2>3. /\ i' \in Nat \ {0}
        /\ at' \in {"scan", "count", "row", "sleep", "join",
                   "final_count", "final_row", "done", "exited"}
        /\ at' = "join" => i' = 1
        /\ at' \in {"final_count", "final_row", "done"} => at \in {"final_count", "final_row"}
    BY <1>3, <2>2 DEF CreateThreadFails, ScanTest, CountTest, RowStatus, RowMessage,
                      Sleep, Advance, main
  <2>4. RunnerTypes'
    BY <2>1, <2>3 DEF RunnerInv, RunnerTypes, workers
  <2>5. WorkersJoined'
    <3>1. at' = "join" => \A w \in Workers : ~(w < i')
      BY <2>3, WorkersRange
    <3>2. at' \in {"final_count", "final_row", "done"} => \A w \in Workers : pc'[w] = "ended"
      BY <2>1, <2>3 DEF RunnerInv, WorkersJoined
    <3>3. QED
      BY <2>1, <3>1, <3>2, TestsAndWorkersSame DEF WorkersJoined
  <2>6. ThreadsCreated'
    BY <2>3, WorkersRange DEF ThreadsCreated
  <2>7. QED
    BY <2>1, <2>4, <2>5, <2>6, TestsAndWorkersSame DEF RunnerInv
<1>4. QED
  BY <1>1, <1>2, <1>3 DEF Main

-----------------------------------------------------------------------------
(* A worker that moves on from a place it can move from, to one where it     *)
(* counts as working like before, leaves run_tests where it was.             *)
LEMMA WorkerMoves ==
  ASSUME RunnerInv, NEW w \in Workers, pc[w] \notin {"none", "ended"},
         NEW place \in Places, place # "none", Goto(w, place), UNCHANGED main
  PROVE  /\ pc' \in [Workers -> Places]
         /\ \A v \in Workers : pc'[v] = IF v = w THEN place ELSE pc[v]
         /\ at' = at /\ i' = i
         /\ at \notin {"final_count", "final_row", "done"}
         /\ at' = "join" => \A v \in Workers : v < i' => pc'[v] = "ended"
         /\ ThreadsCreated'
<1>1. at' = at /\ i' = i /\ i \in Nat \ {0}
  BY DEF main, RunnerInv, RunnerTypes
<1>2. /\ pc' \in [Workers -> Places]
      /\ \A v \in Workers : pc'[v] = IF v = w THEN place ELSE pc[v]
  BY DEF Goto, RunnerInv, RunnerTypes
<1>3. at \notin {"final_count", "final_row", "done"}
  BY DEF RunnerInv, WorkersJoined
<1>4. at' = "join" => \A v \in Workers : v < i' => pc'[v] = "ended"
  BY <1>1, <1>2 DEF RunnerInv, WorkersJoined
<1>5. at = "create" => w < i
  BY <1>1, WorkersRange DEF RunnerInv, ThreadsCreated
<1>6. ThreadsCreated'
  BY <1>1, <1>2, <1>5, WorkersRange DEF RunnerInv, ThreadsCreated
<1>7. QED
  BY <1>1, <1>2, <1>3, <1>4, <1>6

(* A worker that counts as working goes on doing so. *)
LEMMA WorkerStaysCounted ==
  ASSUME RunnerInv, \A v \in Workers : Counted(v)' <=> Counted(v),
         num_threads_working' = num_threads_working
  PROVE  num_threads_working' = Cardinality({v \in Workers : Counted(v)'})
<1>1. {v \in Workers : Counted(v)'} = {v \in Workers : Counted(v)}
  OBVIOUS
<1>2. QED
  BY <1>1 DEF RunnerInv, WorkersJoined

-----------------------------------------------------------------------------
(* The steps of a worker keep the invariant. The first and the last of them  *)
(* count the worker in and out.                                              *)
LEMMA WorkerStartKeepsInv ==
  ASSUME RunnerInv, NEW w \in Workers, WorkerStart(w)
  PROVE  RunnerInv'
<1>1. /\ pc[w] = "start"
      /\ Goto(w, "fetch")
      /\ num_threads_working' = num_threads_working + 1
      /\ UNCHANGED main
      /\ UNCHANGED <<status, timed, runs, current_test_index, mine>>
  BY DEF WorkerStart, At, tests
<1>2. /\ pc' \in [Workers -> Places]
      /\ \A v \in Workers : pc'[v] = IF v = w THEN "fetch" ELSE pc[v]
      /\ at' = at /\ i' = i
      /\ at \notin {"final_count", "final_row", "done"}
      /\ at' = "join" => \A v \in Workers : v < i' => pc'[v] = "ended"
      /\ ThreadsCreated'
  BY <1>1, WorkerMoves DEF Places
<1>3. \A v \in Workers : Busy(v)' <=> Busy(v)
  BY <1>1, <1>2 DEF Busy
<1>4. RunnerTypes'
  BY <1>1, <1>2 DEF RunnerInv, RunnerTypes
<1>5. TestsHeld'
  BY <1>1, <1>2, <1>3 DEF RunnerInv, TestsHeld, Busy
<1>6. TestsDivided'
  BY <1>1, <1>3 DEF RunnerInv, TestsDivided
<1>7. num_threads_working' = Cardinality({v \in Workers : Counted(v)'})
  <2>1. {v \in Workers : Counted(v)'} = {v \in Workers : Counted(v)} \cup {w}
    BY <1>2 DEF Counted
  <2>2. w \notin {v \in Workers : Counted(v)}
    BY <1>1 DEF Counted
  <2>3. IsFiniteSet({v \in Workers : Counted(v)})
    BY FinitelyManyWorkers
  <2>4. QED
    BY <1>1, <2>1, <2>2, <2>3, FS_AddElement DEF RunnerInv, WorkersJoined
<1>8. WorkersJoined'
  BY <1>1, <1>2, <1>7 DEF RunnerInv, WorkersJoined
<1>9. QED
  BY <1>2, <1>4, <1>5, <1>6, <1>8 DEF RunnerInv

(* A worker ends. *)
LEMMA WorkerEndKeepsInv ==
  ASSUME RunnerInv, NEW w \in Workers, WorkerEnd(w)
  PROVE  RunnerInv'
<1>1. /\ pc[w] = "leave"
      /\ Goto(w, "ended")
      /\ num_threads_working' = num_threads_working - 1
      /\ UNCHANGED main
      /\ UNCHANGED <<status, timed, runs, current_test_index, mine>>
  BY DEF WorkerEnd, At, tests
<1>2. /\ pc' \in [Workers -> Places]
      /\ \A v \in Workers : pc'[v] = IF v = w THEN "ended" ELSE pc[v]
      /\ at' = at /\ i' = i
      /\ at \notin {"final_count", "final_row", "done"}
      /\ at' = "join" => \A v \in Workers : v < i' => pc'[v] = "ended"
      /\ ThreadsCreated'
  BY <1>1, WorkerMoves DEF Places
<1>3. \A v \in Workers : Busy(v)' <=> Busy(v)
  BY <1>1, <1>2 DEF Busy
<1>4. RunnerTypes'
  BY <1>1, <1>2 DEF RunnerInv, RunnerTypes
<1>5. TestsHeld'
  BY <1>1, <1>2, <1>3 DEF RunnerInv, TestsHeld, Busy
<1>6. TestsDivided'
  BY <1>1, <1>3 DEF RunnerInv, TestsDivided
<1>7. num_threads_working' = Cardinality({v \in Workers : Counted(v)'})
  <2>1. {v \in Workers : Counted(v)'} = {v \in Workers : Counted(v)} \ {w}
    BY <1>2 DEF Counted
  <2>2. w \in {v \in Workers : Counted(v)}
    BY <1>1 DEF Counted
  <2>3. IsFiniteSet({v \in Workers : Counted(v)})
    BY FinitelyManyWorkers
  <2>4. QED
    BY <1>1, <2>1, <2>2, <2>3, FS_RemoveElement DEF RunnerInv, WorkersJoined
<1>8. WorkersJoined'
  BY <1>1, <1>2, <1>7 DEF RunnerInv, WorkersJoined
<1>9. QED
  BY <1>2, <1>4, <1>5, <1>6, <1>8 DEF RunnerInv

(* The next test is nobody else's; without one the tests are used up. *)
LEMMA FetchIndexKeepsInv ==
  ASSUME RunnerInv, NEW w \in Workers, FetchIndex(w)
  PROVE  RunnerInv'
<1>1. /\ pc[w] = "fetch"
      /\ UNCHANGED main
      /\ UNCHANGED <<status, timed, runs, num_threads_working>>
      /\ current_test_index' = current_test_index + 1
      /\ current_test_index \in Nat
  BY DEF FetchIndex, At, tests, RunnerInv, RunnerTypes
<1>2. CASE current_test_index >= NumTests
  <2>1. Goto(w, "leave") /\ UNCHANGED mine
    BY <1>2 DEF FetchIndex
  <2>2. /\ pc' \in [Workers -> Places]
        /\ \A v \in Workers : pc'[v] = IF v = w THEN "leave" ELSE pc[v]
        /\ at' = at /\ i' = i
        /\ at \notin {"final_count", "final_row", "done"}
        /\ at' = "join" => \A v \in Workers : v < i' => pc'[v] = "ended"
        /\ ThreadsCreated'
    BY <1>1, <2>1, WorkerMoves DEF Places
  <2>3. \A v \in Workers : (Busy(v)' <=> Busy(v)) /\ (Counted(v)' <=> Counted(v))
    BY <1>1, <2>2 DEF Busy, Counted
  <2>4. RunnerTypes'
    BY <1>1, <2>1, <2>2 DEF RunnerInv, RunnerTypes
  <2>5. TestsHeld'
    <3>1. \A v \in Workers : mine[v] \in Tests => mine[v] \in Nat
      BY WorkersRange
    <3>2. \A v \in Workers : Busy(v) => pc'[v] = pc[v]
      BY <1>1, <2>2 DEF Busy
    <3>3. QED
      BY <1>1, <2>1, <2>3, <3>1, <3>2 DEF RunnerInv, TestsHeld
  <2>6. TestsDivided'
    <3>1. \A t \in Tests : t <= current_test_index /\ ~(current_test_index' < t)
      BY <1>1, <1>2 DEF Tests
    <3>2. QED
      BY <1>1, <2>1, <2>3, <3>1 DEF RunnerInv, TestsDivided
  <2>7. WorkersJoined'
    BY <1>1, <1>2, <2>2, <2>3, WorkerStaysCounted DEF RunnerInv, WorkersJoined
  <2>8. QED
    BY <2>2, <2>4, <2>5, <2>6, <2>7 DEF RunnerInv
<1>3. CASE ~(current_test_index >= NumTests)
  <2> DEFINE taken == current_test_index + 1
  <2>1. /\ Goto(w, "begin")
        /\ mine' = [mine EXCEPT ![w] = taken]
        /\ taken \in Tests
    BY <1>1, <1>3 DEF FetchIndex, Tests
  <2>2. /\ pc' \in [Workers -> Places]
        /\ \A v \in Workers : pc'[v] = IF v = w THEN "begin" ELSE pc[v]
        /\ at' = at /\ i' = i
        /\ at \notin {"final_count", "final_row", "done"}
        /\ at' = "join" => \A v \in Workers : v < i' => pc'[v] = "ended"
        /\ ThreadsCreated'
    BY <1>1, <2>1, WorkerMoves DEF Places
  <2>3. /\ \A v \in Workers : mine'[v] = IF v = w THEN taken ELSE mine[v]
        /\ \A v \in Workers : Counted(v)' <=> Counted(v)
        /\ \A v \in Workers : Busy(v)' <=> Busy(v) \/ v = w
        /\ ~Busy(w)
    BY <1>1, <2>1, <2>2 DEF Busy, Counted, RunnerInv, RunnerTypes
  <2>4. RunnerTypes'
    <3>1. mine \in [Workers -> Tests \cup {NONE}]
      BY DEF RunnerInv, RunnerTypes
    <3>2. mine' \in [Workers -> Tests \cup {NONE}]
      BY <2>1, <3>1
    <3>3. QED
      BY <1>1, <2>2, <3>2 DEF RunnerInv, RunnerTypes
  <2>5. /\ status[taken] = IDLE /\ runs[taken] = 0 /\ ~timed[taken]
        /\ \A v \in Workers : Busy(v) => mine[v] \in Nat /\ mine[v] < taken
    <3>1. taken \in Tests /\ current_test_index < taken
      BY <1>1, <2>1
    <3>2. status[taken] = IDLE /\ runs[taken] = 0 /\ ~timed[taken]
      BY <3>1 DEF RunnerInv, TestsDivided
    <3>3. ASSUME NEW v \in Workers, Busy(v)
          PROVE  mine[v] \in Nat /\ mine[v] < taken
      <4>1. mine[v] \in Tests /\ mine[v] <= current_test_index
        BY <3>3 DEF RunnerInv, TestsHeld
      <4>2. mine[v] \in Nat
        BY <4>1, WorkersRange
      <4>3. QED
        BY <1>1, <4>1, <4>2
    <3>4. QED
      BY <3>2, <3>3
  <2>6. TestsHeld'
    <3>1. ASSUME NEW v \in Workers, Busy(v)'
          PROVE  /\ mine'[v] \in Tests
                 /\ mine'[v] <= current_test_index'
                 /\ ~timed'[mine'[v]]
                 /\ runs'[mine'[v]] = IF pc'[v] \in {"begin", "run"} THEN 0 ELSE 1
                 /\ pc'[v] = "begin" => status'[mine'[v]] = IDLE
                 /\ pc'[v] = "run" => status'[mine'[v]] = RUNNING
                 /\ pc'[v] \in {"message", "finish"} => status'[mine'[v]] # IDLE
                 /\ \A u \in Workers : Busy(u)' /\ mine'[u] = mine'[v] => u = v
      <4>1. CASE v = w
        BY <1>1, <2>1, <2>2, <2>3, <2>5, <4>1
      <4>2. CASE v # w
        BY <1>1, <2>2, <2>3, <2>5, <3>1, <4>2 DEF RunnerInv, TestsHeld
      <4>3. QED
        BY <4>1, <4>2
    <3>2. QED
      BY <3>1 DEF TestsHeld
  <2>7. TestsDivided'
    <3>1. ASSUME NEW t \in Tests
          PROVE  /\ current_test_index' < t => runs'[t] = 0 /\ ~timed'[t] /\ status'[t] = IDLE
                 /\ t <= current_test_index' =>
                      timed'[t] \/ \E v \in Workers : Busy(v)' /\ mine'[v] = t
                 /\ timed'[t] => runs'[t] = 1 /\ Ended(status'[t])
      <4>1. t \in Nat /\ (t <= current_test_index' => t <= current_test_index \/ t = taken)
        BY <1>1, WorkersRange
      <4>2. t <= current_test_index =>
              timed'[t] \/ \E v \in Workers : Busy(v)' /\ mine'[v] = t
        BY <1>1, <2>3 DEF RunnerInv, TestsDivided
      <4>3. t = taken => \E v \in Workers : Busy(v)' /\ mine'[v] = t
        BY <2>3
      <4>4. QED
        BY <1>1, <4>1, <4>2, <4>3 DEF RunnerInv, TestsDivided
    <3>2. QED
      BY <3>1 DEF TestsDivided
  <2>8. WorkersJoined'
    BY <1>1, <1>3, <2>2, <2>3, WorkerStaysCounted DEF RunnerInv, WorkersJoined
  <2>9. QED
    BY <2>2, <2>4, <2>6, <2>7, <2>8 DEF RunnerInv
<1>4. QED
  BY <1>2, <1>3

(* What a worker does to the test it has disturbs no other worker's. *)
LEMMA OwnTestKeepsInv ==
  ASSUME RunnerInv, NEW w \in Workers, Busy(w),
         NEW place \in {"run", "message", "finish", "fetch"}, Goto(w, place),
         UNCHANGED <<current_test_index, num_threads_working, mine>>, UNCHANGED main,
         status' \in [Tests -> {IDLE, RUNNING, PASSED, FAILED}],
         timed' \in [Tests -> BOOLEAN],
         runs' \in [Tests -> Nat],
         \A t \in Tests : t # mine[w] =>
           status'[t] = status[t] /\ timed'[t] = timed[t] /\ runs'[t] = runs[t],
         place = "fetch" =>
           timed'[mine[w]] /\ runs'[mine[w]] = 1 /\ Ended(status'[mine[w]]),
         place # "fetch" =>
           /\ ~timed'[mine[w]]
           /\ runs'[mine[w]] = IF place = "run" THEN 0 ELSE 1
           /\ place = "run" => status'[mine[w]] = RUNNING
           /\ place \in {"message", "finish"} => status'[mine[w]] # IDLE
  PROVE  RunnerInv'
<1>1. /\ pc' \in [Workers -> Places]
      /\ \A v \in Workers : pc'[v] = IF v = w THEN place ELSE pc[v]
      /\ at' = at /\ i' = i
      /\ at \notin {"final_count", "final_row", "done"}
      /\ at' = "join" => \A v \in Workers : v < i' => pc'[v] = "ended"
      /\ ThreadsCreated'
  BY WorkerMoves DEF Places, Busy
<1>2. /\ \A v \in Workers : Counted(v)' <=> Counted(v)
      /\ \A v \in Workers : v # w => (Busy(v)' <=> Busy(v))
      /\ Busy(w)' <=> place # "fetch"
  BY <1>1 DEF Busy, Counted
<1>3. mine[w] \in Tests /\ mine[w] <= current_test_index
  BY DEF RunnerInv, TestsHeld
<1>4. \A v \in Workers : Busy(v) /\ v # w => mine[v] # mine[w]
  BY DEF RunnerInv, TestsHeld
<1>5. RunnerTypes'
  BY <1>1 DEF RunnerInv, RunnerTypes
<1>6. TestsHeld'
  <2>1. ASSUME NEW v \in Workers, Busy(v)'
        PROVE  /\ mine'[v] \in Tests
               /\ mine'[v] <= current_test_index'
               /\ ~timed'[mine'[v]]
               /\ runs'[mine'[v]] = IF pc'[v] \in {"begin", "run"} THEN 0 ELSE 1
               /\ pc'[v] = "begin" => status'[mine'[v]] = IDLE
               /\ pc'[v] = "run" => status'[mine'[v]] = RUNNING
               /\ pc'[v] \in {"message", "finish"} => status'[mine'[v]] # IDLE
               /\ \A u \in Workers : Busy(u)' /\ mine'[u] = mine'[v] => u = v
    <3>1. CASE v = w
      <4>1. place # "fetch"
        BY <1>2, <2>1, <3>1
      <4>2. pc'[v] = place /\ mine'[v] = mine[w]
        BY <1>1, <3>1
      <4>3. \A u \in Workers : Busy(u)' /\ mine'[u] = mine'[v] => u = v
        BY <1>2, <1>4, <3>1
      <4>4. QED
        BY <1>3, <4>1, <4>2, <4>3
    <3>2. CASE v # w
      <4>1. Busy(v) /\ pc'[v] = pc[v] /\ mine'[v] = mine[v] /\ mine[v] # mine[w]
        BY <1>1, <1>2, <1>4, <2>1, <3>2
      <4>2. \A u \in Workers : Busy(u)' => Busy(u)
        BY <1>2
      <4>3. QED
        BY <4>1, <4>2 DEF RunnerInv, TestsHeld
    <3>3. QED
      BY <3>1, <3>2
  <2>2. QED
    BY <2>1 DEF TestsHeld
<1>7. TestsDivided'
  <2>1. ASSUME NEW t \in Tests
        PROVE  /\ current_test_index' < t => runs'[t] = 0 /\ ~timed'[t] /\ status'[t] = IDLE
               /\ t <= current_test_index' =>
                    timed'[t] \/ \E v \in Workers : Busy(v)' /\ mine'[v] = t
               /\ timed'[t] => runs'[t] = 1 /\ Ended(status'[t])
    <3>1. CASE t = mine[w]
      <4>1. ~(current_test_index < t)
        BY <1>3, <3>1, WorkersRange DEF RunnerInv, RunnerTypes
      <4>2. QED
        BY <1>2, <3>1, <4>1
    <3>2. CASE t # mine[w]
      BY <1>2, <3>2 DEF RunnerInv, TestsDivided
    <3>3. QED
      BY <3>1, <3>2
  <2>2. QED
    BY <2>1 DEF TestsDivided
<1>8. WorkersJoined'
  BY <1>1, <1>2, WorkerStaysCounted DEF RunnerInv, WorkersJoined
<1>9. QED
  BY <1>1, <1>5, <1>6, <1>7, <1>8 DEF RunnerInv

(* Every step of a worker. *)
LEMMA WorkerKeepsInv ==
  ASSUME RunnerInv, NEW w \in Workers, Worker(w)
  PROVE  RunnerInv'
<1> DEFINE t == mine[w]
<1>1. CASE WorkerStart(w)
  BY <1>1, WorkerStartKeepsInv
<1>2. CASE FetchIndex(w)
  BY <1>2, FetchIndexKeepsInv
<1>3. CASE WorkerEnd(w)
  BY <1>3, WorkerEndKeepsInv
<1>4. ASSUME Busy(w)
      PROVE  /\ t \in Tests
             /\ status \in [Tests -> {IDLE, RUNNING, PASSED, FAILED}]
             /\ timed \in [Tests -> BOOLEAN]
             /\ runs \in [Tests -> Nat]
             /\ ~timed[t]
             /\ runs[t] = IF pc[w] \in {"begin", "run"} THEN 0 ELSE 1
             /\ pc[w] \in {"message", "finish"} => status[t] # IDLE
  BY <1>4 DEF RunnerInv, RunnerTypes, TestsHeld
<1>5. CASE BeginTest(w)
  <2>1. Busy(w) /\ pc[w] = "begin"
    BY <1>5 DEF BeginTest, At, Busy
  <2>2. status' = [status EXCEPT ![t] = RUNNING]
    BY <1>5 DEF BeginTest
  <2>3. UNCHANGED <<timed, runs, current_test_index, num_threads_working, mine>> /\ UNCHANGED main
    BY <1>5 DEF BeginTest
  <2>4. Goto(w, "run")
    BY <1>5 DEF BeginTest
  <2>5. QED
    BY <1>4, <2>1, <2>2, <2>3, <2>4, OwnTestKeepsInv
<1>6. CASE RunFunction(w)
  <2>1. Busy(w) /\ pc[w] = "run"
    BY <1>6 DEF RunFunction, At, Busy
  <2>2. PICK result \in Results : status' = [status EXCEPT ![t] = result]
    BY <1>6 DEF RunFunction
  <2>3. runs' = [runs EXCEPT ![t] = @ + 1]
    BY <1>6 DEF RunFunction
  <2>4. UNCHANGED <<timed, current_test_index, num_threads_working, mine>> /\ UNCHANGED main
    BY <1>6 DEF RunFunction
  <2>5. Goto(w, "message")
    BY <1>6 DEF RunFunction
  <2>6. result \in {RUNNING, PASSED, FAILED} /\ result # IDLE
    BY DEF IDLE, RUNNING, PASSED, FAILED
  <2>7. QED
    BY <1>4, <2>1, <2>2, <2>3, <2>4, <2>5, <2>6, OwnTestKeepsInv
<1>7. CASE StoreMessage(w)
  <2>1. Busy(w) /\ pc[w] = "message"
    BY <1>7 DEF StoreMessage, At, Busy
  <2>2. /\ UNCHANGED <<status, timed, runs>>
        /\ UNCHANGED <<current_test_index, num_threads_working, mine>> /\ UNCHANGED main
    BY <1>7 DEF StoreMessage
  <2>3. Goto(w, "finish")
    BY <1>7 DEF StoreMessage
  <2>4. QED
    BY <1>4, <2>1, <2>2, <2>3, OwnTestKeepsInv
<1>8. CASE FinishTest(w)
  <2>1. Busy(w) /\ pc[w] = "finish"
    BY <1>8 DEF FinishTest, At, Busy
  <2>2. status' = [status EXCEPT ![t] = IF @ = RUNNING THEN FAILED ELSE @]
    BY <1>8 DEF FinishTest
  <2>3. timed' = [timed EXCEPT ![t] = TRUE]
    BY <1>8 DEF FinishTest
  <2>4. UNCHANGED <<runs, current_test_index, num_threads_working, mine>> /\ UNCHANGED main
    BY <1>8 DEF FinishTest
  <2>5. Goto(w, "fetch")
    BY <1>8 DEF FinishTest
  <2>6. Ended(status'[t])
    BY <1>4, <2>1, <2>2 DEF Ended
  <2>7. QED
    BY <1>4, <2>1, <2>2, <2>3, <2>4, <2>5, <2>6, OwnTestKeepsInv
<1>9. QED
  BY <1>1, <1>2, <1>3, <1>5, <1>6, <1>7, <1>8 DEF Worker

-----------------------------------------------------------------------------
(* In every state, whatever the interleaving of run_tests (testing.c:406)    *)
(* and its workers, the counter divides the tests and the joins the threads. *)
THEOREM RunnerInvariant == Spec => []RunnerInv
<1>1. RunnerInv /\ [Next]_vars => RunnerInv'
  <2> SUFFICES ASSUME RunnerInv, [Next]_vars PROVE RunnerInv'
    OBVIOUS
  <2>1. CASE Main
    BY <2>1, MainKeepsInv
  <2>2. CASE \E w \in Workers : Worker(w)
    BY <2>2, WorkerKeepsInv
  <2>3. CASE UNCHANGED vars
    BY <2>3, TestsAndWorkersSame
       DEF vars, tests, workers, main, RunnerInv, RunnerTypes, WorkersJoined, ThreadsCreated
  <2>4. QED
    BY <2>1, <2>2, <2>3 DEF Next
<1>2. QED
  BY InitInv, <1>1, PTL DEF Spec

(* No test function is called twice and no two workers have the same test    *)
(* (run_test, testing.c:77, and the counter at testing.c:117).               *)
THEOREM RunnerRunOnce == Spec => []RunOnce
<1>1. RunnerInv => RunOnce
  <2> SUFFICES ASSUME RunnerInv PROVE RunOnce
    OBVIOUS
  <2>1. ASSUME NEW t \in Tests PROVE runs[t] <= 1
    <3>1. t \in Nat /\ current_test_index \in Nat
      BY WorkersRange DEF RunnerInv, RunnerTypes
    <3>2. CASE current_test_index < t
      BY <3>2 DEF RunnerInv, TestsDivided
    <3>3. CASE timed[t]
      BY <3>3 DEF RunnerInv, TestsDivided
    <3>4. CASE \E w \in Workers : Busy(w) /\ mine[w] = t
      BY <3>4 DEF RunnerInv, TestsHeld
    <3>5. QED
      BY <3>1, <3>2, <3>3, <3>4 DEF RunnerInv, TestsDivided
  <2>2. \A v, w \in Workers : Busy(v) /\ Busy(w) /\ mine[v] = mine[w] => v = w
    BY DEF RunnerInv, TestsHeld
  <2>3. QED
    BY <2>1, <2>2 DEF RunOnce
<1>2. QED
  BY RunnerInvariant, <1>1, PTL

(* run_tests returns to a state where every test has its result and every    *)
(* worker is gone, so that free_tests may follow (testing.c:453-460).        *)
THEOREM RunnerAllRunAtReturn == Spec => []AllRunAtReturn
<1>1. RunnerInv => AllRunAtReturn
  <2> SUFFICES ASSUME RunnerInv, at = "done" PROVE AllRunAtReturn
    BY DEF AllRunAtReturn
  <2>1. \A w \in Workers : pc[w] = "ended"
    BY DEF RunnerInv, WorkersJoined
  <2>2. NumTests <= current_test_index
    BY <2>1, WorkersRange DEF RunnerInv, WorkersJoined
  <2>3. \A t \in Tests : t <= current_test_index
    BY <2>2 DEF RunnerInv, RunnerTypes, Tests
  <2>4. \A t \in Tests : timed[t]
    BY <2>1, <2>3 DEF RunnerInv, TestsDivided, Busy
  <2>5. num_threads_working = 0
    <3>1. {w \in Workers : Counted(w)} = {}
      BY <2>1 DEF Counted
    <3>2. QED
      BY <3>1, FS_EmptySet DEF RunnerInv, WorkersJoined
  <2>6. QED
    BY <2>1, <2>4, <2>5 DEF RunnerInv, TestsDivided, AllRunAtReturn
<1>2. QED
  BY RunnerInvariant, <1>1, PTL

(* No step takes a status back, or away from a verdict, also where run_test  *)
(* stores it without the mutex (testing.c:87).                               *)
THEOREM RunnerStatusForward == Spec => StatusForward
<1> DEFINE Forward ==
      \A t \in Tests :
        status'[t] # status[t] =>
          \/ status[t] = IDLE /\ status'[t] = RUNNING
          \/ status[t] = RUNNING /\ Ended(status'[t])
<1>1. RunnerInv /\ [Next]_vars => [Forward]_vars
  <2> SUFFICES ASSUME RunnerInv, Next PROVE Forward
    OBVIOUS
  <2>1. CASE Main
    <3>1. UNCHANGED status
      BY <2>1 DEF Main, CreateThread, CreateThreadFails, ScanTest, CountTest,
                  RowStatus, RowMessage, Sleep, JoinThread, tests
    <3>2. QED
      BY <3>1
  <2>2. ASSUME NEW w \in Workers, Worker(w) PROVE Forward
    <3>1. status \in [Tests -> {IDLE, RUNNING, PASSED, FAILED}]
      BY DEF RunnerInv, RunnerTypes
    <3>2. CASE BeginTest(w)
      BY <3>1, <3>2 DEF BeginTest, At, RunnerInv, TestsHeld, Busy
    <3>3. CASE RunFunction(w)
      <4>1. pc[w] = "run" /\ status[mine[w]] = RUNNING
        BY <3>3 DEF RunFunction, At, RunnerInv, TestsHeld, Busy
      <4>2. PICK result \in Results : status' = [status EXCEPT ![mine[w]] = result]
        BY <3>3 DEF RunFunction
      <4>3. result = RUNNING \/ Ended(result)
        BY DEF Ended
      <4>4. QED
        BY <3>1, <4>1, <4>2, <4>3
    <3>4. CASE FinishTest(w)
      BY <3>1, <3>4 DEF FinishTest, Ended
    <3>5. CASE WorkerStart(w) \/ FetchIndex(w) \/ StoreMessage(w) \/ WorkerEnd(w)
      <4>1. UNCHANGED status
        BY <3>5 DEF WorkerStart, FetchIndex, StoreMessage, WorkerEnd, tests
      <4>2. QED
        BY <4>1
    <3>6. QED
      BY <2>2, <3>2, <3>3, <3>4, <3>5 DEF Worker
  <2>3. QED
    BY <2>1, <2>2 DEF Next
<1>2. QED
  BY RunnerInvariant, <1>1, PTL DEF Spec, StatusForward

-----------------------------------------------------------------------------
(* The verdicts after a step, in which only the worker w set an end time.    *)
LEMMA VerdictsSame ==
  ASSUME \A t \in Tests : timed'[t] = timed[t],
         \A t \in Tests : timed[t] => status'[t] = status[t]
  PROVE  [t \in Tests |-> IF timed'[t] THEN status'[t] ELSE NONE]
           = [t \in Tests |-> IF timed[t] THEN status[t] ELSE NONE]
OBVIOUS

(* The runner does what TestRun promises: every test gets one verdict, which *)
(* stays, and run_tests (testing.c:406) returns once all of them are in.     *)
THEOREM RunnerImplementsTestRun == Spec => ImplementsTestRun
<1> DEFINE verdict == [t \in Tests |-> IF timed[t] THEN status[t] ELSE NONE]
           over == CASE at = "done" -> "yes" [] at = "exited" -> "given up" [] OTHER -> "no"
<1>1. Init => Verdict!Init
  BY DEF Init, Verdict!Init
<1>2. RunnerInv /\ [Next]_vars => [Verdict!Next]_(Verdict!vars)
  <2> SUFFICES ASSUME RunnerInv, [Next]_vars PROVE Verdict!Next \/ UNCHANGED Verdict!vars
    BY DEF Verdict!vars
  <2>1. ASSUME NEW w \in Workers, FinishTest(w) PROVE Verdict!Judge(mine[w])
    <3>1. /\ Busy(w) /\ at # "exited" /\ at # "done" /\ at' = at
          /\ mine[w] \in Tests /\ ~timed[mine[w]] /\ status[mine[w]] # IDLE
      BY <2>1 DEF FinishTest, At, Busy, RunnerInv, TestsHeld, WorkersJoined, main
    <3>2. /\ status \in [Tests -> {IDLE, RUNNING, PASSED, FAILED}]
          /\ timed \in [Tests -> BOOLEAN]
      BY DEF RunnerInv, RunnerTypes
    <3>3. /\ status' = [status EXCEPT ![mine[w]] = IF @ = RUNNING THEN FAILED ELSE @]
          /\ timed' = [timed EXCEPT ![mine[w]] = TRUE]
      BY <2>1 DEF FinishTest
    <3>4. status'[mine[w]] \in {PASSED, FAILED}
      BY <3>1, <3>2, <3>3
    <3>5. verdict' = [verdict EXCEPT ![mine[w]] = status'[mine[w]]]
      BY <3>1, <3>2, <3>3
    <3>6. over = "no" /\ over' = "no"
      BY <3>1
    <3>7. verdict[mine[w]] = NONE
      BY <3>1
    <3>8. QED
      BY <3>4, <3>5, <3>6, <3>7 DEF Verdict!Judge
  <2>2. ASSUME NEW w \in Workers, Worker(w), ~FinishTest(w)
        PROVE  UNCHANGED Verdict!vars
    <3>1. at' = at /\ timed' = timed
      BY <2>2 DEF Worker, WorkerStart, FetchIndex, BeginTest, RunFunction,
                  StoreMessage, WorkerEnd, tests, main
    <3>2. \A t \in Tests : timed[t] => status'[t] = status[t]
      <4>1. CASE BeginTest(w) \/ RunFunction(w)
        <5>1. mine[w] \in Tests /\ ~timed[mine[w]]
          BY <4>1 DEF BeginTest, RunFunction, At, Busy, RunnerInv, TestsHeld
        <5>2. \A t \in Tests : t # mine[w] => status'[t] = status[t]
          BY <4>1 DEF BeginTest, RunFunction, RunnerInv, RunnerTypes
        <5>3. QED
          BY <5>1, <5>2
      <4>2. CASE WorkerStart(w) \/ FetchIndex(w) \/ StoreMessage(w) \/ WorkerEnd(w)
        BY <4>2 DEF WorkerStart, FetchIndex, StoreMessage, WorkerEnd, tests
      <4>3. QED
        BY <2>2, <4>1, <4>2 DEF Worker
    <3>3. QED
      BY <3>1, <3>2, VerdictsSame DEF Verdict!vars
  <2>3. ASSUME Main PROVE Verdict!Next \/ UNCHANGED Verdict!vars
    <3>1. UNCHANGED <<status, timed>>
      BY <2>3 DEF Main, CreateThread, CreateThreadFails, ScanTest, CountTest,
                  RowStatus, RowMessage, Sleep, JoinThread, tests
    <3>2. verdict' = verdict
      BY <3>1
    <3>3. /\ at \notin {"done", "exited"}
          /\ at' = "exited" => at = "create"
          /\ at' = "done" => at = "final_row"
      BY <2>3 DEF Main, CreateThread, CreateThreadFails, ScanTest, CountTest,
                  RowStatus, RowMessage, Sleep, JoinThread, Advance, main
    <3>4. CASE at' = "done"
      <4>1. \A w \in Workers : pc[w] = "ended"
        BY <3>3, <3>4 DEF RunnerInv, WorkersJoined
      <4>2. NumTests <= current_test_index
        BY <4>1, WorkersRange DEF RunnerInv, WorkersJoined
      <4>3. \A t \in Tests : t <= current_test_index
        BY <4>2 DEF RunnerInv, RunnerTypes, Tests
      <4>4. \A t \in Tests : timed[t] /\ Ended(status[t])
        BY <4>1, <4>3 DEF RunnerInv, TestsDivided, Busy
      <4>5. \A t \in Tests : verdict[t] # NONE
        BY <4>4 DEF Ended
      <4>6. over = "no" /\ over' = "yes"
        BY <3>3, <3>4
      <4>7. QED
        BY <3>2, <4>5, <4>6 DEF Verdict!Next, Verdict!Return
    <3>5. CASE at' = "exited"
      BY <3>2, <3>3, <3>5 DEF Verdict!Next, Verdict!GiveUp
    <3>6. CASE at' \notin {"done", "exited"}
      BY <3>2, <3>3, <3>6 DEF Verdict!vars
    <3>7. QED
      BY <3>4, <3>5, <3>6
  <2>4. CASE UNCHANGED vars
    BY <2>4 DEF vars, tests, main, Verdict!vars
  <2>5. QED
    <3>1. ASSUME NEW w \in Workers, FinishTest(w) PROVE Verdict!Next
      <4>1. mine[w] \in Tests
        BY <3>1 DEF FinishTest, At, Busy, RunnerInv, TestsHeld
      <4>2. Verdict!Judge(mine[w])
        BY <2>1, <3>1
      <4>3. \E t \in Tests : Verdict!Judge(t)
        BY <4>1, <4>2 DEF Verdict!Judge
      <4>4. QED
        BY <4>3 DEF Verdict!Next
    <3>2. QED
      BY <2>2, <2>3, <2>4, <3>1 DEF Next
<1>3. QED
  BY RunnerInvariant, <1>1, <1>2, PTL DEF Spec, ImplementsTestRun, Verdict!Spec
-----------------------------------------------------------------------------
Statuses == {IDLE, RUNNING, PASSED, FAILED}
Messages == {NONE, RUNNING, PASSED, FAILED}
Row == [status : Statuses, message : Messages]

ReportTypes ==
  /\ message \in [Tests -> Messages]
  /\ locked \in Tests \cup {NONE}
  /\ threads_running \in BOOLEAN
  /\ counted \in [Statuses -> Nat]
  /\ progress \in 0 .. NumTests
  /\ screen \in Seq(Row)

(* A test that ended has the message of its result. run_test may turn        *)
(* RUNNING into FAILED after the message is stored, never into PASSED.       *)
MessagesMatch ==
  /\ \A w \in Workers : pc[w] = "finish" => message[mine[w]] = status[mine[w]]
  /\ \A t \in Tests : timed[t] => message[t] # NONE /\ (status[t] = PASSED <=> message[t] = PASSED)

(* The loops of run_tests stay within their arrays, and the rows are drawn   *)
(* in order, each under the mutex of its test.                               *)
RowsDrawn ==
  /\ at \in {"scan", "count", "final_count"} => i \in Tests
  /\ at = "sleep" => i = 1
  /\ at \in {"row", "final_row"} =>
       /\ i \in 1 .. shown
       /\ locked \in {NONE, i}
       /\ Len(screen) = IF locked = i THEN i ELSE i - 1
  /\ at \notin {"row", "final_row"} => locked = NONE /\ Len(screen) <= shown
  /\ at = "done" => Len(screen) = shown

Total(summary) == summary[IDLE] + summary[RUNNING] + summary[PASSED] + summary[FAILED]

(* Each test passed by the loop is in one of the counters; in the last pass  *)
(* none is idle or running.                                                  *)
TestsCounted ==
  /\ at \in {"count", "final_count"} => Total(counted) = i - 1
  /\ at \notin {"count", "final_count"} => counted = NoCounts
  /\ at = "final_count" => counted[IDLE] = 0 /\ counted[RUNNING] = 0
  /\ at \in {"final_row", "done"} => progress = NumTests

(* Nothing changes any more under the last dashboard. *)
RowsTrue ==
  at \in {"final_row", "done"} =>
    \A t \in 1 .. Len(screen) :
      /\ screen[t].status = status[t]
      /\ locked # t => screen[t].message = message[t]

(* The inductive invariant, next to RunnerInv. *)
ReportInv ==
  /\ ReportTypes
  /\ MessagesMatch
  /\ RowsDrawn
  /\ TestsCounted
  /\ RowsTrue

-----------------------------------------------------------------------------
(* The rows that are shown are rows of tests. *)
LEMMA ShownRange ==
  /\ shown \in Nat \ {0} /\ shown <= NumTests
  /\ 1 .. shown \subseteq Tests
  /\ 1 \in Tests /\ NumTests \in Tests
  /\ Tests \subseteq Nat \ {0}
  /\ NONE \notin Tests
BY DEF shown, Tests

(* Once the workers are joined every test has ended. *)
LEMMA EveryTestEnded ==
  ASSUME RunnerInv, at \in {"final_count", "final_row", "done"}
  PROVE  \A t \in Tests : timed[t] /\ Ended(status[t])
<1>1. \A w \in Workers : pc[w] = "ended"
  BY DEF RunnerInv, WorkersJoined
<1>2. NumTests <= current_test_index
  BY <1>1, WorkersRange DEF RunnerInv, WorkersJoined
<1>3. \A t \in Tests : t <= current_test_index
  BY <1>2 DEF RunnerInv, RunnerTypes, Tests
<1>4. QED
  BY <1>1, <1>3 DEF RunnerInv, TestsDivided, Busy

(* The counters start from zero. *)
LEMMA NothingCounted ==
  /\ NoCounts \in [Statuses -> Nat]
  /\ Total(NoCounts) = 0
  /\ NoCounts[IDLE] = 0 /\ NoCounts[RUNNING] = 0
BY DEF NoCounts, Statuses, Total, IDLE, RUNNING, PASSED, FAILED

(* Before anything is drawn. *)
LEMMA InitReport == Init => ReportInv
<1> SUFFICES ASSUME Init PROVE ReportInv
  OBVIOUS
<1>1. ReportTypes
  BY NothingCounted, EmptySeq DEF Init, ReportTypes, Messages
<1>2. MessagesMatch
  BY DEF Init, MessagesMatch
<1>3. RowsDrawn
  BY ShownRange, EmptySeq DEF Init, RowsDrawn
<1>4. TestsCounted /\ RowsTrue
  BY DEF Init, TestsCounted, RowsTrue
<1>5. QED
  BY <1>1, <1>2, <1>3, <1>4 DEF ReportInv

-----------------------------------------------------------------------------
(* A worker changes nothing of the dashboard, and works only before the last *)
(* one is drawn: what it must keep is that messages belong to results.       *)
LEMMA WorkerKeepsReport ==
  ASSUME RunnerInv, ReportInv, NEW w \in Workers, Worker(w)
  PROVE  ReportInv'
<1>1. /\ UNCHANGED <<locked, at, i, threads_running, counted, progress, screen>>
      /\ pc[w] # "ended"
  BY DEF Worker, WorkerStart, FetchIndex, BeginTest, RunFunction, StoreMessage,
         FinishTest, WorkerEnd, At, main, dashboard
<1>2. at \notin {"final_count", "final_row", "done"}
  BY <1>1 DEF RunnerInv, WorkersJoined
<1>3. RowsDrawn' /\ TestsCounted' /\ RowsTrue'
  BY <1>1, <1>2 DEF ReportInv, RowsDrawn, TestsCounted, RowsTrue
<1>4. /\ status \in [Tests -> Statuses] /\ timed \in [Tests -> BOOLEAN]
      /\ pc \in [Workers -> Places] /\ message \in [Tests -> Messages]
  BY DEF RunnerInv, RunnerTypes, ReportInv, ReportTypes, Statuses
<1>5. \A v \in Workers : Busy(v) /\ v # w /\ Busy(w) => mine[v] # mine[w]
  BY DEF RunnerInv, TestsHeld
<1>6. Busy(w) => mine[w] \in Tests /\ ~timed[mine[w]]
  BY DEF RunnerInv, TestsHeld
<1>7. message' \in [Tests -> Messages] /\ MessagesMatch'
  <2>1. CASE WorkerStart(w) \/ FetchIndex(w) \/ WorkerEnd(w)
    <3>1. /\ UNCHANGED <<status, message, timed>>
          /\ \A v \in Workers : pc'[v] = "finish" => pc[v] = "finish" /\ v # w
          /\ \A v \in Workers : v # w => mine'[v] = mine[v]
      BY <1>4, <2>1 DEF WorkerStart, FetchIndex, WorkerEnd, tests, Goto, At,
                        RunnerInv, RunnerTypes
    <3>2. QED
      BY <1>4, <3>1 DEF ReportInv, MessagesMatch
  <2>2. CASE BeginTest(w) \/ RunFunction(w)
    <3>1. Busy(w) /\ UNCHANGED <<message, timed, mine>>
      BY <2>2 DEF BeginTest, RunFunction, At, Busy
    <3>2. \A t \in Tests : t # mine[w] => status'[t] = status[t]
      BY <1>4, <2>2 DEF BeginTest, RunFunction
    <3>3. \A v \in Workers : pc'[v] = "finish" => pc[v] = "finish" /\ v # w
      BY <1>4, <2>2 DEF BeginTest, RunFunction, Goto, At
    <3>4. \A v \in Workers : pc'[v] = "finish" => message'[mine'[v]] = status'[mine'[v]]
      <4> SUFFICES ASSUME NEW v \in Workers, pc'[v] = "finish"
                   PROVE  message'[mine'[v]] = status'[mine'[v]]
        OBVIOUS
      <4>1. Busy(v) /\ v # w /\ mine[v] \in Tests
        BY <3>3 DEF Busy, RunnerInv, TestsHeld
      <4>2. QED
        BY <1>5, <3>1, <3>2, <3>3, <4>1 DEF ReportInv, MessagesMatch
    <3>5. QED
      BY <1>4, <1>6, <3>1, <3>2, <3>4 DEF ReportInv, MessagesMatch
  <2>3. CASE StoreMessage(w)
    <3>1. /\ Busy(w) /\ UNCHANGED <<status, timed, mine>>
          /\ message' = [message EXCEPT ![mine[w]] = status[mine[w]]]
          /\ pc[w] = "message"
          /\ \A v \in Workers : pc'[v] = "finish" => pc[v] = "finish" \/ v = w
      BY <1>4, <2>3 DEF StoreMessage, At, Busy, Goto
    <3>2. status[mine[w]] \in Messages
      BY <1>4, <1>6, <3>1 DEF RunnerInv, TestsHeld, Messages, Statuses
    <3>3. message' \in [Tests -> Messages]
      BY <1>4, <3>1, <3>2
    <3>4. \A t \in Tests : message'[t] = IF t = mine[w] THEN status[t] ELSE message[t]
      BY <1>4, <3>1
    <3>5. \A v \in Workers : pc'[v] = "finish" => message'[mine'[v]] = status'[mine'[v]]
      <4> SUFFICES ASSUME NEW v \in Workers, pc'[v] = "finish"
                   PROVE  message'[mine'[v]] = status'[mine'[v]]
        OBVIOUS
      <4>1. CASE v = w
        BY <1>6, <3>1, <3>4, <4>1
      <4>2. CASE v # w
        <5>1. Busy(v) /\ mine[v] \in Tests /\ pc[v] = "finish"
          BY <3>1, <4>2 DEF Busy, RunnerInv, TestsHeld
        <5>2. QED
          BY <1>5, <3>1, <3>4, <4>2, <5>1 DEF ReportInv, MessagesMatch
      <4>3. QED
        BY <4>1, <4>2
    <3>6. \A t \in Tests :
            timed'[t] => message'[t] # NONE /\ (status'[t] = PASSED <=> message'[t] = PASSED)
      BY <1>6, <3>1, <3>4 DEF ReportInv, MessagesMatch
    <3>7. QED
      BY <3>3, <3>5, <3>6 DEF MessagesMatch
  <2>4. CASE FinishTest(w)
    <3>1. /\ Busy(w) /\ UNCHANGED <<message, mine>>
          /\ status' = [status EXCEPT ![mine[w]] = IF @ = RUNNING THEN FAILED ELSE @]
          /\ timed' = [timed EXCEPT ![mine[w]] = TRUE]
          /\ pc[w] = "finish"
          /\ \A v \in Workers : pc'[v] = "finish" => pc[v] = "finish" /\ v # w
      BY <1>4, <2>4 DEF FinishTest, At, Busy, Goto
    <3>2. /\ message[mine[w]] = status[mine[w]]
          /\ status[mine[w]] \in {RUNNING, PASSED, FAILED}
      BY <1>4, <1>6, <3>1 DEF ReportInv, MessagesMatch, RunnerInv, TestsHeld, Statuses
    <3>3. /\ \A t \in Tests : t # mine[w] => status'[t] = status[t] /\ timed'[t] = timed[t]
          /\ status'[mine[w]] = IF status[mine[w]] = RUNNING THEN FAILED ELSE status[mine[w]]
      BY <1>4, <1>6, <3>1
    <3>4. status'[mine[w]] = PASSED <=> message'[mine[w]] = PASSED
      BY <3>1, <3>2, <3>3 DEF RUNNING, PASSED, FAILED
    <3>5. \A t \in Tests :
            timed'[t] => message'[t] # NONE /\ (status'[t] = PASSED <=> message'[t] = PASSED)
      BY <3>1, <3>2, <3>3, <3>4 DEF ReportInv, MessagesMatch
    <3>6. \A v \in Workers : pc'[v] = "finish" => message'[mine'[v]] = status'[mine'[v]]
      <4> SUFFICES ASSUME NEW v \in Workers, pc'[v] = "finish"
                   PROVE  message'[mine'[v]] = status'[mine'[v]]
        OBVIOUS
      <4>1. Busy(v) /\ v # w /\ mine[v] \in Tests
        BY <3>1 DEF Busy, RunnerInv, TestsHeld
      <4>2. QED
        BY <1>5, <3>1, <3>3, <4>1 DEF ReportInv, MessagesMatch
    <3>7. QED
      BY <1>4, <3>1, <3>5, <3>6 DEF MessagesMatch
  <2>5. QED
    BY <2>1, <2>2, <2>3, <2>4 DEF Worker
<1>8. ReportTypes'
  BY <1>1, <1>7 DEF ReportInv, ReportTypes
<1>9. QED
  BY <1>3, <1>7, <1>8 DEF ReportInv

-----------------------------------------------------------------------------
(* run_tests leaves the tests and their messages alone, and puts no worker   *)
(* where it would finish one.                                                *)
LEMMA MainKeepsMessages ==
  ASSUME RunnerInv, ReportInv, Main
  PROVE  /\ UNCHANGED <<status, message, timed, runs>>
         /\ message' \in [Tests -> Messages]
         /\ MessagesMatch'
<1>1. UNCHANGED <<status, message, timed, runs, mine>>
  BY DEF Main, CreateThread, CreateThreadFails, ScanTest, CountTest, RowStatus,
         RowMessage, Sleep, JoinThread, tests, workers
<1>2. \A w \in Workers : pc'[w] = "finish" => pc[w] = "finish"
  <2>1. CASE CreateThread
    BY <2>1 DEF CreateThread, Goto, RunnerInv, RunnerTypes
  <2>2. CASE ~CreateThread
    BY <2>2 DEF Main, CreateThreadFails, ScanTest, CountTest, RowStatus,
                RowMessage, Sleep, JoinThread, workers
  <2>3. QED
    BY <2>1, <2>2
<1>3. QED
  BY <1>1, <1>2 DEF ReportInv, ReportTypes, MessagesMatch

(* The steps outside of render_dashboard,                                    *)
LEMMA PlainStepKeepsReport ==
  ASSUME RunnerInv, ReportInv, Main,
         CreateThread \/ CreateThreadFails \/ ScanTest \/ Sleep \/ JoinThread
  PROVE  ReportInv'
<1>1. UNCHANGED dashboard /\ locked' = locked /\ threads_running' \in BOOLEAN
  BY DEF CreateThread, CreateThreadFails, ScanTest, Sleep, JoinThread, dashboard,
         ReportInv, ReportTypes
<1>2. /\ at \in {"create", "scan", "sleep", "join"}
      /\ at' \in {"create", "scan", "count", "sleep", "join", "final_count", "exited"}
      /\ at' \in {"scan", "count", "final_count"} => i' \in Tests
      /\ at' \in {"count", "final_count"} => i' = 1
      /\ at' = "sleep" => i' = 1
  <2>1. CASE CreateThread
    BY <2>1, ShownRange, WorkersRange DEF CreateThread, Advance
  <2>2. CASE CreateThreadFails
    BY <2>2 DEF CreateThreadFails
  <2>3. CASE ScanTest
    <3>1. i \in Tests /\ at = "scan"
      BY <2>3 DEF ScanTest, ReportInv, RowsDrawn
    <3>2. \/ i < NumTests /\ i' = i + 1 /\ at' = "scan"
          \/ i' = 1 /\ at' = "count"
      BY <2>3, <3>1 DEF ScanTest, Advance
    <3>3. i < NumTests => i + 1 \in Tests
      BY <3>1 DEF Tests
    <3>4. QED
      BY <3>1, <3>2, <3>3, ShownRange
  <2>4. CASE Sleep
    BY <2>4, ShownRange DEF Sleep, ReportInv, RowsDrawn
  <2>5. CASE JoinThread
    BY <2>5, ShownRange DEF JoinThread, Advance
  <2>6. QED
    BY <2>1, <2>2, <2>3, <2>4, <2>5
<1>3. counted = NoCounts /\ locked = NONE /\ Len(screen) <= shown
  BY <1>2 DEF ReportInv, RowsDrawn, TestsCounted
<1>4. RowsDrawn' /\ RowsTrue'
  BY <1>1, <1>2, <1>3 DEF RowsDrawn, RowsTrue, dashboard
<1>5. TestsCounted'
  BY <1>1, <1>2, <1>3, NothingCounted DEF TestsCounted, dashboard
<1>6. ReportTypes'
  BY <1>1, MainKeepsMessages DEF ReportInv, ReportTypes, dashboard
<1>7. QED
  BY <1>4, <1>5, <1>6, MainKeepsMessages DEF ReportInv

(* the summary, which adds up to the tests counted,                          *)
LEMMA CountTestKeepsReport ==
  ASSUME RunnerInv, ReportInv, CountTest
  PROVE  ReportInv'
<1> DEFINE summary == [counted EXCEPT ![status[i]] = @ + 1]
           next == IF at = "count" THEN "row" ELSE "final_row"
<1>1. Main /\ UNCHANGED <<status, message, timed, locked, threads_running>>
  BY DEF CountTest, Main, tests
<1>2. /\ at \in {"count", "final_count"} /\ i \in Tests /\ i \in Nat
      /\ locked = NONE /\ status[i] \in Statuses
      /\ counted \in [Statuses -> Nat] /\ Total(counted) = i - 1
  BY ShownRange DEF CountTest, ReportInv, ReportTypes, RowsDrawn, TestsCounted,
                    RunnerInv, RunnerTypes, Statuses
<1>3. /\ summary \in [Statuses -> Nat]
      /\ Total(summary) = i
      /\ Completed(summary) \in 0 .. i
  <2>1. summary \in [Statuses -> Nat]
    BY <1>2
  <2>2. \A s \in Statuses : summary[s] = IF s = status[i] THEN counted[s] + 1 ELSE counted[s]
    BY <1>2
  <2>3. /\ IDLE # RUNNING /\ IDLE # PASSED /\ IDLE # FAILED
        /\ RUNNING # PASSED /\ RUNNING # FAILED /\ PASSED # FAILED
        /\ \A s \in Statuses : counted[s] \in Nat
        /\ Statuses = {IDLE, RUNNING, PASSED, FAILED}
    BY <1>2 DEF IDLE, RUNNING, PASSED, FAILED, Statuses
  <2> HIDE DEF summary
  <2>4. Total(summary) = i
    BY <1>2, <2>2, <2>3 DEF Total
  <2>5. QED
    BY <1>2, <2>1, <2>3, <2>4 DEF Total, Completed
<1>4. at = "final_count" =>
        /\ summary[IDLE] = 0 /\ summary[RUNNING] = 0
        /\ Completed(summary) = i
  <2> SUFFICES ASSUME at = "final_count"
               PROVE  summary[IDLE] = 0 /\ summary[RUNNING] = 0 /\ Completed(summary) = i
    OBVIOUS
  <2>1. status[i] \in {PASSED, FAILED}
    BY <1>2, EveryTestEnded DEF Ended
  <2>2. summary[IDLE] = 0 /\ summary[RUNNING] = 0
    BY <1>2, <2>1 DEF ReportInv, TestsCounted, IDLE, RUNNING, PASSED, FAILED
  <2> HIDE DEF summary
  <2>3. summary[PASSED] \in Nat /\ summary[FAILED] \in Nat
    BY <1>3 DEF Statuses
  <2>4. QED
    BY <1>2, <1>3, <2>2, <2>3 DEF Total, Completed
<1>5. CASE i < NumTests
  <2>1. /\ i' = i + 1 /\ at' = at /\ counted' = summary
        /\ UNCHANGED <<progress, screen>>
    BY <1>5 DEF CountTest, Advance
  <2>2. i + 1 \in Tests
    BY <1>2, <1>5 DEF Tests
  <2>3. ReportTypes'
    BY <1>1, <1>3, <2>1, MainKeepsMessages DEF ReportInv, ReportTypes
  <2>4. RowsDrawn' /\ RowsTrue'
    BY <1>1, <1>2, <2>1, <2>2 DEF ReportInv, RowsDrawn, RowsTrue
  <2>5. TestsCounted'
    BY <1>2, <1>3, <1>4, <2>1 DEF TestsCounted
  <2>6. QED
    BY <1>1, <2>3, <2>4, <2>5, MainKeepsMessages DEF ReportInv
<1>6. CASE ~(i < NumTests)
  <2>1. i = NumTests
    BY <1>2, <1>6 DEF Tests
  <2>2. /\ i' = 1 /\ at' = next /\ counted' = NoCounts
        /\ progress' = Completed(summary) /\ screen' = <<>>
    BY <1>6 DEF CountTest, Advance
  <2>3. ReportTypes'
    BY <1>1, <1>3, <2>1, <2>2, MainKeepsMessages, NothingCounted, EmptySeq
       DEF ReportInv, ReportTypes
  <2>4. /\ at' \in {"row", "final_row"}
        /\ at' = "final_row" => at = "final_count"
    BY <1>2, <2>2
  <2>5. RowsDrawn' /\ RowsTrue'
    <3>1. Len(screen') = 0 /\ 1 \in 1 .. shown /\ locked' = NONE /\ NONE # 1
      BY <1>1, <1>2, <2>2, ShownRange
    <3>2. QED
      BY <2>2, <2>4, <3>1 DEF RowsDrawn, RowsTrue
  <2>6. TestsCounted'
    BY <1>4, <2>1, <2>2, <2>4 DEF TestsCounted
  <2>7. QED
    BY <1>1, <2>3, <2>5, <2>6, MainKeepsMessages DEF ReportInv
<1>7. QED
  BY <1>5, <1>6

(* and the two steps of a row, between which the status may change, unless   *)
(* this is the last dashboard.                                               *)
LEMMA RowStatusKeepsReport ==
  ASSUME RunnerInv, ReportInv, RowStatus
  PROVE  ReportInv'
<1>1. /\ Main
      /\ UNCHANGED <<status, message, timed, at, i, threads_running, counted, progress>>
      /\ at \in {"row", "final_row"} /\ locked = NONE /\ locked' = i
      /\ screen' = Append(screen, [status |-> status[i], message |-> NONE])
  BY DEF RowStatus, Main, tests, main
<1>2. /\ i \in 1 .. shown /\ i \in Tests /\ i \in Nat \ {0} /\ i # NONE
      /\ screen \in Seq(Row) /\ Len(screen) = i - 1
      /\ status[i] \in Statuses
  BY <1>1, ShownRange DEF ReportInv, ReportTypes, RowsDrawn, RunnerInv, RunnerTypes, Statuses
<1> DEFINE row == [status |-> status[i], message |-> NONE]
<1>3. row \in Row /\ row.status = status[i]
  BY <1>2 DEF Row, Messages
<1> HIDE DEF row
<1>4. /\ screen' \in Seq(Row) /\ Len(screen') = i
      /\ \A t \in 1 .. i : screen'[t] = IF t = i THEN row ELSE screen[t]
  <2>1. screen' = Append(screen, row)
    BY <1>1 DEF row
  <2>2. QED
    BY <1>2, <1>3, <2>1, AppendProperties
<1>5. ReportTypes'
  BY <1>1, <1>2, <1>4, MainKeepsMessages DEF ReportInv, ReportTypes
<1>6. RowsDrawn' /\ TestsCounted'
  BY <1>1, <1>2, <1>4 DEF ReportInv, RowsDrawn, TestsCounted
<1>7. RowsTrue'
  <2> SUFFICES ASSUME at' = "final_row", NEW t \in 1 .. i
               PROVE  /\ screen'[t].status = status'[t]
                      /\ locked' # t => screen'[t].message = message'[t]
    BY <1>1, <1>4 DEF RowsTrue
  <2>1. CASE t = i
    BY <1>1, <1>3, <1>4, <2>1
  <2>2. CASE t # i
    <3>1. t \in 1 .. Len(screen) /\ t # NONE /\ screen'[t] = screen[t]
      BY <1>2, <1>4, <2>2
    <3>2. screen[t].status = status[t] /\ screen[t].message = message[t]
      BY <1>1, <3>1 DEF ReportInv, RowsTrue
    <3>3. QED
      BY <1>1, <3>1, <3>2
  <2>3. QED
    BY <2>1, <2>2
<1>8. QED
  BY <1>1, <1>5, <1>6, <1>7, MainKeepsMessages DEF ReportInv

(* the message of a row, with which the row is complete. *)
LEMMA RowMessageKeepsReport ==
  ASSUME RunnerInv, ReportInv, RowMessage
  PROVE  ReportInv'
<1>1. /\ Main
      /\ UNCHANGED <<status, message, timed, threads_running, counted, progress>>
      /\ at \in {"row", "final_row"} /\ locked = i /\ locked' = NONE
      /\ screen' = [screen EXCEPT ![i].message = message[i]]
  BY DEF RowMessage, Main, tests
<1>2. /\ i \in 1 .. shown /\ i \in Tests /\ i \in Nat \ {0} /\ i # NONE
      /\ screen \in Seq(Row) /\ Len(screen) = i /\ shown \in Nat
      /\ message[i] \in Messages
  BY <1>1, ShownRange DEF ReportInv, ReportTypes, RowsDrawn
<1> DEFINE row == [screen[i] EXCEPT !.message = message[i]]
<1>3. screen[i] \in Row /\ row \in Row /\ row.status = screen[i].status /\ row.message = message[i]
  <2>1. screen[i] \in Row
    BY <1>2, ElementOfSeq
  <2>2. QED
    BY <1>2, <2>1 DEF Row
<1>4. /\ screen' \in Seq(Row) /\ Len(screen') = i
      /\ \A t \in 1 .. i : screen'[t] = IF t = i THEN row ELSE screen[t]
  <2>1. screen' = [screen EXCEPT ![i] = row]
    BY <1>1
  <2> HIDE DEF row
  <2>2. QED
    BY <1>2, <1>3, <2>1, ExceptSeq
<1> HIDE DEF row
<1>5. ReportTypes'
  BY <1>1, <1>4, MainKeepsMessages DEF ReportInv, ReportTypes
<1>6. \/ i < shown /\ i' = i + 1 /\ at' = at
      \/ i = shown /\ i' = 1 /\ at' = IF at = "final_row" THEN "done"
                                     ELSE IF threads_running THEN "sleep" ELSE "join"
  BY <1>2 DEF RowMessage, Advance
<1>7. RowsDrawn'
  <2>1. CASE i < shown /\ i' = i + 1 /\ at' = at
    BY <1>1, <1>2, <1>4, <2>1, ShownRange DEF RowsDrawn
  <2>2. CASE i = shown /\ i' = 1 /\ at' \in {"done", "sleep", "join"}
    BY <1>1, <1>2, <1>4, <2>2 DEF RowsDrawn
  <2>3. QED
    BY <1>6, <2>1, <2>2
<1>8. TestsCounted'
  BY <1>1, <1>6 DEF ReportInv, TestsCounted
<1>9. RowsTrue'
  <2> SUFFICES ASSUME at = "final_row", NEW t \in 1 .. i
               PROVE  screen'[t].status = status'[t] /\ screen'[t].message = message'[t]
    BY <1>1, <1>4, <1>6 DEF RowsTrue
  <2>1. screen[t].status = status[t] /\ (t # i => screen[t].message = message[t])
    BY <1>1, <1>2 DEF ReportInv, RowsTrue
  <2>2. QED
    BY <1>1, <1>3, <1>4, <2>1
<1>10. QED
  BY <1>1, <1>5, <1>7, <1>8, <1>9, MainKeepsMessages DEF ReportInv

-----------------------------------------------------------------------------
(* What has been counted and drawn is as ReportInv says in every state.      *)
THEOREM RunnerReport == Spec => []ReportInv
<1>1. RunnerInv /\ ReportInv /\ [Next]_vars => ReportInv'
  <2> SUFFICES ASSUME RunnerInv, ReportInv, [Next]_vars PROVE ReportInv'
    OBVIOUS
  <2>1. CASE Main
    BY <2>1, PlainStepKeepsReport, CountTestKeepsReport, RowStatusKeepsReport,
       RowMessageKeepsReport DEF Main
  <2>2. CASE \E w \in Workers : Worker(w)
    BY <2>2, WorkerKeepsReport
  <2>3. CASE UNCHANGED vars
    BY <2>3 DEF vars, tests, workers, main, dashboard, ReportInv, ReportTypes,
                MessagesMatch, RowsDrawn, TestsCounted, RowsTrue
  <2>4. QED
    BY <2>1, <2>2, <2>3 DEF Next
<1>2. QED
  BY RunnerInvariant, InitReport, <1>1, PTL DEF Spec

(* TypeOK: the counters of the summary never exceed the number of tests, and *)
(* render_dashboard never draws more rows than there are.                    *)
THEOREM RunnerTypeOK == Spec => []TypeOK
<1>1. RunnerInv /\ ReportInv => TypeOK
  <2> SUFFICES ASSUME RunnerInv, ReportInv PROVE TypeOK
    OBVIOUS
  <2>1. counted \in [{IDLE, RUNNING, PASSED, FAILED} -> 0 .. NumTests]
    <3>1. CASE at \in {"count", "final_count"}
      <4>1. i \in Nat /\ i <= NumTests /\ NumTests \in Nat /\ Total(counted) = i - 1
        BY <3>1 DEF ReportInv, RowsDrawn, TestsCounted, Tests
      <4>2. counted \in [Statuses -> Nat]
        BY DEF ReportInv, ReportTypes
      <4>3. /\ counted[IDLE] \in Nat /\ counted[RUNNING] \in Nat
            /\ counted[PASSED] \in Nat /\ counted[FAILED] \in Nat
        BY <4>2 DEF Statuses
      <4>4. /\ counted[IDLE] \in 0 .. NumTests /\ counted[RUNNING] \in 0 .. NumTests
            /\ counted[PASSED] \in 0 .. NumTests /\ counted[FAILED] \in 0 .. NumTests
        BY <4>1, <4>3 DEF Total
      <4>5. \A s \in Statuses : counted[s] \in 0 .. NumTests
        BY <4>4 DEF Statuses
      <4>6. QED
        BY <4>2, <4>5 DEF Statuses
    <3>2. CASE at \notin {"count", "final_count"}
      BY <3>2 DEF ReportInv, TestsCounted, NoCounts
    <3>3. QED
      BY <3>1, <3>2
  <2>2. Len(screen) <= shown
    BY ShownRange DEF ReportInv, RowsDrawn
  <2>3. QED
    BY <2>1, <2>2 DEF TypeOK, RunnerInv, ReportInv, ReportTypes, Messages
<1>2. QED
  BY RunnerInvariant, RunnerReport, <1>1, PTL

(* FinalReport: the dashboard that stays on the terminal is complete, and    *)
(* each of its rows has the status and the message of its test, although     *)
(* earlier ones may be torn (testing.c:87-88 stores without the mutex).      *)
THEOREM RunnerFinalReport == Spec => []FinalReport
<1>1. RunnerInv /\ ReportInv => FinalReport
  <2> SUFFICES ASSUME RunnerInv, ReportInv, at = "done" PROVE FinalReport
    BY DEF FinalReport
  <2>1. progress = NumTests /\ Len(screen) = shown /\ locked = NONE
    BY DEF ReportInv, RowsDrawn, TestsCounted
  <2>2. ASSUME NEW t \in 1 .. shown
        PROVE  /\ screen[t].status = status[t]
               /\ status[t] = PASSED <=> screen[t].message = PASSED
               /\ screen[t].message # NONE
    <3>1. t \in Tests /\ t # NONE
      BY ShownRange
    <3>2. screen[t].status = status[t] /\ screen[t].message = message[t]
      BY <2>1, <3>1 DEF ReportInv, RowsTrue
    <3>3. timed[t]
      BY <3>1, EveryTestEnded
    <3>4. QED
      BY <3>1, <3>2, <3>3 DEF ReportInv, MessagesMatch
  <2>3. QED
    BY <2>1, <2>2 DEF FinalReport
<1>2. QED
  BY RunnerInvariant, RunnerReport, <1>1, PTL
-----------------------------------------------------------------------------
(* The threads that run_tests has created are there.                         *)
Created ==
  /\ at = "create" => \A w \in Workers : w < i => pc[w] # "none"
  /\ at \notin {"create", "exited"} => \A w \in Workers : pc[w] # "none"

(* The worker has started and has not ended, and waits for no mutex.         *)
WorkerCanMove(w) ==
  /\ pc[w] \notin {"none", "ended"}
  /\ pc[w] \in {"begin", "finish"} => locked # mine[w]

(* run_tests waits for no thread.                                            *)
MainCanMove == at = "join" => pc[i] = "ended"

(* As long as the run is not over somebody can go on: run_tests, or, when it *)
(* waits for a worker, that worker. A worker that waits for a mutex waits    *)
(* for run_tests, which then is drawing the row of its test.                 *)
NeverStuck ==
  at \notin {"done", "exited"} =>
    /\ MainCanMove \/ (i \in Workers /\ WorkerCanMove(i))
    /\ \A w \in Workers :
         pc[w] \notin {"none", "ended"} /\ ~WorkerCanMove(w) =>
           at \in {"row", "final_row"} /\ mine[w] = i

(* Before the first thread is created. *)
LEMMA CreatedInit == Init => Created
BY WorkersRange DEF Init, Created, Workers

(* Every step of run_tests and of the workers. *)
LEMMA CreatedNext ==
  ASSUME RunnerInv, Created, Next
  PROVE  Created'
<1>1. i \in Nat \ {0} /\ pc \in [Workers -> Places] /\ active_threads \in Nat \ {0}
  BY WorkersRange DEF RunnerInv, RunnerTypes
<1>2. CASE CreateThread
  <2>1. at = "create" /\ i \in Workers /\ Goto(i, "start") /\ Advance(active_threads, "scan")
    BY <1>2 DEF CreateThread, RunnerInv, ThreadsCreated
  <2>2. \A w \in Workers : pc'[w] = IF w = i THEN "start" ELSE pc[w]
    BY <1>1, <2>1 DEF Goto
  <2>3. \A w \in Workers : w < i => pc[w] # "none"
    BY <2>1 DEF Created
  <2>4. \A w \in Workers : w <= i => pc'[w] # "none"
    BY <1>1, <2>2, <2>3, WorkersRange
  <2>5. CASE i < active_threads
    <3>1. at' = "create" /\ i' = i + 1
      BY <2>1, <2>5 DEF Advance
    <3>2. \A w \in Workers : w < i' => w <= i
      BY <1>1, <3>1, WorkersRange
    <3>3. QED
      BY <2>4, <3>1, <3>2 DEF Created
  <2>6. CASE ~(i < active_threads)
    <3>1. at' = "scan"
      BY <2>1, <2>6 DEF Advance
    <3>2. \A w \in Workers : w <= i
      BY <1>1, <2>1, <2>6 DEF Workers
    <3>3. QED
      BY <2>4, <3>1, <3>2 DEF Created
  <2>7. QED
    BY <2>5, <2>6
<1>3. CASE Main /\ ~CreateThread
  <2>1. pc' = pc /\ (at' = "exited" \/ (at \notin {"create", "exited"} /\ at' # "create"))
    BY <1>3 DEF Main, CreateThreadFails, ScanTest, CountTest, RowStatus, RowMessage,
                Sleep, JoinThread, Advance, workers, main
  <2>2. QED
    BY <2>1 DEF Created
<1>4. ASSUME NEW w \in Workers, Worker(w) PROVE Created'
  <2>1. at' = at /\ i' = i
    BY <1>4 DEF Worker, WorkerStart, FetchIndex, BeginTest, RunFunction, StoreMessage,
                FinishTest, WorkerEnd, main
  <2>2. \E place \in Places \ {"none"} : Goto(w, place)
    BY <1>4 DEF Worker, WorkerStart, FetchIndex, BeginTest, RunFunction, StoreMessage,
                FinishTest, WorkerEnd, Places
  <2>3. \A v \in Workers : pc[v] # "none" => pc'[v] # "none"
    BY <1>1, <2>2 DEF Goto
  <2>4. QED
    BY <2>1, <2>3 DEF Created
<1>5. QED
  BY <1>2, <1>3, <1>4 DEF Next

(* NeverStuck: run_tests and its workers cannot all wait for one another,    *)
(* however many they are: the joins (testing.c:456) wait for workers that no *)
(* mutex holds up, as run_tests has given back the last one.                 *)
THEOREM RunnerNeverStuck == Spec => []NeverStuck
<1>1. Spec => []Created
  <2>1. RunnerInv /\ Created /\ [Next]_vars => Created'
    <3>1. Created /\ UNCHANGED vars => Created'
      BY DEF Created, vars, workers, main
    <3>2. QED
      BY <3>1, CreatedNext
  <2>2. QED
    BY <2>1, RunnerInvariant, CreatedInit, PTL DEF Spec
<1>2. RunnerInv /\ ReportInv /\ Created => NeverStuck
  <2> SUFFICES ASSUME RunnerInv, ReportInv, Created, at \notin {"done", "exited"}
               PROVE  NeverStuck
    BY DEF NeverStuck
  <2>1. /\ at \notin {"row", "final_row"} => locked = NONE
        /\ at \in {"row", "final_row"} => locked \in {NONE, i}
    BY DEF ReportInv, RowsDrawn
  <2>2. ASSUME NEW w \in Workers, pc[w] \notin {"none", "ended"}, ~WorkerCanMove(w)
        PROVE  at \in {"row", "final_row"} /\ mine[w] = i
    <3>1. pc[w] \in {"begin", "finish"} /\ locked = mine[w]
      BY <2>2 DEF WorkerCanMove
    <3>2. mine[w] \in Tests /\ mine[w] # NONE
      BY <3>1, WorkersRange DEF RunnerInv, TestsHeld, Busy
    <3>3. QED
      BY <2>1, <3>1, <3>2
  <2>3. ASSUME at = "join", pc[i] # "ended" PROVE i \in Workers /\ WorkerCanMove(i)
    <3>1. i \in Workers /\ pc[i] # "none"
      BY <2>3 DEF RunnerInv, ThreadsCreated, Created
    <3>2. QED
      BY <2>2, <2>3, <3>1
  <2>4. MainCanMove \/ (i \in Workers /\ WorkerCanMove(i))
    BY <2>3 DEF MainCanMove
  <2>5. QED
    BY <2>2, <2>4 DEF NeverStuck
<1>3. QED
  BY <1>1, <1>2, RunnerInvariant, RunnerReport, PTL

=============================================================================
