------------------------------ MODULE TestRunner ------------------------------
(***************************************************************************)
(* The test runner (Tests/testing.c): run_tests starts up to MaxThreads    *)
(* workers, which take the registered tests from an atomic counter, and    *)
(* draws a dashboard from the statuses until every test has ended. The     *)
(* process exits when a thread cannot be created.                          *)
(*                                                                         *)
(* A test's mutex protects its status except where run_test stores what    *)
(* the test function returned (testing.c:87-88). A critical section is one *)
(* action unless such a store can fall into it: only the rows of the       *)
(* dashboard read two fields, and take two actions.                        *)
(***************************************************************************)
EXTENDS Integers, Sequences, FiniteSets

CONSTANTS
  NumTests,    (* array_size(registered_tests)                              *)
  MaxThreads,  (* MAX_TEST_THREADS                                          *)
  Rows,        (* the rows of tests the terminal has room for               *)
  Results,     (* the statuses the test functions return                    *)
  NONE         (* no error message; no test                                 *)

IDLE == "IDLE"
RUNNING == "RUNNING"
PASSED == "PASSED"
FAILED == "FAILED"

(* run_test turns RUNNING into FAILED; it has no answer to a test function   *)
(* that returns TEST_STATUS_IDLE.                                            *)
ASSUME TestRunnerAssumption ==
  /\ NumTests \in Nat \ {0}
  /\ MaxThreads \in Nat \ {0}
  /\ Rows \in Nat \ {0}
  /\ Results \subseteq {RUNNING, PASSED, FAILED}
  /\ NONE \notin Nat /\ NONE \notin {RUNNING, PASSED, FAILED}

Tests == 1 .. NumTests

active_threads == IF NumTests < MaxThreads THEN NumTests ELSE MaxThreads
Workers == 1 .. active_threads

shown == IF Rows < NumTests THEN Rows ELSE NumTests

VARIABLES
  status,                (* test->status                                    *)
  message,               (* test->error_message, named by its result        *)
  timed,                 (* test->end_time and time_taken have been set     *)
  runs,                  (* how often test->func was called                 *)
  locked,                (* the test whose mutex run_tests holds, or NONE   *)
  current_test_index,    (* the next test to be taken, from 0               *)
  num_threads_working,
  pc,                    (* where each worker is                            *)
  mine,                  (* the test each worker has taken                  *)
  at,                    (* where run_tests is                              *)
  i,                     (* its loop variable, from 1                       *)
  threads_running,
  counted,               (* summary: the tests in each status               *)
  progress,              (* summary.completed of the last dashboard         *)
  screen                 (* the rows of the last dashboard                  *)

tests == <<status, message, timed, runs>>
main == <<at, i, threads_running>>
dashboard == <<counted, progress, screen>>
workers == <<current_test_index, num_threads_working, pc, mine>>
vars == <<tests, locked, workers, main, dashboard>>

Ended(s) == s \in {PASSED, FAILED}

NoCounts == [s \in {IDLE, RUNNING, PASSED, FAILED} |-> 0]

-----------------------------------------------------------------------------
(* The tests as register_test left them, and setup_threading. *)
Init ==
  /\ status = [t \in Tests |-> IDLE]
  /\ message = [t \in Tests |-> NONE]
  /\ timed = [t \in Tests |-> FALSE]
  /\ runs = [t \in Tests |-> 0]
  /\ locked = NONE
  /\ current_test_index = 0
  /\ num_threads_working = 0
  /\ pc = [w \in Workers |-> "none"]
  /\ mine = [w \in Workers |-> NONE]
  /\ at = "create"
  /\ i = 1
  /\ threads_running = TRUE
  /\ counted = NoCounts
  /\ progress = 0
  /\ screen = <<>>

-----------------------------------------------------------------------------
(* worker_thread_func and run_test. exit() in run_tests ends the workers.    *)
At(w, place) == pc[w] = place /\ at # "exited"

Goto(w, place) == pc' = [pc EXCEPT ![w] = place]

WorkerStart(w) ==
  /\ At(w, "start")
  /\ num_threads_working' = num_threads_working + 1
  /\ Goto(w, "fetch")
  /\ UNCHANGED <<tests, locked, current_test_index, mine, main, dashboard>>

(* Mutants: the counter is read but not advanced; one index too many passes. *)
FetchIndexStays(w) ==
  /\ At(w, "fetch")
  /\ IF current_test_index >= NumTests
     THEN Goto(w, "leave") /\ UNCHANGED mine
     ELSE Goto(w, "begin") /\ mine' = [mine EXCEPT ![w] = current_test_index + 1]
  /\ UNCHANGED <<tests, locked, current_test_index, num_threads_working, main, dashboard>>

FetchIndexPastEnd(w) ==
  /\ At(w, "fetch")
  /\ current_test_index' = current_test_index + 1
  /\ IF current_test_index > NumTests
     THEN Goto(w, "leave") /\ UNCHANGED mine
     ELSE Goto(w, "begin") /\ mine' = [mine EXCEPT ![w] = current_test_index + 1]
  /\ UNCHANGED <<tests, locked, num_threads_working, main, dashboard>>

FetchIndex(w) ==
  /\ At(w, "fetch")
  /\ current_test_index' = current_test_index + 1
  /\ IF current_test_index >= NumTests
     THEN Goto(w, "leave") /\ UNCHANGED mine
     ELSE Goto(w, "begin") /\ mine' = [mine EXCEPT ![w] = current_test_index + 1]
  /\ UNCHANGED <<tests, locked, num_threads_working, main, dashboard>>

BeginTest(w) ==
  /\ At(w, "begin")
  /\ locked # mine[w]
  /\ status' = [status EXCEPT ![mine[w]] = RUNNING]
  /\ Goto(w, "run")
  /\ UNCHANGED <<message, timed, runs, locked, current_test_index,
                 num_threads_working, mine, main, dashboard>>

(* The call of test->func, and the store of the status it returns. *)
RunFunction(w) ==
  /\ At(w, "run")
  /\ \E result \in Results : status' = [status EXCEPT ![mine[w]] = result]
  /\ runs' = [runs EXCEPT ![mine[w]] = @ + 1]
  /\ Goto(w, "message")
  /\ UNCHANGED <<message, timed, locked, current_test_index,
                 num_threads_working, mine, main, dashboard>>

(* Mutant: the message of the result is not stored. *)
StoreMessageForgotten(w) ==
  /\ At(w, "message")
  /\ Goto(w, "finish")
  /\ UNCHANGED <<tests, locked, current_test_index, num_threads_working, mine,
                 main, dashboard>>

StoreMessage(w) ==
  /\ At(w, "message")
  /\ message' = [message EXCEPT ![mine[w]] = status[mine[w]]]
  /\ Goto(w, "finish")
  /\ UNCHANGED <<status, timed, runs, locked, current_test_index,
                 num_threads_working, mine, main, dashboard>>

(* Mutants: every test fails; a test that says it is running stays so.       *)
FinishTestFails(w) ==
  /\ At(w, "finish")
  /\ locked # mine[w]
  /\ status' = [status EXCEPT ![mine[w]] = FAILED]
  /\ timed' = [timed EXCEPT ![mine[w]] = TRUE]
  /\ Goto(w, "fetch")
  /\ UNCHANGED <<message, runs, locked, current_test_index,
                 num_threads_working, mine, main, dashboard>>

FinishTestUnchecked(w) ==
  /\ At(w, "finish")
  /\ locked # mine[w]
  /\ timed' = [timed EXCEPT ![mine[w]] = TRUE]
  /\ Goto(w, "fetch")
  /\ UNCHANGED <<status, message, runs, locked, current_test_index,
                 num_threads_working, mine, main, dashboard>>

FinishTest(w) ==
  /\ At(w, "finish")
  /\ locked # mine[w]
  /\ status' = [status EXCEPT ![mine[w]] = IF @ = RUNNING THEN FAILED ELSE @]
  /\ timed' = [timed EXCEPT ![mine[w]] = TRUE]
  /\ Goto(w, "fetch")
  /\ UNCHANGED <<message, runs, locked, current_test_index,
                 num_threads_working, mine, main, dashboard>>

WorkerEnd(w) ==
  /\ At(w, "leave")
  /\ num_threads_working' = num_threads_working - 1
  /\ Goto(w, "ended")
  /\ UNCHANGED <<tests, locked, current_test_index, mine, main, dashboard>>

-----------------------------------------------------------------------------
(* run_tests. Its loop over the tests ends in the place next, with i = 1.    *)
Advance(last, next) ==
  IF i < last THEN i' = i + 1 /\ UNCHANGED at ELSE i' = 1 /\ at' = next

CreateThread ==
  /\ at = "create"
  /\ Goto(i, "start")
  /\ Advance(active_threads, "scan")
  /\ threads_running' = FALSE
  /\ UNCHANGED <<tests, locked, current_test_index, num_threads_working, mine, dashboard>>

CreateThreadFails ==
  /\ at = "create"
  /\ at' = "exited"
  /\ UNCHANGED <<tests, locked, workers, i, threads_running, dashboard>>

ScanTest ==
  /\ at = "scan"
  /\ threads_running' = (threads_running \/ ~Ended(status[i]))
  /\ Advance(NumTests, "count")
  /\ UNCHANGED <<tests, locked, workers, dashboard>>

(* What the progress bar shows for a summary. *)
Completed(summary) == summary[PASSED] + summary[FAILED]

(* render_dashboard: the summary, then the screen is cleared, then the rows. *)
CountTest ==
  LET summary == [counted EXCEPT ![status[i]] = @ + 1]
  IN  /\ at \in {"count", "final_count"}
      /\ Advance(NumTests, IF at = "count" THEN "row" ELSE "final_row")
      /\ IF i < NumTests
         THEN counted' = summary /\ UNCHANGED <<progress, screen>>
         ELSE /\ counted' = NoCounts
              /\ progress' = Completed(summary)
              /\ screen' = <<>>
      /\ UNCHANGED <<tests, locked, workers, threads_running>>

RowStatus ==
  /\ at \in {"row", "final_row"}
  /\ locked = NONE
  /\ locked' = i
  /\ screen' = Append(screen, [status |-> status[i], message |-> NONE])
  /\ UNCHANGED <<tests, workers, main, counted, progress>>

RowMessage ==
  /\ at \in {"row", "final_row"}
  /\ locked = i
  /\ locked' = NONE
  /\ screen' = [screen EXCEPT ![i].message = message[i]]
  /\ Advance(shown, IF at = "final_row" THEN "done"
                    ELSE IF threads_running THEN "sleep" ELSE "join")
  /\ UNCHANGED <<tests, workers, threads_running, counted, progress>>

Sleep ==
  /\ at = "sleep"
  /\ at' = "scan"
  /\ threads_running' = FALSE
  /\ UNCHANGED <<tests, locked, workers, i, dashboard>>

(* Mutant: the workers are not waited for. *)
JoinThreadSkipped ==
  /\ at = "join"
  /\ Advance(active_threads, "final_count")
  /\ UNCHANGED <<tests, locked, workers, threads_running, dashboard>>

JoinThread ==
  /\ at = "join"
  /\ pc[i] = "ended"
  /\ Advance(active_threads, "final_count")
  /\ UNCHANGED <<tests, locked, workers, threads_running, dashboard>>

Worker(w) ==
  \/ WorkerStart(w)
  \/ FetchIndex(w)
  \/ BeginTest(w)
  \/ RunFunction(w)
  \/ StoreMessage(w)
  \/ FinishTest(w)
  \/ WorkerEnd(w)

Main ==
  \/ CreateThread
  \/ CreateThreadFails
  \/ ScanTest
  \/ CountTest
  \/ RowStatus
  \/ RowMessage
  \/ Sleep
  \/ JoinThread

Next == Main \/ \E w \in Workers : Worker(w)

(* The threads are scheduled, test functions return, and a worker that waits *)
(* for a mutex gets it: run_tests holds none while it sleeps (testing.c:451). *)
Fairness ==
  /\ WF_vars(Main)
  /\ \A w \in Workers : SF_vars(Worker(w))

Spec == Init /\ [][Next]_vars /\ Fairness

-----------------------------------------------------------------------------
Places == {"none", "start", "fetch", "begin", "run", "message", "finish", "leave", "ended"}

RunnerTypes ==
  /\ status \in [Tests -> {IDLE, RUNNING, PASSED, FAILED}]
  /\ timed \in [Tests -> BOOLEAN]
  /\ runs \in [Tests -> Nat]
  /\ current_test_index \in Nat
  /\ num_threads_working \in Int
  /\ pc \in [Workers -> Places]
  /\ mine \in [Workers -> Tests \cup {NONE}]
  /\ at \in {"create", "scan", "count", "row", "sleep", "join",
             "final_count", "final_row", "done", "exited"}
  /\ i \in Nat \ {0}

(* Every variable has its type. *)
TypeOK ==
  /\ RunnerTypes
  /\ message \in [Tests -> {NONE, RUNNING, PASSED, FAILED}]
  /\ locked \in Tests \cup {NONE}
  /\ threads_running \in BOOLEAN
  /\ counted \in [{IDLE, RUNNING, PASSED, FAILED} -> 0 .. NumTests]
  /\ progress \in 0 .. NumTests
  /\ Len(screen) <= shown

Busy(w) == pc[w] \in {"begin", "run", "message", "finish"}

(* A worker that has a test is alone with it, and the test is where the      *)
(* worker is.                                                                *)
TestsHeld ==
  \A w \in Workers :
    Busy(w) =>
      /\ mine[w] \in Tests
      /\ mine[w] <= current_test_index
      /\ ~timed[mine[w]]
      /\ runs[mine[w]] = IF pc[w] \in {"begin", "run"} THEN 0 ELSE 1
      /\ pc[w] = "begin" => status[mine[w]] = IDLE
      /\ pc[w] = "run" => status[mine[w]] = RUNNING
      /\ pc[w] \in {"message", "finish"} => status[mine[w]] # IDLE
      /\ \A v \in Workers : Busy(v) /\ mine[v] = mine[w] => v = w

(* The counter divides the tests: nobody has touched those from it on, and   *)
(* those before it are finished or held by a worker.                         *)
TestsDivided ==
  \A t \in Tests :
    /\ current_test_index < t => runs[t] = 0 /\ ~timed[t] /\ status[t] = IDLE
    /\ t <= current_test_index => timed[t] \/ \E w \in Workers : Busy(w) /\ mine[w] = t
    /\ timed[t] => runs[t] = 1 /\ Ended(status[t])

Counted(w) == pc[w] \notin {"none", "start", "ended"}

(* The workers leave when the tests are used up, and run_tests passes its    *)
(* joins only after them.                                                    *)
WorkersJoined ==
  /\ \A w \in Workers : pc[w] \in {"leave", "ended"} => NumTests <= current_test_index
  /\ at = "join" => \A w \in Workers : w < i => pc[w] = "ended"
  /\ at \in {"final_count", "final_row", "done"} => \A w \in Workers : pc[w] = "ended"
  /\ num_threads_working = Cardinality({w \in Workers : Counted(w)})

(* run_tests creates its threads one after the other. *)
ThreadsCreated ==
  /\ at \in {"create", "join"} => i \in Workers
  /\ at = "create" => \A w \in Workers : i <= w => pc[w] = "none"

(* The inductive invariant. *)
RunnerInv ==
  /\ RunnerTypes
  /\ TestsHeld
  /\ TestsDivided
  /\ WorkersJoined
  /\ ThreadsCreated

(* Two workers never have the same test, and no test function is called      *)
(* twice: the tests keep state in globals (lexer, errors).                   *)
RunOnce ==
  /\ \A t \in Tests : runs[t] <= 1
  /\ \A v, w \in Workers : Busy(v) /\ Busy(w) /\ mine[v] = mine[w] => v = w

(* When run_tests returns every test was run and has its end time, and       *)
(* every worker is gone: free_tests, which comes next, frees nothing that is *)
(* in use.                                                                   *)
AllRunAtReturn ==
  at = "done" =>
    /\ \A t \in Tests : runs[t] = 1 /\ Ended(status[t]) /\ timed[t]
    /\ \A w \in Workers : pc[w] = "ended"
    /\ num_threads_working = 0

(* The dashboard that stays on the terminal tells the outcome of each test,  *)
(* with its message, although earlier ones may show a status without the     *)
(* message that belongs to it.                                               *)
FinalReport ==
  at = "done" =>
    /\ progress = NumTests
    /\ Len(screen) = shown
    /\ \A t \in 1 .. shown :
         /\ screen[t].status = status[t]
         /\ status[t] = PASSED <=> screen[t].message = PASSED
         /\ screen[t].message # NONE

(* A status only goes forward, and one that says the test ended is final,    *)
(* although run_test stores it before it takes the mutex again.              *)
StatusForward ==
  [][\A t \in Tests :
       status'[t] # status[t] =>
         \/ status[t] = IDLE /\ status'[t] = RUNNING
         \/ status[t] = RUNNING /\ Ended(status'[t])]_vars

(* The run ends, unless a thread could not be created. *)
Completes == <>(at \in {"done", "exited"})

(* The verdict on a test is final once its end time has been set.            *)
Verdict ==
  INSTANCE TestRun WITH
    Verdicts <- {PASSED, FAILED},
    verdict <- [t \in Tests |-> IF timed[t] THEN status[t] ELSE NONE],
    over <- CASE at = "done" -> "yes" [] at = "exited" -> "given up" [] OTHER -> "no"

ImplementsTestRun == Verdict!Spec
=============================================================================
