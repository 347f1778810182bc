----------------------------- MODULE PopValidator -----------------------------
(***************************************************************************)
(* checkPopData (stateless_validation.cpp) and the thread pool it uses      *)
(* (pop_stateless_validator.cpp, third_party/thread_pool): one thread posts *)
(* a task per payload, round robin, and waits for the results in order; the *)
(* workers take tasks from their own queue or steal them from the next one. *)
(*                                                                          *)
(* A payload is a name, whose stateless validity is given; the limits on    *)
(* the bytes and on the payloads of each kind are one limit on all of them. *)
(* A task is the number of a check and the position of a payload in its     *)
(* PopData.  A check that returns early leaves its tasks in the queues      *)
(* (clear() does nothing), with references into a PopData that may be gone. *)
(***************************************************************************)
EXTENDS Integers, Sequences, SequencesExt, FiniteSets

CONSTANTS
    Payloads, ValidPayloads,
    Bodies,           \* the PopData to check, sequences of payloads
    MaxPayloads,      \* maxWorkerQueueSize()
    Threads,          \* the number of worker threads
    MaxChecks         \* bound: the number of checks

Workers == 0..Threads - 1

ASSUME ValidatorAssumption ==
    /\ ValidPayloads \subseteq Payloads
    /\ Bodies \subseteq Seq(Payloads)
    /\ Threads \in Nat \ {0} /\ MaxPayloads \in Nat \ {0, 1} /\ MaxChecks \in Nat

VARIABLES
    checks,        \* the PopData of each check so far
    checked,       \* the PopData that an object with popData.checked has held
    caller,        \* what checkPopData does, and the position it is at
    verdict,       \* the result of the last check
    queue,         \* m_queue of each worker
    running,       \* the task each worker executes, or NoTask
    nextWorker,    \* m_next_worker
    done,          \* the tasks whose future is ready
    passed         \* those of them whose result IsValid()

callerVars == <<checks, checked, caller, verdict>>
workerVars == <<queue, running, nextWorker, done, passed>>
validatorVars == <<callerVars, workerVars>>

NoTask == <<>>

Idle == [pc |-> "idle", at |-> 1]

\* upper_power_of_two: the least power of two that is not below v.
upper_power_of_two(v) == CHOOSE p \in {2^k : k \in 0..v} : p >= v /\ p < 2 * v

QueueSize == upper_power_of_two(MaxPayloads)

body == checks[Len(checks)]

Returns(result) == caller' = Idle /\ verdict' = result

HasDuplicates(s) == ~IsInjective(s)

ValidatorInit ==
    /\ checks = <<>> /\ checked = {} /\ caller = Idle /\ verdict = TRUE
    /\ queue = [w \in Workers |-> <<>>] /\ running = [w \in Workers |-> NoTask]
    /\ nextWorker = 0 /\ done = {} /\ passed = {}

\* checkPopData up to the first addCheck.  popData.checked belongs to the object: a
\* copy of a checked one has it, the same body parsed again has not.
Begin(pop) ==
    /\ caller.pc = "idle" /\ Len(checks) < MaxChecks
    /\ checks' = Append(checks, pop)
    /\ \/ pop \in checked /\ Returns(TRUE)
       \/ Len(pop) > MaxPayloads /\ Returns(FALSE)
       \/ /\ Len(pop) <= MaxPayloads
          /\ caller' = [pc |-> "posting", at |-> 1] /\ UNCHANGED verdict
    /\ UNCHANGED <<checked, workerVars>>

\* addCheck; a full queue fails its assertion.
AddCheck ==
    LET task == <<Len(checks), caller.at>>
    IN  /\ caller.pc = "posting" /\ caller.at <= Len(body)
        /\ IF Len(queue[nextWorker]) < QueueSize
           THEN /\ queue' = [queue EXCEPT ![nextWorker] = Append(@, task)]
                /\ caller' = [caller EXCEPT !.at = @ + 1]
           ELSE /\ caller' = [caller EXCEPT !.pc = "aborted"]
                /\ UNCHANGED queue
        /\ nextWorker' = (nextWorker + 1) % Threads
        /\ UNCHANGED <<checks, checked, verdict, running, done, passed>>

\* Mutant: duplicates are looked for before the results are waited for.
AllPostedDuplicatesFirst ==
    /\ caller.pc = "posting" /\ caller.at > Len(body)
    /\ IF HasDuplicates(body) THEN Returns(FALSE)
       ELSE caller' = [pc |-> "collecting", at |-> 1] /\ UNCHANGED verdict
    /\ UNCHANGED <<checks, checked, workerVars>>

AllPosted ==
    /\ caller.pc = "posting" /\ caller.at > Len(body)
    /\ caller' = [pc |-> "collecting", at |-> 1]
    /\ UNCHANGED <<checks, checked, verdict, workerVars>>

\* r.get() waits for one future and returns at the first invalid result.
GetResult ==
    /\ caller.pc = "collecting" /\ caller.at <= Len(body)
    /\ <<Len(checks), caller.at>> \in done
    /\ IF <<Len(checks), caller.at>> \in passed
       THEN caller' = [caller EXCEPT !.at = @ + 1] /\ UNCHANGED verdict
       ELSE Returns(FALSE)
    /\ UNCHANGED <<checks, checked, workerVars>>

End ==
    /\ caller.pc = "collecting" /\ caller.at > Len(body)
    /\ Returns(~HasDuplicates(body))
    /\ checked' = IF HasDuplicates(body) THEN checked ELSE checked \cup {body}
    /\ UNCHANGED <<checks, workerVars>>

\* stop() and start(): the threads are joined and the queues are dropped.  Nobody
\* holds the futures of the tasks that end here.
Restart ==
    /\ caller.pc = "idle"
    /\ queue' = [w \in Workers |-> <<>>]
    /\ done' = done \cup ({running[w] : w \in Workers} \ {NoTask})
    /\ running' = [w \in Workers |-> NoTask]
    /\ nextWorker' = 0
    /\ UNCHANGED <<callerVars, passed>>

\* A failed assertion ends the process and its threads.
Alive == caller.pc # "aborted"

\* Worker w takes the oldest task of worker v.
Take(w, v) ==
    /\ Alive /\ running[w] = NoTask /\ queue[v] # <<>>
    /\ running' = [running EXCEPT ![w] = Head(queue[v])]
    /\ queue' = [queue EXCEPT ![v] = Tail(@)]
    /\ UNCHANGED <<callerVars, nextWorker, done, passed>>

Own(w) == Take(w, w)

Donor(w) == (w + 1) % Threads

Steal(w) == queue[w] = <<>> /\ Take(w, Donor(w))

\* A task of the check that is under way: its payload is still there.
Current(task) == caller.pc # "idle" /\ task[1] = Len(checks)

\* What a task may find.  It holds a reference to its payload (the lambda of addCheck
\* captures by reference), so one that was left behind may read anything.
Results(task) ==
    {valid \in BOOLEAN :
        Current(task) => valid = (checks[task[1]][task[2]] \in ValidPayloads)}

\* Mutant: results go to one slot per position, whichever check the task is of.
SetSlot(task, valid) ==
    LET slot == <<Len(checks), task[2]>>
    IN  /\ done' = done \cup {slot}
        /\ passed' = IF valid THEN passed \cup {slot} ELSE passed \ {slot}

\* The future of a task gets its result.
SetResult(task, valid) ==
    /\ done' = done \cup {task}
    /\ passed' = IF valid THEN passed \cup {task} ELSE passed \ {task}

\* Mutant: the result of a task is lost when the caller is not waiting for it yet.
ExecuteWaited(w) ==
    /\ Alive /\ running[w] # NoTask
    /\ \E valid \in Results(running[w]) :
          IF caller.pc = "collecting" THEN SetResult(running[w], valid)
          ELSE UNCHANGED <<done, passed>>
    /\ running' = [running EXCEPT ![w] = NoTask]
    /\ UNCHANGED <<callerVars, queue, nextWorker>>

Execute(w) ==
    /\ Alive /\ running[w] # NoTask
    /\ \E valid \in Results(running[w]) : SetResult(running[w], valid)
    /\ running' = [running EXCEPT ![w] = NoTask]
    /\ UNCHANGED <<callerVars, queue, nextWorker>>

Check == AddCheck \/ AllPosted \/ GetResult \/ End

Work(w) == Own(w) \/ Steal(w) \/ Execute(w)

ValidatorNext ==
    \/ \E pop \in Bodies : Begin(pop)
    \/ AddCheck \/ AllPosted \/ GetResult \/ End \/ Restart
    \/ \E w \in Workers : Own(w)
    \/ \E w \in Workers : Steal(w)
    \/ \E w \in Workers : Execute(w)

\* The calling thread goes on when it can, and so does each worker: threads are
\* scheduled, and a worker that found no task looks again after a millisecond.
ValidatorFairness == WF_validatorVars(Check) /\ \A w \in Workers : WF_validatorVars(Work(w))

ValidatorSpec == ValidatorInit /\ [][ValidatorNext]_validatorVars /\ ValidatorFairness

-----------------------------------------------------------------------------
(* Properties.                                                              *)

\* The verdict on a PopData does not depend on the order in which the workers took
\* and finished the tasks, nor on what the tasks that earlier checks left behind make
\* of payloads that are gone: no result answers for a payload of another check.
CheckExact ==
    caller.pc = "idle" /\ checks # <<>> =>
        verdict = (/\ Len(body) <= MaxPayloads
                   /\ ToSet(body) \subseteq ValidPayloads
                   /\ ~HasDuplicates(body))

\* Every check returns, unless a full queue has aborted the program: no future is
\* waited for in vain.
CheckEnds == (caller.pc # "idle") ~> (caller.pc \in {"idle", "aborted"})

\* "queue size can "at least" contain full PopData" (pop_stateless_validator.cpp): a
\* task fits, unless the queue still holds a task of an earlier check that an
\* invalid payload ended before its time.
FullOfAbandoned ==
    caller.pc = "aborted" =>
        \E w \in Workers : \E task \in ToSet(queue[w]) :
            /\ task[1] < Len(checks)
            /\ ~(ToSet(checks[task[1]]) \subseteq ValidPayloads)
=============================================================================
