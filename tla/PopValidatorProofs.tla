-------------------------- MODULE PopValidatorProofs --------------------------
(***************************************************************************)
(* checkPopData and its thread pool, for every set of bodies, any number of *)
(* workers and of checks.                                                   *)
(***************************************************************************)
EXTENDS PopValidator, FiniteSetTheorems, TLAPS

Tasks == Nat \X Nat

ValidatorTypeOK ==
    /\ checks \in Seq(Bodies)
    /\ checked \subseteq Bodies
    /\ caller \in [pc : {"idle", "posting", "collecting", "aborted"}, at : Nat \ {0}]
    /\ verdict \in BOOLEAN
    /\ queue \in [Workers -> Seq(Tasks)]
    /\ running \in [Workers -> Tasks \cup {NoTask}]
    /\ nextWorker \in Workers
    /\ done \subseteq Tasks
    /\ passed \subseteq Tasks

Acceptable(pop) ==
    /\ Len(pop) <= MaxPayloads
    /\ ToSet(pop) \subseteq ValidPayloads
    /\ ~HasDuplicates(pop)

\* What the calling thread knows about the body it checks.
CallerInv ==
    /\ \A pop \in checked : Acceptable(pop)
    /\ caller.pc # "idle" =>
          checks # <<>> /\ Len(body) <= MaxPayloads /\ caller.at <= Len(body) + 1
    /\ caller.pc = "collecting" =>
          \A i \in 1 .. caller.at - 1 : /\ body[i] \in ValidPayloads
                                        /\ <<Len(checks), i>> \in done
    /\ CheckExact

\* t is the task of a payload that the caller c has posted in one of the checks s.
Posted(t, s, c) ==
    /\ t[1] \in 1 .. Len(s)
    /\ t[2] \in Nat \ {0} /\ t[2] <= Len(s[t[1]])
    /\ t[1] = Len(s) /\ c.pc \in {"posting", "aborted"} => t[2] < c.at

\* No task is twice in the queues, none that is executed or done is still there, and
\* one that a check has left behind belongs to a body with an invalid payload.
TaskInv ==
    /\ \A t \in done : Posted(t, checks, caller)
    /\ \A w \in Workers : running[w] # NoTask => Posted(running[w], checks, caller)
    /\ \A w \in Workers : \A i \in 1 .. Len(queue[w]) :
          /\ Posted(queue[w][i], checks, caller)
          /\ queue[w][i] \notin done
          /\ \A v \in Workers : queue[w][i] # running[v]
          /\ \A v \in Workers : \A j \in 1 .. Len(queue[v]) :
                queue[w][i] = queue[v][j] => w = v /\ i = j
          /\ queue[w][i][1] < Len(checks) \/ caller.pc = "idle" =>
                ~(ToSet(checks[queue[w][i][1]]) \subseteq ValidPayloads)

QueueInv == ValidatorTypeOK /\ CallerInv /\ TaskInv

\* A task of the check under way has the result its payload deserves.
ResultInv ==
    \A t \in done : Current(t) => (t \in passed <=> checks[t[1]][t[2]] \in ValidPayloads)

ValidatorInv == QueueInv /\ ResultInv

-----------------------------------------------------------------------------

LEMMA TaskFacts ==
    /\ \A t \in Tasks : t[1] \in Nat /\ t[2] \in Nat
    /\ \A s, t \in Tasks : s[1] = t[1] /\ s[2] = t[2] => s = t
BY DEF Tasks

\* Bodies are sequences of payloads, and the worker that a task goes to exists.
LEMMA ValidatorFacts ==
    /\ \A pop \in Bodies : pop \in Seq(Payloads) /\ Len(pop) \in Nat
                             /\ DOMAIN pop = 1 .. Len(pop)
    /\ 0 \in Workers
    /\ \A n \in Workers : (n + 1) % Threads \in Workers
    /\ MaxPayloads \in Nat
<1>1. Threads \in Nat /\ Threads > 0
  BY ValidatorAssumption
<1>2. \A n \in Workers : n + 1 \in Nat
  BY <1>1 DEF Workers
<1>3. \A n \in Nat : n % Threads \in 0 .. Threads - 1
  BY <1>1
<1>4. \A n \in Workers : (n + 1) % Threads \in Workers
  BY <1>2, <1>3 DEF Workers
<1>5. ASSUME NEW pop \in Bodies
      PROVE  pop \in Seq(Payloads) /\ Len(pop) \in Nat /\ DOMAIN pop = 1 .. Len(pop)
  <2>1. pop \in Seq(Payloads)
    BY ValidatorAssumption
  <2> QED
    BY <2>1
<1> QED
  BY <1>1, <1>4, <1>5, ValidatorAssumption DEF Workers

\* The body of the current check.
LEMMA BodyFacts ==
    ASSUME ValidatorTypeOK, checks # <<>>
    PROVE  /\ body \in Bodies /\ Len(checks) \in Nat \ {0}
           /\ body \in Seq(Payloads) /\ Len(body) \in Nat /\ DOMAIN body = 1 .. Len(body)
<1>1. checks \in Seq(Bodies)
  BY DEF ValidatorTypeOK
<1>2. Len(checks) \in Nat \ {0} /\ checks[Len(checks)] \in Bodies
  BY <1>1
<1> QED
  BY <1>2, ValidatorFacts DEF body

-----------------------------------------------------------------------------
(* The calling thread.                                                      *)

LEMMA BeginKeeps ==
    ASSUME QueueInv, NEW pop \in Bodies, Begin(pop)
    PROVE  QueueInv'
<1>1. /\ ValidatorTypeOK /\ CallerInv /\ TaskInv /\ caller.pc = "idle"
      /\ checks' = Append(checks, pop) /\ checked' = checked
      /\ queue' = queue /\ running' = running /\ nextWorker' = nextWorker /\ done' = done
      /\ passed' = passed
      /\ \/ pop \in checked /\ caller' = Idle /\ verdict' = TRUE
         \/ Len(pop) > MaxPayloads /\ caller' = Idle /\ verdict' = FALSE
         \/ /\ Len(pop) <= MaxPayloads
            /\ caller' = [pc |-> "posting", at |-> 1] /\ verdict' = verdict
  BY DEF QueueInv, Begin, Returns, workerVars
<1>2. /\ Len(checks) \in Nat /\ Len(checks') = Len(checks) + 1 /\ body' = pop
      /\ checks' # <<>> /\ checks' \in Seq(Bodies)
      /\ \A n \in 1 .. Len(checks) : checks'[n] = checks[n]
  <2>1. checks \in Seq(Bodies)
    BY <1>1 DEF ValidatorTypeOK
  <2>2. /\ Append(checks, pop) \in Seq(Bodies)
        /\ Len(checks) \in Nat /\ Len(Append(checks, pop)) = Len(checks) + 1
        /\ Append(checks, pop)[Len(checks) + 1] = pop
        /\ \A n \in 1 .. Len(checks) : Append(checks, pop)[n] = checks[n]
    BY <2>1
  <2>3. checks' # <<>>
    BY <1>1, <2>2
  <2> QED
    BY <1>1, <2>2, <2>3 DEF body
<1>3. ValidatorTypeOK'
  <2>1. caller' \in [pc : {"idle", "posting", "collecting", "aborted"}, at : Nat \ {0}]
    BY <1>1 DEF Idle
  <2>2. verdict' \in BOOLEAN
    BY <1>1 DEF ValidatorTypeOK
  <2> QED
    BY <1>1, <1>2, <2>1, <2>2 DEF ValidatorTypeOK
<1>4. CallerInv'
  <2>1. Len(pop) \in Nat /\ MaxPayloads \in Nat
    BY ValidatorFacts
  <2>2. caller'.pc \in {"idle", "posting"} /\ caller'.at = 1
    BY <1>1 DEF Returns, Idle
  <2>3. pop \in checked => Acceptable(pop)
    BY <1>1 DEF CallerInv
  <2>4. caller'.pc = "idle" => verdict' = (/\ Len(pop) <= MaxPayloads
                                           /\ ToSet(pop) \subseteq ValidPayloads
                                           /\ ~HasDuplicates(pop))
    <3> DEFINE ok == /\ Len(pop) <= MaxPayloads
                     /\ ToSet(pop) \subseteq ValidPayloads
                     /\ ~HasDuplicates(pop)
    <3>1. ASSUME pop \in checked, verdict' = TRUE
          PROVE  verdict' = ok
      <4>1. ok = TRUE
        BY <2>3, <3>1 DEF Acceptable
      <4> QED
        BY <3>1, <4>1
    <3>2. ASSUME Len(pop) > MaxPayloads, verdict' = FALSE
          PROVE  verdict' = ok
      <4>1. ok = FALSE
        BY <2>1, <3>2
      <4> QED
        BY <3>2, <4>1
    <3>3. caller'.pc = "idle" => \/ pop \in checked /\ verdict' = TRUE
                                 \/ Len(pop) > MaxPayloads /\ verdict' = FALSE
      BY <1>1
    <3> HIDE DEF ok
    <3>4. caller'.pc = "idle" => verdict' = ok
      BY <3>1, <3>2, <3>3
    <3> QED
      BY <3>4 DEF ok
  <2>5. caller'.pc = "posting" => Len(pop) <= MaxPayloads
    BY <1>1, <2>1 DEF Returns, Idle
  <2>6. CheckExact'
    BY <1>2, <2>4 DEF CheckExact
  <2> QED
    BY <1>1, <1>2, <2>1, <2>2, <2>5, <2>6 DEF CallerInv, Acceptable
<1>5. TaskInv'
  <2>1. \A t : Posted(t, checks, caller) => Posted(t, checks', caller') /\ t[1] \in 1 .. Len(checks)
    BY <1>1, <1>2 DEF Posted
  <2>2. \A t : Posted(t, checks, caller) => t[1] < Len(checks')
    BY <1>2, <2>1
  <2> QED
    BY <1>1, <1>2, <2>1, <2>2 DEF TaskInv
<1> QED
  BY <1>3, <1>4, <1>5 DEF QueueInv

LEMMA AddCheckKeeps ==
    ASSUME QueueInv, AddCheck
    PROVE  QueueInv'
<1>1. /\ ValidatorTypeOK /\ CallerInv /\ TaskInv /\ caller.pc = "posting"
      /\ caller.at <= Len(body) /\ checks' = checks /\ checked' = checked
      /\ verdict' = verdict /\ running' = running /\ done' = done /\ passed' = passed
      /\ nextWorker' = (nextWorker + 1) % Threads
  BY DEF QueueInv, AddCheck
<1>2. /\ checks # <<>> /\ Len(body) <= MaxPayloads /\ body' = body
      /\ caller.at \in Nat \ {0} /\ nextWorker \in Workers /\ nextWorker' \in Workers
      /\ queue[nextWorker] \in Seq(Tasks) /\ Len(queue[nextWorker]) \in Nat
  BY <1>1, ValidatorFacts DEF CallerInv, ValidatorTypeOK, body
<1>3. Len(checks) \in Nat \ {0} /\ Len(body) \in Nat
  BY <1>1, <1>2, BodyFacts
<1>4. CASE Len(queue[nextWorker]) < QueueSize
  <2> DEFINE task == <<Len(checks), caller.at>>
             q == queue[nextWorker]
  <2>1. /\ queue' = [queue EXCEPT ![nextWorker] = Append(q, task)]
        /\ caller' = [caller EXCEPT !.at = @ + 1]
    BY <1>4 DEF AddCheck
  <2>2. caller'.pc = "posting" /\ caller'.at = caller.at + 1
    BY <1>1, <2>1 DEF ValidatorTypeOK
  <2>3. task \in Tasks /\ task[1] = Len(checks) /\ task[2] = caller.at
    BY <1>2, <1>3 DEF Tasks
  <2>4. ValidatorTypeOK'
    <3>1. Append(q, task) \in Seq(Tasks)
      BY <1>2, <2>3
    <3>2. queue' \in [Workers -> Seq(Tasks)]
      BY <1>1, <2>1, <3>1 DEF ValidatorTypeOK
    <3>3. caller' \in [pc : {"idle", "posting", "collecting", "aborted"}, at : Nat \ {0}]
      <4>1. caller \in [pc : {"idle", "posting", "collecting", "aborted"}, at : Nat \ {0}]
        BY <1>1 DEF ValidatorTypeOK
      <4>2. caller.at + 1 \in Nat \ {0}
        BY <1>2
      <4> QED
        BY <2>1, <4>1, <4>2
    <3> QED
      BY <1>1, <1>2, <3>2, <3>3 DEF ValidatorTypeOK
  <2>5. CallerInv'
    BY <1>1, <1>2, <1>3, <2>2 DEF CallerInv, CheckExact, Acceptable
  <2>6. Posted(task, checks', caller') /\ ~Posted(task, checks, caller) /\ \A t : Posted(t, checks, caller) => Posted(t, checks', caller')
    <3>1. \A t : Posted(t, checks, caller) => Posted(t, checks', caller')
      <4> SUFFICES ASSUME NEW t, Posted(t, checks, caller) PROVE Posted(t, checks', caller')
        OBVIOUS
      <4>1. /\ t[1] \in 1 .. Len(checks) /\ t[2] \in 1 .. Len(checks[t[1]])
            /\ t[1] = Len(checks) => t[2] < caller.at
        BY <1>1 DEF Posted
      <4>2. checks[t[1]] \in Bodies
        BY <1>1, <4>1 DEF ValidatorTypeOK
      <4>3. Len(checks[t[1]]) \in Nat
        BY <4>2, ValidatorFacts
      <4> QED
        BY <1>1, <1>2, <2>2, <4>1, <4>3 DEF Posted
    <3> QED
      BY <1>1, <1>2, <1>3, <2>2, <2>3, <3>1 DEF Posted, body
  <2>7. \A w \in Workers : \A i \in 1 .. Len(queue'[w]) :
           \/ i \in 1 .. Len(queue[w]) /\ queue'[w][i] = queue[w][i]
           \/ w = nextWorker /\ i = Len(q) + 1 /\ queue'[w][i] = task
    BY <1>1, <1>2, <2>1 DEF ValidatorTypeOK
  <2>8. TaskInv'
    <3>1. \A t \in done' : Posted(t, checks', caller')
      BY <1>1, <2>6 DEF TaskInv
    <3>2. \A w \in Workers : running'[w] # NoTask => Posted(running'[w], checks', caller')
      BY <1>1, <2>6 DEF TaskInv
    <3>3. /\ task \notin done /\ \A v \in Workers : task # running[v]
          /\ \A v \in Workers : \A j \in 1 .. Len(queue[v]) : task # queue[v][j]
      <4>1. task # NoTask
        BY DEF NoTask
      <4> QED
        BY <1>1, <2>6, <4>1 DEF TaskInv
    <3> HIDE DEF q, task
    <3>4. ASSUME NEW w \in Workers, NEW i \in 1 .. Len(queue'[w])
          PROVE  /\ Posted(queue'[w][i], checks', caller')
                 /\ queue'[w][i] \notin done'
                 /\ \A v \in Workers : queue'[w][i] # running'[v]
                 /\ \A v \in Workers : \A j \in 1 .. Len(queue'[v]) :
                       queue'[w][i] = queue'[v][j] => w = v /\ i = j
                 /\ queue'[w][i][1] < Len(checks') \/ caller'.pc = "idle" =>
                       ~(ToSet(checks'[queue'[w][i][1]]) \subseteq ValidPayloads)
      <4>1. CASE i \in 1 .. Len(queue[w]) /\ queue'[w][i] = queue[w][i]
        BY <1>1, <2>2, <2>6, <2>7, <3>3, <4>1 DEF TaskInv
      <4>2. CASE w = nextWorker /\ i = Len(q) + 1 /\ queue'[w][i] = task
        <5>1. \A v \in Workers : \A j \in 1 .. Len(queue'[v]) :
                 queue'[w][i] = queue'[v][j] => w = v /\ i = j
          BY <2>7, <3>3, <4>2
        <5>2. ~(queue'[w][i][1] < Len(checks')) /\ caller'.pc # "idle"
          BY <1>1, <1>3, <2>2, <2>3, <4>2
        <5> QED
          BY <1>1, <2>6, <3>3, <4>2, <5>1, <5>2
      <4> QED
        BY <2>7, <4>1, <4>2
    <3> QED
      BY <3>1, <3>2, <3>4 DEF TaskInv
  <2> QED
    BY <2>2, <2>4, <2>5, <2>8 DEF QueueInv
<1>5. CASE ~(Len(queue[nextWorker]) < QueueSize)
  <2>1. caller' = [caller EXCEPT !.pc = "aborted"] /\ queue' = queue
    BY <1>5 DEF AddCheck
  <2>2. caller'.pc = "aborted" /\ caller'.at = caller.at
    BY <1>1, <2>1 DEF ValidatorTypeOK
  <2>3. ValidatorTypeOK'
    BY <1>1, <1>2, <2>1 DEF ValidatorTypeOK
  <2>4. CallerInv'
    BY <1>1, <1>2, <1>3, <2>2 DEF CallerInv, CheckExact, Acceptable
  <2>5. \A t : Posted(t, checks, caller) => Posted(t, checks', caller')
    BY <1>1, <2>2 DEF Posted
  <2>6. TaskInv'
    BY <1>1, <2>1, <2>2, <2>5 DEF TaskInv
  <2> QED
    BY <2>3, <2>4, <2>6 DEF QueueInv
<1> QED
  BY <1>4, <1>5

LEMMA AllPostedKeeps ==
    ASSUME QueueInv, AllPosted
    PROVE  QueueInv'
<1>1. /\ ValidatorTypeOK /\ CallerInv /\ TaskInv /\ caller.pc = "posting"
      /\ checks' = checks /\ checked' = checked /\ verdict' = verdict
      /\ queue' = queue /\ running' = running /\ nextWorker' = nextWorker /\ done' = done
      /\ passed' = passed
      /\ caller' = [pc |-> "collecting", at |-> 1]
  BY DEF QueueInv, AllPosted, workerVars
<1>2. /\ checks # <<>> /\ Len(body) <= MaxPayloads /\ body' = body /\ Len(body) \in Nat
      /\ caller'.pc = "collecting" /\ caller'.at = 1
  BY <1>1, BodyFacts DEF CallerInv, body
<1>3. ValidatorTypeOK'
  BY <1>1 DEF ValidatorTypeOK
<1>4. CallerInv'
  BY <1>1, <1>2 DEF CallerInv, CheckExact, Acceptable
<1>5. TaskInv'
  <2>1. \A t : Posted(t, checks, caller) => Posted(t, checks', caller')
    BY <1>1, <1>2 DEF Posted
  <2> QED
    BY <1>1, <1>2, <2>1 DEF TaskInv
<1> QED
  BY <1>3, <1>4, <1>5 DEF QueueInv

LEMMA GetResultKeeps ==
    ASSUME QueueInv, ResultInv, GetResult
    PROVE  QueueInv'
<1>1. /\ ValidatorTypeOK /\ CallerInv /\ TaskInv /\ caller.pc = "collecting"
      /\ caller.at <= Len(body) /\ <<Len(checks), caller.at>> \in done
      /\ checks' = checks /\ checked' = checked
      /\ queue' = queue /\ running' = running /\ nextWorker' = nextWorker /\ done' = done
      /\ passed' = passed
  BY DEF QueueInv, GetResult, workerVars
<1>2. /\ checks # <<>> /\ Len(body) <= MaxPayloads /\ body' = body /\ Len(body) \in Nat
      /\ caller.at \in Nat \ {0} /\ DOMAIN body = 1 .. Len(body) /\ Len(checks) \in Nat \ {0}
  BY <1>1, BodyFacts DEF CallerInv, ValidatorTypeOK, body
<1> DEFINE task == <<Len(checks), caller.at>>
<1>0. task \in passed <=> body[caller.at] \in ValidPayloads
  <2>1. task[1] = Len(checks) /\ task[2] = caller.at /\ Current(task) /\ task \in done
    BY <1>1, <1>2 DEF Current
  <2> QED
    BY <2>1 DEF ResultInv, body
<1>3. CASE task \in passed
  <2>1. caller' = [caller EXCEPT !.at = @ + 1] /\ verdict' = verdict
    BY <1>3 DEF GetResult
  <2>2. caller'.pc = "collecting" /\ caller'.at = caller.at + 1
    BY <1>1, <2>1 DEF ValidatorTypeOK
  <2>3. ValidatorTypeOK'
    <3>1. caller' \in [pc : {"idle", "posting", "collecting", "aborted"}, at : Nat \ {0}]
      BY <1>1, <1>2, <2>1 DEF ValidatorTypeOK
    <3> QED
      BY <1>1, <2>1, <3>1 DEF ValidatorTypeOK
  <2>4. \A i \in 1 .. caller'.at - 1 : /\ body[i] \in ValidPayloads
                                       /\ <<Len(checks), i>> \in done
    <3>1. \A i \in 1 .. caller'.at - 1 : i \in 1 .. caller.at - 1 \/ i = caller.at
      BY <1>2, <2>2
    <3> QED
      BY <1>0, <1>1, <1>3, <3>1 DEF CallerInv
  <2>5. CallerInv'
    BY <1>1, <1>2, <2>2, <2>4 DEF CallerInv, CheckExact, Acceptable
  <2>6. TaskInv'
    <3>1. \A t : Posted(t, checks, caller) => Posted(t, checks', caller')
      BY <1>1, <2>2 DEF Posted
    <3> QED
      BY <1>1, <2>2, <3>1 DEF TaskInv
  <2> QED
    BY <2>2, <2>3, <2>5, <2>6 DEF QueueInv
<1>4. CASE task \notin passed
  <2>1. caller' = Idle /\ verdict' = FALSE
    BY <1>4 DEF GetResult, Returns
  <2>2. caller'.pc = "idle" /\ caller'.at = 1
    BY <2>1 DEF Idle
  <2>3. ValidatorTypeOK'
    <3>1. caller' \in [pc : {"idle", "posting", "collecting", "aborted"}, at : Nat \ {0}]
      BY <2>1 DEF Idle
    <3> QED
      BY <1>1, <2>1, <3>1 DEF ValidatorTypeOK
  <2>4. ~(ToSet(body) \subseteq ValidPayloads)
    BY <1>0, <1>1, <1>2, <1>4 DEF ToSet
  <2>5. CheckExact'
    <3>1. (/\ Len(body) <= MaxPayloads
           /\ ToSet(body) \subseteq ValidPayloads
           /\ ~HasDuplicates(body)) = FALSE
      BY <2>4
    <3> QED
      BY <1>2, <2>1, <3>1 DEF CheckExact
  <2>6. CallerInv'
    BY <1>1, <2>2, <2>5 DEF CallerInv, Acceptable
  <2>7. TaskInv'
    <3>1. \A t : Posted(t, checks, caller) => Posted(t, checks', caller')
      BY <1>1, <2>2 DEF Posted
    <3>2. ASSUME NEW w \in Workers, NEW i \in 1 .. Len(queue[w])
          PROVE  ~(ToSet(checks[queue[w][i][1]]) \subseteq ValidPayloads)
      <4>1. queue[w][i][1] < Len(checks) \/ queue[w][i][1] = Len(checks)
        <5>1. queue[w][i][1] \in 1 .. Len(checks)
          BY <1>1 DEF TaskInv, Posted
        <5> QED
          BY <1>2, <5>1
      <4> QED
        BY <1>1, <2>4, <4>1 DEF TaskInv, body
    <3> QED
      BY <1>1, <3>1, <3>2 DEF TaskInv
  <2> QED
    BY <2>2, <2>3, <2>6, <2>7 DEF QueueInv
<1> QED
  BY <1>3, <1>4

LEMMA EndKeeps ==
    ASSUME QueueInv, End
    PROVE  QueueInv'
<1>1. /\ ValidatorTypeOK /\ CallerInv /\ TaskInv /\ caller.pc = "collecting"
      /\ caller.at > Len(body) /\ caller' = Idle /\ verdict' = ~HasDuplicates(body)
      /\ checked' = IF HasDuplicates(body) THEN checked ELSE checked \cup {body}
      /\ checks' = checks
      /\ queue' = queue /\ running' = running /\ nextWorker' = nextWorker /\ done' = done
      /\ passed' = passed
  BY DEF QueueInv, End, Returns, workerVars
<1>2. /\ checks # <<>> /\ Len(body) <= MaxPayloads /\ body' = body /\ Len(body) \in Nat
      /\ caller.at \in Nat \ {0} /\ DOMAIN body = 1 .. Len(body) /\ Len(checks) \in Nat \ {0}
      /\ body \in Bodies /\ caller'.pc = "idle" /\ caller'.at = 1
  BY <1>1, BodyFacts DEF CallerInv, ValidatorTypeOK, body, Idle
<1>3. \A i \in 1 .. Len(body) : body[i] \in ValidPayloads /\ <<Len(checks), i>> \in done
  BY <1>1, <1>2 DEF CallerInv
<1>4. ToSet(body) \subseteq ValidPayloads
  BY <1>2, <1>3 DEF ToSet
<1>5. ValidatorTypeOK'
  <2>1. verdict' \in BOOLEAN
    BY <1>1 DEF HasDuplicates, IsInjective
  <2>2. caller' \in [pc : {"idle", "posting", "collecting", "aborted"}, at : Nat \ {0}]
    BY <1>1 DEF Idle
  <2> QED
    BY <1>1, <1>2, <2>1, <2>2 DEF ValidatorTypeOK
<1>6. CallerInv'
  <2>1. CheckExact'
    <3>1. (/\ Len(body) <= MaxPayloads
           /\ ToSet(body) \subseteq ValidPayloads
           /\ ~HasDuplicates(body)) = ~HasDuplicates(body)
      BY <1>2, <1>4 DEF HasDuplicates, IsInjective
    <3> QED
      BY <1>1, <1>2, <3>1 DEF CheckExact
  <2>2. ~HasDuplicates(body) => Acceptable(body)
    BY <1>2, <1>4 DEF Acceptable
  <2> QED
    BY <1>1, <1>2, <2>1, <2>2 DEF CallerInv, Acceptable
<1>7. TaskInv'
  <2>1. \A t : Posted(t, checks, caller) => Posted(t, checks', caller')
    BY <1>1, <1>2 DEF Posted
  <2>2. ASSUME NEW w \in Workers, NEW i \in 1 .. Len(queue[w])
        PROVE  ~(ToSet(checks[queue[w][i][1]]) \subseteq ValidPayloads)
    <3>1. /\ queue[w][i] \in Tasks /\ Posted(queue[w][i], checks, caller)
          /\ queue[w][i] \notin done
      BY <1>1 DEF TaskInv, ValidatorTypeOK
    <3>2. queue[w][i][1] # Len(checks)
      <4> SUFFICES ASSUME queue[w][i][1] = Len(checks) PROVE FALSE
        OBVIOUS
      <4>1. queue[w][i][2] \in 1 .. Len(body)
        BY <1>2, <3>1 DEF Posted, body
      <4>2. <<Len(checks), queue[w][i][2]>> \in done
        BY <1>3, <4>1
      <4>3. queue[w][i] = <<Len(checks), queue[w][i][2]>>
        BY <3>1 DEF Tasks
      <4> QED
        BY <3>1, <4>2, <4>3
    <3>3. queue[w][i][1] < Len(checks)
      BY <1>2, <3>1, <3>2 DEF Posted
    <3> QED
      BY <1>1, <3>3 DEF TaskInv
  <2> QED
    BY <1>1, <2>1, <2>2 DEF TaskInv
<1> QED
  BY <1>2, <1>5, <1>6, <1>7 DEF QueueInv

-----------------------------------------------------------------------------
(* The workers.                                                             *)

LEMMA RestartKeeps ==
    ASSUME QueueInv, Restart
    PROVE  QueueInv'
<1>1. /\ ValidatorTypeOK /\ CallerInv /\ TaskInv /\ caller.pc = "idle"
      /\ checks' = checks /\ checked' = checked /\ verdict' = verdict /\ caller' = caller
      /\ queue' = [w \in Workers |-> <<>>] /\ running' = [w \in Workers |-> NoTask]
      /\ done' = done \cup ({running[w] : w \in Workers} \ {NoTask}) /\ nextWorker' = 0
      /\ passed' = passed
  BY DEF QueueInv, Restart, callerVars
<1>2. body' = body
  BY <1>1 DEF body
<1>3. ValidatorTypeOK'
  <2>1. queue' \in [Workers -> Seq(Tasks)] /\ running' \in [Workers -> Tasks \cup {NoTask}]
    BY <1>1
  <2>2. done' \subseteq Tasks
    BY <1>1 DEF ValidatorTypeOK
  <2> QED
    BY <1>1, <2>1, <2>2, ValidatorFacts DEF ValidatorTypeOK
<1>4. CallerInv'
  BY <1>1, <1>2 DEF CallerInv, CheckExact, Acceptable
<1>5. TaskInv'
  <2>1. \A w \in Workers : 1 .. Len(queue'[w]) = {}
    BY <1>1
  <2>2. \A t \in done' : Posted(t, checks, caller)
    BY <1>1 DEF TaskInv
  <2> QED
    BY <1>1, <2>1, <2>2 DEF TaskInv
<1> QED
  BY <1>1, <1>3, <1>4, <1>5 DEF QueueInv

LEMMA TakeKeeps ==
    ASSUME QueueInv, NEW w \in Workers, NEW v \in Workers, Take(w, v)
    PROVE  QueueInv'
<1>1. /\ ValidatorTypeOK /\ CallerInv /\ TaskInv /\ caller.pc # "aborted"
      /\ checks' = checks /\ checked' = checked /\ verdict' = verdict /\ caller' = caller
      /\ nextWorker' = nextWorker /\ done' = done /\ passed' = passed /\ queue[v] # <<>>
      /\ running' = [running EXCEPT ![w] = Head(queue[v])]
      /\ queue' = [queue EXCEPT ![v] = Tail(queue[v])]
  BY DEF QueueInv, Take, Alive, callerVars
<1>2. body' = body
  BY <1>1 DEF body
<1>3. /\ queue[v] \in Seq(Tasks) /\ Len(queue[v]) \in Nat \ {0} /\ Head(queue[v]) = queue[v][1]
      /\ Head(queue[v]) \in Tasks /\ Tail(queue[v]) \in Seq(Tasks)
      /\ Len(Tail(queue[v])) = Len(queue[v]) - 1
      /\ \A i \in 1 .. Len(queue[v]) - 1 : Tail(queue[v])[i] = queue[v][i + 1]
  <2>1. queue[v] \in Seq(Tasks)
    BY <1>1 DEF ValidatorTypeOK
  <2> QED
    BY <1>1, <2>1
<1>4. ValidatorTypeOK'
  <2>1. queue' \in [Workers -> Seq(Tasks)] /\ running' \in [Workers -> Tasks \cup {NoTask}]
    BY <1>1, <1>3 DEF ValidatorTypeOK
  <2> QED
    BY <1>1, <2>1 DEF ValidatorTypeOK
<1>5. CallerInv'
  BY <1>1, <1>2 DEF CallerInv, CheckExact, Acceptable
<1> DEFINE at(u, i) == IF u = v THEN i + 1 ELSE i
<1>6. \A u \in Workers : \A i \in 1 .. Len(queue'[u]) :
         /\ at(u, i) \in 1 .. Len(queue[u]) /\ queue'[u][i] = queue[u][at(u, i)]
         /\ u = v => at(u, i) # 1
         /\ i \in Nat
  BY <1>1, <1>3 DEF ValidatorTypeOK
<1>7. \A u \in Workers : running'[u] = IF u = w THEN queue[v][1] ELSE running[u]
  BY <1>1, <1>3 DEF ValidatorTypeOK
<1>8. 1 \in 1 .. Len(queue[v])
  BY <1>3
<1>9. \A x, y \in Workers : \A i \in 1 .. Len(queue[x]) : \A j \in 1 .. Len(queue[y]) :
         queue[x][i] = queue[y][j] => x = y /\ i = j
  BY <1>1 DEF TaskInv
<1>10. TaskInv'
  <2>1. \A u \in Workers : running'[u] # NoTask => Posted(running'[u], checks', caller')
    BY <1>1, <1>7, <1>8 DEF TaskInv
  <2>2. ASSUME NEW u \in Workers, NEW i \in 1 .. Len(queue'[u])
        PROVE  /\ Posted(queue'[u][i], checks', caller')
               /\ queue'[u][i] \notin done'
               /\ \A x \in Workers : queue'[u][i] # running'[x]
               /\ \A x \in Workers : \A j \in 1 .. Len(queue'[x]) :
                     queue'[u][i] = queue'[x][j] => u = x /\ i = j
               /\ queue'[u][i][1] < Len(checks') \/ caller'.pc = "idle" =>
                     ~(ToSet(checks'[queue'[u][i][1]]) \subseteq ValidPayloads)
    <3>1. at(u, i) \in 1 .. Len(queue[u]) /\ queue'[u][i] = queue[u][at(u, i)]
      BY <1>6
    <3>2. queue'[u][i] # queue[v][1]
      <4>1. u = v => at(u, i) # 1
        BY <1>6
      <4> HIDE DEF at
      <4> QED
        BY <1>8, <1>9, <3>1, <4>1
    <3>3. \A x \in Workers : queue'[u][i] # running'[x]
      BY <1>1, <1>7, <3>1, <3>2 DEF TaskInv
    <3>4. \A x \in Workers : \A j \in 1 .. Len(queue'[x]) :
             queue'[u][i] = queue'[x][j] => u = x /\ at(u, i) = at(x, j)
      <4> HIDE DEF at
      <4> SUFFICES ASSUME NEW x \in Workers, NEW j \in 1 .. Len(queue'[x]),
                          queue'[u][i] = queue'[x][j]
                   PROVE  u = x /\ at(u, i) = at(x, j)
        OBVIOUS
      <4>1. at(x, j) \in 1 .. Len(queue[x]) /\ queue'[x][j] = queue[x][at(x, j)]
        BY <1>6
      <4>2. queue[u][at(u, i)] = queue[x][at(x, j)]
        BY <3>1, <4>1
      <4> QED
        BY <1>9, <3>1, <4>1, <4>2
    <3>5. \A x \in Workers : \A j \in 1 .. Len(queue'[x]) :
             queue'[u][i] = queue'[x][j] => u = x /\ i = j
      BY <1>6, <3>4
    <3>6. Posted(queue'[u][i], checks', caller') /\ queue'[u][i] \notin done'
      BY <1>1, <3>1 DEF TaskInv
    <3>7. queue'[u][i][1] < Len(checks') \/ caller'.pc = "idle" =>
             ~(ToSet(checks'[queue'[u][i][1]]) \subseteq ValidPayloads)
      BY <1>1, <3>1 DEF TaskInv
    <3> QED
      BY <3>3, <3>5, <3>6, <3>7
  <2>3. \A t \in done' : Posted(t, checks', caller')
    BY <1>1 DEF TaskInv
  <2> QED
    BY <2>1, <2>2, <2>3 DEF TaskInv
<1> QED
  BY <1>1, <1>4, <1>5, <1>10 DEF QueueInv

LEMMA ExecuteKeeps ==
    ASSUME QueueInv, NEW w \in Workers, Execute(w)
    PROVE  QueueInv'
<1>1. /\ ValidatorTypeOK /\ CallerInv /\ TaskInv /\ caller.pc # "aborted"
      /\ checks' = checks /\ checked' = checked /\ verdict' = verdict /\ caller' = caller
      /\ nextWorker' = nextWorker /\ queue' = queue
      /\ running[w] # NoTask /\ done' = done \cup {running[w]}
      /\ running' = [running EXCEPT ![w] = NoTask]
      /\ passed' \subseteq passed \cup {running[w]}
  BY DEF QueueInv, Execute, SetResult, Alive, callerVars
<1>2. body' = body
  BY <1>1 DEF body
<1>3. ValidatorTypeOK'
  BY <1>1 DEF ValidatorTypeOK
<1>4. CallerInv'
  BY <1>1, <1>2 DEF CallerInv, CheckExact, Acceptable
<1>5. TaskInv'
  <2>1. \A v \in Workers : running'[v] = IF v = w THEN NoTask ELSE running[v]
    BY <1>1 DEF ValidatorTypeOK
  <2>2. \A v \in Workers : \A i \in 1 .. Len(queue[v]) : queue[v][i] # NoTask
    BY <1>1 DEF ValidatorTypeOK, Tasks, NoTask
  <2> QED
    BY <1>1, <2>1, <2>2 DEF TaskInv
<1> QED
  BY <1>1, <1>3, <1>4, <1>5 DEF QueueInv

-----------------------------------------------------------------------------
(* The results.                                                             *)

\* A task of the check under way reads its payload while it is still there.
LEMMA ExecuteKeepsResults ==
    ASSUME ResultInv, NEW w \in Workers, Execute(w)
    PROVE  ResultInv'
<1> DEFINE task == running[w]
<1>1. PICK valid \in Results(task) :
        passed' = IF valid THEN passed \cup {task} ELSE passed \ {task}
  BY DEF Execute, SetResult
<1>2. done' = done \cup {task} /\ checks' = checks /\ caller' = caller
  BY DEF Execute, SetResult, callerVars
<1>3. /\ valid \in BOOLEAN
      /\ Current(task) => (valid <=> checks[task[1]][task[2]] \in ValidPayloads)
  BY <1>1 DEF Results
<1> HIDE DEF task
<1>4. /\ task \in passed' <=> valid
      /\ \A t : t # task => (t \in passed' <=> t \in passed)
  BY <1>1, <1>3
<1>5. \A t \in done' : Current(t) => (t \in passed' <=> checks[t[1]][t[2]] \in ValidPayloads)
  BY <1>2, <1>3, <1>4 DEF ResultInv
<1> QED
  BY <1>2, <1>5 DEF ResultInv, Current

\* A check that begins has no results yet: every task that is done is of an older one.
LEMMA BeginKeepsResults ==
    ASSUME QueueInv, NEW pop \in Bodies, Begin(pop)
    PROVE  ResultInv'
<1>1. checks' = Append(checks, pop) /\ done' = done /\ checks \in Seq(Bodies)
  BY DEF Begin, workerVars, QueueInv, ValidatorTypeOK
<1>2. Len(checks) \in Nat /\ Len(checks') = Len(checks) + 1
  BY <1>1
<1>3. \A t \in done : t[1] \in 1 .. Len(checks)
  BY DEF QueueInv, TaskInv, Posted
<1>4. \A t \in done' : t[1] # Len(checks')
  BY <1>1, <1>2, <1>3
<1> QED
  BY <1>4 DEF ResultInv, Current

LEMMA NextResults ==
    ASSUME QueueInv, ResultInv, [ValidatorNext]_validatorVars
    PROVE  ResultInv'
<1>1. ASSUME checks' = checks, done' = done, passed' = passed,
             caller'.pc # "idle" => caller.pc # "idle"
      PROVE  ResultInv'
  BY <1>1 DEF ResultInv, Current
<1>2. caller \in [pc : {"idle", "posting", "collecting", "aborted"}, at : Nat \ {0}]
  BY DEF QueueInv, ValidatorTypeOK
<1>3. CASE Restart
  <2>1. caller'.pc = "idle"
    BY <1>3 DEF Restart, callerVars
  <2> QED
    BY <2>1 DEF ResultInv, Current
<1>4. CASE AddCheck \/ AllPosted \/ GetResult \/ End
  <2>1. checks' = checks /\ done' = done /\ passed' = passed /\ caller.pc # "idle"
    BY <1>4 DEF AddCheck, AllPosted, GetResult, End, workerVars
  <2> QED
    BY <1>1, <2>1
<1>5. ASSUME NEW w \in Workers, Own(w) \/ Steal(w)
      PROVE  ResultInv'
  BY <1>1, <1>5 DEF Own, Steal, Take, callerVars
<1>6. CASE UNCHANGED validatorVars
  BY <1>1, <1>6 DEF validatorVars, callerVars, workerVars
<1> QED
  BY <1>3, <1>4, <1>5, <1>6, BeginKeepsResults, ExecuteKeepsResults DEF ValidatorNext

-----------------------------------------------------------------------------
(* The theorems.                                                            *)

LEMMA InitQueues == ValidatorInit => QueueInv
<1> SUFFICES ASSUME ValidatorInit PROVE QueueInv
  OBVIOUS
<1>1. ValidatorTypeOK
  <2>1. queue \in [Workers -> Seq(Tasks)] /\ running \in [Workers -> Tasks \cup {NoTask}]
    BY DEF ValidatorInit
  <2>2. caller \in [pc : {"idle", "posting", "collecting", "aborted"}, at : Nat \ {0}]
    BY DEF ValidatorInit, Idle
  <2> QED
    BY <2>1, <2>2, ValidatorFacts DEF ValidatorInit, ValidatorTypeOK
<1>2. CallerInv
  BY DEF ValidatorInit, CallerInv, CheckExact, Idle
<1>3. TaskInv
  <2>1. \A w \in Workers : 1 .. Len(queue[w]) = {}
    BY DEF ValidatorInit
  <2> QED
    BY <2>1 DEF ValidatorInit, TaskInv
<1> QED
  BY <1>1, <1>2, <1>3 DEF QueueInv

LEMMA NextQueues ==
    ASSUME QueueInv, ResultInv, [ValidatorNext]_validatorVars
    PROVE  QueueInv'
<1>1. ASSUME NEW w \in Workers, Own(w) \/ Steal(w) \/ Execute(w)
      PROVE  QueueInv'
  BY <1>1, TakeKeeps, ExecuteKeeps, ValidatorFacts DEF Own, Steal, Donor
<1>2. CASE UNCHANGED validatorVars
  <2>1. /\ checks' = checks /\ checked' = checked /\ verdict' = verdict /\ caller' = caller
        /\ nextWorker' = nextWorker /\ queue' = queue /\ running' = running /\ done' = done
        /\ passed' = passed
    BY <1>2 DEF validatorVars, callerVars, workerVars
  <2>2. ValidatorTypeOK'
    BY <2>1 DEF QueueInv, ValidatorTypeOK
  <2>3. CallerInv'
    BY <2>1 DEF QueueInv, CallerInv, CheckExact, Acceptable, body
  <2>4. TaskInv'
    BY <2>1 DEF QueueInv, TaskInv
  <2> QED
    BY <2>2, <2>3, <2>4 DEF QueueInv
<1> QED
  BY <1>1, <1>2, BeginKeeps, AddCheckKeeps, AllPostedKeeps, GetResultKeeps, EndKeeps, RestartKeeps
     DEF ValidatorNext

\* The inductive invariant holds in every reachable state.
THEOREM ValidatorInvariant == ValidatorSpec => []ValidatorInv
<1>1. ValidatorInit => ValidatorInv
  BY InitQueues DEF ValidatorInit, ValidatorInv, ResultInv
<1>2. ValidatorInv /\ [ValidatorNext]_validatorVars => ValidatorInv'
  BY NextQueues, NextResults DEF ValidatorInv
<1> QED
  BY <1>1, <1>2, PTL DEF ValidatorSpec

\* checkPopData returns what the body deserves, in every interleaving of the calling
\* thread and the workers, after any number of checks that gave up early, and with
\* popData.checked as a cache.
THEOREM CheckTheorem == ValidatorSpec => []CheckExact
<1>1. ValidatorInv => CheckExact
  BY DEF ValidatorInv, QueueInv, CallerInv
<1> QED
  BY <1>1, ValidatorInvariant, PTL

\* A queue that holds tasks of the current check only has room for the next one.
LEMMA RoomForTheRest ==
    ASSUME QueueInv, caller.pc = "posting", caller.at <= Len(body),
           QueueSize \in Nat, MaxPayloads <= QueueSize,
           NEW w \in Workers, Len(queue[w]) >= QueueSize
    PROVE  \E i \in 1 .. Len(queue[w]) : queue[w][i][1] < Len(checks)
<1>1. SUFFICES ASSUME \A i \in 1 .. Len(queue[w]) : ~(queue[w][i][1] < Len(checks))
               PROVE  FALSE
  OBVIOUS
<1>2. /\ ValidatorTypeOK /\ TaskInv /\ checks # <<>> /\ Len(body) <= MaxPayloads
      /\ caller.at \in Nat \ {0} /\ queue[w] \in Seq(Tasks) /\ Len(queue[w]) \in Nat
      /\ MaxPayloads \in Nat
  BY ValidatorFacts DEF QueueInv, CallerInv, ValidatorTypeOK
<1>3. Len(body) \in Nat /\ Len(checks) \in Nat
  BY <1>2, BodyFacts
<1> DEFINE I == 1 .. Len(queue[w])
           J == 1 .. caller.at - 1
           f == [i \in I |-> queue[w][i][2]]
<1>4. \A i \in I : /\ queue[w][i] \in Tasks
                   /\ queue[w][i][1] = Len(checks) /\ queue[w][i][2] \in J
  <2> SUFFICES ASSUME NEW i \in I
               PROVE  /\ queue[w][i] \in Tasks
                      /\ queue[w][i][1] = Len(checks) /\ queue[w][i][2] \in J
    OBVIOUS
  <2>1. queue[w][i] \in Tasks /\ Posted(queue[w][i], checks, caller)
    BY <1>2 DEF TaskInv
  <2>2. queue[w][i][1] = Len(checks)
    BY <1>1, <1>3, <2>1 DEF Posted
  <2>3. queue[w][i][2] \in Nat \ {0} /\ queue[w][i][2] < caller.at
    BY <2>1, <2>2 DEF Posted
  <2> QED
    BY <1>2, <2>1, <2>2, <2>3
<1>5. f \in Injection(I, J)
  <2>1. f \in [I -> J]
    BY <1>4
  <2>2. \A i, j \in I : f[i] = f[j] => i = j
    <3> SUFFICES ASSUME NEW i \in I, NEW j \in I, queue[w][i][2] = queue[w][j][2]
                 PROVE  i = j
      OBVIOUS
    <3>1. queue[w][i] = queue[w][j]
      BY <1>4, TaskFacts
    <3> QED
      BY <1>2, <3>1 DEF TaskInv
  <2> QED
    BY <2>1, <2>2 DEF Injection, IsInjective
<1>6. IsFiniteSet(J) /\ Cardinality(J) = caller.at - 1
  <2>1. 1 \in Int /\ caller.at - 1 \in Int
    BY <1>2
  <2>2. /\ IsFiniteSet(J)
        /\ Cardinality(J) = IF 1 > caller.at - 1 THEN 0 ELSE caller.at - 1 - 1 + 1
    BY <2>1, FS_Interval, Zenon
  <2> QED
    BY <1>2, <2>2
<1>7. IsFiniteSet(I) /\ Cardinality(I) = Len(queue[w])
  <2>1. 1 \in Int /\ Len(queue[w]) \in Int
    BY <1>2
  <2>2. /\ IsFiniteSet(I)
        /\ Cardinality(I) = IF 1 > Len(queue[w]) THEN 0 ELSE Len(queue[w]) - 1 + 1
    BY <2>1, FS_Interval, Zenon
  <2> QED
    BY <1>2, <2>2
<1> HIDE DEF I, J, f
<1>8. Cardinality(I) <= Cardinality(J)
  BY <1>5, <1>6, FS_Injection
<1> QED
  BY <1>2, <1>3, <1>6, <1>7, <1>8

\* addCheck finds a full queue only when it still holds a task of an earlier check
\* that an invalid payload ended: the tasks of one body always fit.  That
\* upper_power_of_two does not fall short of its argument is a hypothesis: the provers
\* know nothing of powers.
THEOREM FullQueueTheorem ==
    ASSUME QueueSize \in Nat, MaxPayloads <= QueueSize
    PROVE  ValidatorSpec => []FullOfAbandoned
<1>1. ValidatorInit => FullOfAbandoned
  BY DEF ValidatorInit, FullOfAbandoned, Idle
<1>2. ValidatorInv /\ FullOfAbandoned /\ [ValidatorNext]_validatorVars => FullOfAbandoned'
  <2> SUFFICES ASSUME ValidatorInv, FullOfAbandoned, [ValidatorNext]_validatorVars,
                      caller'.pc = "aborted"
               PROVE  FullOfAbandoned'
    BY DEF FullOfAbandoned
  <2>1. CASE AddCheck
    <3>1. /\ ValidatorTypeOK /\ CallerInv /\ TaskInv /\ caller.pc = "posting"
          /\ caller.at <= Len(body) /\ checks' = checks /\ nextWorker \in Workers
          /\ caller \in [pc : {"idle", "posting", "collecting", "aborted"}, at : Nat \ {0}]
          /\ queue \in [Workers -> Seq(Tasks)]
      BY <2>1 DEF ValidatorInv, QueueInv, AddCheck, ValidatorTypeOK
    <3>2. ~(Len(queue[nextWorker]) < QueueSize) /\ queue' = queue
      BY <2>1, <3>1 DEF AddCheck
    <3>3. /\ queue[nextWorker] \in Seq(Tasks) /\ Len(queue[nextWorker]) \in Nat
          /\ Len(queue[nextWorker]) >= QueueSize
      BY <3>1, <3>2
    <3>4. PICK i \in 1 .. Len(queue[nextWorker]) : queue[nextWorker][i][1] < Len(checks)
      BY <3>1, <3>3, RoomForTheRest DEF ValidatorInv
    <3>5. ~(ToSet(checks[queue[nextWorker][i][1]]) \subseteq ValidPayloads)
      BY <3>1, <3>4 DEF TaskInv
    <3>6. queue[nextWorker][i] \in ToSet(queue[nextWorker])
      BY <3>3, <3>4 DEF ToSet
    <3> QED
      BY <3>1, <3>2, <3>4, <3>5, <3>6 DEF FullOfAbandoned
  <2>2. CASE UNCHANGED validatorVars
    BY <2>2 DEF validatorVars, callerVars, workerVars, FullOfAbandoned
  <2>3. CASE ValidatorNext /\ ~AddCheck
    <3>1. caller \in [pc : {"idle", "posting", "collecting", "aborted"}, at : Nat \ {0}]
      BY DEF ValidatorInv, QueueInv, ValidatorTypeOK
    <3> QED
      BY <2>3, <3>1 DEF ValidatorNext, Begin, AllPosted, GetResult, End, Restart, Own, Steal, Take,
                        Execute, Returns, Idle, Alive, callerVars
  <2> QED
    BY <2>1, <2>2, <2>3
<1> QED
  BY <1>1, <1>2, ValidatorInvariant, PTL DEF ValidatorSpec

=============================================================================
