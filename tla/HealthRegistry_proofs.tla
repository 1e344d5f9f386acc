----------------------- MODULE HealthRegistry_proofs -----------------------
(***************************************************************************)
(* For any threads, components, reports, contexts, keys and clock: the     *)
(* durable health is a chain of material changes, and what report() leaves *)
(* in the registry agrees with it.                                         *)
(*                                                                         *)
(* ChainCoherent is not inductive: a builder compares with a history that  *)
(* it read before commit(), so the invariant says that nobody wrote to the *)
(* history since (JobOK, by the registry's lock).  VisibleIsDurable and    *)
(* KeyBindsInput need to know what a result of commit() stands for.        *)
(***************************************************************************)
EXTENDS HealthRegistry, WellFoundedInduction, TLAPS

Holding == {"reading", "committing", "installing"}

\* What each step of report() and expire() has established.
JobOK(t) ==
    jobs[t] # None =>
      /\ jobs[t].step # "expiring" =>
           jobs[t].component \in Components /\ jobs[t].material \in Materials
      /\ jobs[t].step = "expiring" => jobs[t].rest # {}
      /\ jobs[t].step \in Holding => jobs[t].context # None
      /\ jobs[t].step \in {"reading", "committing"} =>
           jobs[t].at \in Times /\ jobs[t].old = LatestHealth(jobs[t].component)
      /\ jobs[t].step = "installing" => answers[jobs[t].context.key] = Row(t)

\* A retry record comes with a durable event of its component.
Kept == \A k \in AllKeys : answers[k] # None => HealthOf(answers[k].component) # {}

\* Without global reports, every call has a context, and the registry shows
\* what is durable.
Contextual(t) ==
    jobs[t] # None =>
      /\ jobs[t].step = "waiting" => jobs[t].context # None
      /\ jobs[t].rest # {} => jobs[t].base # None
SessionsOnly ==
    None \notin Contexts => VisibleIsDurable /\ \A t \in Threads : Contextual(t)

HInv == /\ TypeOK /\ Kept /\ ChainCoherent /\ SessionsOnly
        /\ \A t \in Threads : JobOK(t)

-----------------------------------------------------------------------------
(* The least and the greatest element of a set of naturals.                 *)

LEMMA Least ==
    ASSUME NEW T \in SUBSET Nat, T # {}
    PROVE  \E x \in T : \A y \in T : x <= y
<1>1. PICK R : R = OpToRel(<, Nat)
  OBVIOUS
<1>2. IsWellFoundedOn(R, Nat)
  BY <1>1, NatLessThanWellFounded
<1>3. \A x, y \in Nat : y < x => <<y, x>> \in R
  BY <1>1 DEF OpToRel
<1>4. PICK x \in T : \A y \in T : ~(<<y, x>> \in R)
  BY <1>2, WFMin, Zenon
<1>5. ASSUME NEW y \in T
      PROVE  x <= y
  <2>1. x \in Nat /\ y \in Nat
    OBVIOUS
  <2>2. ~(y < x)
    BY <1>3, <1>4, <2>1
  <2> QED BY <2>1, <2>2
<1> QED BY <1>5

LEMMA MinIsLeast ==
    ASSUME NEW T \in SUBSET Nat, T # {}
    PROVE  Min(T) \in T
  BY Least DEF Min

LEMMA MaxIsGreatest ==
    ASSUME NEW n \in Nat, NEW T \in SUBSET (1..n), T # {}
    PROVE  Max(T) \in T /\ \A y \in T : Max(T) >= y
<1> DEFINE Mirror == {m \in Nat : \E x \in T : m = n - x}
<1>1. Mirror \in SUBSET Nat /\ Mirror # {}
  <2>1. PICK x \in T : x \in 1..n
    OBVIOUS
  <2>2. n - x \in Mirror
    BY <2>1
  <2> QED BY <2>2
<1>2. PICK m \in Mirror : \A k \in Mirror : m <= k
  BY <1>1, Least
<1>3. PICK x \in T : m = n - x
  OBVIOUS
<1>4. ASSUME NEW y \in T
      PROVE  x >= y
  <2>1. n - y \in Mirror
    OBVIOUS
  <2> QED BY <1>2, <1>3, <2>1
<1> QED BY <1>4 DEF Max

-----------------------------------------------------------------------------
(* The history of one component.                                            *)

LEMMA Positions ==
    ASSUME TypeOK, NEW c
    PROVE  /\ Len(history) \in Nat /\ HealthOf(c) \in SUBSET (1..Len(history))
           /\ HealthOf(c) # {} => /\ Max(HealthOf(c)) \in HealthOf(c)
                                 /\ \A i \in HealthOf(c) : Max(HealthOf(c)) >= i
<1>1. Len(history) \in Nat /\ HealthOf(c) \in SUBSET (1..Len(history))
  BY DEF TypeOK, HealthOf
<1> QED BY <1>1, MaxIsGreatest

LEMMA LatestIsHealth ==
    ASSUME TypeOK, NEW c, HealthOf(c) # {}
    PROVE  /\ LatestHealth(c) \in Observations
           /\ \E i \in HealthOf(c) : LatestHealth(c) = history[i].health
<1>1. Max(HealthOf(c)) \in HealthOf(c) /\ Max(HealthOf(c)) \in 1..Len(history)
  BY Positions
<1>2. history[Max(HealthOf(c))] \in HealthEvents
  BY <1>1 DEF TypeOK
<1>3. LatestHealth(c) = history[Max(HealthOf(c))].health
  BY DEF LatestHealth
<1> QED BY <1>1, <1>2, <1>3 DEF HealthEvents

LEMMA SameHistory ==
    ASSUME UNCHANGED history
    PROVE  /\ \A c : HealthOf(c)' = HealthOf(c) /\ LatestHealth(c)' = LatestHealth(c)
           /\ ChainCoherent' = ChainCoherent
  BY DEF HealthOf, LatestHealth, ChainCoherent, Chained

LEMMA SameVisible ==
    ASSUME UNCHANGED <<components, history>>
    PROVE  VisibleIsDurable' = VisibleIsDurable
  BY DEF VisibleIsDurable, HealthOf

-----------------------------------------------------------------------------
(* Steps of one thread that write nothing.                                  *)

LEMMA Quiet ==
    ASSUME HInv, NEW t \in Threads, NEW job \in JobRecords \union {None}, Goes(t, job),
           UNCHANGED <<now, durable>>,
           components' \in [Components -> Observations],
           lock' = lock \/ (lock \in {None, t} /\ lock' \in {None, t}),
           lock' = t <=> job # None /\ job.step \in Holding,
           JobOK(t)',
           None \notin Contexts => VisibleIsDurable' /\ Contextual(t)'
    PROVE  HInv'
<1> USE DEF HInv
<1>1. jobs' = [jobs EXCEPT ![t] = job] /\ jobs \in [Threads -> JobRecords \union {None}]
      /\ UNCHANGED <<now, session, history, answers>>
  BY DEF Goes, TypeOK, durable
<1>2. \A u \in Threads : u # t => jobs'[u] = jobs[u]
  BY <1>1
<1>3. jobs'[t] = job /\ jobs' \in [Threads -> JobRecords \union {None}]
  BY <1>1
<1>4. ASSUME NEW u \in Threads
      PROVE  (lock' = u) <=> (jobs'[u] # None /\ jobs'[u].step \in Holding)
  <2>1. (lock = u) <=> (jobs[u] # None /\ jobs[u].step \in Holding)
    BY DEF TypeOK, At, Holding
  <2>2. CASE u = t
    BY <1>3, <2>2
  <2>3. CASE u # t
    BY <1>2, <2>1, <2>3, Assumption
  <2> QED BY <2>2, <2>3
<1>5. TypeOK'
  BY <1>1, <1>3, <1>4 DEF TypeOK, At, Holding
<1>6. Kept' /\ ChainCoherent'
  BY <1>1, SameHistory DEF Kept
<1>7. ASSUME NEW u \in Threads, u # t
      PROVE  JobOK(u)' /\ (Contextual(u)' <=> Contextual(u))
  BY <1>1, <1>2, <1>7, SameHistory DEF JobOK, Contextual, Row
<1>8. SessionsOnly'
  BY <1>7 DEF SessionsOnly
<1> QED BY <1>5, <1>6, <1>7, <1>8

LEMMA LockHeld ==
    ASSUME TypeOK, NEW t \in Threads, jobs[t] # None, jobs[t].step \in Holding
    PROVE  lock = t /\ jobs[t] \in JobRecords
  BY DEF TypeOK, At, Holding

\* Leaving report() with an error changes nothing that is visible.
LEMMA RaiseHInv ==
    ASSUME HInv, NEW t \in Threads, lock \in {None, t}, Raise(t), UNCHANGED <<now, durable>>
    PROVE  HInv'
<1>1. jobs'[t] = None /\ UNCHANGED history
  BY DEF HInv, TypeOK, Raise, Goes, durable
<1>2. JobOK(t)' /\ Contextual(t)'
  BY <1>1 DEF JobOK, Contextual
<1>3. None \notin Contexts => VisibleIsDurable'
  BY <1>1, SameVisible DEF HInv, SessionsOnly, Raise
<1>4. lock' # t /\ lock' \in {None, t} /\ components' \in [Components -> Observations]
  BY Assumption DEF HInv, TypeOK, Raise
<1> QED BY <1>2, <1>3, <1>4, Quiet DEF Raise

\* Installing an observation that the history has, or that is reported globally.
LEMMA InstallHInv ==
    ASSUME HInv, NEW t \in Threads, lock \in {None, t}, jobs[t] # None,
           jobs[t].step # "expiring", NEW o \in Observations,
           Install(t, o), UNCHANGED <<now, durable>>,
           None \notin Contexts => \E i \in HealthOf(jobs[t].component) :
                                      history[i].health.material = o.material
    PROVE  HInv'
<1> DEFINE c == jobs[t].component
           job == IF jobs[t].rest = {} THEN None ELSE Looping(jobs[t].base, jobs[t].rest)
<1>1. jobs[t] \in JobRecords /\ c \in Components
  BY DEF HInv, TypeOK, JobOK
<1>2. job \in JobRecords \union {None} /\ (job # None => job.step = "expiring")
  BY <1>1 DEF JobRecords, Looping
<1>3. Goes(t, job) /\ jobs'[t] = job /\ UNCHANGED history
  BY DEF HInv, TypeOK, Install, Goes, durable
<1>4. components' \in [Components -> Observations]
  BY <1>1 DEF HInv, TypeOK, Install
<1>5. JobOK(t)'
  BY <1>2, <1>3 DEF JobOK, Looping, Holding
<1>6. ASSUME None \notin Contexts
      PROVE  VisibleIsDurable' /\ Contextual(t)'
  <2>1. Contextual(t)'
    BY <1>2, <1>3, <1>6 DEF HInv, SessionsOnly, Contextual, Looping
  <2>2. ASSUME NEW d \in Components
        PROVE  \/ components'[d].material = Starting
               \/ \E i \in HealthOf(d)' : history'[i].health.material = components'[d].material
    <3>1. \/ components[d].material = Starting
          \/ \E i \in HealthOf(d) : history[i].health.material = components[d].material
      BY <1>6 DEF HInv, SessionsOnly, VisibleIsDurable
    <3>2. HealthOf(d)' = HealthOf(d)
      BY <1>3, SameHistory
    <3>3. components'[d] = IF d = c THEN o ELSE components[d]
      BY <1>1 DEF HInv, TypeOK, Install
    <3> QED BY <1>3, <1>6, <3>1, <3>2, <3>3
  <2> QED BY <2>1, <2>2 DEF VisibleIsDurable
<1>7. lock' = None /\ ~(lock' = t) /\ ~(job # None /\ job.step \in Holding)
  BY <1>2, Assumption DEF Install, Holding
<1> HIDE DEF job
<1> QED BY <1>2, <1>3, <1>4, <1>5, <1>6, <1>7, Quiet

-----------------------------------------------------------------------------
(* The step that writes.                                                    *)

\* The history, the chain and the retry records after t's event was appended.
LEMMA Written ==
    ASSUME HInv, NEW t \in Threads, At(t, "committing"), Changed(t), WriteHealth(t)
    PROVE  /\ history' \in Seq(HealthEvents)
           /\ answers' \in [AllKeys -> Rows \union {None}]
           /\ answers'[jobs[t].context.key] = Row(t)
           /\ Kept' /\ ChainCoherent'
           /\ (VisibleIsDurable /\ UNCHANGED components) => VisibleIsDurable'
<1> DEFINE j == jobs[t]
           c == j.component
           n == Len(history)
           e == Event(t)
<1>1. /\ j \in JobRecords /\ c \in Components /\ j.material \in Materials
      /\ j.context # None /\ j.at \in Times /\ j.old = LatestHealth(c)
  BY DEF HInv, TypeOK, JobOK, At, Holding
<1>2. e \in HealthEvents /\ e.component = c /\ e.health.material = j.material
  <2>1. j.old # None => j.old \in Observations
    BY <1>1 DEF JobRecords
  <2>2. j.old # None => j.old.material.status \in {m.status : m \in Materials}
    BY <2>1 DEF Observations
  <2> QED BY <1>1, <2>2 DEF Event, Candidate, HealthEvents, Observations
<1>3. history \in Seq(HealthEvents) /\ n \in Nat /\ history' = Append(history, e)
  BY DEF HInv, TypeOK, WriteHealth
<1>4. /\ history' \in Seq(HealthEvents) /\ DOMAIN history' = 1..(n + 1)
      /\ DOMAIN history = 1..n /\ history'[n + 1] = e
      /\ \A i \in 1..n : history'[i] = history[i]
  BY <1>2, <1>3
<1> HIDE DEF e
<1>5. \A d : HealthOf(d)' = HealthOf(d) \union (IF d = c THEN {n + 1} ELSE {})
  BY <1>2, <1>3, <1>4 DEF HealthOf
<1>6. \A d : HealthOf(d) \in SUBSET (1..n)
  BY <1>4 DEF HealthOf
<1>7. Row(t) \in Rows /\ j.context.key \in AllKeys /\ Row(t).component = c
  BY <1>1 DEF Row, Rows, JobRecords
<1>8. /\ answers' \in [AllKeys -> Rows \union {None}] /\ answers'[j.context.key] = Row(t)
      /\ \A k \in AllKeys : k # j.context.key => answers'[k] = answers[k]
  BY <1>7 DEF HInv, TypeOK, WriteHealth
<1>9. Kept'
  BY <1>5, <1>7, <1>8 DEF HInv, Kept
<1>10. ASSUME NEW i \in DOMAIN history'
       PROVE  Chained(i)'
  <2>1. CASE i \in 1..n
    <3>1. history'[i] = history[i] /\ Chained(i)
      BY <1>4, <2>1 DEF HInv, ChainCoherent
    <3>2. {k \in HealthOf(history[i].component)' : k < i}
          = {k \in HealthOf(history[i].component) : k < i}
      BY <1>3, <1>5, <2>1
    <3>3. {k \in HealthOf(history[i].component) : k < i} # {} =>
            Max({k \in HealthOf(history[i].component) : k < i}) \in 1..n
      <4>1. {k \in HealthOf(history[i].component) : k < i} \in SUBSET (1..n)
        BY <1>6
      <4> QED BY <1>3, <4>1, MaxIsGreatest
    <3> DEFINE B == {k \in HealthOf(history[i].component) : k < i}
    <3>4. Chained(i) = (IF B = {} THEN history[i].previous = None
                        ELSE /\ history[i].previous = history[Max(B)].health.material.status
                             /\ history[i].health.material # history[Max(B)].health.material)
      BY DEF Chained
    <3>5. B = {k \in {m \in DOMAIN history' : history'[m].component = history'[i].component} : k < i}
      BY <3>1, <3>2 DEF HealthOf
    <3>6. Chained(i)' = (IF B = {} THEN history'[i].previous = None
                         ELSE /\ history'[i].previous = history'[Max(B)].health.material.status
                              /\ history'[i].health.material # history'[Max(B)].health.material)
      BY <3>5 DEF Chained, HealthOf
    <3>7. B # {} => history'[Max(B)] = history[Max(B)]
      BY <1>4, <3>3
    <3> HIDE DEF B
    <3> QED BY <3>1, <3>4, <3>6, <3>7
  <2>2. CASE i = n + 1
    <3>1. HealthOf(c) = {k \in {m \in DOMAIN history' : history'[m].component = c} : k < i}
      BY <1>3, <1>4, <2>2 DEF HealthOf
    <3>2. j.old = IF HealthOf(c) = {} THEN None ELSE history[Max(HealthOf(c))].health
      BY <1>1 DEF LatestHealth
    <3>3. HealthOf(c) # {} => Max(HealthOf(c)) \in 1..n /\ j.old # None
      <4>1. HealthOf(c) # {} => Max(HealthOf(c)) \in 1..n /\ LatestHealth(c) \in Observations
        BY <1>4, <1>6, Positions, LatestIsHealth DEF HInv
      <4> QED BY <1>1, <4>1, Assumption
    <3>4. e.previous = IF j.old = None THEN None ELSE j.old.material.status
      BY DEF e, Event
    <3>5. j.old # None => j.old.material # j.material
      BY DEF Changed
    <3> DEFINE B == HealthOf(c)
    <3>6. /\ history'[i] = e
          /\ B = {k \in {m \in DOMAIN history' : history'[m].component = history'[i].component} : k < i}
      BY <1>2, <1>4, <2>2, <3>1
    <3>7. Chained(i)' = (IF B = {} THEN history'[i].previous = None
                         ELSE /\ history'[i].previous = history'[Max(B)].health.material.status
                              /\ history'[i].health.material # history'[Max(B)].health.material)
      BY <3>6 DEF Chained, HealthOf
    <3>8. B # {} => history'[Max(B)] = history[Max(B)]
      BY <1>4, <3>3
    <3> HIDE DEF B
    <3> QED BY <1>2, <3>2, <3>3, <3>4, <3>5, <3>6, <3>7, <3>8 DEF B
  <2> QED BY <1>3, <1>4, <2>1, <2>2
<1>11. (VisibleIsDurable /\ UNCHANGED components) => VisibleIsDurable'
  <2> SUFFICES ASSUME VisibleIsDurable, UNCHANGED components, NEW d \in Components,
                      components[d].material # Starting
               PROVE  \E i \in HealthOf(d)' :
                         history'[i].health.material = components[d].material
    BY DEF VisibleIsDurable
  <2>1. PICK i \in HealthOf(d) : history[i].health.material = components[d].material
    BY DEF VisibleIsDurable
  <2> QED BY <1>4, <1>5, <1>6, <2>1
<1> QED BY <1>4, <1>8, <1>9, <1>10, <1>11 DEF ChainCoherent

\* With or without its result reaching the caller.
LEMMA WriteHInv ==
    ASSUME HInv, NEW t \in Threads, At(t, "committing"), Changed(t), WriteHealth(t),
           UNCHANGED now, Committed(t) \/ Raise(t)
    PROVE  HInv'
<1>1. lock = t /\ jobs[t] \in JobRecords /\ jobs[t] # None /\ jobs[t].step = "committing"
  BY LockHeld DEF HInv, At, Holding
<1>2. JobOK(t) /\ jobs[t].component \in Components /\ jobs[t].material \in Materials
      /\ jobs[t].context # None
  BY <1>1 DEF HInv, JobOK, Holding
<1>3. /\ history' \in Seq(HealthEvents) /\ answers' \in [AllKeys -> Rows \union {None}]
      /\ answers'[jobs[t].context.key] = Row(t) /\ Kept' /\ ChainCoherent'
      /\ (VisibleIsDurable /\ UNCHANGED components) => VisibleIsDurable'
  BY Written
<1>4. UNCHANGED <<components, now, session>>
  BY DEF WriteHealth, Committed, Raise
<1>5. PICK job \in JobRecords \union {None} :
        /\ Goes(t, job)
        /\ lock' = IF job = None THEN None ELSE t
        /\ job # None => /\ job.step = "installing" /\ job.component = jobs[t].component
                         /\ job.material = jobs[t].material /\ job.context = jobs[t].context
                         /\ job.rest = jobs[t].rest /\ job.base = jobs[t].base
  <2>1. CASE Committed(t)
    <3> DEFINE job == [jobs[t] EXCEPT !.step = "installing", !.at = None, !.old = None,
                                      !.sim = None]
    <3>0. job \in JobRecords
      BY <1>1 DEF JobRecords
    <3>1. job \in JobRecords /\ job # None
      BY <3>0, Assumption
    <3>2. /\ job.step = "installing" /\ job.component = jobs[t].component
          /\ job.material = jobs[t].material /\ job.context = jobs[t].context
          /\ job.rest = jobs[t].rest /\ job.base = jobs[t].base
      BY <1>1 DEF JobRecords
    <3>3. Goes(t, job) /\ lock' = t
      BY <1>1, <2>1 DEF Committed
    <3> HIDE DEF job
    <3> QED BY <3>1, <3>2, <3>3
  <2>2. CASE Raise(t)
    BY <2>2 DEF Raise
  <2> QED BY <2>1, <2>2
<1>6. /\ jobs' \in [Threads -> JobRecords \union {None}] /\ jobs'[t] = job
      /\ \A u \in Threads : u # t => jobs'[u] = jobs[u]
  BY <1>5 DEF HInv, TypeOK, Goes
<1>7. ASSUME NEW u \in Threads, u # t
      PROVE  jobs[u] # None => ~(jobs[u].step \in Holding)
  BY <1>1, <1>7 DEF HInv, TypeOK, At, Holding
<1>8. TypeOK'
  <2>1. ASSUME NEW u \in Threads
        PROVE  (lock' = u) <=> (jobs'[u] # None /\ jobs'[u].step \in Holding)
    BY <1>5, <1>6, <1>7, Assumption DEF Holding
  <2>2. lock' \in Threads \union {None}
    BY <1>5
  <2> QED BY <1>3, <1>4, <1>6, <2>1, <2>2 DEF HInv, TypeOK, At, Holding
<1>9. JobOK(t)' /\ Contextual(t)' = (job # None /\ job.rest # {} => job.base # None)
  <2>1. job # None => Row(t)' = Row(t)
    BY <1>5, <1>6 DEF Row
  <2>2. job # None => job.step \in Holding
    BY <1>5 DEF Holding
  <2> QED BY <1>2, <1>3, <1>5, <1>6, <2>1 DEF JobOK, Contextual, Holding
<1>10. ASSUME NEW u \in Threads, u # t
       PROVE  JobOK(u)' /\ (Contextual(u)' <=> Contextual(u))
  BY <1>6, <1>7, <1>10 DEF HInv, JobOK, Contextual, Holding
<1>11. SessionsOnly'
  BY <1>1, <1>3, <1>4, <1>5, <1>9, <1>10 DEF HInv, SessionsOnly, Contextual
<1> QED BY <1>3, <1>8, <1>9, <1>10, <1>11 DEF HInv

-----------------------------------------------------------------------------
(* One lemma per action.                                                    *)

LEMMA JobReads ==
    ASSUME HInv, NEW t \in Threads, jobs[t] # None
    PROVE  /\ jobs[t] \in JobRecords /\ JobOK(t)
           /\ jobs[t].step \in Holding => lock = t
           /\ None \notin Contexts => VisibleIsDurable /\ Contextual(t)
  BY LockHeld DEF HInv, TypeOK, SessionsOnly

\* A thread that has no use for the lock yet.
LEMMA WaitingHInv ==
    ASSUME HInv, NEW t \in Threads, lock # t, NEW job \in JobRecords, Goes(t, job),
           UNCHANGED <<components, lock, now, durable>>,
           \/ job.step = "waiting" /\ job.component \in Components /\ job.material \in Materials
           \/ job.step = "expiring" /\ job.rest # {},
           None \notin Contexts =>
             /\ job.step = "waiting" => job.context # None
             /\ job.rest # {} => job.base # None
    PROVE  HInv'
<1>1. jobs'[t] = job /\ UNCHANGED <<components, history>> /\ ~(job.step \in Holding)
  BY DEF HInv, TypeOK, Goes, durable, Holding
<1>2. JobOK(t)' /\ (None \notin Contexts => Contextual(t)')
  BY <1>1 DEF JobOK, Contextual, Holding
<1>3. None \notin Contexts => VisibleIsDurable'
  BY <1>1, SameVisible DEF HInv, SessionsOnly
<1>4. components' \in [Components -> Observations] /\ lock' # t
  BY DEF HInv, TypeOK
<1> QED BY <1>1, <1>2, <1>3, <1>4, Quiet

LEMMA ReportHInv ==
    ASSUME HInv, NEW t \in Threads, NEW c \in Components, NEW m \in Reports,
           NEW x \in Contexts, Report(t, c, m, x)
    PROVE  HInv'
<1> DEFINE job == Reporting(c, m, x, None, {})
<1>1. lock # t
  BY DEF HInv, TypeOK, Report, At
<1>2. x \in [key : AllKeys, expected : Nat] \union {None} /\ m \in Materials
  BY Assumption DEF AllKeys
<1>3. job \in JobRecords
  BY <1>2 DEF JobRecords, Reporting
<1>4. job.step = "waiting" /\ job.component = c /\ job.material = m /\ job.context = x
      /\ job.rest = {}
  BY DEF Reporting
<1>5. Goes(t, job) /\ UNCHANGED <<components, lock, now, durable>>
  BY DEF Report
<1> HIDE DEF job
<1> QED BY <1>1, <1>2, <1>3, <1>4, <1>5, WaitingHInv

LEMMA ExpireHInv ==
    ASSUME HInv, NEW t \in Threads, NEW x \in Contexts, Expire(t, x)
    PROVE  HInv'
<1> DEFINE late == {c \in Components : Snapshot[c].reason = "timeout"}
           job == Looping(x, late)
<1>1. lock # t /\ lock = None
  BY DEF HInv, TypeOK, Expire, At
<1>2. late \in SUBSET Components
  OBVIOUS
<1>3. Goes(t, IF late = {} THEN None ELSE job) /\ UNCHANGED <<components, lock, now, durable>>
  BY DEF Expire
<1> HIDE DEF late
<1>4. CASE late = {}
  <2>1. Raise(t)
    BY <1>1, <1>3, <1>4 DEF Raise
  <2> QED BY <1>1, <1>3, <2>1, RaiseHInv
<1>5. CASE late # {}
  <2>1. job \in JobRecords
    BY <1>2 DEF JobRecords, Looping
  <2>2. job.step = "expiring" /\ job.rest = late /\ job.base = x
    BY DEF Looping
  <2> HIDE DEF job
  <2>3. Goes(t, job)
    BY <1>3, <1>5
  <2> QED BY <1>1, <1>3, <1>5, <2>1, <2>2, <2>3, WaitingHInv
<1> QED BY <1>4, <1>5

LEMMA NextExpiryHInv ==
    ASSUME HInv, NEW t \in Threads, NextExpiry(t)
    PROVE  HInv'
<1> DEFINE c == Min(jobs[t].rest)
           x == DerivedContext(jobs[t].base, c)
           job == Reporting(c, TimedOut, x, jobs[t].base, jobs[t].rest \ {c})
<1>1. /\ jobs[t] # None /\ jobs[t].step = "expiring" /\ jobs[t] \in JobRecords /\ lock # t
      /\ jobs[t].rest # {} /\ jobs[t].rest \in SUBSET Components
      /\ jobs[t].base \in Contexts \union {None}
      /\ None \notin Contexts => jobs[t].base # None
  BY JobReads DEF NextExpiry, At, HInv, TypeOK, JobOK, JobRecords, Contextual
<1>2. c \in Components
  BY <1>1, MinIsLeast, Assumption
<1>3. /\ x \in [key : AllKeys, expected : Nat] \union {None}
      /\ jobs[t].base # None => x # None
  <2>1. CASE jobs[t].base = None
    BY <2>1 DEF DerivedContext
  <2>2. CASE jobs[t].base # None
    <3>1. jobs[t].base \in [key : Keys, expected : Nat]
      BY <1>1, <2>2, Assumption
    <3>2. x \in [key : AllKeys, expected : Nat]
      BY <1>2, <2>2, <3>1 DEF DerivedContext, AllKeys
    <3> QED BY <3>2, Assumption
  <2> QED BY <2>1, <2>2
<1>4. TimedOut \in Materials
  BY DEF TimedOut, Materials
<1>5. Goes(t, job) /\ UNCHANGED <<components, lock, now, durable>>
  BY DEF NextExpiry
<1> HIDE DEF x, c
<1>6. job \in JobRecords
  BY <1>1, <1>2, <1>3, <1>4 DEF JobRecords, Reporting
<1>7. job.step = "waiting" /\ job.component = c /\ job.material = TimedOut
      /\ job.context = x /\ job.base = jobs[t].base
  BY DEF Reporting
<1> HIDE DEF job
<1> QED BY <1>1, <1>2, <1>3, <1>4, <1>5, <1>6, <1>7, WaitingHInv

LEMMA ObserveHInv ==
    ASSUME HInv, NEW t \in Threads, Observe(t)
    PROVE  HInv'
<1> DEFINE c == jobs[t].component
           o == [material |-> jobs[t].material, at |-> now]
           job == [jobs[t] EXCEPT !.step = "reading", !.at = now, !.old = LatestHealth(c)]
<1>1. /\ jobs[t] # None /\ jobs[t].step = "waiting" /\ jobs[t] \in JobRecords /\ lock = None
      /\ jobs[t].component \in Components /\ jobs[t].material \in Materials
      /\ None \notin Contexts => VisibleIsDurable /\ Contextual(t)
  BY JobReads DEF Observe, At, JobOK
<1>2. o \in Observations /\ now \in Times /\ UNCHANGED <<now, durable>>
  BY <1>1 DEF HInv, TypeOK, Observations, Observe
<1>3. CASE Raise(t)
  BY <1>1, <1>2, <1>3, RaiseHInv
<1>4. CASE jobs[t].context = None /\ Install(t, o)
  <2>1. None \in Contexts
    BY <1>1, <1>4 DEF Contextual
  <2> HIDE DEF o
  <2> QED BY <1>1, <1>2, <1>4, <2>1, InstallHInv
<1>5. CASE jobs[t].context # None /\ Goes(t, job) /\ lock' = t /\ UNCHANGED components
  <2>1. LatestHealth(c) \in Observations \union {None}
    BY LatestIsHealth DEF HInv, LatestHealth
  <2>2. job \in JobRecords
    BY <1>1, <1>2, <2>1 DEF JobRecords
  <2>3. /\ job.step = "reading" /\ job.component = c /\ job.material = jobs[t].material
        /\ job.context = jobs[t].context /\ job.at = now /\ job.old = LatestHealth(c)
        /\ job.rest = jobs[t].rest /\ job.base = jobs[t].base
    BY <1>1 DEF JobRecords
  <2> HIDE DEF job
  <2>4. jobs'[t] = job /\ UNCHANGED <<components, history>>
    BY <1>2, <1>5 DEF HInv, TypeOK, Goes, durable
  <2>5. LatestHealth(jobs[t].component)' = LatestHealth(c)
    <3>1. jobs'[t].component = c
      BY <2>3, <2>4
    <3> QED BY <2>4, <3>1 DEF LatestHealth, HealthOf
  <2>6. JobOK(t)'
    BY <1>1, <1>2, <1>5, <2>3, <2>4, <2>5 DEF JobOK
  <2>7. None \notin Contexts => VisibleIsDurable' /\ Contextual(t)'
    BY <1>1, <2>3, <2>4, SameVisible DEF Contextual
  <2>8. components' \in [Components -> Observations] /\ job # None
    BY <2>2, <2>4, Assumption DEF HInv, TypeOK
  <2> QED BY <1>1, <1>2, <1>5, <2>2, <2>3, <2>6, <2>7, <2>8, Quiet DEF Holding
<1> QED BY <1>3, <1>4, <1>5 DEF Observe

LEMMA LoadSessionHInv ==
    ASSUME HInv, NEW t \in Threads, LoadSession(t)
    PROVE  HInv'
<1> DEFINE job == [jobs[t] EXCEPT !.step = "committing", !.sim = session.sim]
<1>1. /\ jobs[t] # None /\ jobs[t].step = "reading" /\ jobs[t] \in JobRecords /\ lock = t
      /\ JobOK(t) /\ (None \notin Contexts => VisibleIsDurable /\ Contextual(t))
  BY JobReads DEF LoadSession, At, Holding
<1>2. job \in JobRecords
  BY <1>1 DEF JobRecords, HInv, TypeOK
<1>3. /\ job.step = "committing" /\ job.component = jobs[t].component
      /\ job.material = jobs[t].material /\ job.context = jobs[t].context
      /\ job.at = jobs[t].at /\ job.old = jobs[t].old
      /\ job.rest = jobs[t].rest /\ job.base = jobs[t].base
  BY <1>1 DEF JobRecords
<1>4. Goes(t, job) /\ UNCHANGED <<components, lock, now, durable>>
  BY DEF LoadSession
<1> HIDE DEF job
<1>5. jobs'[t] = job /\ UNCHANGED <<components, history>> /\ job # None
  BY <1>2, <1>4, Assumption DEF HInv, TypeOK, Goes, durable
<1>6. LatestHealth(jobs[t].component)' = LatestHealth(jobs[t].component)
  <2>1. jobs'[t].component = jobs[t].component
    BY <1>3, <1>5
  <2> QED BY <1>5, <2>1 DEF LatestHealth, HealthOf
<1>7. JobOK(t)'
  BY <1>1, <1>3, <1>5, <1>6 DEF JobOK, Holding
<1>8. None \notin Contexts => VisibleIsDurable' /\ Contextual(t)'
  BY <1>1, <1>3, <1>5, SameVisible DEF Contextual
<1>9. components' \in [Components -> Observations] /\ lock' = t
  BY <1>1, <1>4 DEF HInv, TypeOK
<1> QED BY <1>2, <1>3, <1>4, <1>5, <1>7, <1>8, <1>9, Quiet DEF Holding

\* A retry of the same input continues with the second read.
LEMMA RetryHInv ==
    ASSUME HInv, NEW t \in Threads, At(t, "committing"),
           answers[jobs[t].context.key] = Row(t), Committed(t), UNCHANGED <<now, durable>>
    PROVE  HInv'
<1> DEFINE job == [jobs[t] EXCEPT !.step = "installing", !.at = None, !.old = None,
                                  !.sim = None]
<1>1. /\ jobs[t] # None /\ jobs[t].step = "committing" /\ jobs[t] \in JobRecords /\ lock = t
      /\ JobOK(t) /\ (None \notin Contexts => VisibleIsDurable /\ Contextual(t))
  BY JobReads DEF At, Holding
<1>2. job \in JobRecords
  BY <1>1 DEF JobRecords
<1>3. /\ job.step = "installing" /\ job.component = jobs[t].component
      /\ job.material = jobs[t].material /\ job.context = jobs[t].context
      /\ job.rest = jobs[t].rest /\ job.base = jobs[t].base
  BY <1>1 DEF JobRecords
<1>4. Goes(t, job) /\ UNCHANGED <<components, lock, now, durable>>
  BY DEF Committed
<1> HIDE DEF job
<1>5. jobs'[t] = job /\ UNCHANGED <<components, history, answers>> /\ job # None
  BY <1>2, <1>4, Assumption DEF HInv, TypeOK, Goes, durable
<1>6. Row(t)' = Row(t)
  BY <1>3, <1>5 DEF Row
<1>7. JobOK(t)'
  BY <1>1, <1>3, <1>5, <1>6 DEF JobOK, Holding
<1>8. None \notin Contexts => VisibleIsDurable' /\ Contextual(t)'
  BY <1>1, <1>3, <1>5, SameVisible DEF Contextual
<1>9. components' \in [Components -> Observations] /\ lock' = t
  BY <1>1, <1>4 DEF HInv, TypeOK
<1> QED BY <1>2, <1>3, <1>4, <1>5, <1>7, <1>8, <1>9, Quiet DEF Holding

\* A heartbeat without news installs what the history already says.
LEMMA HeartbeatHInv ==
    ASSUME HInv, NEW t \in Threads, At(t, "committing"), ~Changed(t),
           Install(t, Candidate(t)), UNCHANGED <<now, durable>>
    PROVE  HInv'
<1> DEFINE c == jobs[t].component
<1>1. /\ jobs[t] # None /\ jobs[t].step = "committing" /\ lock = t
      /\ jobs[t].material \in Materials /\ jobs[t].at \in Times
      /\ jobs[t].old = LatestHealth(c)
  BY JobReads DEF At, Holding, JobOK
<1>2. Candidate(t) \in Observations /\ Candidate(t).material = jobs[t].material
  BY <1>1 DEF Candidate, Observations
<1>3. LatestHealth(c) # None /\ LatestHealth(c).material = jobs[t].material
  BY <1>1 DEF Changed
<1>4. \E i \in HealthOf(c) : LatestHealth(c) = history[i].health
  BY <1>3, LatestIsHealth DEF HInv, LatestHealth
<1>5. \E i \in HealthOf(c) : history[i].health.material = Candidate(t).material
  BY <1>2, <1>3, <1>4
<1> QED BY <1>1, <1>2, <1>5, InstallHInv

LEMMA CommitHealthHInv ==
    ASSUME HInv, NEW t \in Threads, CommitHealth(t)
    PROVE  HInv'
<1>1. At(t, "committing") /\ Decide(t) /\ UNCHANGED now /\ lock = t
  BY JobReads DEF CommitHealth, At, Holding
<1>2. CASE answers[jobs[t].context.key] # None
  BY <1>1, <1>2, RetryHInv, RaiseHInv DEF Decide, durable
<1>3. CASE answers[jobs[t].context.key] = None
  BY <1>1, <1>3, RaiseHInv, HeartbeatHInv, WriteHInv DEF Decide, durable
<1> QED BY <1>2, <1>3

LEMMA CommitFailsHInv ==
    ASSUME HInv, NEW t \in Threads, CommitFails(t)
    PROVE  HInv'
<1>1. At(t, "committing") /\ Raise(t) /\ UNCHANGED now /\ lock = t
  BY JobReads DEF CommitFails, At, Holding
<1> QED BY <1>1, RaiseHInv, WriteHInv DEF CommitFails, durable

LEMMA InstallDurableHInv ==
    ASSUME HInv, NEW t \in Threads, InstallDurable(t)
    PROVE  HInv'
<1> DEFINE c == jobs[t].component
           k == jobs[t].context.key
<1>1. /\ jobs[t] # None /\ jobs[t].step = "installing" /\ lock = t /\ jobs[t] \in JobRecords
      /\ answers[k] = Row(t) /\ jobs[t].context # None
      /\ jobs[t].component \in Components /\ jobs[t].material \in Materials
  BY JobReads DEF InstallDurable, At, Holding, JobOK
<1>2. k \in AllKeys /\ Row(t) \in Rows /\ Row(t).component = c
  BY <1>1 DEF JobRecords, Row, Rows
<1>3. HealthOf(c) # {}
  BY <1>1, <1>2, Assumption DEF HInv, Kept
<1>4. /\ LatestHealth(c) \in Observations
      /\ \E i \in HealthOf(c) : history[i].health.material = LatestHealth(c).material
  BY <1>3, LatestIsHealth DEF HInv
<1>5. Install(t, LatestHealth(c)) /\ UNCHANGED <<now, durable>>
  BY DEF InstallDurable
<1> QED BY <1>1, <1>4, <1>5, InstallHInv

LEMMA ReadFailsHInv ==
    ASSUME HInv, NEW t \in Threads, ReadFails(t)
    PROVE  HInv'
  BY JobReads, RaiseHInv DEF ReadFails, At, Holding

\* Whoever is inside report() keeps what it has established while other state
\* than the history, the registry's jobs and the retry records moves.
LEMMA ClockHInv ==
    ASSUME HInv, Clock \/ SessionCommand
    PROVE  HInv'
<1>1. UNCHANGED <<components, lock, jobs, history, answers>>
  BY DEF Clock, SessionCommand, durable
<1>2. now' \in Times
      /\ session' \in [version : 1..MaxVersion, sim : {0, 1}, updated : Times]
  <2>1. CASE Clock
    BY <2>1 DEF HInv, TypeOK, Clock, durable
  <2>2. CASE SessionCommand
    <3>1. PICK sim \in {session.sim, 1} :
            session' = [version |-> session.version + 1, sim |-> sim, updated |-> now]
      BY <2>2 DEF SessionCommand
    <3>2. session.version \in 1..MaxVersion /\ session.sim \in {0, 1} /\ now \in Times
          /\ session.version < MaxVersion
      BY <2>2 DEF HInv, TypeOK, SessionCommand
    <3>3. session.version + 1 \in 1..MaxVersion
      BY <3>2, Assumption
    <3> QED BY <2>2, <3>1, <3>2, <3>3 DEF SessionCommand
  <2> QED BY <2>1, <2>2
<1>3. TypeOK'
  BY <1>1, <1>2 DEF HInv, TypeOK, At
<1>4. Kept' /\ ChainCoherent' /\ (VisibleIsDurable => VisibleIsDurable')
  BY <1>1, SameHistory, SameVisible DEF HInv, Kept
<1>5. ASSUME NEW t \in Threads
      PROVE  JobOK(t)' /\ (Contextual(t) => Contextual(t)')
  <2>1. LatestHealth(jobs[t].component)' = LatestHealth(jobs[t].component)
    BY <1>1 DEF LatestHealth, HealthOf
  <2>2. JobOK(t)
    BY DEF HInv
  <2> QED BY <1>1, <2>1, <2>2 DEF JobOK, Contextual, Row
<1> QED BY <1>3, <1>4, <1>5 DEF HInv, SessionsOnly

\* After a restart nobody is inside report(), and only the history is left.
LEMMA RestartHInv ==
    ASSUME HInv, Restart
    PROVE  HInv'
<1>1. /\ jobs' = [t \in Threads |-> None] /\ lock' = None /\ UNCHANGED <<now, durable>>
      /\ components' = [c \in Components |-> [material |-> Starting, at |-> now]]
  BY DEF Restart
<1>2. Starting \in Materials
  BY DEF Starting, Materials
<1>3. TypeOK'
  <2>1. components' \in [Components -> Observations]
    BY <1>1, <1>2 DEF HInv, TypeOK, Observations
  <2>2. jobs' \in [Threads -> JobRecords \union {None}] /\ \A t \in Threads : jobs'[t] = None
    BY <1>1
  <2> QED BY <1>1, <2>1, <2>2, Assumption DEF HInv, TypeOK, At, durable
<1>4. Kept' /\ ChainCoherent' /\ VisibleIsDurable'
  BY <1>1, SameHistory DEF HInv, Kept, VisibleIsDurable, durable
<1>5. \A t \in Threads : JobOK(t)' /\ Contextual(t)'
  BY <1>1 DEF JobOK, Contextual
<1> QED BY <1>3, <1>4, <1>5 DEF HInv, SessionsOnly

LEMMA InitHInv == Init => HInv
<1> SUFFICES ASSUME Init
             PROVE  HInv
  OBVIOUS
<1>1. Starting \in Materials /\ 0 \in Times /\ 1 \in 1..MaxVersion
  BY Assumption DEF Starting, Materials, Times
<1>2. TypeOK
  <2>1. components \in [Components -> Observations]
    BY <1>1 DEF Init, Observations
  <2>2. history \in Seq(HealthEvents)
    BY DEF Init
  <2> QED BY <1>1, <2>1, <2>2, Assumption DEF Init, TypeOK, At
<1>3. ChainCoherent /\ Kept /\ VisibleIsDurable
  BY DEF Init, ChainCoherent, Kept, VisibleIsDurable
<1>4. \A t \in Threads : JobOK(t) /\ Contextual(t)
  BY DEF Init, JobOK, Contextual
<1> QED BY <1>2, <1>3, <1>4 DEF HInv, SessionsOnly

LEMMA StepHInv == HInv /\ [Next]_vars => HInv'
<1> SUFFICES ASSUME HInv, [Next]_vars
             PROVE  HInv'
  OBVIOUS
<1>1. ASSUME NEW t \in Threads, NEW c \in Components, NEW m \in Reports, NEW x \in Contexts,
             Report(t, c, m, x)
      PROVE  HInv'
  BY <1>1, ReportHInv
<1>2. ASSUME NEW t \in Threads, NEW x \in Contexts, Expire(t, x)
      PROVE  HInv'
  BY <1>2, ExpireHInv
<1>3. ASSUME NEW t \in Threads, JobStep(t)
      PROVE  HInv'
  BY <1>3, NextExpiryHInv, ObserveHInv, LoadSessionHInv, CommitHealthHInv, CommitFailsHInv,
     InstallDurableHInv, ReadFailsHInv DEF JobStep
<1>4. CASE SessionCommand \/ Clock
  BY <1>4, ClockHInv
<1>5. CASE Restart
  BY <1>5, RestartHInv
<1>6. CASE UNCHANGED vars
  <2>1. UNCHANGED <<components, lock, jobs, now, session, history, answers>>
    BY <1>6 DEF vars
  <2>2. ASSUME NEW t \in Threads
        PROVE  JobOK(t)' = JobOK(t) /\ Contextual(t)' = Contextual(t)
    <3>1. LatestHealth(jobs[t].component)' = LatestHealth(jobs[t].component)
      BY <2>1 DEF LatestHealth, HealthOf
    <3> QED BY <2>1, <3>1 DEF JobOK, Contextual, Row
  <2> QED BY <2>1, <2>2, SameHistory, SameVisible DEF HInv, TypeOK, At, Kept, SessionsOnly
<1> QED BY <1>1, <1>2, <1>3, <1>4, <1>5, <1>6 DEF Next

-----------------------------------------------------------------------------
(* What is proved of the registry.                                          *)

LEMMA Invariance == Spec => []HInv
<1>1. Init => HInv
  BY InitHInv
<1>2. HInv /\ [Next]_vars => HInv'
  BY StepHInv
<1> QED BY <1>1, <1>2, PTL DEF Spec

\* Every state is well typed, and the lock is held exactly by the thread that is
\* between taking it in report() and leaving report().
THEOREM TypeCorrect == Spec => []TypeOK
<1>1. HInv => TypeOK
  BY DEF HInv
<1> QED BY <1>1, Invariance, PTL

\* The durable health of every component is a chain of material changes, across
\* retries, unknown commit outcomes and restarts: nothing that report() compares
\* with can be out of date when it writes.
THEOREM HealthIsChained == Spec => []ChainCoherent
<1>1. HInv => ChainCoherent
  BY DEF HInv
<1> QED BY <1>1, Invariance, PTL

\* Where every report belongs to a session, the registry shows a health only
\* after it is in the durable history.
THEOREM SeenOnlyWhenDurable ==
    ASSUME None \notin Contexts
    PROVE  Spec => []VisibleIsDurable
<1>1. HInv => VisibleIsDurable
  BY DEF HInv, SessionsOnly
<1> QED BY <1>1, Invariance, PTL

\* A report whose key had been answered for another input installs nothing.
THEOREM KeysBindTheirInput == Spec => KeyBindsInput
<1>1. ASSUME HInv, [Next]_vars, NEW t \in Threads, lock = t, components' # components, ~Restart
      PROVE  answers[jobs[t].context.key] \in {None, Row(t)}
  <2>1. PICK u \in Threads : JobStep(u)
    <3>1. ~(UNCHANGED vars) /\ ~SessionCommand /\ ~Clock
      BY <1>1 DEF vars, SessionCommand, Clock
    <3> QED BY <1>1, <3>1 DEF Next, Report, Expire
  <2>2. ~Observe(u)
    BY <1>1, Assumption DEF Observe
  <2>3. CommitHealth(u) \/ InstallDurable(u)
    BY <1>1, <2>1, <2>2 DEF JobStep, NextExpiry, LoadSession, CommitFails, ReadFails, Raise
  <2>4. u = t /\ JobOK(t) /\ jobs[t] # None
    BY <1>1, <2>3, JobReads DEF CommitHealth, InstallDurable, At, Holding
  <2>5. CASE CommitHealth(t)
    BY <1>1, <2>5 DEF CommitHealth, Decide, Committed, Raise
  <2>6. CASE InstallDurable(t)
    BY <2>4, <2>6 DEF JobOK, InstallDurable, At
  <2> QED BY <2>3, <2>4, <2>5, <2>6
<1>2. HInv /\ [Next]_vars =>
        [\A t \in Threads : lock = t /\ components' # components /\ ~Restart =>
           answers[jobs[t].context.key] \in {None, Row(t)}]_vars
  BY <1>1
<1> QED BY <1>2, Invariance, PTL DEF Spec, KeyBindsInput
=============================================================================
