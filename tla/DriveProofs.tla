---------------------------- MODULE DriveProofs ----------------------------
(***************************************************************************)
(* The safety of Drive for any number of threads, callables, iterations    *)
(* and mutators, and however calls end.                                    *)
(***************************************************************************)
EXTENDS Drive, DataLemmas

\* The counters' lock is held exactly by a thread inside record(), and what it
\* loaded is still the total.
LockInv ==
  \A t \in Tasks : /\ at[t] \in {"store", "close"} <=> lock = t
                   /\ at[t] = "store" => loaded[t] = total

\* The one call that may be counted without its outcome yet.
HalfRecorded(q) == lock # NoOne /\ at[lock] = "close" /\ doing[lock] = q
TallyInv ==
  \A q \in Quals : calls[q] =
    returned[q] + raised[q] + (IF HalfRecorded(q) THEN 1 ELSE 0)

\* Published counts lag behind pending ones, and those behind the counters.
FileInv ==
  /\ AtMost(saved.counts, Tally)
  /\ snap # NoSnap => AtMost(saved.counts, snap) /\ AtMost(snap, Tally)
  /\ saved.pairs <= pairs /\ pairs = driven

\* Who is running, and who holds _WRITE_LOCK, at each point of the main thread.
PhaseInv ==
  /\ pc \notin {"join", "reap"} => SideEnded
  /\ pc # "join" => \A w \in Workers : at[w] = "ended"
  /\ snap # NoSnap <=> pc \in {"publish", "last"} \/ hb = "publish"

\* The line names the phase, and so does what the heartbeat will write next.
LineInv ==
  /\ seen.count <= total
  /\ hb # "ended" => seen.step = step
  /\ hb = "say" => line.text = "torn"
  /\ LineNamesThePhase

\* No worker is past the barrier while another is still before it.
BarrierInv ==
  (\E w \in Workers : at[w] \in {"loop", "call", "record", "store", "close", "stuck"})
    => \A w \in Workers : at[w] \notin {"start", "barrier"}

IInv == TypeOK /\ LockInv /\ TallyInv /\ SavedAgrees /\ FileInv /\ PhaseInv /\ LineInv /\ BarrierInv

-----------------------------------------------------------------------------
(* Facts about the constants. *)

\* The callables run_phase hands a worker are callables of the group.
LEMMA WorkIsCalls == \A w \in Workers, s \in Steps : Work(w, s) \subseteq CallIds
BY DriveAssumption DEF Work, Steps, Pairs, Mix, CallIds

LEMMA MixIsAStep == Mix \in Steps /\ Pairs \subseteq Steps
BY DEF Steps

LEMMA MutatorsAreNot == Mutators \cap Workers = {} /\ Workers \subseteq Tasks /\ Mutators \subseteq Tasks /\ 1 \in Quals
BY DriveAssumption DEF Workers, Tasks, Quals, CallIds

-----------------------------------------------------------------------------
\* Every variable keeps its type: counters never leave the naturals, and the
\* result file always holds a complete table of counts.
LEMMA TypeStep == TypeOK /\ [Next]_vars => TypeOK'
<1> SUFFICES ASSUME TypeOK, [Next]_vars PROVE TypeOK'
  OBVIOUS
<1> USE MixIsAStep, MutatorsAreNot
    DEF TypeOK, Counts, Tally, mainVars, counterVars, taskVars, fileVars, beatVars
<1>1. ASSUME Main PROVE TypeOK'
  <2>1. CASE NextPair
    BY <2>1 DEF NextPair, Torn
  <2>5. CASE NextMix
    BY <2>5 DEF NextMix, Torn
  <2>6. CASE Return
    BY <2>6 DEF Return
  <2>7. CASE Say
    BY <2>7 DEF Say, Said
  <2>2. CASE StartThreads
    BY <2>2, DriveAssumption DEF StartThreads
  <2>3. CASE JoinWorkers
    BY <2>3 DEF JoinWorkers
  <2>10. CASE SkipWrite
    BY <2>10 DEF SkipWrite
  <2>9. CASE JoinSide
    BY <2>9 DEF JoinSide
  <2>4. CASE MainSnapshot
    BY <2>4 DEF MainSnapshot, Snapshot
  <2>8. CASE MainPublish
    BY <2>8 DEF MainPublish, Publish
  <2> QED BY <1>1, <2>1, <2>2, <2>3, <2>4, <2>5, <2>6, <2>7, <2>8, <2>9, <2>10 DEF Main
<1>2. ASSUME Heartbeat PROVE TypeOK'
  <2>1. CASE BeatOpen
    BY <2>1 DEF BeatOpen, Torn
  <2>2. CASE BeatSay
    BY <2>2 DEF BeatSay, Said
  <2>3. CASE BeatSnapshot
    BY <2>3 DEF BeatSnapshot, Snapshot
  <2>4. CASE BeatSkips \/ BeatEnds
    BY <2>4 DEF BeatSkips, BeatEnds
  <2>5. CASE BeatPublish
    BY <2>5 DEF BeatPublish, Publish
  <2> QED BY <1>2, <2>1, <2>2, <2>3, <2>4, <2>5 DEF Heartbeat
<1>3. ASSUME NEW t \in Tasks, Record(t) PROVE TypeOK'
  <2>1. CASE RecordLoad(t)
    BY <2>1 DEF RecordLoad
  <2>2. CASE RecordCall(t)
    BY <2>2 DEF RecordCall, Counts, Tally
  <2>3. CASE RecordEnding(t)
    BY <2>3 DEF RecordEnding, Counts, Tally
  <2>4. CASE CallEnds(t)
    BY <2>4, DriveAssumption DEF CallEnds
  <2> QED BY <1>3, <2>1, <2>2, <2>3, <2>4 DEF Record
<1>4. ASSUME NEW w \in Workers, Worker(w) PROVE TypeOK'
  <2>1. CASE Arrive(w)
    BY <2>1 DEF Arrive
  <2>2. CASE WorkerCalls(w)
    BY <2>2, WorkIsCalls DEF WorkerCalls, Quals
  <2>3. CASE WorkerEnds(w)
    BY <2>3 DEF WorkerEnds
  <2> QED BY <1>3, <1>4, <2>1, <2>2, <2>3 DEF Worker
<1>5. ASSUME NEW m \in Mutators, Mutator(m) PROVE TypeOK'
  <2>1. CASE MutatorCalls(m)
    BY <2>1 DEF MutatorCalls
  <2>2. CASE MutatorEnds(m)
    BY <2>2 DEF MutatorEnds
  <2> QED BY <1>3, <1>5, <2>1, <2>2 DEF Mutator, Tasks
<1>6. CASE DeadlinePasses
  BY <1>6 DEF DeadlinePasses
<1>7. CASE UNCHANGED vars
  BY <1>7 DEF vars
<1> QED BY <1>1, <1>2, <1>4, <1>5, <1>6, <1>7 DEF Next, Returned
-----------------------------------------------------------------------------
(* What a step of each kind leaves alone. *)

LEMMA MainFrame ==
  Main => UNCHANGED <<counterVars, doing>> /\ (StartThreads \/ UNCHANGED <<at, beatVars>>)
BY DEF Main, NextPair, NextMix, Return, Say, StartThreads, JoinWorkers, JoinSide, SkipWrite,
       MainSnapshot, MainPublish, counterVars, taskVars, beatVars

LEMMA BeatFrame == Heartbeat => UNCHANGED <<mainVars, counterVars, at, doing>>
BY DEF Heartbeat, BeatOpen, BeatSay, BeatSnapshot, BeatSkips, BeatPublish, BeatEnds, taskVars

LEMMA TaskFrame ==
  ASSUME NEW t \in Tasks, Record(t) \/ (t \in Workers /\ Worker(t)) \/ (t \in Mutators /\ Mutator(t))
  PROVE  UNCHANGED <<mainVars, late, beatVars, fileVars>>
BY DEF Record, RecordLoad, RecordCall, RecordEnding, CallEnds, Worker, Arrive, WorkerCalls,
       WorkerEnds, Mutator, MutatorCalls, MutatorEnds

-----------------------------------------------------------------------------
\* record() is a critical section: one thread holds the lock while it adds.
LEMMA LockStep == IInv /\ [Next]_vars => LockInv'
<1> SUFFICES ASSUME IInv, [Next]_vars, NEW t \in Tasks
             PROVE  /\ at'[t] \in {"store", "close"} <=> lock' = t
                    /\ at'[t] = "store" => loaded'[t] = total'
  BY DEF LockInv
<1> USE MutatorsAreNot DEF IInv, LockInv, counterVars
<1>1. ASSUME Main PROVE LockInv!(t)'
  <2>1. CASE StartThreads
    BY <1>1, <2>1, MainFrame DEF StartThreads, PhaseInv, SideEnded, TypeOK, Tasks
  <2>2. CASE UNCHANGED at
    BY <1>1, <2>2, MainFrame
  <2> QED BY <1>1, <2>1, <2>2, MainFrame
<1>2. CASE Heartbeat
  BY <1>2, BeatFrame
<1>3. ASSUME NEW u \in Tasks, Record(u) PROVE LockInv!(t)'
  <2> USE DriveAssumption DEF TypeOK
  <2>1. CASE RecordLoad(u)
    BY <2>1 DEF RecordLoad
  <2>2. CASE RecordCall(u)
    BY <2>2 DEF RecordCall
  <2>3. CASE RecordEnding(u)
    BY <2>3 DEF RecordEnding
  <2>4. CASE CallEnds(u)
    BY <2>4 DEF CallEnds
  <2> QED BY <1>3, <2>1, <2>2, <2>3, <2>4 DEF Record
<1>4. ASSUME NEW w \in Workers, Worker(w) PROVE LockInv!(t)'
  <2>1. CASE Arrive(w)
    BY <2>1 DEF Arrive, TypeOK
  <2>2. CASE WorkerCalls(w) \/ WorkerEnds(w)
    BY <2>2 DEF WorkerCalls, WorkerEnds, TypeOK
  <2> QED BY <1>3, <1>4, <2>1, <2>2 DEF Worker
<1>5. ASSUME NEW m \in Mutators, Mutator(m) PROVE LockInv!(t)'
  <2>1. CASE MutatorCalls(m) \/ MutatorEnds(m)
    BY <2>1 DEF MutatorCalls, MutatorEnds, TypeOK
  <2> QED BY <1>3, <1>5, <2>1 DEF Mutator
<1>6. CASE DeadlinePasses
  BY <1>6 DEF DeadlinePasses, taskVars
<1>7. CASE UNCHANGED vars
  BY <1>7 DEF vars, taskVars
<1> QED BY <1>1, <1>2, <1>4, <1>5, <1>6, <1>7 DEF Next, Returned

-----------------------------------------------------------------------------
\* Counts and outcomes differ by the one call being recorded, and by none when
\* a snapshot is taken.
LEMMA TallyStep == IInv /\ [Next]_vars => TallyInv'
<1> SUFFICES ASSUME IInv, [Next]_vars, NEW q \in Quals PROVE TallyInv!(q)'
  BY DEF TallyInv
<1> USE MutatorsAreNot DEF IInv, TallyInv, HalfRecorded, LockInv
<1>0. TallyInv!(q) /\ lock \in Tasks \cup {NoOne} /\ NoOne \notin Tasks
  BY DriveAssumption DEF TypeOK
<1>1. ASSUME Main PROVE TallyInv!(q)'
  <2>1. CASE StartThreads
    <3>1. lock = NoOne
      BY <1>0, <2>1 DEF StartThreads, PhaseInv, SideEnded, Tasks, TypeOK
    <3> QED BY <1>0, <1>1, <3>1, MainFrame DEF counterVars
  <2>2. CASE UNCHANGED at
    BY <1>0, <1>1, <2>2, MainFrame DEF counterVars
  <2> QED BY <1>1, <2>1, <2>2, MainFrame
<1>2. CASE Heartbeat
  BY <1>0, <1>2, BeatFrame DEF counterVars
<1>3. ASSUME NEW u \in Tasks, Record(u) PROVE TallyInv!(q)'
  <2>1. CASE RecordLoad(u)
    BY <1>0, <2>1 DEF RecordLoad, TypeOK
  <2>2. CASE RecordCall(u)
    <3>1. lock = u /\ ~HalfRecorded(q) /\ lock' = u /\ at' = [at EXCEPT ![u] = "close"]
      BY <2>2 DEF RecordCall
    <3>2. calls' = [calls EXCEPT ![doing[u]] = @ + 1] /\ UNCHANGED <<returned, raised, doing>>
      BY <2>2 DEF RecordCall
    <3> QED BY <1>0, <3>1, <3>2 DEF TypeOK, Tally, Counts
  <2>3. CASE RecordEnding(u)
    <3>1. lock = u /\ at[u] = "close" /\ lock' = NoOne
      BY <2>3 DEF RecordEnding
    <3>2. UNCHANGED calls /\ \/ /\ returned' = [returned EXCEPT ![doing[u]] = @ + 1]
                                /\ UNCHANGED raised
                             \/ /\ raised' = [raised EXCEPT ![doing[u]] = @ + 1]
                                /\ UNCHANGED returned
      BY <2>3 DEF RecordEnding
    <3> QED BY <1>0, <3>1, <3>2 DEF TypeOK, Tally, Counts
  <2>4. CASE CallEnds(u)
    BY <1>0, <2>4 DEF CallEnds, TypeOK, counterVars
  <2> QED BY <1>3, <2>1, <2>2, <2>3, <2>4 DEF Record
<1>4. ASSUME NEW w \in Workers, Worker(w) PROVE TallyInv!(q)'
  <2>1. CASE Arrive(w)
    BY <1>0, <2>1 DEF Arrive, TypeOK, counterVars
  <2>2. CASE WorkerCalls(w) \/ WorkerEnds(w)
    BY <1>0, <2>2 DEF WorkerCalls, WorkerEnds, TypeOK, counterVars
  <2> QED BY <1>3, <1>4, <2>1, <2>2 DEF Worker
<1>5. ASSUME NEW m \in Mutators, Mutator(m) PROVE TallyInv!(q)'
  <2>1. CASE MutatorCalls(m) \/ MutatorEnds(m)
    BY <1>0, <2>1 DEF MutatorCalls, MutatorEnds, TypeOK, counterVars
  <2> QED BY <1>3, <1>5, <2>1 DEF Mutator
<1>6. CASE DeadlinePasses
  BY <1>0, <1>6 DEF DeadlinePasses, taskVars, counterVars
<1>7. CASE UNCHANGED vars
  BY <1>0, <1>7 DEF vars, taskVars, counterVars
<1> QED BY <1>1, <1>2, <1>4, <1>5, <1>6, <1>7 DEF Next, Returned

-----------------------------------------------------------------------------
(* The result file. *)

\* Tasks never touch a file and only add to the counts.
LEMMA CountsGrow ==
  ASSUME IInv, [Next]_vars
  PROVE  AtMost(Tally, Tally') /\ total <= total'
<1> USE MutatorsAreNot DEF IInv, TypeOK, Tally, Counts
<1>1. CASE UNCHANGED counterVars
  BY <1>1 DEF AtMost, counterVars
<1>2. ASSUME NEW u \in Tasks, Record(u) PROVE AtMost(Tally, Tally') /\ total <= total'
  <2>1. CASE RecordLoad(u)
    BY <2>1 DEF RecordLoad, AtMost
  <2>2. CASE RecordCall(u)
    BY <2>2 DEF RecordCall, AtMost, LockInv
  <2>3. CASE RecordEnding(u)
    BY <2>3 DEF RecordEnding, AtMost
  <2>4. CASE CallEnds(u)
    BY <2>4, <1>1 DEF CallEnds
  <2> QED BY <1>2, <2>1, <2>2, <2>3, <2>4 DEF Record
<1>3. ASSUME NEW w \in Workers, Worker(w) PROVE AtMost(Tally, Tally') /\ total <= total'
  BY <1>1, <1>2, <1>3 DEF Worker, Arrive, WorkerCalls, WorkerEnds
<1>4. ASSUME NEW m \in Mutators, Mutator(m) PROVE AtMost(Tally, Tally') /\ total <= total'
  BY <1>1, <1>2, <1>4 DEF Mutator, MutatorCalls, MutatorEnds
<1> QED BY <1>1, <1>3, <1>4, MainFrame, BeatFrame DEF Next, Returned, DeadlinePasses, vars

LEMMA AtMostTransitive ==
  \A a, b, c \in Counts : AtMost(a, b) /\ AtMost(b, c) => AtMost(a, c)
BY DEF Counts, AtMost

\* Only _write_result touches the result file and the counts it holds.
LEMMA FileFrame ==
  [Next]_vars => UNCHANGED <<snap, saved>> \/ Snapshot \/ Publish
<1> SUFFICES ASSUME [Next]_vars PROVE UNCHANGED <<snap, saved>> \/ Snapshot \/ Publish
  OBVIOUS
<1>1. ASSUME Main PROVE UNCHANGED <<snap, saved>> \/ Snapshot \/ Publish
  BY <1>1 DEF Main, NextPair, NextMix, Return, Say, StartThreads, JoinWorkers, JoinSide,
              SkipWrite, MainSnapshot, MainPublish, fileVars
<1>2. ASSUME Heartbeat PROVE UNCHANGED <<snap, saved>> \/ Snapshot \/ Publish
  BY <1>2 DEF Heartbeat, BeatOpen, BeatSay, BeatSnapshot, BeatSkips, BeatPublish, BeatEnds, fileVars
<1> QED BY <1>1, <1>2, MutatorsAreNot, TaskFrame DEF Next, DeadlinePasses, Returned, vars, fileVars

\* What a snapshot copies under the lock is consistent, and what is published
\* was a snapshot.
LEMMA SavedStep == IInv /\ [Next]_vars => SavedAgrees'
<1> SUFFICES ASSUME IInv, [Next]_vars PROVE SavedAgrees'
  OBVIOUS
<1> USE DEF IInv, SavedAgrees
<1>1. CASE UNCHANGED <<snap, saved>>
  BY <1>1 DEF Agrees
<1>2. CASE Snapshot
  <2>1. Agrees(Tally)
    BY <1>2 DEF Snapshot, Agrees, TallyInv, HalfRecorded, TypeOK, Tally, Counts
  <2>2. snap' = Tally /\ saved' = saved
    BY <1>2 DEF Snapshot
  <2> QED BY <2>1, <2>2 DEF Agrees
<1>3. CASE Publish
  <2>1. snap # NoSnap /\ saved'.counts = snap /\ snap' = NoSnap
    BY <1>3 DEF Publish
  <2> QED BY <2>1 DEF Agrees
<1> QED BY <1>1, <1>2, <1>3, FileFrame

\* The pair count a result file carries is drive()'s own.
LEMMA PairsStep ==
  ASSUME IInv, [Next]_vars
  PROVE  pairs' = driven' /\ pairs <= pairs'
<1> USE DEF IInv, FileInv, TypeOK
<1>1. ASSUME Main PROVE pairs' = driven' /\ pairs <= pairs'
  <2>1. CASE JoinSide
    BY <2>1 DEF JoinSide
  <2>2. CASE MainSnapshot
    BY <2>2 DEF MainSnapshot
  <2> QED BY <1>1, <2>1, <2>2 DEF Main, NextPair, NextMix, Return, Say, StartThreads,
                                  JoinWorkers, SkipWrite, MainPublish
<1> QED BY <1>1, BeatFrame, TaskFrame, MutatorsAreNot
        DEF Next, DeadlinePasses, Returned, vars, mainVars

\* A published table is never ahead of the pending one, nor that of the counters.
LEMMA FileStep == IInv /\ [Next]_vars => FileInv' /\ AtMost(saved.counts, saved'.counts)
                                                  /\ saved.pairs <= saved'.pairs
<1> SUFFICES ASSUME IInv, [Next]_vars
             PROVE  FileInv' /\ AtMost(saved.counts, saved'.counts) /\ saved.pairs <= saved'.pairs
  OBVIOUS
<1> DEFINE s == saved.counts
           t == saved'.counts
<1>1. /\ AtMost(Tally, Tally') /\ Tally \in Counts /\ Tally' \in Counts
      /\ s \in Counts /\ snap \in Counts \cup {NoSnap}
      /\ saved.pairs \in Nat /\ pairs \in Nat /\ pairs' \in Nat
  BY CountsGrow, TypeStep DEF IInv, TypeOK
<1>2. /\ AtMost(s, Tally) /\ saved.pairs <= pairs
      /\ snap # NoSnap => AtMost(s, snap) /\ AtMost(snap, Tally)
  BY DEF IInv, FileInv
<1>3. pairs' = driven' /\ pairs <= pairs'
  BY PairsStep
<1>4. \A a \in Counts : AtMost(a, Tally) => AtMost(a, Tally')
  BY <1>1, AtMostTransitive
<1>5. AtMost(s, s) /\ AtMost(Tally, Tally)
  BY <1>1 DEF AtMost, Counts
<1>6. CASE UNCHANGED <<snap, saved>>
  BY <1>1, <1>2, <1>3, <1>4, <1>5, <1>6 DEF FileInv
<1>7. CASE Snapshot
  <2>1. snap' = Tally /\ saved' = saved
    BY <1>7 DEF Snapshot
  <2> QED BY <2>1, <1>1, <1>2, <1>3, <1>4, <1>5 DEF FileInv
<1>8. CASE Publish
  <2>1. snap # NoSnap /\ snap' = NoSnap /\ t = snap /\ saved'.pairs = pairs
    BY <1>8 DEF Publish
  <2> QED BY <2>1, <1>1, <1>2, <1>3, <1>4 DEF FileInv
<1> QED BY <1>6, <1>7, <1>8, FileFrame

-----------------------------------------------------------------------------
(* Who runs when. *)

LEMMA PhaseStep == IInv /\ [Next]_vars => PhaseInv'
<1> SUFFICES ASSUME IInv, [Next]_vars PROVE PhaseInv'
  OBVIOUS
<1> USE MutatorsAreNot DEF IInv, PhaseInv, SideEnded, TypeOK
<1>1. ASSUME Main PROVE PhaseInv'
  <2>1. CASE NextPair \/ NextMix \/ Return \/ Say \/ SkipWrite
    BY <2>1 DEF NextPair, NextMix, Return, Say, SkipWrite, taskVars, beatVars, fileVars
  <2>2. CASE StartThreads
    BY <2>2 DEF StartThreads, fileVars
  <2>3. CASE JoinWorkers
    BY <2>3 DEF JoinWorkers, taskVars, beatVars, fileVars
  <2>4. CASE JoinSide
    BY <2>4 DEF JoinSide, taskVars, beatVars, fileVars
  <2>5. CASE MainSnapshot
    BY <2>5, DriveAssumption DEF MainSnapshot, Snapshot, taskVars, beatVars
  <2>6. CASE MainPublish
    BY <2>6 DEF MainPublish, Publish, taskVars, beatVars
  <2> QED BY <1>1, <2>1, <2>2, <2>3, <2>4, <2>5, <2>6 DEF Main
<1>2. ASSUME Heartbeat PROVE PhaseInv'
  <2>1. pc \in {"join", "reap"} \/ hb = "ended"
    OBVIOUS
  <2>2. CASE BeatOpen \/ BeatSay \/ BeatSkips \/ BeatEnds
    BY <2>1, <2>2 DEF BeatOpen, BeatSay, BeatSkips, BeatEnds, mainVars, taskVars, fileVars
  <2>3. CASE BeatSnapshot
    BY <2>1, <2>3, DriveAssumption DEF BeatSnapshot, Snapshot, mainVars, taskVars
  <2>4. CASE BeatPublish
    BY <2>1, <2>4 DEF BeatPublish, Publish, mainVars, taskVars
  <2> QED BY <1>2, <2>2, <2>3, <2>4 DEF Heartbeat
<1>3. ASSUME NEW u \in Tasks, Record(u) PROVE PhaseInv'
  <2>1. UNCHANGED <<pc, hb, snap>> /\ at[u] # "ended"
        /\ \A v \in Tasks \ {u} : at'[v] = at[v]
    BY <1>3, TaskFrame DEF Record, RecordLoad, RecordCall, RecordEnding, CallEnds,
                           mainVars, beatVars, fileVars
  <2> QED BY <2>1 DEF Tasks
<1>4. ASSUME NEW w \in Workers, Worker(w) PROVE PhaseInv'
  <2>1. CASE Arrive(w)
    BY <2>1 DEF Arrive, mainVars, beatVars, fileVars
  <2>2. CASE WorkerCalls(w) \/ WorkerEnds(w)
    BY <2>2 DEF WorkerCalls, WorkerEnds, mainVars, beatVars, fileVars
  <2> QED BY <1>3, <1>4, <2>1, <2>2 DEF Worker
<1>5. ASSUME NEW m \in Mutators, Mutator(m) PROVE PhaseInv'
  <2>1. CASE MutatorCalls(m) \/ MutatorEnds(m)
    BY <2>1 DEF MutatorCalls, MutatorEnds, mainVars, beatVars, fileVars
  <2> QED BY <1>3, <1>5, <2>1 DEF Mutator
<1>6. CASE DeadlinePasses \/ UNCHANGED vars
  BY <1>6 DEF DeadlinePasses, vars, mainVars, taskVars, beatVars, fileVars
<1> QED BY <1>1, <1>2, <1>4, <1>5, <1>6 DEF Next, Returned

LEMMA BarrierStep == IInv /\ [Next]_vars => BarrierInv'
<1> SUFFICES ASSUME IInv, [Next]_vars PROVE BarrierInv'
  OBVIOUS
<1> USE MutatorsAreNot DEF IInv, BarrierInv, TypeOK
<1>1. ASSUME Main PROVE BarrierInv'
  BY <1>1, MainFrame DEF StartThreads
<1>2. ASSUME Heartbeat PROVE BarrierInv'
  BY <1>2, BeatFrame
<1>3. ASSUME NEW u \in Tasks, Record(u) PROVE BarrierInv'
  <2>1. /\ at[u] \in {"record", "store", "close", "call"}
        /\ at'[u] \notin {"start", "barrier"}
        /\ \A v \in Tasks \ {u} : at'[v] = at[v]
    BY <1>3 DEF Record, RecordLoad, RecordCall, RecordEnding, CallEnds
  <2> QED BY <2>1
<1>4. ASSUME NEW w \in Workers, Worker(w) PROVE BarrierInv'
  <2>1. CASE Arrive(w)
    BY <2>1 DEF Arrive
  <2>2. CASE WorkerCalls(w) \/ WorkerEnds(w)
    BY <2>2 DEF WorkerCalls, WorkerEnds
  <2> QED BY <1>3, <1>4, <2>1, <2>2 DEF Worker
<1>5. ASSUME NEW m \in Mutators, Mutator(m) PROVE BarrierInv'
  <2>1. CASE MutatorCalls(m) \/ MutatorEnds(m)
    BY <2>1 DEF MutatorCalls, MutatorEnds
  <2> QED BY <1>3, <1>5, <2>1 DEF Mutator
<1>6. CASE DeadlinePasses \/ UNCHANGED vars
  BY <1>6 DEF DeadlinePasses, vars, taskVars
<1> QED BY <1>1, <1>2, <1>4, <1>5, <1>6 DEF Next, Returned

\* The heartbeat writes the step it was given; main gives the next one only
\* after joining it.
LEMMA LineStep == IInv /\ [Next]_vars => LineInv'
<1> SUFFICES ASSUME IInv, [Next]_vars PROVE LineInv'
  OBVIOUS
<1> USE DEF IInv, LineInv, LineNamesThePhase, PhaseInv, SideEnded, TypeOK
<1>0. total \in Nat /\ total' \in Nat /\ total <= total'
  BY CountsGrow, TypeStep
<1>1. ASSUME Main PROVE LineInv'
  <2>0. UNCHANGED total
    BY <1>1, MainFrame DEF counterVars
  <2>1. CASE NextPair \/ NextMix \/ Return
    BY <2>0, <2>1 DEF NextPair, NextMix, Return, beatVars
  <2>2. CASE Say
    BY <2>0, <2>2 DEF Say, Said, beatVars
  <2>3. CASE StartThreads
    BY <2>0, <2>3 DEF StartThreads, fileVars
  <2>4. CASE JoinWorkers \/ SkipWrite
    BY <2>0, <2>4 DEF JoinWorkers, SkipWrite, fileVars, beatVars
  <2>5. CASE JoinSide
    BY <2>0, <2>5 DEF JoinSide, fileVars, beatVars
  <2>6. CASE MainSnapshot \/ MainPublish
    BY <2>0, <2>6 DEF MainSnapshot, MainPublish, beatVars
  <2> QED BY <1>1, <2>1, <2>2, <2>3, <2>4, <2>5, <2>6 DEF Main
<1>2. ASSUME Heartbeat PROVE LineInv'
  <2>0. UNCHANGED <<total, step, pc>>
    BY <1>2, BeatFrame DEF counterVars, mainVars
  <2>1. CASE BeatOpen
    BY <2>0, <2>1 DEF BeatOpen, Torn
  <2>2. CASE BeatSay
    BY <2>0, <2>2 DEF BeatSay, Said
  <2>3. CASE BeatSnapshot \/ BeatSkips
    BY <2>0, <2>3 DEF BeatSnapshot, BeatSkips, Snapshot, fileVars
  <2>4. CASE BeatPublish \/ BeatEnds
    BY <2>0, <2>4 DEF BeatPublish, BeatEnds, Publish, fileVars
  <2> QED BY <1>2, <2>1, <2>2, <2>3, <2>4 DEF Heartbeat
<1>3. CASE UNCHANGED <<pc, step, hb, seen, line>>
  BY <1>0, <1>3
<1> QED BY <1>1, <1>2, <1>3, TaskFrame, MutatorsAreNot
        DEF Next, Returned, DeadlinePasses, vars, mainVars, beatVars, fileVars

-----------------------------------------------------------------------------
(* The theorems. *)

LEMMA InitInv == Init => IInv
<1> SUFFICES ASSUME Init PROVE IInv
  OBVIOUS
<1> USE DriveAssumption, MixIsAStep, MutatorsAreNot DEF Init, None, Tally, Counts, Torn
<1>1. TypeOK
  <2>1. doing \in [Tasks -> Quals] /\ ending \in [Tasks -> Ending]
    BY DEF Tasks, Quals, Ending
  <2>2. Tally \in Counts /\ saved \in [counts: Counts, pairs: Nat]
    OBVIOUS
  <2>3. line \in [text: {"torn", "step"}, step: Steps, count: Int]
        /\ seen \in [step: Steps, count: Nat]
    OBVIOUS
  <2> QED BY <2>1, <2>2, <2>3 DEF TypeOK
<1>2. LockInv /\ TallyInv
  BY DEF LockInv, TallyInv, HalfRecorded
<1>3. SavedAgrees /\ FileInv
  BY DEF SavedAgrees, Agrees, FileInv, AtMost
<1>4. PhaseInv /\ LineInv /\ BarrierInv
  BY DEF PhaseInv, SideEnded, LineInv, LineNamesThePhase, BarrierInv, Tasks
<1> QED BY <1>1, <1>2, <1>3, <1>4 DEF IInv

LEMMA NextInv == IInv /\ [Next]_vars => IInv'
BY TypeStep, LockStep, TallyStep, SavedStep, FileStep, PhaseStep, LineStep, BarrierStep DEF IInv

LEMMA Inductive == Spec => []IInv
BY InitInv, NextInv, PTL DEF Spec

\* Every variable keeps its type, for any number of threads and callables.
THEOREM TypeCorrect == Spec => []TypeOK
<1>1. IInv => TypeOK
  BY DEF IInv
<1> QED BY <1>1, Inductive, PTL

\* A result file never shows a call without its outcome (driver.py:913-940).
THEOREM ResultFilesAgree == Spec => []SavedAgrees
<1>1. IInv => SavedAgrees
  BY DEF IInv
<1> QED BY <1>1, Inductive, PTL

\* Nothing of a phase outlives run_phase() (driver.py:760-765).
THEOREM PhasesAreQuiet == Spec => []QuietBetweenPhases
<1>1. IInv => QuietBetweenPhases
  <2> SUFFICES ASSUME IInv, pc \notin {"join", "reap"}
               PROVE  /\ hb = "ended" /\ \A t \in Tasks : at[t] = "ended"
                      /\ lock = NoOne /\ (snap # NoSnap => pc \in {"publish", "last"})
    BY DEF QuietBetweenPhases
  <2>1. hb = "ended" /\ \A t \in Tasks : at[t] = "ended"
    BY DEF IInv, PhaseInv, SideEnded, Tasks
  <2>2. snap # NoSnap => pc \in {"publish", "last"}
    BY <2>1 DEF IInv, PhaseInv, SideEnded
  <2>3. lock \notin Tasks
    BY <2>1 DEF IInv, LockInv, SideEnded, Tasks
  <2> QED BY <2>1, <2>2, <2>3 DEF IInv, TypeOK
<1> QED BY <1>1, Inductive, PTL

\* The progress line names the phase that runs (driver.py:689-705, 771-773).
THEOREM LinesNameThePhase == Spec => []LineNamesThePhase
<1>1. IInv => LineNamesThePhase
  BY DEF IInv, LineInv
<1> QED BY <1>1, Inductive, PTL

\* Published counts and pairs never go back, whoever writes the file when.
THEOREM ResultsOnlyGrow == Spec => ResultNeverRegresses
<1>1. IInv /\ [Next]_vars => AtMost(saved.counts, saved'.counts) /\ saved.pairs <= saved'.pairs
  BY FileStep
<1> QED BY <1>1, Inductive, PTL DEF Spec, ResultNeverRegresses

\* No worker calls while another still is before the barrier (driver.py:662-663).
THEOREM BarrierHolds == Spec => CallsStartTogether
<1>1. IInv /\ [Next]_vars =>
        ((\E w \in Workers : at[w] = "loop" /\ at'[w] = "call")
           => \A w \in Workers : at[w] \notin {"start", "barrier"})
  BY DEF IInv, BarrierInv
<1> QED BY <1>1, Inductive, PTL DEF Spec, CallsStartTogether

-----------------------------------------------------------------------------
(* Counting: nothing is lost, and what the files hold is backed. *)

LEMMA FiniteParts ==
  /\ IsFiniteSet(CallIds) /\ IsFiniteSet(Quals) /\ IsFiniteSet(Pairs)
  /\ IsFiniteSet(Workers) /\ Cardinality(Workers) = Threads
  /\ CallIds \cap Mutators = {} /\ Workers \cap Mutators = {}
<1>1. IsFiniteSet(CallIds)
  BY DriveAssumption, FS_Interval DEF CallIds
<1>2. IsFiniteSet(Quals)
  BY <1>1, DriveAssumption, FS_Union DEF Quals
<1>3. IsFiniteSet(CallIds \X CallIds)
  BY <1>1, FS_Product
<1>4. IsFiniteSet(Pairs)
  <2>1. Pairs \in SUBSET (CallIds \X CallIds)
    BY DEF Pairs
  <2> QED BY <1>3, <2>1, FS_Subset
<1>5. IsFiniteSet(Workers) /\ Cardinality(Workers) = Threads
  <2>1. 0 \in Int /\ Threads - 1 \in Int /\ ~(0 > Threads - 1) /\ (Threads - 1) - 0 + 1 = Threads
    BY DriveAssumption
  <2> QED BY <2>1, FS_Interval DEF Workers
<1>6. CallIds \cap Mutators = {} /\ Workers \cap Mutators = {}
  BY DriveAssumption DEF CallIds, Workers
<1> QED BY <1>1, <1>2, <1>4, <1>5, <1>6

LEMMA CallsAreSums == ASSUME NEW c, NEW Q PROVE Calls(c, Q) = SumOf(c.calls, Q)
BY DEF Calls, SumOf

\* The counts of calls change in one place only.
LEMMA CallFrame ==
  ASSUME [Next]_vars
  PROVE  UNCHANGED <<calls, total>> \/ \E t \in Tasks : RecordCall(t)
<1> USE MutatorsAreNot DEF counterVars
<1>1. ASSUME NEW t \in Tasks, Record(t) PROVE UNCHANGED <<calls, total>> \/ RecordCall(t)
  BY <1>1 DEF Record, RecordLoad, RecordEnding, CallEnds
<1>2. ASSUME NEW w \in Workers, Worker(w) PROVE UNCHANGED <<calls, total>> \/ RecordCall(w)
  BY <1>1, <1>2 DEF Worker, Arrive, WorkerCalls, WorkerEnds
<1>3. ASSUME NEW m \in Mutators, Mutator(m) PROVE UNCHANGED <<calls, total>> \/ RecordCall(m)
  BY <1>1, <1>3 DEF Mutator, MutatorCalls, MutatorEnds
<1> QED BY <1>2, <1>3, MainFrame, BeatFrame DEF Next, DeadlinePasses, Returned, vars

\* The total is the number of calls recorded, even while one is being recorded.
CountInv == total = SumOf(calls, Quals)

LEMMA CountStep == IInv /\ CountInv /\ [Next]_vars => CountInv'
<1> SUFFICES ASSUME IInv, CountInv, [Next]_vars PROVE CountInv'
  OBVIOUS
<1>1. CASE UNCHANGED <<calls, total>>
  BY <1>1 DEF CountInv
<1>2. ASSUME NEW t \in Tasks, RecordCall(t) PROVE CountInv'
  <2>1. total' = total + 1
    BY <1>2 DEF RecordCall, IInv, LockInv
  <2>2. doing[t] \in Quals /\ \A q \in Quals : calls[q] \in Int
    BY DEF IInv, TypeOK, Tally, Counts
  <2>3. /\ calls'[doing[t]] = calls[doing[t]] + 1
        /\ \A q \in Quals \ {doing[t]} : calls'[q] = calls[q]
    BY <1>2, <2>2 DEF RecordCall, IInv, TypeOK, Tally, Counts
  <2>4. SumOf(calls', Quals) = SumOf(calls, Quals) + 1
    BY <2>2, <2>3, FiniteParts, SumBump
  <2> QED BY <2>1, <2>4 DEF CountInv
<1> QED BY <1>1, <1>2, CallFrame

LEMMA NoneSums == ASSUME NEW S \in SUBSET Quals PROVE SumOf(None, S) = 0
<1>1. IsFiniteSet(S) /\ \A q \in S : None[q] = 0
  BY FiniteParts, FS_Subset DEF None
<1>2. SumOf(None, S) = Cardinality(S) * 0
  BY <1>1, SumConst
<1> QED BY <1>1, <1>2, FS_CardinalityType

\* No call that came back is lost to two threads adding at once: the count in
\* the progress line is the number of calls recorded (driver.py:91-95, 626-638).
THEOREM NoCallIsLost == Spec => []EveryCallCounted
<1>1. Init => CountInv
  BY NoneSums DEF Init, CountInv
<1>2. CountInv => EveryCallCounted
  BY CallsAreSums DEF CountInv, EveryCallCounted, Tally
<1> QED BY <1>1, <1>2, Inductive, CountStep, PTL DEF Spec

-----------------------------------------------------------------------------
(* The last result file. *)

\* Every pair is driven, left to do, or the one that is being driven.
AllPairsInv ==
  /\ driven + Cardinality(todo) + (IF pc \in {"say", "start", "join", "reap"} /\ step # Mix THEN 1 ELSE 0)
       = Cardinality(Pairs)
  /\ pc \in {"say", "start", "join", "reap"} /\ step = Mix => todo = {}
  /\ pc \in {"finish", "last", "returned"} /\ todo # {} => exhausted

\* What main writes last is what the counters hold when nobody counts any more.
LastInv ==
  /\ pc = "last" => snap = Tally
  /\ pc = "returned" => saved = [counts |-> Tally, pairs |-> driven]

LEMMA MixIsNoPair == Mix \notin Pairs
BY DEF Mix, Pairs, CallIds

LEMMA AllPairsStep == IInv /\ AllPairsInv /\ [Next]_vars => AllPairsInv'
<1> SUFFICES ASSUME IInv, AllPairsInv, [Next]_vars PROVE AllPairsInv'
  OBVIOUS
<1>0. /\ todo \subseteq Pairs /\ driven \in Nat /\ IsFiniteSet(todo)
      /\ Cardinality(todo) \in Nat /\ Cardinality(Pairs) \in Nat
  BY FiniteParts, FS_Subset, FS_CardinalityType DEF IInv, TypeOK
<1>1. CASE NextPair
  <2>1. PICK q \in todo : step' = q /\ todo' = todo \ {q}
    BY <1>1 DEF NextPair
  <2>2. step' # Mix
    BY <1>0, <2>1, MixIsNoPair
  <2>3. Cardinality(todo') = Cardinality(todo) - 1
    BY <1>0, <2>1, FS_RemoveElement
  <2>4. driven' = driven /\ pc = "next" /\ pc' = "say"
    BY <1>1 DEF NextPair
  <2> QED BY <1>0, <2>2, <2>3, <2>4 DEF AllPairsInv
<1>2. CASE NextMix \/ Return
  BY <1>0, <1>2 DEF NextMix, Return, AllPairsInv
<1>3. CASE Say \/ StartThreads \/ JoinWorkers
  BY <1>3 DEF Say, StartThreads, JoinWorkers, AllPairsInv
<1>4. CASE JoinSide
  BY <1>0, <1>4 DEF JoinSide, AllPairsInv
<1>5. CASE SkipWrite \/ MainSnapshot \/ MainPublish
  BY <1>5 DEF SkipWrite, MainSnapshot, MainPublish, AllPairsInv
<1>6. CASE UNCHANGED <<pc, todo, step, driven, exhausted>>
  BY <1>6 DEF AllPairsInv
<1>7. Main \/ UNCHANGED <<pc, todo, step, driven, exhausted>>
  BY BeatFrame, TaskFrame, MutatorsAreNot DEF Next, DeadlinePasses, Returned, vars, mainVars
<1> QED BY <1>1, <1>2, <1>3, <1>4, <1>5, <1>6, <1>7 DEF Main

\* With no phase running, only main still acts.
LEMMA OnlyMain ==
  ASSUME IInv, [Next]_vars, pc \notin {"join", "reap"}
  PROVE  Main \/ UNCHANGED <<pc, driven, snap, saved, calls, returned, raised>>
<1> USE DEF mainVars, fileVars, counterVars
<1>1. hb = "ended" /\ \A t \in Tasks : at[t] = "ended"
  BY MutatorsAreNot DEF IInv, PhaseInv, SideEnded, Tasks
<1>2. ~ Heartbeat
  BY <1>1 DEF Heartbeat, BeatOpen, BeatSay, BeatSnapshot, BeatSkips, BeatPublish, BeatEnds
<1>3. \A t \in Tasks : ~ Record(t)
  BY <1>1 DEF Record, RecordLoad, RecordCall, RecordEnding, CallEnds
<1>4. \A w \in Workers : ~ Worker(w)
  BY <1>1, <1>3, MutatorsAreNot DEF Worker, Arrive, WorkerCalls, WorkerEnds
<1>5. \A m \in Mutators : ~ Mutator(m)
  BY <1>1, <1>3, MutatorsAreNot DEF Mutator, MutatorCalls, MutatorEnds
<1> QED BY <1>2, <1>4, <1>5 DEF Next, DeadlinePasses, Returned, vars

LEMMA LastStep == IInv /\ LastInv /\ [Next]_vars => LastInv'
<1> SUFFICES ASSUME IInv, LastInv, [Next]_vars PROVE LastInv'
  OBVIOUS
<1>1. ASSUME Main PROVE LastInv'
  <2>0. Tally' = Tally
    BY <1>1, MainFrame DEF counterVars, Tally
  <2>1. CASE MainSnapshot
    BY <2>0, <2>1 DEF MainSnapshot, Snapshot, LastInv
  <2>2. CASE MainPublish
    <3>1. pc = "last" => saved' = [counts |-> Tally, pairs |-> driven]
      BY <2>2 DEF MainPublish, Publish, LastInv, IInv, FileInv
    <3>2. driven' = driven /\ pc' = IF pc = "publish" THEN "next" ELSE "returned"
      BY <2>2 DEF MainPublish
    <3>3. pc = "publish" \/ pc = "last"
      BY <2>2 DEF MainPublish
    <3> QED BY <2>0, <3>1, <3>2, <3>3 DEF LastInv
  <2>3. CASE ~ MainSnapshot /\ ~ MainPublish
    <3>1. pc' \notin {"last", "returned"}
      BY <1>1, <2>3 DEF Main, NextPair, NextMix, Return, Say, StartThreads, JoinWorkers, JoinSide, SkipWrite
    <3> QED BY <3>1 DEF LastInv
  <2> QED BY <2>1, <2>2, <2>3
<1>2. CASE UNCHANGED <<pc, driven, snap, saved, calls, returned, raised>>
  BY <1>2 DEF LastInv, Tally
<1>3. CASE pc \in {"join", "reap"} /\ ~ Main
  <2>1. pc' = pc
    BY <1>3, BeatFrame, TaskFrame, MutatorsAreNot DEF Next, DeadlinePasses, Returned, vars, mainVars
  <2> QED BY <1>3, <2>1 DEF LastInv
<1> QED BY <1>1, <1>2, <1>3, OnlyMain

\* When the group is over its result file is complete: every call recorded,
\* every pair driven, and pairs left out only for the deadline (driver.py:776-813, 900-940).
THEOREM LastFileIsComplete == Spec => []FinalResultIsComplete
<1>1. Init => AllPairsInv /\ LastInv
  <2> SUFFICES ASSUME Init PROVE AllPairsInv /\ LastInv
    OBVIOUS
  <2>1. todo = Pairs /\ driven = 0 /\ pc = "next"
    BY DEF Init
  <2>2. Cardinality(Pairs) \in Nat
    BY FiniteParts, FS_CardinalityType
  <2> QED BY <2>1, <2>2 DEF AllPairsInv, LastInv
<1>2. IInv /\ AllPairsInv /\ LastInv => FinalResultIsComplete
  <2> SUFFICES ASSUME IInv, AllPairsInv, LastInv, pc = "returned"
               PROVE  /\ saved = [counts |-> Tally, pairs |-> driven]
                      /\ driven + Cardinality(todo) = Cardinality(Pairs)
                      /\ todo # {} => exhausted
    BY DEF FinalResultIsComplete
  <2>1. Cardinality(todo) \in Nat /\ driven \in Nat
    BY FiniteParts, FS_Subset, FS_CardinalityType DEF IInv, TypeOK
  <2> QED BY <2>1 DEF AllPairsInv, LastInv
<1> QED BY <1>1, <1>2, Inductive, AllPairsStep, LastStep, PTL DEF Spec

-----------------------------------------------------------------------------
(* Pairs and the calls behind them. *)

\* Neither the deadline nor SystemExit has cut a worker short.
NotCut == ~late /\ \A q \in CallIds : "exits" \notin Ends[q]
Quota  == Threads * Iterations

\* The calls of a worker in this phase that are counted.
Made == [w \in Workers |-> Iterations - left[w]
           - (IF at[w] \in {"call", "record", "store", "stuck"} THEN 1 ELSE 0)]

\* Workers call what the group has, and mutators are not among that.
OwnInv == /\ \A w \in Workers : doing[w] \in CallIds
          /\ \A m \in Mutators : doing[m] = m

InPhase == pc \in {"join", "reap"}

\* A worker that has ended made all of its calls; what the counters, a pending
\* write and the file hold covers the pairs they stand for.
EndedInv  == InPhase => \A w \in Workers : at[w] = "ended" => left[w] = 0
PhaseSum  == InPhase => SumOf(calls, CallIds) >= driven * Quota + SumOf(Made, Workers)
CallsSum  == SumOf(calls, CallIds) >= driven * Quota
FilesSum  == /\ SumOf(saved.counts.calls, CallIds) >= saved.pairs * Quota
             /\ snap # NoSnap => SumOf(snap.calls, CallIds) >= driven * Quota
BackedInv == OwnInv /\ (NotCut => EndedInv /\ PhaseSum /\ CallsSum /\ FilesSum)

LEMMA NumbersAre ==
  IInv => /\ Quota \in Nat /\ Threads \in Nat /\ Iterations \in Nat /\ driven \in Nat
          /\ \A q \in CallIds : calls[q] \in Int
          /\ \A w \in Workers : Made[w] \in Int
          /\ SumOf(calls, CallIds) \in Int /\ SumOf(Made, Workers) \in Int
<1> SUFFICES ASSUME IInv
             PROVE  /\ Quota \in Nat /\ Threads \in Nat /\ Iterations \in Nat /\ driven \in Nat
                    /\ \A q \in CallIds : calls[q] \in Int
                    /\ \A w \in Workers : Made[w] \in Int
                    /\ SumOf(calls, CallIds) \in Int /\ SumOf(Made, Workers) \in Int
  OBVIOUS
<1>1. Threads \in Nat /\ Iterations \in Nat
  BY DriveAssumption
<1>2. Quota \in Nat
  BY <1>1 DEF Quota
<1>3. driven \in Nat /\ \A q \in CallIds : calls[q] \in Int
  BY DEF IInv, TypeOK, Tally, Counts, Quals
<1>4. \A w \in Workers : Made[w] \in Int
  BY <1>1 DEF Made, IInv, TypeOK
<1> QED BY <1>1, <1>2, <1>3, <1>4, FiniteParts, SumType

LEMMA OwnStep == IInv /\ OwnInv /\ [Next]_vars => OwnInv'
<1> SUFFICES ASSUME IInv, OwnInv, [Next]_vars PROVE OwnInv'
  OBVIOUS
<1>1. CASE UNCHANGED doing
  BY <1>1 DEF OwnInv
<1>2. ASSUME NEW w \in Workers, WorkerCalls(w) PROVE OwnInv'
  <2>1. PICK q \in Work(w, step) : doing' = [doing EXCEPT ![w] = q]
    BY <1>2 DEF WorkerCalls
  <2>2. q \in CallIds /\ w \notin Mutators
    BY WorkIsCalls, FiniteParts DEF IInv, TypeOK
  <2> QED BY <2>1, <2>2, MutatorsAreNot DEF OwnInv, IInv, TypeOK
<1>3. UNCHANGED doing \/ \E w \in Workers : WorkerCalls(w)
  BY MainFrame, BeatFrame
     DEF Next, DeadlinePasses, Returned, vars, taskVars, Worker, Mutator, Record, RecordLoad, RecordCall,
         RecordEnding, CallEnds, Arrive, WorkerEnds, MutatorCalls, MutatorEnds
<1> QED BY <1>1, <1>2, <1>3

\* A call of a worker that is counted is one of its own made, and shows in the sum.
LEMMA WorkerCounted ==
  ASSUME IInv, BackedInv, NotCut, NEW w \in Workers, RecordCall(w)
  PROVE  /\ SumOf(calls', CallIds) = SumOf(calls, CallIds) + 1
         /\ SumOf(Made', Workers) = SumOf(Made, Workers) + 1
<1>1. doing[w] \in CallIds /\ \A q \in CallIds : calls[q] \in Int
  BY NumbersAre DEF BackedInv, OwnInv
<1>2. calls'[doing[w]] = calls[doing[w]] + 1 /\ \A q \in CallIds \ {doing[w]} : calls'[q] = calls[q]
  BY <1>1 DEF RecordCall, IInv, TypeOK, Tally, Counts, Quals
<1>3. SumOf(calls', CallIds) = SumOf(calls, CallIds) + 1
  BY <1>1, <1>2, FiniteParts, SumBump
<1>4. /\ at[w] = "store" /\ at'[w] = "close" /\ UNCHANGED left
      /\ \A v \in Workers \ {w} : at'[v] = at[v]
  BY MutatorsAreNot DEF RecordCall, IInv, TypeOK
<1>5. Made'[w] = Made[w] + 1 /\ \A v \in Workers \ {w} : Made'[v] = Made[v]
  BY <1>4, DriveAssumption DEF Made, IInv, TypeOK
<1>6. SumOf(Made', Workers) = SumOf(Made, Workers) + 1
  BY <1>5, NumbersAre, FiniteParts, SumBump
<1> QED BY <1>3, <1>6

\* The other steps of a worker leave what it made alone.
LEMMA WorkerMoves ==
  ASSUME IInv, BackedInv, NotCut, NEW w \in Workers, Worker(w), ~ RecordCall(w)
  PROVE  SumOf(Made', Workers) = SumOf(Made, Workers) /\ EndedInv'
<1> USE MutatorsAreNot DEF IInv, TypeOK
<1>0. pc' = pc /\ doing[w] \in CallIds /\ InPhase
  BY TaskFrame DEF mainVars, PhaseInv, InPhase, BackedInv, OwnInv, Worker, Arrive, WorkerCalls, WorkerEnds,
                   Record, RecordLoad, RecordEnding, CallEnds, SideEnded
<1>1. ASSUME \A v \in Workers : Made'[v] = Made[v]
      PROVE  SumOf(Made', Workers) = SumOf(Made, Workers)
  BY <1>1, NumbersAre, FiniteParts, SumSame
<1>2. /\ \A v \in Workers : Made'[v] = Made[v]
      /\ \A v \in Workers : at'[v] = "ended" => left'[v] = 0
  <2>0. \A v \in Workers : at[v] = "ended" => left[v] = 0
    BY <1>0 DEF BackedInv, EndedInv
  <2>1. CASE Arrive(w)
    BY <2>0, <2>1 DEF Arrive, Made, BarrierInv
  <2>2. CASE WorkerCalls(w)
    BY <2>0, <2>2, DriveAssumption DEF WorkerCalls, Made
  <2>3. CASE WorkerEnds(w)
    BY <2>0, <2>3 DEF WorkerEnds, Made, NotCut
  <2>4. CASE RecordLoad(w)
    BY <2>0, <2>4 DEF RecordLoad, Made
  <2>5. CASE RecordEnding(w)
    BY <2>0, <2>5 DEF RecordEnding, Made
  <2>6. CASE CallEnds(w)
    <3>1. PICK e \in Ends[doing[w]] : at' = [at EXCEPT ![w] = IF e = "exits" THEN "ended"
                                                             ELSE IF e = "hangs" THEN "stuck" ELSE "record"]
      BY <2>6 DEF CallEnds
    <3>2. e # "exits" /\ UNCHANGED left
      BY <1>0, <2>6 DEF NotCut, CallEnds
    <3> QED BY <2>0, <2>6, <3>1, <3>2 DEF Made, CallEnds
  <2> QED BY <2>1, <2>2, <2>3, <2>4, <2>5, <2>6 DEF Worker, Record
<1> QED BY <1>0, <1>1, <1>2 DEF EndedInv

\* Nor does a mutator add to what the group's own callables are charged with.
LEMMA MutatorMoves ==
  ASSUME IInv, BackedInv, NotCut, NEW m \in Mutators, Mutator(m)
  PROVE  /\ SumOf(calls', CallIds) = SumOf(calls, CallIds)
         /\ SumOf(Made', Workers) = SumOf(Made, Workers) /\ EndedInv'
<1> USE MutatorsAreNot, FiniteParts
<1>0. /\ pc' = pc /\ doing[m] = m /\ UNCHANGED left
      /\ \A v \in Workers : at'[v] = at[v]
  BY TaskFrame DEF mainVars, BackedInv, OwnInv, IInv, TypeOK, Mutator, MutatorCalls, MutatorEnds,
                   Record, RecordLoad, RecordCall, RecordEnding, CallEnds
<1>1. \A q \in CallIds : calls'[q] = calls[q]
  <2>1. UNCHANGED calls \/ calls' = [calls EXCEPT ![m] = @ + 1]
    BY <1>0 DEF Mutator, MutatorCalls, MutatorEnds, Record, RecordLoad, RecordCall, RecordEnding,
                CallEnds, counterVars
  <2> QED BY <2>1 DEF IInv, TypeOK, Tally, Counts, Quals
<1>2. SumOf(calls', CallIds) = SumOf(calls, CallIds)
  BY <1>1, NumbersAre, SumSame
<1>3. \A v \in Workers : Made'[v] = Made[v]
  BY <1>0 DEF Made
<1>4. SumOf(Made', Workers) = SumOf(Made, Workers)
  BY <1>3, NumbersAre, SumSame
<1>5. EndedInv'
  BY <1>0 DEF EndedInv, InPhase, BackedInv
<1> QED BY <1>2, <1>4, <1>5

\* A phase begins with nothing made; one that ends uncut was worked off.
LEMMA PhaseBegins ==
  ASSUME IInv, BackedInv, NotCut, StartThreads
  PROVE  SumOf(Made', Workers) = 0 /\ EndedInv'
<1>1. \A w \in Workers : left'[w] = Iterations /\ at'[w] = "start"
  BY MutatorsAreNot DEF StartThreads
<1>2. \A w \in Workers : Made'[w] = 0
  BY <1>1, DriveAssumption DEF Made
<1>3. SumOf(Made', Workers) = Cardinality(Workers) * 0
  BY <1>2, FiniteParts, SumConst
<1>4. Cardinality(Workers) * 0 = 0
  BY FiniteParts, DriveAssumption
<1> QED BY <1>1, <1>3, <1>4 DEF EndedInv

LEMMA PhaseIsWorkedOff ==
  ASSUME IInv, BackedInv, NotCut, pc = "reap"
  PROVE  SumOf(Made, Workers) = Quota
<1>1. \A w \in Workers : at[w] = "ended" /\ left[w] = 0
  BY DEF IInv, PhaseInv, BackedInv, EndedInv, InPhase
<1>2. \A w \in Workers : Made[w] = Iterations
  BY <1>1, DriveAssumption DEF Made
<1>3. SumOf(Made, Workers) = Cardinality(Workers) * Iterations
  BY <1>2, FiniteParts, DriveAssumption, SumConst
<1> QED BY <1>3, FiniteParts DEF Quota

LEMMA BackedStep == IInv /\ BackedInv /\ [Next]_vars => BackedInv'
<1> SUFFICES ASSUME IInv, BackedInv, [Next]_vars, NotCut'
             PROVE  EndedInv' /\ PhaseSum' /\ CallsSum' /\ FilesSum'
  BY OwnStep DEF BackedInv
<1> DEFINE c == SumOf(calls, CallIds)
           d == SumOf(calls', CallIds)
           m == SumOf(Made, Workers)
           n == SumOf(Made', Workers)
<1>1. NotCut
  BY BeatFrame DEF NotCut, Next, Main, Heartbeat, NextPair, NextMix, Return, Say, StartThreads, JoinWorkers,
         JoinSide, SkipWrite, MainSnapshot, MainPublish, BeatOpen, BeatSay, BeatSnapshot, BeatSkips,
         BeatPublish, BeatEnds, DeadlinePasses, Returned, vars, Worker, Mutator, Record, RecordLoad,
         RecordCall, RecordEnding, CallEnds, Arrive, WorkerCalls, WorkerEnds, MutatorCalls, MutatorEnds
<1>2. EndedInv /\ PhaseSum /\ CallsSum /\ FilesSum
  BY <1>1 DEF BackedInv
<1>3. /\ Quota \in Nat /\ driven \in Nat /\ driven' \in Nat
      /\ c \in Int /\ m \in Int /\ d \in Int /\ n \in Int
      /\ (driven + 1) * Quota = driven * Quota + Quota
      /\ driven * Quota \in Nat
  <2>1. IInv'
    BY NextInv
  <2>2. (Quota \in Nat)' /\ (SumOf(calls, CallIds) \in Int)' /\ (SumOf(Made, Workers) \in Int)' /\ (driven \in Nat)'
    BY <2>1, NumbersAre, PTL
  <2>3. Quota \in Nat /\ driven \in Nat /\ c \in Int /\ m \in Int
    BY NumbersAre
  <2>4. \A i, j \in Nat : (i + 1) * j = i * j + j /\ i * j \in Nat
    OBVIOUS
  <2> QED BY <2>2, <2>3, <2>4
<1>4. /\ PhaseSum <=> (InPhase => c >= driven * Quota + m)
      /\ CallsSum <=> c >= driven * Quota
      /\ PhaseSum' <=> (InPhase' => d >= driven' * Quota + n)
      /\ CallsSum' <=> d >= driven' * Quota
  BY DEF PhaseSum, CallsSum, Quota
<1> HIDE DEF c, d, m, n
<1>5. EndedInv' /\ PhaseSum' /\ CallsSum'
  <2>0. ASSUME UNCHANGED <<calls, left, at, pc, driven>>
        PROVE  EndedInv' /\ PhaseSum' /\ CallsSum'
    <3>1. Made' = Made /\ InPhase' = InPhase
      BY <2>0 DEF Made, InPhase
    <3>2. d = c /\ n = m
      BY <2>0, <3>1 DEF c, d, m, n
    <3>3. EndedInv'
      BY <1>2, <2>0, <3>1 DEF EndedInv
    <3> QED BY <1>2, <1>4, <2>0, <3>1, <3>2, <3>3
  <2>1. ASSUME Main PROVE EndedInv' /\ PhaseSum' /\ CallsSum'
    <3>0. d = c
      BY <2>1, MainFrame DEF counterVars, c, d
    <3>1. CASE StartThreads
      <4>1. n = 0 /\ EndedInv' /\ driven' = driven
        BY <1>1, <3>1, PhaseBegins DEF n, StartThreads
      <4> QED BY <1>2, <1>3, <1>4, <3>0, <4>1
    <3>2. CASE JoinSide
      <4>1. pc = "reap" /\ ~ InPhase' /\ (driven' = driven \/ driven' = driven + 1)
        BY <3>2 DEF JoinSide, InPhase
      <4>2. m = Quota
        BY <1>1, <4>1, PhaseIsWorkedOff DEF m
      <4>3. c >= driven * Quota + Quota
        BY <1>2, <1>4, <4>1, <4>2 DEF InPhase
      <4>4. d >= driven' * Quota
        BY <1>2, <1>3, <1>4, <3>0, <4>1, <4>3
      <4> QED BY <1>4, <4>1, <4>4 DEF EndedInv
    <3>3. CASE JoinWorkers
      <4>1. UNCHANGED <<left, at, driven>> /\ InPhase /\ InPhase'
        BY <3>3 DEF JoinWorkers, taskVars, InPhase
      <4>2. n = m
        BY <4>1 DEF Made, m, n
      <4>3. EndedInv'
        BY <1>2, <4>1 DEF EndedInv
      <4> QED BY <1>2, <1>4, <3>0, <4>1, <4>2, <4>3
    <3>4. CASE NextPair \/ NextMix \/ Return \/ Say \/ SkipWrite \/ MainSnapshot \/ MainPublish
      <4>1. driven' = driven /\ ~ InPhase'
        BY <3>4 DEF NextPair, NextMix, Return, Say, SkipWrite, MainSnapshot, MainPublish, InPhase
      <4> QED BY <1>2, <1>4, <3>0, <4>1 DEF EndedInv
    <3> QED BY <2>1, <3>1, <3>2, <3>3, <3>4 DEF Main
  <2>2. CASE Heartbeat \/ DeadlinePasses \/ UNCHANGED vars
    <3>1. UNCHANGED <<calls, left, at, pc, driven>>
      BY <2>2 DEF Heartbeat, BeatOpen, BeatSay, BeatSnapshot, BeatSkips, BeatPublish, BeatEnds,
                  DeadlinePasses, vars, mainVars, taskVars, counterVars
    <3> QED BY <2>0, <3>1
  <2>3. ASSUME NEW w \in Workers, Worker(w) PROVE EndedInv' /\ PhaseSum' /\ CallsSum'
    <3>0. driven' = driven /\ InPhase' = InPhase
      BY <2>3, MutatorsAreNot, TaskFrame DEF mainVars, InPhase
    <3>1. CASE RecordCall(w)
      <4>1. d = c + 1 /\ n = m + 1
        BY <1>1, <3>1, WorkerCounted DEF c, d, m, n
      <4>2. at'[w] = "close" /\ UNCHANGED left /\ \A v \in Workers \ {w} : at'[v] = at[v]
        BY <3>1, MutatorsAreNot DEF RecordCall, IInv, TypeOK
      <4>3. EndedInv'
        BY <1>2, <3>0, <4>2 DEF EndedInv
      <4> QED BY <1>2, <1>3, <1>4, <3>0, <4>1, <4>3
    <3>2. CASE ~ RecordCall(w)
      <4>1. n = m /\ EndedInv'
        BY <1>1, <2>3, <3>2, WorkerMoves DEF m, n
      <4>2. UNCHANGED calls
        BY <2>3, <3>2 DEF Worker, Arrive, WorkerCalls, WorkerEnds, Record, RecordLoad, RecordEnding,
                          CallEnds, counterVars
      <4>3. d = c
        BY <4>2 DEF c, d
      <4> QED BY <1>2, <1>4, <3>0, <4>1, <4>3
    <3> QED BY <3>1, <3>2
  <2>4. ASSUME NEW u \in Mutators, Mutator(u) PROVE EndedInv' /\ PhaseSum' /\ CallsSum'
    <3>0. driven' = driven /\ InPhase' = InPhase
      BY <2>4, MutatorsAreNot, TaskFrame DEF mainVars, InPhase
    <3>1. d = c /\ n = m /\ EndedInv'
      BY <1>1, <2>4, MutatorMoves DEF c, d, m, n
    <3> QED BY <1>2, <1>4, <3>0, <3>1
  <2> QED BY <2>1, <2>2, <2>3, <2>4 DEF Next, Returned
<1>6. FilesSum'
  <2>0. pairs = driven
    BY DEF IInv, FileInv
  <2>1. CASE driven' = driven
    <3>1. CASE UNCHANGED <<snap, saved>>
      BY <1>2, <2>1, <3>1 DEF FilesSum, Quota
    <3>2. CASE Snapshot
      <4>1. SumOf(Tally.calls, CallIds) >= driven * Quota
        BY <1>2 DEF CallsSum, Tally
      <4> QED BY <1>2, <2>1, <3>2, <4>1 DEF Snapshot, FilesSum, Quota
    <3>3. CASE Publish
      BY <1>2, <2>0, <2>1, <3>3 DEF Publish, FilesSum, Quota
    <3> QED BY <3>1, <3>2, <3>3, FileFrame
  <2>2. CASE JoinSide
    <3>1. snap = NoSnap /\ UNCHANGED <<snap, saved>>
      BY <2>2 DEF JoinSide, SideEnded, IInv, PhaseInv, fileVars
    <3> QED BY <1>2, <3>1 DEF FilesSum, Quota
  <2>3. driven' = driven \/ JoinSide
    BY BeatFrame, TaskFrame, MutatorsAreNot
       DEF Next, Main, NextPair, NextMix, Return, Say, StartThreads, JoinWorkers, SkipWrite, MainSnapshot,
           MainPublish, DeadlinePasses, Returned, vars, mainVars
  <2> QED BY <2>1, <2>2, <2>3
<1> QED BY <1>5, <1>6

\* While the deadline has not passed, every pair a result file counts as driven
\* is backed by all of its calls in that same file (driver.py:755-813, 900-940).
THEOREM PairsAreBacked == Spec => []SavedPairsAreBacked
<1>1. Init => BackedInv
  <2> SUFFICES ASSUME Init PROVE BackedInv
    OBVIOUS
  <2>1. OwnInv
    BY DriveAssumption, MutatorsAreNot, FiniteParts DEF Init, OwnInv, CallIds
  <2>2. SumOf(calls, CallIds) = 0 /\ SumOf(saved.counts.calls, CallIds) = 0
    BY NoneSums DEF Init, Tally, Quals
  <2>3. Quota \in Nat
    BY DriveAssumption DEF Quota
  <2>4. driven = 0 /\ saved.pairs = 0 /\ 0 * Quota = 0 /\ pc = "next" /\ snap = NoSnap
    BY <2>3 DEF Init
  <2> QED BY <2>1, <2>2, <2>4 DEF BackedInv, EndedInv, PhaseSum, CallsSum, FilesSum, InPhase
<1>2. IInv /\ BackedInv => SavedPairsAreBacked
  <2> SUFFICES ASSUME IInv, BackedInv, NotCut
               PROVE  Calls(saved.counts, CallIds) >= saved.pairs * Threads * Iterations
    BY DEF SavedPairsAreBacked, NotCut
  <2>1. SumOf(saved.counts.calls, CallIds) >= saved.pairs * Quota
    BY DEF BackedInv, FilesSum
  <2>2. saved.pairs \in Nat /\ Threads \in Nat /\ Iterations \in Nat
    BY DriveAssumption DEF IInv, TypeOK
  <2>3. \A i, j, k \in Nat : i * (j * k) = i * j * k
    OBVIOUS
  <2> QED BY <2>1, <2>2, <2>3, CallsAreSums DEF Quota
<1> QED BY <1>1, <1>2, Inductive, BackedStep, PTL DEF Spec

-----------------------------------------------------------------------------
(* What the orchestrator reads is the process DriverView. *)

LEMMA ViewInitial == Init => View!ViewInit
BY MixIsAStep DEF Init, Stage, Torn, View!ViewInit, View!Torn

\* Main's steps announce, start and end phases; its writes are not seen.
LEMMA MainView == IInv /\ Main => View!ViewNext \/ UNCHANGED View!viewVars
<1> SUFFICES ASSUME IInv, Main PROVE View!ViewNext \/ UNCHANGED View!viewVars
  OBVIOUS
<1> USE DEF Stage, View!viewVars
<1>0. UNCHANGED total
  BY MainFrame DEF counterVars
<1>1. CASE NextPair \/ NextMix
  <2>1. step' \in Steps /\ line' = View!Torn /\ UNCHANGED seen
    BY <1>1, MixIsAStep DEF NextPair, NextMix, Torn, beatVars, View!Torn, IInv, TypeOK
  <2>2. View!Announce
    BY <1>0, <1>1, <2>1 DEF NextPair, NextMix, View!Announce
  <2> QED BY <2>2 DEF View!ViewNext
<1>2. CASE Return
  <2>1. View!Finish
    BY <1>0, <1>2 DEF Return, View!Finish, beatVars, fileVars
  <2> QED BY <2>1 DEF View!ViewNext
<1>3. CASE Say
  <2>1. View!SayStep
    BY <1>0, <1>3 DEF Say, Said, View!SayStep, View!Said, beatVars
  <2> QED BY <2>1 DEF View!ViewNext
<1>4. CASE StartThreads
  BY <1>0, <1>4 DEF StartThreads, fileVars
<1>5. CASE JoinSide
  <2>1. line.text = "step"
    BY <1>5 DEF JoinSide, SideEnded, IInv, LineInv, LineNamesThePhase, TypeOK
  <2>2. View!EndPhase
    BY <1>0, <1>5, <2>1 DEF JoinSide, View!EndPhase, beatVars, fileVars
  <2> QED BY <2>2 DEF View!ViewNext
<1>6. CASE JoinWorkers \/ SkipWrite
  BY <1>0, <1>6 DEF JoinWorkers, SkipWrite, beatVars, fileVars
<1>7. CASE MainSnapshot \/ MainPublish
  BY <1>0, <1>7 DEF MainSnapshot, MainPublish, Snapshot, Publish, beatVars
<1> QED BY <1>1, <1>2, <1>3, <1>4, <1>5, <1>6, <1>7 DEF Main

\* A heartbeat runs inside a phase only.
LEMMA BeatView == IInv /\ Heartbeat => View!ViewNext \/ UNCHANGED View!viewVars
<1> SUFFICES ASSUME IInv, Heartbeat PROVE View!ViewNext \/ UNCHANGED View!viewVars
  OBVIOUS
<1> USE DEF Stage, View!viewVars
<1>0. UNCHANGED <<total, pc, step>>
  BY BeatFrame DEF counterVars, mainVars
<1>1. hb # "ended" /\ pc \in {"join", "reap"}
  BY DEF IInv, PhaseInv, SideEnded, Heartbeat, BeatOpen, BeatSay, BeatSnapshot, BeatSkips,
         BeatPublish, BeatEnds
<1>2. CASE BeatOpen
  <2>1. View!BeatOpen
    BY <1>0, <1>1, <1>2 DEF BeatOpen, Torn, View!BeatOpen, View!Torn
  <2> QED BY <2>1 DEF View!ViewNext
<1>3. CASE BeatSay
  <2>1. line.text = "torn"
    BY <1>3 DEF BeatSay, IInv, LineInv
  <2>2. View!BeatSay
    BY <1>0, <1>1, <1>3, <2>1 DEF BeatSay, Said, View!BeatSay, View!Said, IInv, LineInv
  <2> QED BY <2>2 DEF View!ViewNext
<1>4. CASE BeatSnapshot \/ BeatSkips \/ BeatPublish \/ BeatEnds
  BY <1>0, <1>4 DEF BeatSnapshot, BeatSkips, BeatPublish, BeatEnds, Snapshot, Publish, fileVars
<1> QED BY <1>2, <1>3, <1>4 DEF Heartbeat

\* A thread only ever shows as calls that finish, one at a time.
LEMMA TaskView ==
  ASSUME IInv, NEW t \in Tasks, Record(t) \/ (t \in Workers /\ Worker(t)) \/ (t \in Mutators /\ Mutator(t))
  PROVE  View!ViewNext \/ UNCHANGED View!viewVars
<1> USE DEF Stage, View!viewVars
<1>0. UNCHANGED <<pc, step, seen, line>>
  BY TaskFrame DEF mainVars, beatVars, fileVars
<1>1. CASE RecordCall(t)
  <2>1. total' = total + 1
    BY <1>1 DEF RecordCall, IInv, LockInv
  <2>2. pc \in {"join", "reap"}
    BY <1>1 DEF RecordCall, IInv, PhaseInv, SideEnded, Tasks
  <2>3. View!CallFinishes
    BY <1>0, <2>1, <2>2 DEF View!CallFinishes
  <2> QED BY <2>3 DEF View!ViewNext
<1>2. CASE UNCHANGED total
  BY <1>0, <1>2
<1>3. RecordCall(t) \/ UNCHANGED total
  BY DEF Record, RecordLoad, RecordEnding, CallEnds, Worker, Arrive, WorkerCalls, WorkerEnds,
         Mutator, MutatorCalls, MutatorEnds, counterVars
<1> QED BY <1>1, <1>2, <1>3

\* Drive implements DriverView: to the reader of its progress file, calls
\* finish one by one and only inside a phase, and a phase never ends in the
\* middle of a line (driver.py:91-95, 626-638, 689-705).
THEOREM DriveRefinesView == Spec => ImplementsView
<1>1. ASSUME IInv, [Next]_vars PROVE [View!ViewNext]_(View!viewVars)
  <2>1. CASE DeadlinePasses \/ UNCHANGED vars
    BY <2>1 DEF DeadlinePasses, vars, mainVars, beatVars, counterVars, fileVars, View!viewVars, Stage
  <2> QED BY <1>1, <2>1, MainView, BeatView, TaskView, MutatorsAreNot DEF Next, Returned
<1> QED BY <1>1, ViewInitial, Inductive, PTL DEF Spec, ImplementsView, View!ViewSpec

=============================================================================
