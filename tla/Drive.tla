------------------------------- MODULE Drive -------------------------------
(***************************************************************************)
(* One group of the stress driver: drive() with its nested run_phase(),    *)
(* the worker, heartbeat and mutator threads it starts, the shared         *)
(* Counters, the progress line and the result file that main() and the     *)
(* heartbeat publish (python/ftcheck/stress/driver.py).                    *)
(*                                                                         *)
(* Every pair of callables is one phase, then all of them together are the *)
(* mix phase.  In a phase the workers meet at a barrier and then call; the *)
(* heartbeat rewrites the progress line; mutators call until the phase is  *)
(* over.  Every state here is one a crash can leave on disk: `line' and    *)
(* `saved' are the two files, so an invariant over them is what a reader   *)
(* finds however the process dies.                                         *)
(***************************************************************************)
EXTENDS Integers, FiniteSetsExt

CONSTANTS
  Threads,      \* cfg["threads"]: workers started in every phase
  NCalls,       \* len(plan.calls): callables of the group
  Iterations,   \* cfg["iterations"]: calls one worker makes in a phase
  Mutators,     \* declared mutators, one thread each
  MaxMutations, \* bound of the model: mutator calls in the whole group
  Ends,         \* [Quals -> SUBSET Ending]: how a call of each may end
  NoOne,        \* the lock's owner when it is free
  NoSnap        \* no result file is being written

Workers == 0 .. Threads - 1
CallIds == 1 .. NCalls
Quals   == CallIds \cup Mutators
Tasks   == Workers \cup Mutators

\* A call returns, raises (a Rust panic too), raises SystemExit or never ends.
Ending == {"returns", "raises", "exits", "hangs"}

\* What a result file says of every callable.
Counts == [calls: [Quals -> Nat], returned: [Quals -> Nat], raised: [Quals -> Nat]]

ASSUME DriveAssumption ==
  /\ Threads \in Nat \ {0}
  /\ NCalls \in Nat \ {0}
  /\ Iterations \in Nat
  /\ MaxMutations \in Nat
  /\ Mutators \cap Int = {} /\ IsFiniteSet(Mutators)
  /\ Ends \in [Quals -> SUBSET Ending]
  /\ NoOne \notin Tasks
  /\ NoSnap \notin Counts

\* itertools.combinations_with_replacement(range(len(calls)), 2); its shuffle
\* is the free choice of NextPair.
Pairs == {p \in CallIds \X CallIds : p[1] <= p[2]}
Mix   == <<0, 0>>
Steps == Pairs \cup {Mix}

\* Mutant of Work: the second callable of a pair is looked up one too far.
WorkOffByOne(t, s) == IF s = Mix THEN CallIds ELSE IF t % 2 = 0 THEN {s[1] + 1} ELSE {s[2]}

\* What run_phase hands worker t in a step: even threads the first callable of
\* the pair, odd ones the second, everything in the mix.
Work(t, s) ==
  IF s = Mix THEN CallIds
  ELSE IF t % 2 = 0 THEN {s[1]} ELSE {s[2]}

VARIABLES
  pc,        \* where drive()/main() is
  todo,      \* pairs not driven yet
  step,      \* the step of the current or last phase
  late,      \* time.monotonic() > deadline
  driven,    \* drive()'s counter of finished pairs
  pairs,     \* entry["pairs_driven"], what a result file says
  exhausted, \* what drive() returns: the deadline cut the pairs short
  done,      \* the phase's Event
  at,        \* where each worker and mutator thread is
  left,      \* iterations a worker still has in the phase
  doing,     \* the callable of the thread's current call
  ending,    \* how that call ended
  hb,        \* where the heartbeat thread is
  seen,      \* the step the heartbeat was given and the total it last read
  ticked,    \* on_tick has written once in this group
  lock,      \* counters.lock
  loaded,    \* counters.total as a recording thread read it
  total,     \* counters.total
  calls, returned, raised, \* counters.calls, .returned and .exceptions
  snap,      \* the counts _write_result holds; NoSnap: _WRITE_LOCK is free
  saved,     \* the result file
  line,      \* the progress file
  mutations  \* mutator calls begun (bound of the model)

mainVars    == <<pc, todo, step, driven, pairs, exhausted, done>>
counterVars == <<lock, loaded, total, calls, returned, raised>>
taskVars    == <<at, left, doing, ending, mutations>>
fileVars    == <<snap, saved, line>>
beatVars    == <<hb, seen, ticked>>
vars == <<mainVars, late, taskVars, beatVars, counterVars, fileVars>>

Tally == [calls |-> calls, returned |-> returned, raised |-> raised]
None  == [q \in Quals |-> 0]
Torn  == [text |-> "torn", step |-> Mix, count |-> -1]   \* opened with "w", not yet written
Said(s, n) == [text |-> "step", step |-> s, count |-> n] \* n = -1: no " | calls n" yet

Init ==
  /\ pc = "next" /\ todo = Pairs /\ step = Mix /\ driven = 0 /\ pairs = 0
  /\ exhausted = FALSE /\ done = TRUE
  /\ late \in BOOLEAN
  /\ at = [t \in Tasks |-> "ended"] /\ left = [w \in Workers |-> 0]
  /\ doing = [t \in Tasks |-> IF t \in Workers THEN 1 ELSE t]
  /\ ending = [t \in Tasks |-> "returns"] /\ mutations = 0
  /\ hb = "ended" /\ seen = [step |-> Mix, count |-> 0] /\ ticked = FALSE
  /\ lock = NoOne /\ loaded = [t \in Tasks |-> 0] /\ total = 0
  /\ calls = None /\ returned = None /\ raised = None
  /\ snap = NoSnap
  /\ saved = [counts |-> Tally, pairs |-> 0]  \* main wrote it before the group
  /\ line = Torn                              \* whatever an earlier step left

-----------------------------------------------------------------------------
(* drive() and run_phase(), on the main thread. *)

\* progress.say(step), first half: open(path, "w") empties the file.
NextPair ==
  /\ pc = "next" /\ ~late
  /\ \E p \in todo : step' = p /\ todo' = todo \ {p}
  /\ pc' = "say" /\ line' = Torn
  /\ UNCHANGED <<driven, pairs, exhausted, done, late, taskVars, beatVars, counterVars, snap, saved>>

NextMix ==
  /\ pc = "next" /\ todo = {} /\ ~late
  /\ step' = Mix /\ pc' = "say" /\ line' = Torn
  /\ UNCHANGED <<todo, driven, pairs, exhausted, done, late, taskVars, beatVars, counterVars, snap, saved>>

\* Mutant of Return: the group is left without its last write.
ReturnAtOnce ==
  /\ pc = "next" /\ late
  /\ pc' = "returned" /\ exhausted' = (todo # {})
  /\ UNCHANGED <<todo, step, driven, pairs, done, late, taskVars, beatVars, counterVars, fileVars>>

\* The deadline has passed: no further phase starts.
Return ==
  /\ pc = "next" /\ late
  /\ pc' = "finish" /\ exhausted' = (todo # {})
  /\ UNCHANGED <<todo, step, driven, pairs, done, late, taskVars, beatVars, counterVars, fileVars>>

\* Mutant of Say: the pair is counted when it is announced.
SayAndCount ==
  /\ pc = "say"
  /\ line' = Said(step, -1) /\ pc' = "start" /\ pairs' = driven + 1
  /\ UNCHANGED <<todo, step, driven, exhausted, done, late, taskVars, beatVars, counterVars, snap, saved>>

\* progress.say(step), second half, then run_phase() begins.
Say ==
  /\ pc = "say"
  /\ line' = Said(step, -1) /\ pc' = "start"
  /\ UNCHANGED <<todo, step, driven, pairs, exhausted, done, late, taskVars, beatVars, counterVars, snap, saved>>

\* A thread that has been started but has not run yet is one not started yet.
StartThreads ==
  /\ pc = "start"
  /\ pc' = "join" /\ done' = FALSE
  /\ hb' = "wait" /\ seen' = [step |-> step, count |-> seen.count]
  /\ at' = [t \in Tasks |-> IF t \in Workers THEN "start" ELSE "check"]
  /\ left' = [w \in Workers |-> Iterations]
  /\ UNCHANGED <<todo, step, driven, pairs, exhausted, late, doing, ending, mutations,
                 ticked, counterVars, fileVars>>

\* Mutant of JoinWorkers: the phase's Event is never set.
JoinSilently ==
  /\ pc = "join" /\ \A w \in Workers : at[w] = "ended"
  /\ pc' = "reap"
  /\ UNCHANGED <<todo, step, driven, pairs, exhausted, done, late, taskVars, beatVars, counterVars, fileVars>>

JoinWorkers ==
  /\ pc = "join" /\ \A w \in Workers : at[w] = "ended"
  /\ done' = TRUE /\ pc' = "reap"
  /\ UNCHANGED <<todo, step, driven, pairs, exhausted, late, taskVars, beatVars, counterVars, fileVars>>

\* Mutant of SideEnded: the side threads are not joined.
SideNotJoined == TRUE

SideEnded == hb = "ended" /\ \A m \in Mutators : at[m] = "ended"

\* The last join of run_phase; after a pair, driven += 1 and on_pair().
JoinSide ==
  /\ pc = "reap" /\ SideEnded
  /\ IF step = Mix
       THEN pc' = "finish" /\ UNCHANGED <<driven, pairs>>
       ELSE pc' = "on_pair" /\ driven' = driven + 1 /\ pairs' = driven + 1
  /\ UNCHANGED <<todo, step, exhausted, done, late, taskVars, beatVars, counterVars, fileVars>>

\* on_pair() writes only when the last write is over two seconds old.
SkipWrite ==
  /\ pc = "on_pair" /\ pc' = "next"
  /\ UNCHANGED <<todo, step, driven, pairs, exhausted, done, late, taskVars, beatVars, counterVars, fileVars>>

\* Mutants of the next two: counts copied without their lock; the result file
\* written in place, so that a reader may find it emptied.
SnapshotUnlocked == snap = NoSnap /\ snap' = Tally /\ UNCHANGED <<saved, line>>
PublishInPlace ==
  /\ snap # NoSnap /\ snap' = NoSnap /\ UNCHANGED line
  /\ saved' \in {[counts |-> c, pairs |-> pairs] :
                   c \in {snap, [calls |-> None, returned |-> None, raised |-> None]}}

\* _write_result: _WRITE_LOCK, then the counts copied under counters.lock ...
Snapshot == snap = NoSnap /\ lock = NoOne /\ snap' = Tally /\ UNCHANGED <<saved, line>>
\* ... then the temporary file is written and os.replace()d over the result.
Publish == snap # NoSnap /\ snap' = NoSnap
           /\ saved' = [counts |-> snap, pairs |-> pairs] /\ UNCHANGED line

\* on_pair's write, and the one main makes when drive() has returned.
MainSnapshot ==
  /\ pc \in {"on_pair", "finish"} /\ Snapshot
  /\ pc' = IF pc = "on_pair" THEN "publish" ELSE "last"
  /\ pairs' = driven
  /\ UNCHANGED <<todo, step, driven, exhausted, done, late, taskVars, beatVars, counterVars>>

MainPublish ==
  /\ pc \in {"publish", "last"} /\ Publish
  /\ pc' = IF pc = "publish" THEN "next" ELSE "returned"
  /\ UNCHANGED <<todo, step, driven, pairs, exhausted, done, late, taskVars, beatVars, counterVars>>

-----------------------------------------------------------------------------
(* Counters.record(): everything it changes, it changes under its lock. *)

\* Mutant of RecordLoad: the lock is not waited for.
RecordLoadUnlocked(t) ==
  /\ at[t] = "record"
  /\ lock' = t /\ loaded' = [loaded EXCEPT ![t] = total]
  /\ at' = [at EXCEPT ![t] = "store"]
  /\ UNCHANGED <<mainVars, late, left, doing, ending, mutations, beatVars, total,
                 calls, returned, raised, fileVars>>

\* `self.total += 1' is a load and a store; free-threaded threads interleave.
RecordLoad(t) ==
  /\ at[t] = "record" /\ lock = NoOne
  /\ lock' = t /\ loaded' = [loaded EXCEPT ![t] = total]
  /\ at' = [at EXCEPT ![t] = "store"]
  /\ UNCHANGED <<mainVars, late, left, doing, ending, mutations, beatVars, total,
                 calls, returned, raised, fileVars>>

RecordCall(t) ==
  /\ at[t] = "store"
  /\ total' = loaded[t] + 1
  /\ calls' = [calls EXCEPT ![doing[t]] = @ + 1]
  /\ at' = [at EXCEPT ![t] = "close"]
  /\ UNCHANGED <<mainVars, late, left, doing, ending, mutations, beatVars, lock, loaded,
                 returned, raised, fileVars>>

RecordEnding(t) ==
  /\ at[t] = "close"
  /\ IF ending[t] = "returns"
       THEN returned' = [returned EXCEPT ![doing[t]] = @ + 1] /\ UNCHANGED raised
       ELSE raised' = [raised EXCEPT ![doing[t]] = @ + 1] /\ UNCHANGED returned
  /\ lock' = NoOne
  /\ at' = [at EXCEPT ![t] = IF t \in Workers THEN "loop" ELSE "check"]
  /\ UNCHANGED <<mainVars, late, left, doing, ending, mutations, beatVars, loaded, total,
                 calls, fileVars>>

\* The call comes back: an answer or an exception is recorded, SystemExit ends
\* the thread unrecorded, a deadlocked call never comes back.
CallEnds(t) ==
  /\ at[t] = "call"
  /\ \E e \in Ends[doing[t]] :
       /\ ending' = [ending EXCEPT ![t] = e]
       /\ at' = [at EXCEPT ![t] = IF e = "exits" THEN "ended"
                                  ELSE IF e = "hangs" THEN "stuck" ELSE "record"]
  /\ UNCHANGED <<mainVars, late, left, doing, mutations, beatVars, counterVars, fileVars>>

-----------------------------------------------------------------------------
(* _worker() *)

\* Mutant of Arrive: nobody waits at the barrier.
ArriveAlone(w) ==
  /\ at[w] = "start" /\ at' = [at EXCEPT ![w] = "loop"]
  /\ UNCHANGED <<mainVars, late, left, doing, ending, mutations, beatVars, counterVars, fileVars>>

\* barrier.wait(): the last worker to arrive releases all of them.
Arrive(w) ==
  /\ at[w] = "start"
  /\ at' = IF \A v \in Workers \ {w} : at[v] = "barrier"
             THEN [t \in Tasks |-> IF t \in Workers THEN "loop" ELSE at[t]]
             ELSE [at EXCEPT ![w] = "barrier"]
  /\ UNCHANGED <<mainVars, late, left, doing, ending, mutations, beatVars, counterVars, fileVars>>

WorkerCalls(w) ==
  /\ at[w] = "loop" /\ left[w] > 0 /\ ~late
  /\ \E q \in Work(w, step) : doing' = [doing EXCEPT ![w] = q]
  /\ left' = [left EXCEPT ![w] = @ - 1]
  /\ at' = [at EXCEPT ![w] = "call"]
  /\ UNCHANGED <<mainVars, late, ending, mutations, beatVars, counterVars, fileVars>>

\* Out of iterations, or past the deadline, which is honoured per call.
WorkerEnds(w) ==
  /\ at[w] = "loop" /\ (left[w] = 0 \/ late)
  /\ at' = [at EXCEPT ![w] = "ended"]
  /\ UNCHANGED <<mainVars, late, left, doing, ending, mutations, beatVars, counterVars, fileVars>>

-----------------------------------------------------------------------------
(* _mutator() *)

MutatorCalls(m) ==
  /\ at[m] = "check" /\ ~done /\ mutations < MaxMutations
  /\ mutations' = mutations + 1
  /\ at' = [at EXCEPT ![m] = "call"]
  /\ UNCHANGED <<mainVars, late, left, doing, ending, beatVars, counterVars, fileVars>>

MutatorEnds(m) ==
  /\ at[m] = "check" /\ done
  /\ at' = [at EXCEPT ![m] = "ended"]
  /\ UNCHANGED <<mainVars, late, left, doing, ending, mutations, beatVars, counterVars, fileVars>>

-----------------------------------------------------------------------------
(* _heartbeat(), with Progress.say() and on_tick() *)

\* done.wait() timed out: the count is read (without the lock) and the
\* progress file is opened, which empties it.
BeatOpen ==
  /\ hb = "wait" /\ ~done
  /\ hb' = "say" /\ seen' = [step |-> seen.step, count |-> total] /\ line' = Torn
  /\ UNCHANGED <<mainVars, late, taskVars, ticked, counterVars, snap, saved>>

BeatSay ==
  /\ hb = "say"
  /\ hb' = "tick" /\ line' = Said(seen.step, seen.count)
  /\ UNCHANGED <<mainVars, late, taskVars, seen, ticked, counterVars, snap, saved>>

\* on_tick() writes at its first tick and then every five seconds.
BeatSnapshot ==
  /\ hb = "tick" /\ Snapshot
  /\ hb' = "publish" /\ ticked' = TRUE
  /\ UNCHANGED <<mainVars, late, taskVars, seen, counterVars>>

BeatSkips ==
  /\ hb = "tick" /\ ticked
  /\ hb' = "wait"
  /\ UNCHANGED <<mainVars, late, taskVars, seen, ticked, counterVars, fileVars>>

\* Mutant of BeatPublish: an on_tick() that fails ends the heartbeat.
BeatDies ==
  /\ hb = "publish" /\ Publish
  /\ hb' = "ended"
  /\ UNCHANGED <<mainVars, late, taskVars, seen, ticked, counterVars>>

BeatPublish ==
  /\ hb = "publish" /\ Publish
  /\ hb' = "wait"
  /\ UNCHANGED <<mainVars, late, taskVars, seen, ticked, counterVars>>

BeatEnds ==
  /\ hb = "wait" /\ done
  /\ hb' = "ended"
  /\ UNCHANGED <<mainVars, late, taskVars, seen, ticked, counterVars, fileVars>>

-----------------------------------------------------------------------------
\* Time goes by while the group is driven.
DeadlinePasses ==
  /\ ~late /\ pc # "returned" /\ late' = TRUE
  /\ UNCHANGED <<mainVars, taskVars, beatVars, counterVars, fileVars>>

Returned == pc = "returned" /\ UNCHANGED vars

Main == \/ NextPair \/ NextMix \/ Return \/ Say \/ StartThreads \/ JoinWorkers
        \/ JoinSide \/ SkipWrite \/ MainSnapshot \/ MainPublish
Record(t)  == RecordLoad(t) \/ RecordCall(t) \/ RecordEnding(t) \/ CallEnds(t)
Worker(w)  == Arrive(w) \/ WorkerCalls(w) \/ WorkerEnds(w) \/ Record(w)
Mutator(m) == MutatorCalls(m) \/ MutatorEnds(m) \/ Record(m)
Heartbeat  == BeatOpen \/ BeatSay \/ BeatSnapshot \/ BeatSkips \/ BeatPublish \/ BeatEnds

Next == \/ Main \/ Heartbeat \/ DeadlinePasses \/ Returned
        \/ \E w \in Workers : Worker(w)
        \/ \E m \in Mutators : Mutator(m)

\* Every thread that can take a step is scheduled in the end, and a heartbeat
\* that keeps ticking gets round to the branch of its loop that is open.
Fairness ==
  /\ WF_vars(Main) /\ WF_vars(Heartbeat)
  /\ \A w \in Workers : WF_vars(Worker(w))
  /\ \A m \in Mutators : WF_vars(Mutator(m))

Spec     == Init /\ [][Next]_vars
FairSpec == Spec /\ Fairness

-----------------------------------------------------------------------------
(* What is expected of it. *)

TypeOK ==
  /\ pc \in {"next", "say", "start", "join", "reap", "on_pair", "publish",
             "finish", "last", "returned"}
  /\ todo \subseteq Pairs /\ step \in Steps
  /\ driven \in Nat /\ pairs \in Nat
  /\ exhausted \in BOOLEAN /\ done \in BOOLEAN /\ late \in BOOLEAN
  /\ at \in [Tasks -> {"start", "barrier", "loop", "check", "call", "record",
                       "store", "close", "stuck", "ended"}]
  /\ left \in [Workers -> Nat] /\ doing \in [Tasks -> Quals]
  /\ ending \in [Tasks -> Ending] /\ mutations \in Nat
  /\ hb \in {"wait", "say", "tick", "publish", "ended"}
  /\ seen \in [step: Steps, count: Nat] /\ ticked \in BOOLEAN
  /\ lock \in Tasks \cup {NoOne} /\ loaded \in [Tasks -> Nat]
  /\ total \in Nat /\ Tally \in Counts
  /\ snap \in Counts \cup {NoSnap}
  /\ saved \in [counts: Counts, pairs: Nat]
  /\ line \in [text: {"torn", "step"}, step: Steps, count: Int]

Agrees(counts) ==
  \A q \in Quals : counts.calls[q] = counts.returned[q] + counts.raised[q]
AtMost(a, b) == \A q \in Quals : /\ a.calls[q] <= b.calls[q]
                                 /\ a.returned[q] <= b.returned[q]
                                 /\ a.raised[q] <= b.raised[q]
Calls(counts, Q) == MapThenSumSet(LAMBDA q : counts.calls[q], Q)

\* A result file never shows a call without its outcome, wherever among the
\* three updates of record() a heartbeat takes its snapshot: a torn one would
\* put a callable that answered under raised_all (driver.py:928).
SavedAgrees == Agrees(saved.counts) /\ (snap # NoSnap => Agrees(snap))

\* What is published only ever grows: no write that was slow to replace the
\* file puts older counts, or fewer pairs, over newer ones.
ResultNeverRegresses ==
  [][AtMost(saved.counts, saved'.counts) /\ saved.pairs <= saved'.pairs]_vars

\* Whenever no thread is in record(), the count the heartbeat shows is the
\* number of calls that came back: none lost to two threads adding at once.
EveryCallCounted == lock = NoOne => total = Calls(Tally, Quals)

\* No worker calls before all of a phase's workers stand at the barrier: the
\* calls of a pair overlap from the first one on.
CallsStartTogether ==
  [][(\E w \in Workers : at[w] = "loop" /\ at'[w] = "call")
       => \A w \in Workers : at[w] \notin {"start", "barrier"}]_vars

\* When main is between two phases, or writes, nothing of the phase before is
\* still running, holds the counters or is about to replace a file.
QuietBetweenPhases ==
  pc \notin {"join", "reap"} =>
    /\ hb = "ended" /\ \A t \in Tasks : at[t] = "ended"
    /\ lock = NoOne /\ (snap # NoSnap => pc \in {"publish", "last"})

\* While a phase runs, a progress line that is not just being rewritten names
\* that phase: what a hang or a crash is filed under.
LineNamesThePhase ==
  pc \in {"start", "join", "reap"} =>
    IF line.text = "torn" THEN hb = "say" ELSE line.step = step /\ line.count <= total

\* As long as the deadline has not passed, every pair a result file counts as
\* driven is backed by all of its calls in that same file.
SavedPairsAreBacked ==
  ~late /\ (\A q \in CallIds : "exits" \notin Ends[q])
    => Calls(saved.counts, CallIds) >= saved.pairs * Threads * Iterations

\* When the group is over its result file is complete: every recorded call,
\* every driven pair, and pairs left out only when the deadline cut them off.
FinalResultIsComplete ==
  pc = "returned" =>
    /\ saved = [counts |-> Tally, pairs |-> driven]
    /\ driven + Cardinality(todo) = Cardinality(Pairs)
    /\ todo # {} => exhausted

\* The group ends, deadline or not, unless a call of a worker or of a mutator
\* never comes back.
GroupEnds == <>(pc = "returned" \/ \E t \in Tasks : at[t] = "stuck")

\* Every recorded call shows in the progress line while its phase runs on:
\* work that goes on never looks like a standstill, even past a stuck worker.
ProgressShows ==
  \A n \in 1 .. Threads * Iterations :
    (pc = "join" /\ driven = 0 /\ total >= n)
      ~> (line.count >= n \/ pc # "join" \/ driven > 0)

-----------------------------------------------------------------------------
(* What the orchestrator relies on. *)

Stage ==
  IF pc \in {"next", "on_pair", "publish"} THEN "idle"
  ELSE IF pc = "say" THEN "say"
  ELSE IF pc \in {"start", "join", "reap"} THEN "phase" ELSE "over"

View == INSTANCE DriverView WITH stage <- Stage, shown <- seen.count

\* To a reader of its progress file the group is the simple process DriverView:
\* calls finish one by one and only inside a phase, a line shows the last count
\* the heartbeat read, and no phase ends in the middle of a line.
ImplementsView == View!ViewSpec
=============================================================================
