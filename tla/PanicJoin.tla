----------------------------- MODULE PanicJoin ------------------------------
(***************************************************************************)
(* Where a Rust panic is filed.  Rust prints a line (thread, site, first   *)
(* line of the message) when a panic starts; the driver records the call   *)
(* when the panic has reached Python as an exception, run by run and only  *)
(* up to two caps; the orchestrator joins what the last result file holds  *)
(* of each thread to the lines of that thread, and names every candidate   *)
(* for what it cannot join (python/ftcheck/stress/driver.py and            *)
(* python/ftcheck/stress/__init__.py).                                     *)
(*                                                                         *)
(* The lines of one thread are in order; how the lines of different        *)
(* threads interleave in the log decides nothing, so the log is kept       *)
(* thread by thread.  `true' is a history variable.                        *)
(***************************************************************************)
EXTENDS Integers, FiniteSetsExt, SequencesExt

CONSTANTS
  Threads,      \* threads whose calls the driver records
  Other,        \* any other thread: the main thread's probes, Rust's own threads
  Quals,        \* the callables
  Serial,       \* those whose single-threaded baseline panicked too
  Messages,     \* panic messages
  FirstLine,    \* [Messages -> what Rust prints of it]
  OwnSites,     \* [site -> its messages] of panics on the calling thread
  HelperSites,  \* ... of panics on a thread of Rust's that reach the caller
  CaughtSites,  \* ... of panics the extension catches itself
  MaxRuns,      \* _MAX_PANIC_RUNS: runs recorded per thread
  MaxRunsTotal, \* _MAX_PANIC_RUNS_TOTAL: runs recorded of all threads
  MaxMessages,  \* _MAX_PANIC_MESSAGES: messages kept per callable
  JoinWindow,   \* _JOIN_WINDOW
  MaxLines,     \* bound of the model: panic lines in the log
  NoCall        \* no panicking call is on its way to Python

Tids  == Threads \cup {Other}
Sites == DOMAIN OwnSites \cup DOMAIN HelperSites \cup DOMAIN CaughtSites
Line  == [site: Sites, msg: Messages]
Run   == [qual: Quals, msg: Messages, count: Nat]

ASSUME JoinAssumption ==
  /\ IsFiniteSet(Threads) /\ Other \notin Threads /\ Serial \subseteq Quals
  /\ NoCall \notin [qual: Quals, msg: Messages, site: Sites, pos: Nat]
  /\ DOMAIN FirstLine = Messages
  /\ \A sites \in {OwnSites, HelperSites, CaughtSites} :
       \A s \in DOMAIN sites : sites[s] \subseteq Messages
  /\ {MaxRuns, MaxRunsTotal, MaxMessages, JoinWindow, MaxLines} \subseteq Nat \ {0}

VARIABLES
  tagged,  \* this Rust prints the thread id in its panic line
  lines,   \* the driver log: panic lines of every thread, in order
  coming,  \* the panicking call of a thread that is not recorded yet
  runs,    \* result["panic_threads"]
  full,    \* counters._panic_full
  panics,  \* result["panics"]: message -> count, of every callable
  count,   \* result["exceptions"][qual]["PanicException"]
  true,    \* of every call in runs, the position of its line; 0: another thread's
  filed,   \* the last result file is written: what follows is in the log only
  where    \* sites at which a callable panicked, as far as the file counts

logVars  == <<tagged, lines>>
fileVars == <<runs, full, panics, count, true, where>>
vars     == <<logVars, coming, fileVars, filed>>

Printed == MapThenSumSet(LAMBDA t : Len(lines[t]), Tids)
RunsOf(rs) == MapThenSumSet(LAMBDA t : Len(rs[t]), Threads)

Init ==
  /\ tagged \in BOOLEAN
  /\ lines = [t \in Tids |-> <<>>]
  /\ coming = [t \in Threads |-> NoCall]
  /\ runs = [t \in Threads |-> <<>>] /\ full = {}
  /\ panics = [q \in Quals |-> <<>>] /\ count = [q \in Quals |-> 0]
  /\ true = [t \in Threads |-> <<>>] /\ filed = FALSE
  /\ where = [q \in Quals |-> {}]

-----------------------------------------------------------------------------
(* The extension under test: external. *)

Prints(t, s, m) == Printed < MaxLines /\ lines' = [lines EXCEPT ![t] = Append(@, [site |-> s, msg |-> m])]

\* A call of q panics on its own thread, or on a thread of Rust's whose panic
\* is resumed on the caller.
Panic(t, q) ==
  /\ coming[t] = NoCall
  /\ \/ \E s \in DOMAIN OwnSites : \E m \in OwnSites[s] :
          /\ Prints(t, s, m)
          /\ coming' = [coming EXCEPT ![t] = [qual |-> q, msg |-> m, site |-> s, pos |-> Len(lines[t]) + 1]]
     \/ \E s \in DOMAIN HelperSites : \E m \in HelperSites[s] :
          /\ Prints(Other, s, m)
          /\ coming' = [coming EXCEPT ![t] = [qual |-> q, msg |-> m, site |-> s, pos |-> 0]]
  /\ UNCHANGED <<tagged, fileVars, filed>>

\* A panic that never reaches Python.
CaughtPanic(t) ==
  /\ \E s \in DOMAIN CaughtSites : \E m \in CaughtSites[s] : Prints(t, s, m)
  /\ UNCHANGED <<tagged, coming, fileVars, filed>>

-----------------------------------------------------------------------------
(* The driver. *)

Merges(rs, c) == rs # <<>> /\ Last(rs).qual = c.qual /\ Last(rs).msg = c.msg
Counted(rs, c) ==
  IF Merges(rs, c) THEN [rs EXCEPT ![Len(rs)].count = @ + 1]
  ELSE Append(rs, [qual |-> c.qual, msg |-> c.msg, count |-> 1])

\* Mutant of RecordRun: past a cap the run is dropped and recording goes on.
RecordRunGoesOn(t, c) ==
  LET room == Merges(runs[t], c) \/ (Len(runs[t]) < MaxRuns /\ RunsOf(runs) < MaxRunsTotal) IN
  /\ full' = full
  /\ runs' = IF room THEN [runs EXCEPT ![t] = Counted(@, c)] ELSE runs
  /\ true' = IF room THEN [true EXCEPT ![t] = Append(@, c.pos)] ELSE true

\* The thread's record: the call joins the last run, or starts one if there is
\* room, or the thread records nothing from here on.
RecordRun(t, c) ==
  LET room == /\ t \notin full
              /\ \/ Merges(runs[t], c)
                 \/ Len(runs[t]) < MaxRuns /\ RunsOf(runs) < MaxRunsTotal IN
  /\ full' = IF room THEN full ELSE full \cup {t}
  /\ runs' = IF room THEN [runs EXCEPT ![t] = Counted(@, c)] ELSE runs
  /\ true' = IF room THEN [true EXCEPT ![t] = Append(@, c.pos)] ELSE true

\* Counters.record() of the PanicException, under its lock.
Record(t) ==
  /\ coming[t] # NoCall
  /\ coming' = [coming EXCEPT ![t] = NoCall]
  /\ LET c == coming[t]  kept == panics[c.qual] IN
     IF filed THEN UNCHANGED fileVars
     ELSE /\ count' = [count EXCEPT ![c.qual] = @ + 1]
          /\ where' = [where EXCEPT ![c.qual] = @ \cup {c.site}]
          /\ panics' = [panics EXCEPT ![c.qual] =
               IF c.msg \in DOMAIN kept THEN [kept EXCEPT ![c.msg] = @ + 1]
               ELSE IF Cardinality(DOMAIN kept) < MaxMessages
                 THEN [m \in DOMAIN kept \cup {c.msg} |-> IF m = c.msg THEN 1 ELSE kept[m]]
                 ELSE kept]
          /\ RecordRun(t, c)
  /\ UNCHANGED <<logVars, filed>>

\* The last result file is written: the driver goes on, or crashes, after it.
WriteResult == ~filed /\ filed' = TRUE /\ UNCHANGED <<logVars, coming, fileVars>>

Next == \/ \E t \in Threads : Record(t) \/ \E q \in Quals : Panic(t, q)
        \/ \E t \in Tids : CaughtPanic(t)
        \/ WriteResult
Spec == Init /\ [][Next]_vars

-----------------------------------------------------------------------------
(* The orchestrator: panic_locations(), _join() and panic_findings() over    *)
(* the last result file and the whole log.                                   *)

\* Mutant of SameMessage: the panics of a thread are told apart by order alone.
AnyMessage(m, n) == TRUE

\* The log holds the first line of a message.
SameMessage(m, n) == FirstLine[m] = FirstLine[n]

\* Every call of a thread's record, in order.
Calls(t) == FlattenSeq([i \in DOMAIN runs[t] |->
              [k \in 1 .. runs[t][i].count |-> [qual |-> runs[t][i].qual, msg |-> runs[t][i].msg]]])
Mine(t) == IF tagged THEN lines[t] ELSE <<>>

\* Mutant of Joined: every call is looked for from the first line on.
JoinedFromStart(t) ==
  LET calls == Calls(t)  mine == Mine(t)
      found(i) == {j \in DOMAIN mine : SameMessage(mine[j].msg, calls[i].msg)}
  IN [i \in 0 .. Len(calls) |-> IF i = 0 \/ found(i) = {} THEN 0 ELSE Min(found(i))]

\* `k' of _join() after the thread's i-th call: the line it was matched to, or
\* where it stood when no line in the window says the same.
Joined(t) ==
  LET calls == Calls(t)  mine == Mine(t)
      k[i \in 0 .. Len(calls)] ==
        IF i = 0 THEN 0
        ELSE LET found == {j \in k[i-1] + 1 .. Min({k[i-1] + JoinWindow, Len(mine)}) :
                             SameMessage(mine[j].msg, calls[i].msg)}
             IN IF found = {} THEN k[i-1] ELSE Min(found)
  IN k

\* The calls of t that were matched, as [call, line] numbers.
Matches(t) == LET k == Joined(t) IN {<<i, k[i]>> : i \in {i \in DOMAIN Calls(t) : k[i] > k[i-1]}}

Wanted == {q \in Quals \ Serial : count[q] > 0}

\* The lines q's calls were matched to.
Located(q) == UNION {{<<t, m[2]>> : m \in {m \in Matches(t) : Calls(t)[m[1]].qual = q}} : t \in Threads}
Consumed == UNION {{<<t, m[2]>> : m \in Matches(t)} : t \in Threads}
At(e) == lines[e[1]][e[2]]
Events == UNION {{t} \X DOMAIN lines[t] : t \in Tids}

\* Mutant of Pool: only lines of threads the record knows.
PoolOfThreads == {e \in Events \ Consumed : e[1] \in Threads /\ runs[e[1]] # <<>>}

\* Where a call that was not matched may have panicked.
Pool == IF Events \subseteq Consumed THEN Events ELSE Events \ Consumed
Rest(q) == count[q] - Cardinality(Located(q))
Candidates(q) == {At(e).site : e \in {e \in Pool : \E m \in DOMAIN panics[q] : SameMessage(At(e).msg, m)}}

\* What the findings say of q: the sets of sites it is filed under.
FiledUnder(q) == {{At(e).site} : e \in Located(q)} \cup (IF Rest(q) > 0 THEN {Candidates(q)} ELSE {})

-----------------------------------------------------------------------------
(* What is expected of it. *)

\* Every panic line so far is of a call that panicked on its own thread.
OnlyOwn == \A t \in Tids : \A i \in DOMAIN lines[t] : lines[t][i].site \in DOMAIN OwnSites

\* What a line of the log can be.
IsOwn(l)    == l.site \in DOMAIN OwnSites /\ l.msg \in OwnSites[l.site]
IsHelper(l) == l.site \in DOMAIN HelperSites /\ l.msg \in HelperSites[l.site]
IsCaught(l) == l.site \in DOMAIN CaughtSites /\ l.msg \in CaughtSites[l.site]

\* Neither of these two holds of every extension: where one fails, so may what is
\* expected below.  No site of the calling threads is one of other panics.
SitesApart == \A s \in DOMAIN OwnSites : s \notin DOMAIN HelperSites /\ s \notin DOMAIN CaughtSites

\* What Rust prints of a panic tells which of the three kinds it is.
MessagesApart ==
  \A l, m \in Line :
    /\ IsOwn(l) /\ (IsHelper(m) \/ IsCaught(m)) => FirstLine[l.msg] # FirstLine[m.msg]
    /\ IsHelper(l) /\ IsCaught(m) => FirstLine[l.msg] # FirstLine[m.msg]

\* While no panic was caught or raised elsewhere, every call the file records is
\* matched to its own line, whenever the file was written, however many lines
\* came after it and whichever thread ran into a cap.
SitesAreExact ==
  tagged /\ OnlyOwn => \A t \in Threads : Matches(t) = {<<i, true[t][i]>> : i \in DOMAIN Calls(t)}

\* No call is matched to a line that is not its own: not that of another call,
\* not one the extension caught, not one of a panic on another thread.
JoinsAreTrue ==
  \A t \in Threads : \A m \in Matches(t) : m[2] = true[t][m[1]]

\* Wherever a callable panicked, a finding about it names that site, alone or
\* among the candidates, as long as no message of it was dropped.
TrueSiteIsNamed ==
  \A q \in Wanted :
    Cardinality(DOMAIN panics[q]) < MaxMessages => where[q] \subseteq UNION FiledUnder(q)

\* With thread ids, room in the record and no other panics, a callable is filed
\* under the sites it panicked at and no other: two sites of one message are two
\* findings.
SitesAreToldApart ==
  tagged /\ OnlyOwn /\ full = {} => \A q \in Wanted : FiledUnder(q) = {{s} : s \in where[q]}
=============================================================================
