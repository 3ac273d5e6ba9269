------------------------------- MODULE Groups -------------------------------
(***************************************************************************)
(* The stress driver's main(): it derives the surface and plans what each  *)
(* group (a type, or the functions of a module) will have driven           *)
(* (plan_type, plan_functions), then drives the groups one after another,  *)
(* each with a share of what is left of the budget, and keeps the result   *)
(* file up to date; and what the orchestrator counts in that file          *)
(* (coverage).  python/ftcheck/stress/driver.py, stress/__init__.py        *)
(*                                                                         *)
(* Drive models the threads of one group; here a phase is a period in      *)
(* which some of its callables return.  The process may die at any point.  *)
(***************************************************************************)
EXTENDS Integers, FiniteSets, Sequences

CONSTANTS
  NGroups,    \* groups the native modules have, in the order they are planned
  Modules,    \* the configured native modules
  ModuleOf,   \* [Groups -> Modules]
  ShapesOf,   \* [Groups -> SUBSET Shape]: what each group may be
  OnlySets,   \* values of --only: sets of groups, 0 names nothing
  MaxCombos,  \* _MAX_COMBOS: derivation attempts per callable
  Budget,     \* budget_seconds, in ticks
  PlanTime,   \* bound of the model: ticks planning one group may take
  PhaseTime,  \* bound of the model: ticks the iterations of a phase may take
  MakeTime,   \* bound of the model: ticks the factory of a group may take
  CallTime,   \* bound of the model: ticks one call may take past the deadline
  Scale       \* parts a tick is counted in, so that shares are whole

Groups == 1 .. NGroups

Kinds == {"method", "property", "dunder", "static", "function", "private"}

\* A member: how it is called, whether it is in [stress.skip], whether its
\* arguments are declared, what becomes of the argument tuples tried otherwise,
\* whether the value just read can be written back.
Member ==
  [kind: Kinds, skipped: BOOLEAN, declared: BOOLEAN,
   tries: Seq({"returns", "raises", "TypeError"}), settable: BOOLEAN]

\* A factory is found or not, and may raise; functions need none ("found").
Shape ==
  [kind: {"type", "functions"}, factory: {"found", "none", "raises"},
   unsendable: BOOLEAN, members: Seq(Member)]

ASSUME GroupsAssumption ==
  /\ NGroups \in Nat /\ ModuleOf \in [Groups -> Modules]
  /\ \A g \in Groups : \A s \in ShapesOf[g] : s \in Shape
  /\ OnlySets \subseteq SUBSET (0 .. NGroups)
  /\ {MaxCombos, Budget, PlanTime, PhaseTime, MakeTime, CallTime} \subseteq Nat
  /\ Scale \in Nat \ {0} /\ \A r \in Groups : Scale % r = 0

VARIABLES
  world,    \* what each group is
  only,     \* --only
  surface,  \* groups of the modules that could be imported
  stage,    \* "load", "plan", "groups", "between", "phase", "mixed", "done" or "dead"
  at,       \* the group planned next, or the index of the plan driven next
  plans,    \* a sequence of plans
  entries,  \* the groups of the result, one for each plan
  clock,    \* ticks since the driver started
  until,    \* group_deadline, in parts of a tick
  left,     \* pairs of the group not yet driven
  phase,    \* callables of the phase that runs
  returned, \* callables of which a call returned (counters.returned)
  file,     \* the result file
  \* history
  planned,  \* ticks when planning was over
  began,    \* ticks when the group's share was set
  late      \* parts of ticks that groups ran past their deadlines

fixed   == <<world, only>>
history == <<planned, began, late>>
vars == <<fixed, surface, stage, at, plans, entries, clock, until, left, phase, returned,
          file, history>>

Call(g, k) == <<g, k, "call">>
Set(g, k)  == <<g, k, "set">>
Callables  == Groups \X Nat \X {"call", "set"}

NoFile == [complete |-> FALSE, groups |-> <<>>, returned |-> {}, unmatched |-> TRUE]
NoTime == -1

-----------------------------------------------------------------------------
(* Planning. *)

\* Only a TypeError means that the arguments were not accepted.
Derived(tries) ==
  \E i \in 1 .. Len(tries) : i <= MaxCombos /\ tries[i] # "TypeError"

Supplied(m) == ~m.skipped /\ (m.declared \/ Derived(m.tries))

Indices(g) == 1 .. Len(world[g].members)
Mem(g, k)  == world[g].members[k]
Made(g)    == world[g].factory = "found"

\* Private members count when their arguments are declared, and a factory works.
Listed(g) ==
  {k \in Indices(g) : Mem(g, k).kind = "private" => Mem(g, k).declared /\ Made(g)}

Taken(g) == {k \in Listed(g) : Made(g) /\ Supplied(Mem(g, k))}

Calls(g) ==
  {Call(g, k) : k \in Taken(g)} \cup
  {Set(g, k) : k \in {j \in Taken(g) : Mem(g, j).kind = "property" /\ Mem(g, j).settable}}

\* PyO3 refuses the use of an unsendable instance from another thread.  A static
\* or class method is called through the type and uses none.
Refused(g, k) == world[g].unsendable /\ Mem(g, k).kind # "static"

\* plan.calls[0], called once from a second thread: members are planned in order.
Confined(g) ==
  /\ world[g].kind = "type"
  /\ \E k \in Taken(g) : (\A j \in Taken(g) : k <= j) /\ Refused(g, k)

PlanOf(g) ==
  [group |-> g, made |-> Made(g), calls |-> Calls(g), confined |-> Confined(g),
   not |-> {Call(g, k) : k \in Listed(g) \ Taken(g)}]

Entry(p) ==
  [group |-> p.group, driven |-> p.calls, confined |-> {}, not |-> p.not,
   started |-> FALSE, busy |-> FALSE, pairs |-> 0,
   total |-> 0, exhausted |-> FALSE]

Pairs(p) == {{a, b} : a, b \in p.calls}

Drivable(p) == p.made /\ p.calls # {} /\ ~p.confined

\* What _write_result puts in the file.
Result(complete, es) ==
  [complete |-> complete, groups |-> es, returned |-> returned, unmatched |-> FALSE]

Init ==
  /\ world \in [Groups -> UNION {ShapesOf[g] : g \in Groups}]
  /\ \A g \in Groups : world[g] \in ShapesOf[g]
  /\ only \in OnlySets
  /\ surface = {} /\ stage = "load" /\ at = 1 /\ plans = <<>> /\ entries = <<>>
  /\ clock = 0 /\ until = 0 /\ left = {} /\ phase = {} /\ returned = {}
  /\ file = NoFile
  /\ planned = NoTime /\ began = NoTime /\ late = 0

\* Each configured module is imported, or its error is noted.
Load ==
  /\ stage = "load"
  /\ \E ok \in SUBSET Modules : surface' = {g \in Groups : ModuleOf[g] \in ok}
  /\ stage' = "plan"
  /\ UNCHANGED <<fixed, at, plans, entries, clock, until, left, phase, returned, file, history>>

Wanted(g) == g \in surface /\ (only = {} \/ g \in only)

PlanGroup ==
  /\ stage = "plan" /\ at <= NGroups /\ at' = at + 1
  /\ \/ /\ Wanted(at) /\ plans' = Append(plans, PlanOf(at))
        /\ \E d \in 0 .. PlanTime : clock' = clock + d
     \/ /\ ~Wanted(at)
        /\ UNCHANGED <<plans, clock>>
  /\ UNCHANGED <<fixed, surface, stage, entries, until, left, phase, returned, file, history>>

\* A name that matches nothing is reported as such.
Unmatched ==
  /\ stage = "plan" /\ at > NGroups
  /\ only # {} /\ plans = <<>>
  /\ stage' = "done"
  /\ file' = [NoFile EXCEPT !.complete = TRUE]
  /\ UNCHANGED <<fixed, surface, at, plans, entries, clock, until, left, phase, returned,
                 history>>

\* Mutant of Planned: groups enter the result as they are driven.
PlannedLater ==
  /\ stage = "plan" /\ at > NGroups
  /\ only = {} \/ plans # <<>>
  /\ entries' = [i \in 1 .. Len(plans) |-> Entry(plans[i])]
  /\ file' = Result(FALSE, <<>>)
  /\ stage' = "groups" /\ at' = 1 /\ planned' = clock
  /\ UNCHANGED <<fixed, surface, plans, clock, until, left, phase, returned, began, late>>

\* Every group is in the result before any is driven.
Planned ==
  /\ stage = "plan" /\ at > NGroups
  /\ only = {} \/ plans # <<>>
  /\ entries' = [i \in 1 .. Len(plans) |-> Entry(plans[i])]
  /\ file' = Result(FALSE, entries')
  /\ stage' = "groups" /\ at' = 1 /\ planned' = clock
  /\ UNCHANGED <<fixed, surface, plans, clock, until, left, phase, returned, began, late>>

-----------------------------------------------------------------------------
(* Driving the groups. *)

Turn == stage = "groups" /\ at <= Len(plans)

SetAside(e)           == [e EXCEPT !.started = TRUE, !.confined = e.driven, !.driven = {}]
Begun(e, busy)        == [e EXCEPT !.started = TRUE, !.busy = busy]
PairDone(e, total)    == [e EXCEPT !.pairs = e.pairs + 1, !.total = total]
Closed(e, total, out) == [e EXCEPT !.busy = FALSE, !.exhausted = out, !.total = total]

\* A confined type is moved out of what is driven; a group with nothing to drive
\* is passed over.
PassOver ==
  /\ Turn /\ ~Drivable(plans[at])
  /\ entries' =
       [entries EXCEPT ![at] =
          IF plans[at].confined THEN SetAside(@) ELSE Begun(@, FALSE)]
  /\ file' = Result(FALSE, entries')
  /\ at' = at + 1
  /\ UNCHANGED <<fixed, surface, stage, plans, clock, until, left, phase, returned, history>>

Remaining == Cardinality({i \in at .. Len(plans) : Drivable(plans[i])})

\* Mutant of Share: the groups that are passed over have a share too.
ShareOfAll == (Scale * (IF clock < Budget THEN Budget - clock ELSE 0)) \div (Len(plans) + 1 - at)

\* A fair share of what is left, in parts of a tick.
Share == (Scale * (IF clock < Budget THEN Budget - clock ELSE 0)) \div Remaining

StartGroup ==
  /\ Turn /\ Drivable(plans[at])
  /\ until' = Scale * clock + Share /\ began' = clock
  /\ entries' = [entries EXCEPT ![at] = Begun(@, TRUE)]
  /\ file' = Result(FALSE, entries')
  /\ left' = Pairs(plans[at])
  /\ \E d \in 0 .. MakeTime : clock' = clock + d
  /\ stage' = "between"
  /\ UNCHANGED <<fixed, surface, at, plans, phase, returned, planned, late>>

InTime == Scale * clock <= until

BeginPair ==
  /\ stage = "between" /\ InTime
  /\ \E pair \in left : phase' = pair /\ left' = left \ {pair}
  /\ stage' = "phase"
  /\ UNCHANGED <<fixed, surface, at, plans, entries, clock, until, returned, file, history>>

BeginMix ==
  /\ stage = "between" /\ InTime /\ left = {}
  /\ phase' = plans[at].calls /\ stage' = "mixed"
  /\ UNCHANGED <<fixed, surface, at, plans, entries, clock, until, left, returned, file, history>>

Driving == stage \in {"phase", "mixed"}

CallReturns ==
  /\ Driving
  /\ \E c \in phase \ returned :
       ~Refused(c[1], c[2]) /\ returned' = returned \cup {c}
  /\ UNCHANGED <<fixed, surface, stage, at, plans, entries, clock, until, left, phase, file,
                 history>>

\* on_tick, from the heartbeat.
BeatWrites ==
  /\ Driving
  /\ file' = Result(FALSE, entries)
  /\ UNCHANGED <<fixed, surface, stage, at, plans, entries, clock, until, left, phase, returned,
                 history>>

\* The budget is checked before each call: a phase ends with a call at most past it.
Elapses(ticks) ==
  /\ Scale * (clock + ticks) <= until + Scale * CallTime
  /\ clock' = clock + ticks

\* on_pair writes unless it wrote less than two seconds ago.
EndPair ==
  /\ stage = "phase" /\ stage' = "between" /\ phase' = {}
  /\ \E d \in 0 .. PhaseTime : Elapses(d)
  /\ entries' = [entries EXCEPT ![at] = PairDone(@, Cardinality(Pairs(plans[at])))]
  /\ file' \in {file, Result(FALSE, entries')}
  /\ UNCHANGED <<fixed, surface, at, plans, until, left, returned, history>>

Over(spent) == IF spent > until THEN spent - until ELSE 0

CloseGroup(out, now) ==
  /\ entries' = [entries EXCEPT ![at] = Closed(@, Cardinality(Pairs(plans[at])), out)]
  /\ file' = Result(FALSE, entries')
  /\ stage' = "groups" /\ at' = at + 1 /\ phase' = {} /\ left' = {}
  /\ late' = late + Over(Scale * now)

\* The mix has run.
EndMix ==
  /\ stage = "mixed"
  /\ \E d \in 0 .. PhaseTime : Elapses(d)
  /\ CloseGroup(FALSE, clock')
  /\ UNCHANGED <<fixed, surface, plans, until, returned, planned, began>>

\* The deadline has passed, before a pair or before the mix.
OutOfTime ==
  /\ stage = "between" /\ ~InTime
  /\ CloseGroup(left # {}, clock)
  /\ UNCHANGED <<fixed, surface, plans, clock, until, returned, planned, began>>

Finish ==
  /\ stage = "groups" /\ at > Len(plans)
  /\ stage' = "done"
  /\ file' = Result(TRUE, entries)
  /\ UNCHANGED <<fixed, surface, at, plans, entries, clock, until, left, phase, returned, history>>

\* A call, an import or a probe brings the process down, or it is killed.
Dies ==
  /\ stage \notin {"done", "dead"} /\ stage' = "dead"
  /\ UNCHANGED <<fixed, surface, at, plans, entries, clock, until, left, phase, returned, file,
                 history>>

Next ==
  \/ Load \/ PlanGroup \/ Unmatched \/ Planned \/ PassOver \/ StartGroup
  \/ BeginPair \/ BeginMix \/ CallReturns \/ BeatWrites \/ EndPair \/ EndMix \/ OutOfTime
  \/ Finish \/ Dies

Spec == Init /\ [][Next]_vars

-----------------------------------------------------------------------------
(* What the orchestrator counts in the file. *)

EntriesOf(f) == {f.groups[i] : i \in 1 .. Len(f.groups)}

\* Mutant of Driven: a callable whose every call raised counts as driven.
DrivenIfCalled(f) == UNION {e.driven : e \in {x \in EntriesOf(f) : x.pairs > 0}}

Driven(f) ==
  (UNION {e.driven : e \in {x \in EntriesOf(f) : x.pairs > 0}}) \cap f.returned

Total(f) == UNION {e.driven \cup e.not : e \in EntriesOf(f)}

-----------------------------------------------------------------------------
(* Properties. *)

\* A public member, or a private one with declared arguments on a type that has a
\* factory, is in every result file that is ever written, however early the run
\* ends: once, as driven, confined or not driven.  A setter is there when its
\* getter can be called.  Only unsendable types are confined.
SurfaceIsWhole ==
  file # NoFile /\ ~file.unmatched =>
    /\ {e.group : e \in EntriesOf(file)} = {g \in surface : Wanted(g)}
    /\ Len(file.groups) = Cardinality(EntriesOf(file))
    /\ \A e \in EntriesOf(file) :
         LET g == e.group
             reached == e.driven \cup e.confined
         IN  /\ {Call(g, k) : k \in Listed(g)} = {c \in reached \cup e.not : c[3] = "call"}
             /\ {c \in reached : c[3] = "set"} =
                  {Set(g, k) : k \in {j \in Listed(g) : Call(g, j) \in reached
                                        /\ Mem(g, j).settable /\ Mem(g, j).kind = "property"}}
             /\ reached \cap e.not = {} /\ e.driven \cap e.confined = {}
             /\ e.confined # {} => world[g].unsendable

\* What the orchestrator counts as driven did return from a call with other
\* threads about, whenever the file was read; and when the run is complete it
\* counts everything that did.
CoverageIsEarned ==
  /\ Driven(file) \subseteq returned \cap Total(file)
  /\ file.complete /\ ~file.unmatched => Driven(file) = returned

DrivableGroups == {i \in 1 .. Len(plans) : Drivable(plans[i])}

\* No group starves another: the share of a group is at least its part of the
\* budget that was left after planning, less what groups before it ran over.
FairShare ==
  stage \in {"between", "phase", "mixed"} =>
    Cardinality(DrivableGroups) * (until - Scale * began + late) >= Scale * (Budget - planned)

\* A member that PyO3 refuses to any thread but the instance's own is not called by
\* several: its type is confined, neither driven nor a hole in coverage.
UnsendableIsNotDriven ==
  Driving => \A c \in phase : ~Refused(c[1], c[2])
=============================================================================
