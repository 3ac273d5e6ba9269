----------------------------- MODULE TsanReports -----------------------------
(***************************************************************************)
(* From ThreadSanitizer's reports to findings: attribute(), to_findings()  *)
(* and _merge() of python/ftcheck/ci/tsan.py.  A report is attributed by   *)
(* the frames of its conflicting accesses, filed in its owner's bucket     *)
(* under a signature, and in the end merged with others of its primary     *)
(* line.  TSan prints the same race again and again, either side first.    *)
(*                                                                         *)
(* A frame is what the rules look at: the kind of its module, its file and *)
(* line, its symbol.  A stack keeps its frames from the top down; the cut  *)
(* at _MAX_FRAMES, which only shortens what is shown, is left out.         *)
(***************************************************************************)
EXTENDS Integers, SequencesExt

CONSTANTS
  Possible,   \* the reports TSan may print
  InCrate,    \* files under the crate root
  ViaFfi,     \* files of it under ffi/
  Rank,       \* symbol -> its place in the alphabet
  Allocators, Writers, Copies, Releases, Evals, NeedsLock, Atomics, \* sets of symbols
  MaxReports  \* bound of the model: reports in a log

\* access_stacks: at most two stacks, none empty.
ASSUME TsanAssumption ==
  /\ ViaFfi \subseteq InCrate /\ MaxReports \in Nat
  /\ \A r \in Possible :
       /\ r.stacks \in Seq({r.stacks[i] : i \in DOMAIN r.stacks}) /\ Len(r.stacks) <= 2
       /\ \A i \in DOMAIN r.stacks : r.stacks[i].frames # <<>>

VARIABLES
  log,     \* the reports so far, in the order they were printed
  buckets  \* owner -> its entries, in the order they were filed
vars == <<log, buckets>>

Owners  == {"yours", "reached", "external", "harness"}
NoFrame == [sym |-> "", mod |-> "none", file |-> "", line |-> 0]

Init == log = <<>> /\ buckets = [o \in Owners |-> <<>>]

-----------------------------------------------------------------------------
(* attribute() *)

Interceptor(f) == f.mod \in {"none", "interpreter"}
Mine(f)        == f.mod = "extension"

FirstOf(frames, default) == IF frames = <<>> THEN default ELSE frames[1]
\* The first frame that is not an interceptor; none: NoFrame, which is one.
FirstReal(s) == FirstOf(SelectSeq(s.frames, LAMBDA f : ~Interceptor(f)), NoFrame)

Stacks(r)   == {r.stacks[i] : i \in DOMAIN r.stacks}
Frames(s)   == {s.frames[i] : i \in DOMAIN s.frames}
Anywhere(r) == \E s \in Stacks(r) : \E f \in Frames(s) : Mine(f)

\* A routine that only rewrites contents, or a copy called from a library
\* outside the interpreter, with nothing of the extension and nothing released.
Rewrites(s) ==
  /\ \A f \in Frames(s) : ~Mine(f) /\ f.sym \notin Releases
  /\ FirstReal(s) # NoFrame
  /\ \/ FirstReal(s).sym \in Writers
     \/ /\ Interceptor(s.frames[1]) /\ s.frames[1].sym \in Copies
        /\ FirstReal(s).mod # "libpython"

HarnessRewrite(r) == \E s \in Stacks(r) : s.thread = "mutator" /\ Rewrites(s)

\* The C-API function the extension called directly, with no Python frame
\* between; "python": it called none.
ApiCalled(s) ==
  LET stops == {i \in DOMAIN s.frames : Mine(s.frames[i]) \/ s.frames[i].sym \in Evals}
      first == CHOOSE i \in stops : \A j \in stops : i <= j
  IN  IF stops = {} \/ ~Mine(s.frames[first]) THEN "python"
      ELSE IF first = 1 THEN "" ELSE s.frames[first - 1].sym

\* Mutant of Attribute: only the access printed first is looked at.
AttributeFirst(r) ==
  IF r.crash THEN IF Anywhere(r) \/ r.stacks = <<>> THEN "yours" ELSE "external"
  ELSE IF r.stacks # <<>> /\ Mine(FirstReal(r.stacks[1])) THEN "yours" ELSE "external"

Attribute(r) ==
  IF r.crash THEN IF Anywhere(r) \/ r.stacks = <<>> THEN "yours" ELSE "external"
  ELSE IF Anywhere(r) /\ HarnessRewrite(r) THEN "harness"
  ELSE IF \/ Anywhere(r) /\ \E s \in Stacks(r) : FirstReal(s).sym \in Allocators
          \/ \E s \in Stacks(r) : Mine(FirstReal(s)) THEN "yours"
  ELSE IF r.stacks # <<>> /\ \A s \in Stacks(r) : ApiCalled(s) # "python" THEN "reached"
  ELSE IF \E s \in Stacks(r) : ApiCalled(s) \in NeedsLock THEN "yours"
  ELSE IF \E s \in Stacks(r) : ApiCalled(s) # "python" THEN "reached"
  ELSE "external"

-----------------------------------------------------------------------------
(* Where a report is shown, and what it is filed under. *)

Crate(frames)  == SelectSeq(frames, LAMBDA f : f.file \in InCrate)
Beyond(frames) == SelectSeq(frames, LAMBDA f : f.file \in InCrate \ ViaFfi)
Ours(frames)   == SelectSeq(frames, Mine)
Sourced(frames) == SelectSeq(frames, LAMBDA f : Mine(f) /\ f.file # "")

\* _user_frames and _frames_from_top, the first frame of each.
UserFrame(s) == FirstOf(Crate(s.frames), FirstOf(Ours(s.frames), s.frames[1]))
TopFrame(s)  == IF FirstReal(s) = NoFrame THEN s.frames[1] ELSE FirstReal(s)
Shown(s, owner) == IF owner = "yours" /\ Mine(FirstReal(s)) THEN UserFrame(s) ELSE TopFrame(s)

\* The frame of the crate's own, beyond its FFI wrappers, that comes first; a
\* frame of the extension otherwise.
Placed(frames, default) ==
  FirstOf(Beyond(frames), FirstOf(Crate(frames), FirstOf(Sourced(frames), FirstOf(Ours(frames), default))))

InExtension(owner) == owner \in {"yours", "harness"}
Where(f) == [file |-> IF f.file = "" THEN f.mod ELSE f.file, line |-> f.line]

Anchor(s, owner) ==
  Where(IF InExtension(owner) THEN Placed(s.frames, Shown(s, owner)) ELSE Shown(s, owner))

\* The stacks by the symbols they show (a stable sort of at most two).
Sorted(stacks, owner) ==
  IF Len(stacks) = 2 /\ Rank[Shown(stacks[2], owner).sym] < Rank[Shown(stacks[1], owner).sym]
    THEN <<stacks[2], stacks[1]>> ELSE stacks

\* _primary, for a race placed in the extension; the plain access, for others.
Primary(r, owner) ==
  LET shown == [i \in DOMAIN r.stacks |-> Shown(Sorted(r.stacks, owner)[i], owner)]
      plain == SelectSeq(shown, LAMBDA f : f.sym \notin Atomics)
  IN  IF r.stacks = <<>> THEN [NoFrame EXCEPT !.sym = "<no stack captured>"]
      ELSE IF InExtension(owner)
        THEN Placed(FlattenSeq([i \in DOMAIN r.stacks |-> r.stacks[i].frames]), r.stacks[1].frames[1])
      ELSE FirstOf(plain, shown[1])

\* Mutant of Signature: the accesses in the order they were printed.
SignatureAsPrinted(r, owner) ==
  [rule |-> r.kind, tops |-> [i \in DOMAIN r.stacks |-> Shown(r.stacks[i], owner).sym],
   anchors |-> [i \in DOMAIN r.stacks |-> Anchor(r.stacks[i], owner)], n |-> Len(r.stacks)]

\* The rule, the top symbols and the places of both accesses, in order: with
\* two of each, their sets.
Signature(r, owner) ==
  [rule |-> r.kind, tops |-> {Shown(s, owner).sym : s \in Stacks(r)},
   anchors |-> {Anchor(s, owner) : s \in Stacks(r)}, n |-> Len(r.stacks)]

MergeKey(sig, frame) ==
  IF frame.line # 0 THEN [rule |-> sig.rule, at |-> Where(frame)] ELSE [rule |-> sig.rule, at |-> sig]

-----------------------------------------------------------------------------
(* The loop of to_findings(), and _merge(). *)

Entry(r, owner, n) ==
  LET sig == Signature(r, owner)  frame == Primary(r, owner)
  IN  [sig |-> sig, key |-> MergeKey(sig, frame), primary |-> frame, occurrences |-> 1, members |-> {n}]

\* Mutant of File: a report seen before is skipped.
FileOnce(b, r, n) ==
  LET owner == Attribute(r)  sig == Signature(r, owner)
      known == {i \in DOMAIN b[owner] : b[owner][i].sig = sig}
  IN  IF known = {} THEN [b EXCEPT ![owner] = Append(@, Entry(r, owner, n))] ELSE b

\* `members', the reports filed under an entry, is not in the code.
Counted(e, n) == [sig |-> e.sig, key |-> e.key, primary |-> e.primary,
                  occurrences |-> e.occurrences + 1, members |-> e.members \cup {n}]

File(b, r, n) ==
  LET owner == Attribute(r)  sig == Signature(r, owner)
      known == {i \in DOMAIN b[owner] : b[owner][i].sig = sig}
  IN  IF known = {} THEN [b EXCEPT ![owner] = Append(b[owner], Entry(r, owner, n))]
      ELSE [b EXCEPT ![owner] = [i \in DOMAIN b[owner] |->
              IF i \in known THEN Counted(b[owner][i], n) ELSE b[owner][i]]]

Read ==
  /\ Len(log) < MaxReports
  /\ \E r \in Possible :
       /\ log' = Append(log, r)
       /\ buckets' = File(buckets, r, Len(log) + 1)

Joined(x, e) == [sig |-> x.sig, key |-> x.key, primary |-> x.primary,
                 occurrences |-> x.occurrences + e.occurrences, members |-> x.members \cup e.members]

\* An entry whose key is found already only adds to it.
MergeOne(found, e) ==
  LET same == {i \in DOMAIN found : found[i].key = e.key}
  IN  IF same = {} THEN Append(found, e)
      ELSE [i \in DOMAIN found |-> IF i \notin same THEN found[i]
              ELSE Joined(found[i], e)]

\* One finding for each key, the first entry's with the occurrences of all.
Merge(entries) == FoldLeft(MergeOne, <<>>, entries)

\* Mutant of Findings: what does not fail the run is merged together.
FindingsTogether(b) ==
  [yours |-> Merge(b["yours"]), reached |-> Merge(b["reached"]),
   external |-> Merge(b["external"] \o b["harness"])]
Findings(b) ==
  [yours |-> Merge(b["yours"]), reached |-> Merge(b["reached"]),
   external |-> Merge(b["external"]) \o Merge(b["harness"])]

Next == Read
Spec == Init /\ [][Next]_vars

-----------------------------------------------------------------------------
(* What is expected of it. *)

Swapped(r) == [kind |-> r.kind, crash |-> r.crash, stacks |-> Reverse(r.stacks)]
All        == LET f == Findings(buckets) IN f.yours \o f.reached \o f.external
Together(all, i, j) == \E k \in DOMAIN all : {i, j} \subseteq all[k].members

TypeOK ==
  /\ log \in Seq(Possible) /\ Len(log) <= MaxReports
  /\ \A o \in Owners : \A i \in DOMAIN buckets[o] :
       /\ buckets[o][i].members \subseteq DOMAIN log
       /\ \A j \in DOMAIN buckets[o] : buckets[o][i].sig = buckets[o][j].sig => i = j

\* Which of the two accesses TSan printed first does not decide whose race it is.
AttributionIgnoresSides == \A i \in DOMAIN log : Attribute(log[i]) = Attribute(Swapped(log[i]))

\* An entry holds exactly the reports of its owner with its signature, counted
\* once each, and every report is in one: before any are merged.
FiledByRace ==
  \A o \in Owners :
    /\ \A i \in DOMAIN buckets[o] :
         LET e == buckets[o][i]
             same == {n \in DOMAIN log : Attribute(log[n]) = o /\ Signature(log[n], o) = e.sig}
         IN  e.members = same /\ e.occurrences = Cardinality(same)
    /\ \A n \in DOMAIN log : Attribute(log[n]) = o =>
         \E i \in DOMAIN buckets[o] : buckets[o][i].sig = Signature(log[n], o)

\* No finding holds reports of two owners: what fails the run is never hidden
\* in what does not, and a harness race never absorbs another.
OwnersKeptApart ==
  LET all == All IN
  \A k \in DOMAIN all : \A i, j \in all[k].members : Attribute(log[i]) = Attribute(log[j])

\* The same race is one finding, from whichever side each report of it came.
SidesCollapse ==
  LET all == All IN
  \A i, j \in DOMAIN log : log[j] \in {log[i], Swapped(log[i])} => Together(all, i, j)
=============================================================================
