-------------------------------- MODULE Lint --------------------------------
(***************************************************************************)
(* `ftcheck lint': the pass over the source files of a crate (lint_crate,  *)
(* lint_file), what each rule makes of an entry point, and FT003's walk    *)
(* over a function body, statement by statement, which must know which     *)
(* lock guards are held.  crates/ftcheck-lint, crates/ftcheck-core         *)
(*                                                                         *)
(* The walk is set beside what the body does when it runs: `held' is the   *)
(* guards that live by the rules of Rust.                                  *)
(***************************************************************************)
EXTENDS Integers, FiniteSets, SequencesExt

CONSTANTS
  NFiles,        \* files below the crate's root, in the order of their names
  Contents,      \* what a file may hold
  Types,         \* names of classes
  Version,       \* "fixed", "older" or "unknown": PyO3 against FIXED_IN
  MinConfidence, \* "likely" or "certain"
  Locks, Names,  \* receivers of lock calls; names of bindings
  MaxStmts       \* bound of the model: statements of a body

Files == 1 .. NFiles

\* An entry point: its name, the type it is a method of ("" for a function), and
\* whether it holds a `static mut' or a raw pointer.
EntryPoint == [symbol: STRING, type: Types \cup {""}, racy: BOOLEAN]

\* A file: whether it can be parsed, the unsendable classes it declares, those with
\* a freelist, its entry points.
Content ==
  [parses: BOOLEAN, unsendable: SUBSET Types, freelist: SUBSET Types, entries: Seq(EntryPoint)]

ASSUME LintAssumption ==
  /\ NFiles \in Nat /\ MaxStmts \in Nat /\ "" \notin Names
  /\ \A c \in Contents : c \in Content /\ IsFiniteSet(c.freelist)
  /\ Version \in {"fixed", "older", "unknown"} /\ MinConfidence \in {"likely", "certain"}

VARIABLES
  crate,       \* the files
  stage,       \* "collect", "files", "body" or "done"
  file, entry, \* the file and the entry point looked at
  known,       \* opts.unsendable: classes the whole crate declares unsendable
  found,       \* findings of this file
  findings, unparseable, \* the report
  \* FT003's walk over a body
  live,        \* guards it takes to be held, by name; NoName for a pattern
  out,         \* acquisitions it counts
  \* the body as it runs
  stmts,       \* statements so far
  held,        \* guards that live: <<name, number>>
  bound,       \* the number of the last binding of each name
  tricks,      \* what the body did that the walk does not look at
  extra,       \* one was counted that was not made, or while a guard was held
  missed       \* one was not counted though no guard was held

reportVars == <<found, findings, unparseable>>
bodyVars   == <<live, out, stmts, held, bound, tricks, extra, missed>>
vars == <<crate, stage, file, entry, known, reportVars, bodyVars>>

NoName == ""

Fresh ==
  /\ live' = {} /\ out' = <<>> /\ stmts' = 0 /\ held' = {}
  /\ bound' = [n \in Names |-> 0] /\ tricks' = {} /\ extra' = FALSE /\ missed' = FALSE

Init ==
  /\ crate \in [Files -> Contents]
  /\ stage = "collect" /\ file = 1 /\ entry = 1 /\ known = {}
  /\ found = <<>> /\ findings = <<>> /\ unparseable = <<>>
  /\ live = {} /\ out = <<>> /\ stmts = 0 /\ held = {}
  /\ bound = [n \in Names |-> 0] /\ tricks = {} /\ extra = FALSE /\ missed = FALSE

-----------------------------------------------------------------------------
(* FT003: acquisitions made while no guard is held.  Each action is a statement of  *)
(* the body, on the path that runs, with what the walk makes of it: the lock it     *)
(* finds (LockFinder), the guard it takes to be held (held_guard), a drop.          *)

InBody == stmts < MaxStmts /\ stmts' = stmts + 1

Outside == UNCHANGED <<crate, stage, file, entry, known, reportVars>>

\* Mutant of Acquire: every acquisition counts.
AcquireAny(lock) ==
  /\ out' = Append(out, lock)
  /\ extra' = (extra \/ held # {}) /\ missed' = missed

\* An acquisition, the first in the text of a statement.
Acquire(lock) ==
  /\ out' = IF live = {} THEN Append(out, lock) ELSE out
  /\ extra' = (extra \/ (live = {} /\ held # {}))
  /\ missed' = (missed \/ (live # {} /\ held = {}))

\* What is found and taken for an acquisition, and is none.
Mistake(lock) ==
  /\ out' = IF live = {} THEN Append(out, lock) ELSE out
  /\ extra' = (extra \/ live = {}) /\ missed' = missed

\* An acquisition that is not found.
Overlook ==
  /\ missed' = (missed \/ held = {})
  /\ UNCHANGED <<out, extra>>

Lives(name) == <<name, bound[name]>> \in held

NewName(name) == bound' = [bound EXCEPT ![name] = stmts + 1]
Bind(name)   == NewName(name) /\ held' = held \cup {<<name, stmts + 1>>}

\* The statement does what the walk does not look at; so does a name that is bound
\* again while its guard lives.
Tricky(ts)         == tricks' = tricks \cup ts
TrickyLet(name, ts) == Tricky(IF Lives(name) THEN ts \cup {"rebound"} ELSE ts)

\* let name = m.lock()...: held until the block ends or drop(name).
LetGuard(name, lock) ==
  /\ InBody /\ Acquire(lock) /\ Bind(name)
  /\ live' = live \cup {name}
  /\ TrickyLet(name, {}) /\ Outside

\* let Ok(name) = m.lock() else ...: a pattern with no single name.
LetPattern(name, lock) ==
  /\ InBody /\ Acquire(lock) /\ Bind(name)
  /\ live' = live \cup {NoName}
  /\ TrickyLet(name, {"pattern"}) /\ Outside

\* let _ = m.lock(): Rust drops the guard at once.
LetNothing(lock) ==
  /\ InBody /\ Acquire(lock)
  /\ live' = live \cup {NoName}
  /\ Tricky({"wild"})
  /\ UNCHANGED <<held, bound>> /\ Outside

\* The guard is kept by a form that yields_guard() takes for a temporary: let name =
\* match m.lock() { .. }, if .. { m.lock() } else { .. }, &mut m.lock()?.field.
KeepGuard(name, lock) ==
  /\ InBody /\ Acquire(lock) /\ Bind(name)
  /\ TrickyLet(name, {"unseen"})
  /\ UNCHANGED live /\ Outside

\* name = m.lock()?: no `let'.  The guard it had ends, and the walk, which goes by
\* the name, is right about the new one if it knew the old one.
AssignGuard(name, lock) ==
  /\ InBody /\ Acquire(lock) /\ NewName(name)
  /\ held' = (held \ {<<name, bound[name]>>}) \cup {<<name, stmts + 1>>}
  /\ Tricky(IF name \in live THEN {} ELSE {"unseen"})
  /\ UNCHANGED live /\ Outside

\* A guard that is a temporary of its statement, or ends with a block of it:
\* m.read().clone(), *m.lock() += 1, a branch that falls through, the condition of
\* one that returns.
Temporary(lock) ==
  /\ InBody /\ Acquire(lock)
  /\ UNCHANGED <<live, held, bound, tricks>> /\ Outside

\* A lock that LockFinder has no place for: a later one of the statement, once the
\* earlier are released (a loop, a block, a closure), one in the arguments of a
\* macro, in a function that is called.  Such a lock does not concern the walk, so
\* a statement that has others is one of the other actions besides.
HiddenLock ==
  /\ InBody /\ Overlook /\ Tricky({"hidden"})
  /\ UNCHANGED <<live, held, bound>> /\ Outside

\* The same, and the guard is kept: let name = self.guard().
HiddenGuard(name) ==
  /\ InBody /\ Overlook /\ Bind(name)
  /\ TrickyLet(name, {"hidden", "unseen"})
  /\ UNCHANGED live /\ Outside

\* A call of that name which is not made, or locks nothing: a branch not taken, a
\* closure not called, reader.read().
Idle(lock) ==
  /\ InBody /\ Mistake(lock) /\ Tricky({"idle"})
  /\ UNCHANGED <<live, held, bound>> /\ Outside

\* let name = reader.read()?: what it returns is taken for a guard.
LetIdle(name, lock) ==
  /\ InBody /\ Mistake(lock) /\ NewName(name)
  /\ live' = live \cup {name}
  /\ TrickyLet(name, {"idle"})
  /\ UNCHANGED held /\ Outside

\* if .. { m.lock() ..; return }, or no lock at all: nothing is acquired on the
\* path that goes on.
NoLock ==
  /\ InBody
  /\ UNCHANGED <<live, out, held, bound, tricks, extra, missed>> /\ Outside

\* let name = ..., without a lock: the name no longer means the guard, which lives on.
Shadow(name) ==
  /\ InBody /\ NewName(name) /\ TrickyLet(name, {})
  /\ UNCHANGED <<live, out, held, extra, missed>> /\ Outside

\* drop(name), whatever the name means
DropGuard(name) ==
  /\ InBody
  /\ held' = held \ {<<name, bound[name]>>}
  /\ live' = live \ {name}
  /\ UNCHANGED <<out, bound, tricks, extra, missed>> /\ Outside

\* The guard ends in another way: mem::drop(name), consume(name), a drop in a block.
MoveGuard(name) ==
  /\ InBody /\ Lives(name)
  /\ held' = held \ {<<name, bound[name]>>}
  /\ Tricky({"moved"})
  /\ UNCHANGED <<live, out, bound, extra, missed>> /\ Outside

\* let other = name: the guard lives on under another name.
PassGuard(name, other) ==
  /\ InBody /\ Lives(name) /\ NewName(other)
  /\ held' = (held \ {<<name, bound[name]>>}) \cup {<<other, stmts + 1>>}
  /\ TrickyLet(other, {"moved", "unseen"})
  /\ UNCHANGED <<live, out, extra, missed>> /\ Outside

-----------------------------------------------------------------------------
(* The rules and the pass over the crate. *)

Entry     == crate[file].entries[entry]
Finding(rule, f, symbol, confidence) ==
  [rule |-> rule, file |-> f, symbol |-> symbol, confidence |-> confidence]
Signature(x) == <<x.rule, x.file, x.symbol>>

\* Mutant of Unsendable: only the classes of the file itself.
UnsendableHere(f) == crate[f].unsendable

\* Declared in this file or anywhere in the crate.
Unsendable(f) == crate[f].unsendable \cup known

FT001(e) ==
  IF e.racy /\ e.type \notin Unsendable(file)
  THEN <<Finding("FT001", file, e.symbol, "certain")>> ELSE <<>>

FT003(e) ==
  IF Len(out) >= 2 THEN <<Finding("FT003", file, e.symbol, "likely")>> ELSE <<>>

\* Fixed since a version; below it certain, and likely when it is not known.
FT002(f) ==
  IF Version = "fixed" THEN <<>>
  ELSE LET certainty == IF Version = "older" THEN "certain" ELSE "likely"
           classes == SetToSeq(crate[f].freelist)
       IN  [i \in 1 .. Len(classes) |-> Finding("FT002", f, classes[i], certainty)]

\* Those that share a signature are one, the first.
KeepNew(kept, x) ==
  IF \E i \in DOMAIN kept : Signature(kept[i]) = Signature(x) THEN kept ELSE Append(kept, x)
Dedupe(xs) == FoldLeft(KeepNew, <<>>, xs)

Sure(x) == MinConfidence = "likely" \/ x.confidence = "certain"
KeepSure(kept, x) == IF Sure(x) THEN Append(kept, x) ELSE kept
SureOnes(xs) == FoldLeft(KeepSure, <<>>, xs)

\* Crate-wide facts come first: a class is declared in one file, and has its
\* methods in another.
Collect ==
  /\ stage = "collect" /\ stage' = "files"
  /\ known' = UNION {crate[f].unsendable : f \in {g \in Files : crate[g].parses}}
  /\ UNCHANGED <<crate, file, entry, reportVars, bodyVars>>

OpenFile ==
  /\ stage = "files" /\ file <= NFiles /\ crate[file].parses
  /\ stage' = "body" /\ entry' = 1 /\ found' = <<>> /\ Fresh
  /\ UNCHANGED <<crate, file, known, findings, unparseable>>

\* Mutant of NameFile: what cannot be parsed is passed over.
NameFileNot ==
  /\ stage = "files" /\ file <= NFiles /\ ~crate[file].parses
  /\ file' = file + 1
  /\ UNCHANGED <<crate, stage, entry, known, reportVars, bodyVars>>

\* What cannot be parsed is named.
NameFile ==
  /\ stage = "files" /\ file <= NFiles /\ ~crate[file].parses
  /\ unparseable' = Append(unparseable, file) /\ file' = file + 1
  /\ UNCHANGED <<crate, stage, entry, known, found, findings, bodyVars>>

EndBody ==
  /\ stage = "body" /\ entry <= Len(crate[file].entries)
  /\ found' = found \o FT001(Entry) \o FT003(Entry)
  /\ entry' = entry + 1 /\ Fresh
  /\ UNCHANGED <<crate, stage, file, known, findings, unparseable>>

CloseFile ==
  /\ stage = "body" /\ entry > Len(crate[file].entries)
  /\ findings' = findings \o Dedupe(SureOnes(found \o FT002(file)))
  /\ file' = file + 1 /\ stage' = "files" /\ found' = <<>>
  /\ UNCHANGED <<crate, entry, known, unparseable, bodyVars>>

EndCrate ==
  /\ stage = "files" /\ file > NFiles
  /\ findings' = Dedupe(findings) /\ stage' = "done"
  /\ UNCHANGED <<crate, file, entry, known, found, unparseable, bodyVars>>

Statement ==
  /\ stage = "body" /\ entry <= Len(crate[file].entries)
  /\ \/ NoLock
     \/ HiddenLock
     \/ \E l \in Locks : Temporary(l) \/ LetNothing(l) \/ Idle(l)
     \/ \E n \in Names, l \in Locks : \/ LetGuard(n, l) \/ LetPattern(n, l) \/ KeepGuard(n, l)
                                     \/ AssignGuard(n, l) \/ LetIdle(n, l)
     \/ \E n \in Names : HiddenGuard(n) \/ Shadow(n) \/ DropGuard(n) \/ MoveGuard(n)
     \/ \E n, m \in Names : PassGuard(n, m)

Next == Collect \/ OpenFile \/ NameFile \/ Statement \/ EndBody \/ CloseFile \/ EndCrate

Spec == Init /\ [][Next]_vars

-----------------------------------------------------------------------------
(* Properties. *)

\* FT003 counts the acquisitions made while no guard is held, and no others, unless
\* the body did what its walk does not look at.  It counts one too many only after
\* a name was bound again while its guard lived, a guard was kept in a form it does
\* not know, or where what it found was not done; it passes one over only for a
\* guard bound to `_' or a pattern, one that ended otherwise than by drop(name), a
\* lock it does not find, or a call it mistook for one.
GuardsAreTracked ==
  /\ extra  => tricks \cap {"rebound", "unseen", "idle"} # {}
  /\ missed => tricks \cap {"wild", "pattern", "moved", "hidden", "idle"} # {}

Read == {f \in Files : crate[f].parses}
EntriesOf(f) == {crate[f].entries[i] : i \in 1 .. Len(crate[f].entries)}
Reported == {findings[i] : i \in 1 .. Len(findings)}

\* Every entry point that holds a `static mut' or a raw pointer is reported, but for
\* the methods of classes that some file of the crate, before or after, declares
\* unsendable.
SharedStateIsReported ==
  stage = "done" =>
    {<<x.file, x.symbol>> : x \in {y \in Reported : y.rule = "FT001"}} =
      UNION {{<<f, e.symbol>> :
                e \in {d \in EntriesOf(f) : d.racy /\ \A g \in Read : d.type \notin crate[g].unsendable}} :
              f \in Read}

\* Every file that the walk of the directory yields (it passes over what it cannot
\* enter) was read or is named; findings stand once each, in the order
\* of the files, none below the confidence asked for.
ReportIsWhole ==
  stage = "done" =>
    /\ {unparseable[i] : i \in 1 .. Len(unparseable)} = Files \ Read
    /\ \A i, j \in 1 .. Len(findings) :
         i < j => /\ Signature(findings[i]) # Signature(findings[j])
                  /\ findings[i].file <= findings[j].file
    /\ \A x \in Reported : Sure(x) /\ x.file \in Read
=============================================================================
