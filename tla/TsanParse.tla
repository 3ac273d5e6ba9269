------------------------------ MODULE TsanParse ------------------------------
(***************************************************************************)
(* The log that TsanReports starts from: parse() of ci/tsan.py over the    *)
(* joined files of the processes (collect() of ci/pipeline.py).  Each      *)
(* report is printed line by line; a process that dies in the middle cuts  *)
(* its file there, and the next file, or what its signal handler prints,   *)
(* follows at once.                                                        *)
(*                                                                         *)
(* A line is what parse() makes of it: [is, of].  Text inside frames and   *)
(* headers is not taken apart here.                                        *)
(***************************************************************************)
EXTENDS TsanReports

CONSTANTS
  Printable,  \* the reports TSan prints, whole
  Cuttable,   \* those a process may die in the middle of
  Allocation, \* the frames under "Location is heap block ... allocated by"
  Creation    \* the frames under "Thread T1 'name' ... created by"

VARIABLES
  parser,  \* the locals of parse()
  printed  \* history: the reports printed, and how many lines of each

Inversion == "lock-order inversion"
NoHeader  == [is |-> "none", of |-> ""]

\* A report as it is printed: the threads of a race have names, that of a crash
\* has not, and a lock-order inversion has no access.
IsPrinted(r) ==
  /\ r = [kind |-> r.kind, crash |-> r.crash, stacks |-> r.stacks]
  /\ r.crash \in BOOLEAN /\ (r.crash => Len(r.stacks) <= 1)
  /\ r.kind = Inversion => ~r.crash /\ r.stacks = <<>>
  /\ \A s \in Stacks(r) :
       /\ s = [thread |-> s.thread, frames |-> s.frames] /\ s.frames \in Seq(Frames(s))
       /\ s.thread \in IF r.crash THEN {"worker"} ELSE {"worker", "mutator"}

\* What may be left of a report that is cut.  The stack it stops in is the last,
\* and loses its end; the threads are named after all the stacks, one by one.
Unnamed(s) == [thread |-> "worker", frames |-> s.frames]
Begun(s)   == {[thread |-> "worker", frames |-> SubSeq(s.frames, 1, k)] : k \in 1 .. Len(s.frames)}
CutIn(stacks, i, b) == [j \in 1 .. i |-> IF j < i THEN Unnamed(stacks[j]) ELSE b]
NamedTo(stacks, i)  == [j \in DOMAIN stacks |-> IF j <= i THEN stacks[j] ELSE Unnamed(stacks[j])]
Remains(stacks) ==
  {<<>>} \cup {NamedTo(stacks, i) : i \in 0 .. Len(stacks)}
         \cup UNION {{CutIn(stacks, i, b) : b \in Begun(stacks[i])} : i \in DOMAIN stacks}
Parts(r) == {[kind |-> r.kind, crash |-> r.crash, stacks |-> s] : s \in Remains(r.stacks)}

ASSUME ParseAssumption ==
  /\ Cuttable \subseteq Printable /\ Printable \subseteq Possible
  /\ \A r \in Printable : IsPrinted(r)
  /\ \A r \in Cuttable : Parts(r) \subseteq Possible
  /\ Allocation \in Seq({Allocation[i] : i \in DOMAIN Allocation})
  /\ Creation \in Seq({Creation[i] : i \in DOMAIN Creation})

-----------------------------------------------------------------------------
(* ThreadSanitizer's printing: external. *)

Line(is, of) == [is |-> is, of |-> of]
FrameLines(frames) == [i \in DOMAIN frames |-> Line("frame", frames[i])]
Under(header, frames) == <<header>> \o FrameLines(frames)

\* Two accesses, of which one may have a stack that could not be restored; what
\* they are about; the threads, with their names.  A lock-order inversion has
\* stacks of mutexes only, a crash one stack without a header.
Body(r) ==
  LET access(i) == IF i \in DOMAIN r.stacks
                   THEN Under(Line("access", i), r.stacks[i].frames)
                   ELSE <<Line("access", i), Line("text", "failed to restore the stack")>>
      thread(i) == IF i \in DOMAIN r.stacks
                   THEN Under(Line("thread", [tid |-> i, name |-> r.stacks[i].thread]), Creation)
                   ELSE <<>>
  IN  IF r.kind = Inversion
        THEN <<Line("text", "cycle in lock order graph")>> \o Under(Line("mutex", 1), Allocation)
      ELSE IF r.crash THEN IF r.stacks = <<>> THEN <<>> ELSE FrameLines(r.stacks[1].frames)
      ELSE access(1) \o access(2) \o Under(Line("location", 0), Allocation) \o thread(1) \o thread(2)

\* A data race begins with a separator; a crash does not.
Opening(r) ==
  IF r.crash THEN <<Line("warning", [kind |-> r.kind, crash |-> TRUE])>>
  ELSE <<Line("separator", 0), Line("warning", [kind |-> r.kind, crash |-> FALSE])>>

Lines(r) == Opening(r) \o Body(r) \o <<Line("summary", r.kind)>>
            \o (IF r.crash THEN <<>> ELSE <<Line("separator", 0)>>)

-----------------------------------------------------------------------------
(* parse() *)

WithSection(report, s) == [report EXCEPT !.sections = Append(report.sections, s)]

Closed(p) ==
  LET n == Len(p.reports)
      with == WithSection(p.reports[n], [header |-> p.header, frames |-> p.frames])
  IN  [p EXCEPT !.reports = IF p.current /\ p.header # NoHeader THEN [p.reports EXCEPT ![n] = with] ELSE p.reports,
                !.header = NoHeader, !.frames = <<>>]

Opened(p, about) ==
  [Closed(p) EXCEPT !.current = TRUE,
     !.reports = Append(@, [kind |-> about.kind, crash |-> about.crash, sections |-> <<>>])]

\* Mutant of Feed: a report goes on until its summary.
FeedToSummary(p, l) ==
  IF l.is = "warning" /\ ~p.current THEN Opened(p, l.of)
  ELSE IF ~p.current THEN p
  ELSE IF l.is = "summary" THEN [Closed(p) EXCEPT !.current = FALSE]
  ELSE IF l.is = "frame"
    THEN [p EXCEPT !.header = IF @ = NoHeader THEN Line("none", "no header") ELSE @, !.frames = Append(@, l.of)]
  ELSE IF l.is \in {"access", "location", "thread", "mutex"} THEN [Closed(p) EXCEPT !.header = l]
  ELSE p

Feed(p, l) ==
  IF l.is = "warning" THEN Opened(p, l.of)
  ELSE IF ~p.current THEN p
  ELSE IF l.is \in {"summary", "separator"} THEN [Closed(p) EXCEPT !.current = FALSE]
  ELSE IF l.is = "frame"
    THEN [p EXCEPT !.header = IF @ = NoHeader THEN Line("none", "no header") ELSE @, !.frames = Append(@, l.of)]
  ELSE IF l.is \in {"access", "location", "thread", "mutex"} THEN [Closed(p) EXCEPT !.header = l]
  ELSE p

\* After the first k of the lines.
Fed(p, lines, k) ==
  LET after[i \in 0 .. k] == IF i = 0 THEN p ELSE Feed(after[i - 1], lines[i]) IN after[k]

\* Section.is_access and Report.access_stacks.
IsAccess(s) == s.header.is \notin {"location", "thread", "mutex"}

\* Mutant of AccessStacks: the stack of what was allocated is one of them.
AccessStacksAndMore(sections) ==
  FoldLeft(LAMBDA kept, s : IF s.frames # <<>> THEN Append(kept, s) ELSE kept, <<>>, sections)
KeepAccess(kept, s) == IF IsAccess(s) /\ s.frames # <<>> THEN Append(kept, s) ELSE kept
AccessStacks(sections) == FoldLeft(KeepAccess, <<>>, sections)

\* thread_names() and access_thread(): a mutator is known by its name.
ThreadOf(s, sections) ==
  IF s.header.is = "access"
     /\ \E i \in DOMAIN sections :
          sections[i].header = Line("thread", [tid |-> s.header.of, name |-> "mutator"])
  THEN "mutator" ELSE "worker"

Parsed(report) ==
  LET s == AccessStacks(report.sections) IN
  [kind |-> report.kind, crash |-> report.crash,
   stacks |-> [i \in DOMAIN s |-> [thread |-> ThreadOf(s[i], report.sections), frames |-> s[i].frames]]]

ParsedAll(p) == LET all == Closed(p).reports IN [i \in DOMAIN all |-> Parsed(all[i])]

-----------------------------------------------------------------------------
ParseInit ==
  /\ Init /\ printed = <<>>
  /\ parser = [reports |-> <<>>, current |-> FALSE, header |-> NoHeader, frames |-> <<>>]

\* collect(): to_findings() over all that was parsed.
Collected(reports) ==
  LET after[n \in 0 .. Len(reports)] ==
        IF n = 0 THEN [yours |-> <<>>, reached |-> <<>>, external |-> <<>>, harness |-> <<>>] ELSE File(after[n - 1], reports[n], n)
  IN  after[Len(reports)]

Cuts == {i \in DOMAIN printed : printed[i].lines < Len(Lines(printed[i].report))}

\* MaxReports bounds the reports; a log with one that is cut has one less.
PrintedTo(r, k) ==
  /\ Len(printed) < MaxReports /\ (Cuts # {} => Len(printed) < MaxReports - 1)
  /\ printed' = Append(printed, [report |-> r, lines |-> k])
  /\ parser' = Fed(parser, Lines(r), k)
  /\ log' = ParsedAll(parser') /\ buckets' = Collected(log')

PrintWhole == \E r \in Printable : PrintedTo(r, Len(Lines(r)))
PrintPart  == /\ Len(printed) < MaxReports - 1
              /\ \E r \in Cuttable : \E k \in 1 .. Len(Lines(r)) - 1 : PrintedTo(r, k)

ParseNext == PrintWhole \/ PrintPart
ParseSpec == ParseInit /\ [][ParseNext]_<<vars, parser, printed>>

-----------------------------------------------------------------------------
(* What is expected of it. *)

\* The reports whose first line was printed.
KeepStarted(kept, c) == IF c.lines >= Len(Opening(c.report)) THEN Append(kept, c) ELSE kept
Started == FoldLeft(KeepStarted, <<>>, printed)

\* Every report that was begun is parsed, in order: a whole one as it was,
\* whatever was cut before it; one that was cut with what is left of it, and
\* nothing of another.
ParsedAsPrinted ==
  /\ Len(log) = Len(Started)
  /\ \A i \in DOMAIN log :
       LET r == Started[i].report IN
       log[i] \in IF Started[i].lines = Len(Lines(r)) THEN {r} ELSE Parts(r)

\* Line by line and cut anywhere, the log is read report by report: what
\* TsanReports says of the findings of any log holds of those of this one.
ReadsReports == Spec
=============================================================================
