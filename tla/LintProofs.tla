----------------------------- MODULE LintProofs -----------------------------
(* Proofs about Lint: what FT003's walk knows of the guards of a body. *)
EXTENDS Lint, DataLemmas

\* As long as no name is bound again while its guard lives, and no guard is kept
\* in a form that is not known, the walk has every guard that lives, by its name or
\* as a pattern.
KnowsHeld ==
  tricks \cap {"rebound", "unseen"} = {} =>
    \A h \in held : /\ h[1] \in Names /\ h = <<h[1], bound[h[1]]>>
                    /\ h[1] \in live \/ NoName \in live

\* As long as guards are bound to names and ended by drop, for every name the walk
\* has there is a guard that was bound to it and lives.
KnowsLive ==
  tricks \cap {"wild", "pattern", "moved", "idle"} = {} =>
    \A n \in live : \E i \in Int : <<n, i>> \in held

Bindings == bound \in [Names -> Int] /\ stmts \in Int

GuardInv == Bindings /\ KnowsHeld /\ KnowsLive /\ GuardsAreTracked

\* A body begins with nothing held, bound or counted.
LEMMA FreshBody == Fresh => GuardInv'
  BY DEF Fresh, GuardInv, Bindings, KnowsHeld, KnowsLive, GuardsAreTracked

LEMMA InitGuard == Init => GuardInv
  BY DEF Init, GuardInv, Bindings, KnowsHeld, KnowsLive, GuardsAreTracked

\* The counting of an acquisition keeps to what is known before the statement.
LEMMA AcquireTracks ==
  ASSUME GuardInv, NEW lock, Acquire(lock), tricks \subseteq tricks' PROVE GuardsAreTracked'
<1>1. live = {} /\ held # {} => tricks \cap {"rebound", "unseen"} # {}
  BY DEF GuardInv, KnowsHeld
<1>2. live # {} /\ held = {} => tricks \cap {"wild", "pattern", "moved", "idle"} # {}
  BY DEF GuardInv, KnowsLive
<1>3. extra' => tricks \cap {"rebound", "unseen", "idle"} # {}
  BY <1>1 DEF Acquire, GuardInv, GuardsAreTracked
<1>4. missed' => tricks \cap {"wild", "pattern", "moved", "hidden", "idle"} # {}
  BY <1>2 DEF Acquire, GuardInv, GuardsAreTracked
<1> QED
  BY <1>3, <1>4 DEF GuardsAreTracked

\* A statement that counts nothing right says so.
LEMMA TricksTell ==
  ASSUME GuardInv, tricks \subseteq tricks',
         \/ UNCHANGED <<extra, missed>>
         \/ Overlook /\ "hidden" \in tricks'
         \/ (\E lock : Mistake(lock)) /\ "idle" \in tricks'
  PROVE  GuardsAreTracked'
<1>1. CASE UNCHANGED <<extra, missed>>
  BY <1>1 DEF GuardInv, GuardsAreTracked
<1>2. CASE Overlook /\ "hidden" \in tricks'
  BY <1>2 DEF Overlook, GuardInv, GuardsAreTracked
<1>3. CASE (\E lock : Mistake(lock)) /\ "idle" \in tricks'
  BY <1>3 DEF Mistake, GuardInv, GuardsAreTracked
<1> QED
  BY <1>1, <1>2, <1>3

\* What a `let' adds to the tricks.
LEMMA LetTricks ==
  ASSUME NEW name, NEW ts, TrickyLet(name, ts)
  PROVE  tricks \subseteq tricks' /\ ts \subseteq tricks' /\ (Lives(name) => "rebound" \in tricks')
  BY DEF TrickyLet, Tricky

\* A statement with no name to bind or drop leaves bindings as they are.
LEMMA NothingBound ==
  ASSUME GuardInv, UNCHANGED <<held, bound>>, stmts' = stmts + 1,
         live' = live \/ (live' = live \cup {NoName} /\ "wild" \in tricks'),
         tricks \subseteq tricks'
  PROVE  Bindings' /\ KnowsHeld' /\ KnowsLive'
  BY DEF GuardInv, Bindings, KnowsHeld, KnowsLive

\* A guard bound to a name, which the walk knows, unless it is told otherwise; the
\* guard the name had lives on, or is another name's now, or is over.
LEMMA Binding ==
  ASSUME GuardInv, NEW name \in Names, NEW old, NewName(name), stmts' = stmts + 1,
         held' = (held \ old) \cup {<<name, stmts + 1>>},
         \/ live' = live \cup {name}
         \/ live' = live \cup {NoName} /\ "pattern" \in tricks'
         \/ live' = live /\ ("unseen" \in tricks' \/ name \in live),
         tricks \subseteq tricks',
         Lives(name) => "rebound" \in tricks' \/ old = {<<name, bound[name]>>},
         old = {} \/ (old = {<<name, bound[name]>>}) \/ "moved" \in tricks'
  PROVE  Bindings' /\ KnowsHeld' /\ KnowsLive'
<1>1. Bindings'
  BY DEF GuardInv, Bindings, NewName
<1>2. \A n \in Names : bound'[n] = IF n = name THEN stmts + 1 ELSE bound[n]
  BY DEF GuardInv, Bindings, NewName
<1>3. stmts + 1 \in Int
  BY DEF GuardInv, Bindings
<1>4. KnowsHeld'
  <2> SUFFICES ASSUME tricks' \cap {"rebound", "unseen"} = {}, NEW h \in held'
               PROVE  /\ h[1] \in Names /\ h = <<h[1], bound'[h[1]]>>
                      /\ h[1] \in live' \/ NoName \in live'
    BY DEF KnowsHeld
  <2>1. CASE h = <<name, stmts + 1>>
    BY <2>1, <1>2
  <2>2. CASE h \in held /\ h \notin old
    <3>1. h[1] \in Names /\ h = <<h[1], bound[h[1]]>> /\ (h[1] \in live \/ NoName \in live)
      BY <2>2 DEF GuardInv, KnowsHeld
    <3>2. h[1] # name
      BY <3>1, <2>2 DEF Lives
    <3> QED
      BY <3>1, <3>2, <1>2
  <2> QED
    BY <2>1, <2>2
<1>5. KnowsLive'
  <2> SUFFICES ASSUME tricks' \cap {"wild", "pattern", "moved", "idle"} = {}, NEW n \in live'
               PROVE  \E i \in Int : <<n, i>> \in held'
    BY DEF KnowsLive
  <2>1. CASE n = name
    BY <2>1, <1>3
  <2>2. CASE n # name
    <3>1. n \in live /\ tricks \cap {"wild", "pattern", "moved", "idle"} = {}
      BY <2>2
    <3>2. PICK i \in Int : <<n, i>> \in held
      BY <3>1 DEF GuardInv, KnowsLive
    <3>3. <<n, i>> \notin old
      BY <2>2
    <3> QED
      BY <3>2, <3>3
  <2> QED
    BY <2>1, <2>2
<1> QED
  BY <1>1, <1>4, <1>5

\* A name bound to what is no guard.
LEMMA Shadowing ==
  ASSUME GuardInv, NEW name \in Names, NewName(name), stmts' = stmts + 1, held' = held,
         live' = live \/ (live' = live \cup {name} /\ "idle" \in tricks'),
         tricks \subseteq tricks', Lives(name) => "rebound" \in tricks'
  PROVE  Bindings' /\ KnowsHeld' /\ KnowsLive'
<1>1. Bindings'
  BY DEF GuardInv, Bindings, NewName
<1>2. \A n \in Names : bound'[n] = IF n = name THEN stmts + 1 ELSE bound[n]
  BY DEF GuardInv, Bindings, NewName
<1>3. KnowsHeld'
  <2> SUFFICES ASSUME tricks' \cap {"rebound", "unseen"} = {}, NEW h \in held
               PROVE  /\ h[1] \in Names /\ h = <<h[1], bound'[h[1]]>>
                      /\ h[1] \in live' \/ NoName \in live'
    BY DEF KnowsHeld
  <2>1. h[1] \in Names /\ h = <<h[1], bound[h[1]]>> /\ (h[1] \in live \/ NoName \in live)
    BY DEF GuardInv, KnowsHeld
  <2>2. h[1] # name
    BY <2>1 DEF Lives
  <2> QED
    BY <2>1, <2>2, <1>2
<1>4. KnowsLive'
  BY DEF GuardInv, KnowsLive
<1> QED
  BY <1>1, <1>3, <1>4

\* A guard ended, by drop or otherwise.
LEMMA Ending ==
  ASSUME GuardInv, NEW name \in Names, stmts' = stmts + 1,
         held' = held \ {<<name, bound[name]>>}, bound' = bound,
         \/ live' = live \ {name} /\ tricks' = tricks
         \/ live' = live /\ tricks' = tricks \cup {"moved"}
  PROVE  Bindings' /\ KnowsHeld' /\ KnowsLive'
<1>1. Bindings'
  BY DEF GuardInv, Bindings
<1>2. KnowsHeld'
  <2> SUFFICES ASSUME tricks' \cap {"rebound", "unseen"} = {}, NEW h \in held'
               PROVE  /\ h[1] \in Names /\ h = <<h[1], bound'[h[1]]>>
                      /\ h[1] \in live' \/ NoName \in live'
    BY DEF KnowsHeld
  <2>1. h[1] \in Names /\ h = <<h[1], bound[h[1]]>> /\ (h[1] \in live \/ NoName \in live)
    BY DEF GuardInv, KnowsHeld
  <2>2. h[1] # name
    BY <2>1
  <2>3. NoName # name
    BY LintAssumption DEF LintAssumption, NoName
  <2> QED
    BY <2>1, <2>2, <2>3
<1>3. KnowsLive'
  <2> SUFFICES ASSUME tricks' \cap {"wild", "pattern", "moved", "idle"} = {}, NEW n \in live'
               PROVE  \E i \in Int : <<n, i>> \in held'
    BY DEF KnowsLive
  <2>1. n \in live /\ n # name /\ tricks' = tricks
    OBVIOUS
  <2>2. PICK i \in Int : <<n, i>> \in held
    BY <2>1 DEF GuardInv, KnowsLive
  <2> QED
    BY <2>1, <2>2
<1> QED
  BY <1>1, <1>2, <1>3

\* Every statement of a body keeps the walk in step with it.
LEMMA StatementTracks == GuardInv /\ Statement => GuardInv'
<1> SUFFICES ASSUME GuardInv, Statement PROVE GuardInv'
  OBVIOUS
<1> DEFINE Known == Bindings' /\ KnowsHeld' /\ KnowsLive'
<1>0. Known /\ GuardsAreTracked' => GuardInv'
  BY DEF GuardInv
<1> HIDE DEF Known
<1>1. CASE NoLock
  <2>1. Known
    BY <1>1, NothingBound DEF NoLock, InBody, Known
  <2> QED
    BY <1>0, <1>1, <2>1, TricksTell DEF NoLock
<1>2. CASE HiddenLock
  <2>1. tricks' = tricks \cup {"hidden"}
    BY <1>2 DEF HiddenLock, Tricky
  <2>2. Known
    BY <1>2, <2>1, NothingBound DEF HiddenLock, InBody, Known
  <2> QED
    BY <1>0, <1>2, <2>1, <2>2, TricksTell DEF HiddenLock
<1>3. ASSUME NEW l \in Locks, Temporary(l) PROVE GuardInv'
  <2>1. Known
    BY <1>3, NothingBound DEF Temporary, InBody, Known
  <2> QED
    BY <1>0, <1>3, <2>1, AcquireTracks DEF Temporary
<1>4. ASSUME NEW l \in Locks, LetNothing(l) PROVE GuardInv'
  <2>1. tricks' = tricks \cup {"wild"}
    BY <1>4 DEF LetNothing, Tricky
  <2>2. Known
    BY <1>4, <2>1, NothingBound DEF LetNothing, InBody, Known
  <2> QED
    BY <1>0, <1>4, <2>1, <2>2, AcquireTracks DEF LetNothing
<1>5. ASSUME NEW l \in Locks, Idle(l) PROVE GuardInv'
  <2>1. tricks' = tricks \cup {"idle"}
    BY <1>5 DEF Idle, Tricky
  <2>2. Known
    BY <1>5, <2>1, NothingBound DEF Idle, InBody, Known
  <2> QED
    BY <1>0, <1>5, <2>1, <2>2, TricksTell DEF Idle
<1>6. ASSUME NEW n \in Names, NEW l \in Locks, LetGuard(n, l) PROVE GuardInv'
  <2>1. tricks \subseteq tricks' /\ (Lives(n) => "rebound" \in tricks')
    BY <1>6, LetTricks DEF LetGuard
  <2>2. held' = (held \ {}) \cup {<<n, stmts + 1>>} /\ NewName(n)
    BY <1>6 DEF LetGuard, Bind
  <2>3. Known
    BY <1>6, <2>1, <2>2, Binding DEF LetGuard, InBody, Known
  <2> QED
    BY <1>0, <1>6, <2>1, <2>3, AcquireTracks DEF LetGuard
<1>7. ASSUME NEW n \in Names, NEW l \in Locks, LetPattern(n, l) PROVE GuardInv'
  <2>1. tricks \subseteq tricks' /\ "pattern" \in tricks' /\ (Lives(n) => "rebound" \in tricks')
    BY <1>7, LetTricks DEF LetPattern
  <2>2. held' = (held \ {}) \cup {<<n, stmts + 1>>} /\ NewName(n)
    BY <1>7 DEF LetPattern, Bind
  <2>3. Known
    BY <1>7, <2>1, <2>2, Binding DEF LetPattern, InBody, Known
  <2> QED
    BY <1>0, <1>7, <2>1, <2>3, AcquireTracks DEF LetPattern
<1>8. ASSUME NEW n \in Names, NEW l \in Locks, KeepGuard(n, l) PROVE GuardInv'
  <2>1. tricks \subseteq tricks' /\ "unseen" \in tricks' /\ (Lives(n) => "rebound" \in tricks')
    BY <1>8, LetTricks DEF KeepGuard
  <2>2. held' = (held \ {}) \cup {<<n, stmts + 1>>} /\ NewName(n)
    BY <1>8 DEF KeepGuard, Bind
  <2>3. Known
    BY <1>8, <2>1, <2>2, Binding DEF KeepGuard, InBody, Known
  <2> QED
    BY <1>0, <1>8, <2>1, <2>3, AcquireTracks DEF KeepGuard
<1>9. ASSUME NEW n \in Names, NEW l \in Locks, AssignGuard(n, l) PROVE GuardInv'
  <2>1. tricks \subseteq tricks' /\ (n \in live \/ "unseen" \in tricks')
    BY <1>9 DEF AssignGuard, Tricky
  <2>2. Known
    BY <1>9, <2>1, Binding DEF AssignGuard, InBody, Known
  <2> QED
    BY <1>0, <1>9, <2>1, <2>2, AcquireTracks DEF AssignGuard
<1>10. ASSUME NEW n \in Names, NEW l \in Locks, LetIdle(n, l) PROVE GuardInv'
  <2>1. tricks \subseteq tricks' /\ "idle" \in tricks' /\ (Lives(n) => "rebound" \in tricks')
    BY <1>10, LetTricks DEF LetIdle
  <2>2. Known
    BY <1>10, <2>1, Shadowing DEF LetIdle, InBody, Known
  <2> QED
    BY <1>0, <1>10, <2>1, <2>2, TricksTell DEF LetIdle
<1>11. ASSUME NEW n \in Names, HiddenGuard(n) PROVE GuardInv'
  <2>1. /\ tricks \subseteq tricks' /\ {"hidden", "unseen"} \subseteq tricks'
        /\ Lives(n) => "rebound" \in tricks'
    BY <1>11, LetTricks DEF HiddenGuard
  <2>2. held' = (held \ {}) \cup {<<n, stmts + 1>>} /\ NewName(n)
    BY <1>11 DEF HiddenGuard, Bind
  <2>3. Known
    BY <1>11, <2>1, <2>2, Binding DEF HiddenGuard, InBody, Known
  <2> QED
    BY <1>0, <1>11, <2>1, <2>3, TricksTell DEF HiddenGuard
<1>12. ASSUME NEW n \in Names, Shadow(n) PROVE GuardInv'
  <2>1. tricks \subseteq tricks' /\ (Lives(n) => "rebound" \in tricks')
    BY <1>12, LetTricks DEF Shadow
  <2>2. Known
    BY <1>12, <2>1, Shadowing DEF Shadow, InBody, Known
  <2> QED
    BY <1>0, <1>12, <2>1, <2>2, TricksTell DEF Shadow
<1>13. ASSUME NEW n \in Names, DropGuard(n) PROVE GuardInv'
  <2>1. Known
    BY <1>13, Ending DEF DropGuard, InBody, Known
  <2> QED
    BY <1>0, <1>13, <2>1, TricksTell DEF DropGuard
<1>14. ASSUME NEW n \in Names, MoveGuard(n) PROVE GuardInv'
  <2>1. tricks' = tricks \cup {"moved"}
    BY <1>14 DEF MoveGuard, Tricky
  <2>2. Known
    BY <1>14, <2>1, Ending DEF MoveGuard, InBody, Known
  <2> QED
    BY <1>0, <1>14, <2>1, <2>2, TricksTell DEF MoveGuard
<1>15. ASSUME NEW n \in Names, NEW m \in Names, PassGuard(n, m) PROVE GuardInv'
  <2>1. /\ tricks \subseteq tricks' /\ {"moved", "unseen"} \subseteq tricks'
        /\ Lives(m) => "rebound" \in tricks'
    BY <1>15, LetTricks DEF PassGuard
  <2>2. Known
    BY <1>15, <2>1, Binding DEF PassGuard, InBody, Known
  <2> QED
    BY <1>0, <1>15, <2>1, <2>2, TricksTell DEF PassGuard
<1> QED
  BY <1>1, <1>2, <1>3, <1>4, <1>5, <1>6, <1>7, <1>8, <1>9, <1>10, <1>11, <1>12, <1>13, <1>14,
     <1>15 DEF Statement

\* A statement is the body's, and stays out of the report.
LEMMA StatementStaysOut == Statement => Outside /\ stage = "body"
  BY DEF Statement, HiddenLock, Temporary, LetNothing, Idle, LetGuard, LetPattern, KeepGuard,
         AssignGuard, LetIdle, HiddenGuard, Shadow, DropGuard, MoveGuard, PassGuard, NoLock

\* FT003 is mistaken about which guards are held only in a body that did one of the
\* things its walk does not look at, and then only in the direction stated: for
\* bodies of any length, any locks and any names.
THEOREM GuardsKnown == Spec => []GuardsAreTracked
<1>1. GuardInv /\ [Next]_vars => GuardInv'
  <2> SUFFICES ASSUME GuardInv, [Next]_vars PROVE GuardInv'
    OBVIOUS
  <2>1. CASE Statement
    BY <2>1, StatementTracks
  <2>2. CASE OpenFile \/ EndBody
    BY <2>2, FreshBody DEF OpenFile, EndBody
  <2>3. CASE UNCHANGED bodyVars
    BY <2>3 DEF bodyVars, GuardInv, Bindings, KnowsHeld, KnowsLive, GuardsAreTracked
  <2> QED
    BY <2>1, <2>2, <2>3
       DEF Next, vars, Collect, NameFile, CloseFile, EndCrate
<1>2. GuardInv => GuardsAreTracked
  BY DEF GuardInv
<1> QED
  BY InitGuard, <1>1, <1>2, PTL DEF Spec
-----------------------------------------------------------------------------
(* The report.  What the invariants say of it, by the findings x in a list s. *)

Rules  == {"FT001", "FT002", "FT003"}
AFinding == [rule: Rules, file: Files, symbol: STRING \cup Types, confidence: {"certain", "likely"}]

\* Entry points of f that share state, by the crate.
Shares(f, e) == e.racy /\ \A g \in Read : e.type \notin crate[g].unsendable

Ordered(s)  == \A i, j \in DOMAIN s : i < j => s[i].file <= s[j].file
Distinct(s) == \A i, j \in DOMAIN s : i < j => Signature(s[i]) # Signature(s[j])
Tells(s, f, symbol) == \E k \in DOMAIN s : s[k].rule = "FT001" /\ s[k].file = f /\ s[k].symbol = symbol

\* Where the pass is.
PlaceInv ==
  /\ crate \in [Files -> Contents] /\ file \in 1 .. NFiles + 1 /\ entry \in Nat \ {0}
  /\ stage \in {"collect", "files", "body", "done"}
  /\ stage = "collect" => file = 1
  /\ stage = "body" => file \in Read /\ entry <= Len(crate[file].entries) + 1
  /\ stage = "done" => file = NFiles + 1
  /\ stage # "collect" => known = UNION {crate[f].unsendable : f \in Read}

\* The findings of the file that is read, those of FT001 by the entry points before.
FoundInv ==
  stage = "body" =>
    /\ found \in Seq(AFinding)
    /\ \A k \in DOMAIN found : /\ found[k].file = file
                               /\ found[k].rule = "FT001" => found[k].confidence = "certain"
    /\ \A symbol : Tells(found, file, symbol) <=>
         \E i \in 1 .. entry - 1 :
           Shares(file, crate[file].entries[i]) /\ crate[file].entries[i].symbol = symbol

\* The report over the files before.
ReportInv ==
  /\ findings \in Seq(AFinding) /\ Ordered(findings)
  /\ \A k \in DOMAIN findings : /\ Sure(findings[k]) /\ findings[k].file \in Read
                                /\ findings[k].file < file
  /\ \A f \in Read : f < file => \A symbol :
       Tells(findings, f, symbol) <=> \E e \in EntriesOf(f) : Shares(f, e) /\ e.symbol = symbol
  /\ stage = "done" => Distinct(findings)

\* The files that were not read are named.
NamedInv ==
  /\ unparseable \in Seq(Files)
  /\ {unparseable[i] : i \in 1 .. Len(unparseable)} = {f \in Files \ Read : f < file}

CrateInv == PlaceInv /\ FoundInv /\ ReportInv /\ NamedInv

-----------------------------------------------------------------------------
(* What the filters of the report keep. *)

\* m stands for the first n findings of s, the first of each signature.
Deduped(m, s, n) ==
  /\ m \in Seq(AFinding)
  /\ \A k \in DOMAIN m : \E i \in 1 .. n : m[k] = s[i]
  /\ \A i \in 1 .. n : \E k \in DOMAIN m : Signature(m[k]) = Signature(s[i])
  /\ Distinct(m)
  /\ Ordered(s) => Ordered(m)

\* m holds those of the first n findings of s that are sure enough.
Sifted(m, s, n) ==
  /\ m \in Seq(AFinding)
  /\ \A k \in DOMAIN m : Sure(m[k]) /\ \E i \in 1 .. n : m[k] = s[i]
  /\ \A i \in 1 .. n : Sure(s[i]) => \E k \in DOMAIN m : m[k] = s[i]

LEMMA Appended ==
  ASSUME NEW E, NEW m \in Seq(E), NEW x \in E
  PROVE  /\ Append(m, x) \in Seq(E) /\ DOMAIN Append(m, x) = DOMAIN m \cup {Len(m) + 1}
         /\ Append(m, x)[Len(m) + 1] = x /\ \A k \in DOMAIN m : Append(m, x)[k] = m[k]
         /\ DOMAIN m = 1 .. Len(m) /\ Len(m) \in Nat
  OBVIOUS

LEMMA KeepNewStep ==
  ASSUME NEW s \in Seq(AFinding), NEW n \in Nat, n + 1 <= Len(s), NEW m, Deduped(m, s, n)
  PROVE  Deduped(KeepNew(m, s[n + 1]), s, n + 1)
<1> DEFINE x == s[n + 1]  a == Append(m, x)
<1>1. /\ x \in AFinding /\ 1 .. n + 1 = 1 .. n \cup {n + 1} /\ x = s[n + 1]
      /\ n + 1 \in DOMAIN s /\ \A i \in 1 .. n : i \in DOMAIN s /\ i < n + 1
  OBVIOUS
<1>2. /\ m \in Seq(AFinding) /\ Distinct(m) /\ (Ordered(s) => Ordered(m))
      /\ \A k \in DOMAIN m : \E i \in 1 .. n : m[k] = s[i]
      /\ \A i \in 1 .. n : \E k \in DOMAIN m : Signature(m[k]) = Signature(s[i])
  BY DEF Deduped
<1>3. /\ a \in Seq(AFinding) /\ DOMAIN a = DOMAIN m \cup {Len(m) + 1} /\ a[Len(m) + 1] = x
      /\ \A k \in DOMAIN m : a[k] = m[k]
      /\ DOMAIN m = 1 .. Len(m) /\ Len(m) \in Nat
  BY <1>1, <1>2, Appended
<1> HIDE DEF a, x
<1>4. CASE \E k \in DOMAIN m : Signature(m[k]) = Signature(x)
  <2>1. KeepNew(m, x) = m
    BY <1>4 DEF KeepNew
  <2>2. \A i \in 1 .. n + 1 : \E k \in DOMAIN m : Signature(m[k]) = Signature(s[i])
    BY <1>1, <1>2, <1>4
  <2>3. \A k \in DOMAIN m : \E i \in 1 .. n + 1 : m[k] = s[i]
    BY <1>1, <1>2
  <2> QED BY <1>1, <1>2, <2>1, <2>2, <2>3 DEF Deduped
<1>5. CASE ~ \E k \in DOMAIN m : Signature(m[k]) = Signature(x)
  <2>1. KeepNew(m, x) = a
    BY <1>5 DEF KeepNew, a
  <2>2. ASSUME NEW k \in DOMAIN a PROVE \E i \in 1 .. n + 1 : a[k] = s[i]
    <3>1. CASE k \in DOMAIN m
      BY <3>1, <1>1, <1>2, <1>3
    <3>2. CASE k = Len(m) + 1
      BY <3>2, <1>1, <1>3
    <3> QED BY <3>1, <3>2, <1>3
  <2>3. ASSUME NEW i \in 1 .. n + 1 PROVE \E k \in DOMAIN a : Signature(a[k]) = Signature(s[i])
    <3>1. CASE i \in 1 .. n
      BY <3>1, <1>2, <1>3
    <3>2. CASE i = n + 1
      BY <3>2, <1>1, <1>3
    <3> QED BY <3>1, <3>2, <1>1
  <2>4. Distinct(a)
    <3> SUFFICES ASSUME NEW i \in DOMAIN a, NEW j \in DOMAIN a, i < j
                 PROVE  Signature(a[i]) # Signature(a[j])
      BY DEF Distinct
    <3>1. i \in DOMAIN m /\ a[i] = m[i]
      BY <1>3
    <3>2. CASE j \in DOMAIN m
      BY <3>1, <3>2, <1>2, <1>3 DEF Distinct
    <3>3. CASE j = Len(m) + 1
      BY <3>1, <3>3, <1>3, <1>5
    <3> QED BY <3>2, <3>3, <1>3
  <2>5. ASSUME Ordered(s) PROVE Ordered(a)
    <3> SUFFICES ASSUME NEW i \in DOMAIN a, NEW j \in DOMAIN a, i < j
                 PROVE  a[i].file <= a[j].file
      BY DEF Ordered
    <3>1. i \in DOMAIN m /\ a[i] = m[i]
      BY <1>3
    <3>2. CASE j \in DOMAIN m
      BY <2>5, <3>1, <3>2, <1>2, <1>3 DEF Ordered
    <3>3. CASE j = Len(m) + 1
      <4>1. PICK q \in 1 .. n : m[i] = s[q]
        BY <3>1, <1>2
      <4>2. s[q].file <= s[n + 1].file
        BY <2>5, <1>1 DEF Ordered
      <4> QED BY <4>1, <4>2, <3>1, <3>3, <1>1, <1>3
    <3> QED BY <3>2, <3>3, <1>3
  <2>6. Deduped(a, s, n + 1)
    BY <1>3, <2>2, <2>3, <2>4, <2>5 DEF Deduped
  <2> QED BY <1>1, <2>1, <2>6
<1> QED BY <1>4, <1>5

LEMMA KeepSureStep ==
  ASSUME NEW s \in Seq(AFinding), NEW n \in Nat, n + 1 <= Len(s), NEW m, Sifted(m, s, n)
  PROVE  Sifted(KeepSure(m, s[n + 1]), s, n + 1)
<1> DEFINE x == s[n + 1]  a == Append(m, x)
<1>1. x \in AFinding /\ 1 .. n + 1 = 1 .. n \cup {n + 1} /\ x = s[n + 1]
  OBVIOUS
<1>2. /\ m \in Seq(AFinding)
      /\ \A k \in DOMAIN m : Sure(m[k]) /\ \E i \in 1 .. n : m[k] = s[i]
      /\ \A i \in 1 .. n : Sure(s[i]) => \E k \in DOMAIN m : m[k] = s[i]
  BY DEF Sifted
<1>3. /\ a \in Seq(AFinding) /\ DOMAIN a = DOMAIN m \cup {Len(m) + 1} /\ a[Len(m) + 1] = x
      /\ \A k \in DOMAIN m : a[k] = m[k]
  BY <1>1, <1>2, Appended
<1> HIDE DEF a, x
<1>4. CASE ~ Sure(x)
  <2>1. KeepSure(m, x) = m
    BY <1>4 DEF KeepSure
  <2>2. ASSUME NEW i \in 1 .. n + 1, Sure(s[i]) PROVE \E k \in DOMAIN m : m[k] = s[i]
    BY <2>2, <1>1, <1>2, <1>4
  <2>3. \A k \in DOMAIN m : Sure(m[k]) /\ \E i \in 1 .. n + 1 : m[k] = s[i]
    BY <1>1, <1>2
  <2> QED BY <1>1, <1>2, <2>1, <2>2, <2>3 DEF Sifted
<1>5. CASE Sure(x)
  <2>1. KeepSure(m, x) = a
    BY <1>5 DEF KeepSure, a
  <2>2. ASSUME NEW k \in DOMAIN a PROVE Sure(a[k]) /\ \E i \in 1 .. n + 1 : a[k] = s[i]
    <3>1. CASE k \in DOMAIN m
      BY <3>1, <1>1, <1>2, <1>3
    <3>2. CASE k = Len(m) + 1
      BY <3>2, <1>1, <1>3, <1>5
    <3> QED BY <3>1, <3>2, <1>3
  <2>3. ASSUME NEW i \in 1 .. n + 1, Sure(s[i]) PROVE \E k \in DOMAIN a : a[k] = s[i]
    <3>1. CASE i \in 1 .. n
      BY <2>3, <3>1, <1>2, <1>3
    <3>2. CASE i = n + 1
      BY <3>2, <1>1, <1>3
    <3> QED BY <3>1, <3>2, <1>1
  <2>4. a \in Seq(AFinding)
    BY <1>3
  <2>5. Sifted(a, s, n + 1)
    BY <2>2, <2>3, <2>4, Zenon DEF Sifted
  <2> QED BY <1>1, <2>1, <2>5
<1> QED BY <1>4, <1>5

\* The fold unfolded, over the positions so far.
DedupeFcn(s) == CHOOSE g : g = [t \in SUBSET DOMAIN s |->
                 IF t = {} THEN <<>> ELSE KeepNew(g[t \ {Max(t)}], s[Max(t)])]

LEMMA DedupeIsFcn == ASSUME NEW s PROVE Dedupe(s) = DedupeFcn(s)[DOMAIN s]
  BY DEF Dedupe, FoldLeft, MapThenFoldSet, DedupeFcn

LEMMA DedupeUnfolds ==
  ASSUME NEW s \in Seq(AFinding), NEW t \in SUBSET DOMAIN s
  PROVE  DedupeFcn(s)[t] = IF t = {} THEN <<>> ELSE KeepNew(DedupeFcn(s)[t \ {Max(t)}], s[Max(t)])
<1> DEFINE A == Seq(AFinding)
           D == DOMAIN s
           F == [x \in A \X AFinding |-> KeepNew(x[1], x[2])]
           Val(g, u) == IF u = {} THEN <<>> ELSE KeepNew(g[u \ {Max(u)}], s[Max(u)])
           f == DedupeFcn(s)
<1>1. F \in [A \X AFinding -> A] /\ <<>> \in A /\ s \in A
  BY DEF KeepNew
<1>2. \A m \in A, x \in AFinding : F[<<m, x>>] = KeepNew(m, x)
  OBVIOUS
<1>3. \A u \in SUBSET D : u # {} => Max(u) \in D /\ s[Max(u)] \in AFinding
  <2>1. D = 1 .. Len(s) /\ Len(s) \in Nat /\ \A i \in D : s[i] \in AFinding
    OBVIOUS
  <2> QED BY <2>1, LargestIsIn
<1> HIDE DEF F, A, D
<1>4. PICK g \in [SUBSET D -> A] : IsSeqFold(g, s, <<>>, F)
  BY <1>1, SeqFoldSolves, Zenon DEF A, D
<1>5. ASSUME NEW u \in SUBSET D PROVE g[u] = Val(g, u)
  <2>1. g[u] = IF u = {} THEN <<>> ELSE F[<<g[u \ {Max(u)}], s[Max(u)]>>]
    BY <1>4 DEF IsSeqFold, D
  <2>2. u # {} => g[u \ {Max(u)}] \in A /\ s[Max(u)] \in AFinding
    BY <1>3
  <2> QED BY <2>1, <2>2, <1>2
<1>6. g = [u \in SUBSET D |-> Val(g, u)]
  BY <1>5
<1>7. f = CHOOSE h : h = [u \in SUBSET D |-> Val(h, u)]
  BY DEF DedupeFcn, D
<1> HIDE DEF f
<1>8. f = [u \in SUBSET D |-> Val(f, u)]
  BY <1>6, <1>7
<1>9. f[t] = Val(f, t)
  <2>1. t \in SUBSET D
    BY DEF D
  <2> QED BY <1>8, <2>1
<1> QED BY <1>9 DEF f

LEMMA DedupeKeeps == ASSUME NEW s \in Seq(AFinding) PROVE Deduped(Dedupe(s), s, Len(s))
<1> DEFINE f(n) == DedupeFcn(s)[1 .. n]
           P == {n \in Nat : n <= Len(s) => Deduped(f(n), s, n)}
<1>1. DOMAIN s = 1 .. Len(s) /\ Len(s) \in Nat
  OBVIOUS
<1>2. 0 \in P
  <2>1. 1 .. 0 = {} /\ {} \in SUBSET DOMAIN s
    OBVIOUS
  <2>2. DedupeFcn(s)[{}] = <<>>
    BY <2>1, DedupeUnfolds
  <2>3. f(0) = <<>>
    BY <2>1, <2>2, Zenon
  <2>4. Deduped(<<>>, s, 0)
    BY DEF Deduped, Distinct, Ordered
  <2>5. Deduped(f(0), s, 0)
    BY <2>3, <2>4
  <2> HIDE DEF f
  <2> QED BY <2>5
<1>3. ASSUME NEW n \in P PROVE n + 1 \in P
  <2> SUFFICES ASSUME n + 1 <= Len(s) PROVE Deduped(f(n + 1), s, n + 1)
    OBVIOUS
  <2>1. Deduped(f(n), s, n)
    OBVIOUS
  <2>2. Max(1 .. n + 1) = n + 1 /\ (1 .. n + 1) \ {n + 1} = 1 .. n
    <3>1. n + 1 \in Nat /\ n + 1 # 0 /\ (n + 1) - 1 = n
      OBVIOUS
    <3> QED BY <3>1, LargestOfPrefix
  <2>3. 1 .. n + 1 \in SUBSET DOMAIN s /\ 1 .. n + 1 # {}
    <3>1. n + 1 \in 1 .. n + 1 /\ \A i \in 1 .. n + 1 : i \in 1 .. Len(s)
      OBVIOUS
    <3> QED BY <1>1, <3>1
  <2>4. f(n + 1) = KeepNew(f(n), s[n + 1])
    BY <2>2, <2>3, DedupeUnfolds
  <2> HIDE DEF f
  <2> QED BY <2>1, <2>4, KeepNewStep
<1> HIDE DEF P
<1>4. P = Nat
  <2>1. P \in SUBSET Nat
    BY DEF P
  <2> QED BY <1>2, <1>3, <2>1, NatInd
<1>5. Deduped(f(Len(s)), s, Len(s))
  BY <1>1, <1>4 DEF P
<1> QED BY <1>1, <1>5, DedupeIsFcn

\* The fold unfolded, over the positions so far.
SureFcn(s) == CHOOSE g : g = [t \in SUBSET DOMAIN s |->
                 IF t = {} THEN <<>> ELSE KeepSure(g[t \ {Max(t)}], s[Max(t)])]

LEMMA SureIsFcn == ASSUME NEW s PROVE SureOnes(s) = SureFcn(s)[DOMAIN s]
  BY DEF SureOnes, FoldLeft, MapThenFoldSet, SureFcn

LEMMA SureUnfolds ==
  ASSUME NEW s \in Seq(AFinding), NEW t \in SUBSET DOMAIN s
  PROVE  SureFcn(s)[t] = IF t = {} THEN <<>> ELSE KeepSure(SureFcn(s)[t \ {Max(t)}], s[Max(t)])
<1> DEFINE A == Seq(AFinding)
           D == DOMAIN s
           F == [x \in A \X AFinding |-> KeepSure(x[1], x[2])]
           Val(g, u) == IF u = {} THEN <<>> ELSE KeepSure(g[u \ {Max(u)}], s[Max(u)])
           f == SureFcn(s)
<1>1. F \in [A \X AFinding -> A] /\ <<>> \in A /\ s \in A
  BY DEF KeepSure
<1>2. \A m \in A, x \in AFinding : F[<<m, x>>] = KeepSure(m, x)
  OBVIOUS
<1>3. \A u \in SUBSET D : u # {} => Max(u) \in D /\ s[Max(u)] \in AFinding
  <2>1. D = 1 .. Len(s) /\ Len(s) \in Nat /\ \A i \in D : s[i] \in AFinding
    OBVIOUS
  <2> QED BY <2>1, LargestIsIn
<1> HIDE DEF F, A, D
<1>4. PICK g \in [SUBSET D -> A] : IsSeqFold(g, s, <<>>, F)
  BY <1>1, SeqFoldSolves, Zenon DEF A, D
<1>5. ASSUME NEW u \in SUBSET D PROVE g[u] = Val(g, u)
  <2>1. g[u] = IF u = {} THEN <<>> ELSE F[<<g[u \ {Max(u)}], s[Max(u)]>>]
    BY <1>4 DEF IsSeqFold, D
  <2>2. u # {} => g[u \ {Max(u)}] \in A /\ s[Max(u)] \in AFinding
    BY <1>3
  <2> QED BY <2>1, <2>2, <1>2
<1>6. g = [u \in SUBSET D |-> Val(g, u)]
  BY <1>5
<1>7. f = CHOOSE h : h = [u \in SUBSET D |-> Val(h, u)]
  BY DEF SureFcn, D
<1> HIDE DEF f
<1>8. f = [u \in SUBSET D |-> Val(f, u)]
  BY <1>6, <1>7
<1>9. f[t] = Val(f, t)
  <2>1. t \in SUBSET D
    BY DEF D
  <2> QED BY <1>8, <2>1
<1> QED BY <1>9 DEF f

LEMMA SureKeeps == ASSUME NEW s \in Seq(AFinding) PROVE Sifted(SureOnes(s), s, Len(s))
<1> DEFINE f(n) == SureFcn(s)[1 .. n]
           P == {n \in Nat : n <= Len(s) => Sifted(f(n), s, n)}
<1>1. DOMAIN s = 1 .. Len(s) /\ Len(s) \in Nat
  OBVIOUS
<1>2. 0 \in P
  <2>1. 1 .. 0 = {} /\ {} \in SUBSET DOMAIN s
    OBVIOUS
  <2>2. SureFcn(s)[{}] = <<>>
    BY <2>1, SureUnfolds
  <2>3. f(0) = <<>>
    BY <2>1, <2>2, Zenon
  <2>4. Sifted(<<>>, s, 0)
    BY DEF Sifted, Distinct, Ordered
  <2>5. Sifted(f(0), s, 0)
    BY <2>3, <2>4
  <2> HIDE DEF f
  <2> QED BY <2>5
<1>3. ASSUME NEW n \in P PROVE n + 1 \in P
  <2> SUFFICES ASSUME n + 1 <= Len(s) PROVE Sifted(f(n + 1), s, n + 1)
    OBVIOUS
  <2>1. Sifted(f(n), s, n)
    OBVIOUS
  <2>2. Max(1 .. n + 1) = n + 1 /\ (1 .. n + 1) \ {n + 1} = 1 .. n
    <3>1. n + 1 \in Nat /\ n + 1 # 0 /\ (n + 1) - 1 = n
      OBVIOUS
    <3> QED BY <3>1, LargestOfPrefix
  <2>3. 1 .. n + 1 \in SUBSET DOMAIN s /\ 1 .. n + 1 # {}
    <3>1. n + 1 \in 1 .. n + 1 /\ \A i \in 1 .. n + 1 : i \in 1 .. Len(s)
      OBVIOUS
    <3> QED BY <1>1, <3>1
  <2>4. f(n + 1) = KeepSure(f(n), s[n + 1])
    BY <2>2, <2>3, SureUnfolds
  <2> HIDE DEF f
  <2> QED BY <2>1, <2>4, KeepSureStep
<1> HIDE DEF P
<1>4. P = Nat
  <2>1. P \in SUBSET Nat
    BY DEF P
  <2> QED BY <1>2, <1>3, <2>1, NatInd
<1>5. Sifted(f(Len(s)), s, Len(s))
  BY <1>1, <1>4 DEF P
<1> QED BY <1>1, <1>5, SureIsFcn
-----------------------------------------------------------------------------
(* What is told of FT001 through the filters and in two lists, one after the  *)
(* other.                                                                    *)

LEMMA TellsBoth ==
  ASSUME NEW s \in Seq(AFinding), NEW t \in Seq(AFinding)
  PROVE  \A f, y : Tells(s \o t, f, y) <=> Tells(s, f, y) \/ Tells(t, f, y)
<1>1. \A u, f, y : Tells(u, f, y) <=> \E x : Holds(u, x) /\ x.rule = "FT001" /\ x.file = f /\ x.symbol = y
  BY DEF Tells, Holds
<1>2. \A x : Holds(s \o t, x) <=> Holds(s, x) \/ Holds(t, x)
  BY HoldsBoth
<1> QED BY <1>1, <1>2

LEMMA TellsDeduped ==
  ASSUME NEW s \in Seq(AFinding), NEW m, Deduped(m, s, Len(s))
  PROVE  \A f, y : Tells(m, f, y) <=> Tells(s, f, y)
<1>1. DOMAIN s = 1 .. Len(s)
  OBVIOUS
<1>2. /\ \A k \in DOMAIN m : \E i \in 1 .. Len(s) : m[k] = s[i]
      /\ \A i \in 1 .. Len(s) : \E k \in DOMAIN m : Signature(m[k]) = Signature(s[i])
  BY DEF Deduped
<1>3. \A a, b : Signature(a) = Signature(b) => a.rule = b.rule /\ a.file = b.file /\ a.symbol = b.symbol
  BY DEF Signature
<1>4. ASSUME NEW f, NEW y, Tells(m, f, y) PROVE Tells(s, f, y)
  <2>1. PICK k \in DOMAIN m : m[k].rule = "FT001" /\ m[k].file = f /\ m[k].symbol = y
    BY <1>4 DEF Tells
  <2>2. PICK i \in 1 .. Len(s) : m[k] = s[i]
    BY <1>2
  <2> QED BY <2>1, <2>2, <1>1 DEF Tells
<1>5. ASSUME NEW f, NEW y, Tells(s, f, y) PROVE Tells(m, f, y)
  <2>1. PICK i \in 1 .. Len(s) : s[i].rule = "FT001" /\ s[i].file = f /\ s[i].symbol = y
    BY <1>1, <1>5 DEF Tells
  <2>2. PICK k \in DOMAIN m : Signature(m[k]) = Signature(s[i])
    BY <1>2
  <2> QED BY <2>1, <2>2, <1>3 DEF Tells
<1> QED BY <1>4, <1>5

LEMMA TellsSifted ==
  ASSUME NEW s \in Seq(AFinding), NEW m, Sifted(m, s, Len(s)),
         \A k \in DOMAIN s : s[k].rule = "FT001" => s[k].confidence = "certain"
  PROVE  \A f, y : Tells(m, f, y) <=> Tells(s, f, y)
<1>1. DOMAIN s = 1 .. Len(s)
  OBVIOUS
<1>2. \A k \in DOMAIN m : \E i \in 1 .. Len(s) : m[k] = s[i]
  BY DEF Sifted
<1>3. \A i \in 1 .. Len(s) : Sure(s[i]) => \E k \in DOMAIN m : m[k] = s[i]
  BY DEF Sifted
<1>4. \A i \in 1 .. Len(s) : s[i].rule = "FT001" => Sure(s[i])
  BY <1>1 DEF Sure
<1> QED BY <1>1, <1>2, <1>3, <1>4 DEF Tells

-----------------------------------------------------------------------------
(* What each rule gives. *)

LEMMA ContentOf ==
  ASSUME PlaceInv, NEW f \in Files
  PROVE  /\ crate[f] \in Content /\ crate[f].entries \in Seq(EntryPoint)
         /\ crate[f].freelist \in SUBSET Types /\ IsFiniteSet(crate[f].freelist)
<1>1. crate[f] \in Contents
  BY DEF PlaceInv
<1>2. crate[f] \in Content /\ IsFiniteSet(crate[f].freelist)
  BY <1>1, LintAssumption DEF LintAssumption
<1> QED BY <1>2 DEF Content

\* A finite set can be listed.
LEMMA Listed ==
  ASSUME NEW S, IsFiniteSet(S)
  PROVE  Cardinality(S) \in Nat /\ SetToSeq(S) \in [1 .. Cardinality(S) -> S]
<1>1. Cardinality(S) \in Nat /\ ExistsBijection(1 .. Cardinality(S), S)
  BY FS_CardinalityType
<1>2. \E f \in [1 .. Cardinality(S) -> S] : IsInjective(f)
  BY <1>1 DEF ExistsBijection, Bijection, Injection
<1> QED BY <1>1, <1>2 DEF SetToSeq

LEMMA FreelistFindings ==
  ASSUME PlaceInv, NEW f \in Files
  PROVE  /\ FT002(f) \in Seq(AFinding)
         /\ \A k \in DOMAIN FT002(f) : FT002(f)[k].file = f /\ FT002(f)[k].rule = "FT002"
<1>1. CASE Version = "fixed"
  BY <1>1 DEF FT002
<1>2. CASE Version # "fixed"
  <2> DEFINE S == crate[f].freelist
             classes == SetToSeq(S)
             certainty == IF Version = "older" THEN "certain" ELSE "likely"
             l == [i \in 1 .. Len(classes) |-> Finding("FT002", f, classes[i], certainty)]
  <2>1. S \in SUBSET Types /\ Cardinality(S) \in Nat /\ classes \in [1 .. Cardinality(S) -> S]
    BY ContentOf, Listed
  <2>2. classes \in Seq(Types)
    <3>1. classes \in [1 .. Cardinality(S) -> Types]
      BY <2>1
    <3> HIDE DEF classes, S
    <3> QED BY <2>1, <3>1
  <2>3. FT002(f) = l
    BY <1>2 DEF FT002
  <2> HIDE DEF classes
  <2>4. Len(classes) \in Nat /\ \A i \in 1 .. Len(classes) : classes[i] \in Types
    BY <2>2
  <2>5. \A i \in 1 .. Len(classes) : Finding("FT002", f, classes[i], certainty) \in AFinding
    BY <2>4 DEF Finding, AFinding, Rules
  <2>6. l \in [1 .. Len(classes) -> AFinding]
    BY <2>5
  <2>7. DOMAIN l = 1 .. Len(classes) /\ \A i \in DOMAIN l : l[i].file = f /\ l[i].rule = "FT002"
    BY DEF Finding
  <2> HIDE DEF l
  <2>8. l \in Seq(AFinding)
    BY <2>4, <2>6
  <2> QED BY <2>3, <2>7, <2>8
<1> QED BY <1>1, <1>2

\* An entry point gives a finding of FT001 exactly if it shares state by the crate.
LEMMA EntryFindings ==
  ASSUME PlaceInv, stage = "body", entry <= Len(crate[file].entries)
  PROVE  /\ FT001(Entry) \in Seq(AFinding) /\ FT003(Entry) \in Seq(AFinding)
         /\ \A k \in DOMAIN FT001(Entry) : /\ FT001(Entry)[k].file = file
                                           /\ FT001(Entry)[k].confidence = "certain"
         /\ \A k \in DOMAIN FT003(Entry) : FT003(Entry)[k].file = file /\ FT003(Entry)[k].rule = "FT003"
         /\ \A y : Tells(FT001(Entry), file, y) <=> Shares(file, Entry) /\ Entry.symbol = y
<1>1. file \in Files /\ file \in Read /\ entry \in 1 .. Len(crate[file].entries)
  BY DEF PlaceInv, Read
<1>2. Entry \in EntryPoint
  BY <1>1, ContentOf DEF Entry
<1>3. Entry.symbol \in STRING
  BY <1>2 DEF EntryPoint
<1> DEFINE x == Finding("FT001", file, Entry.symbol, "certain")
           z == Finding("FT003", file, Entry.symbol, "likely")
<1>4. x \in AFinding /\ z \in AFinding
  BY <1>1, <1>3 DEF Finding, AFinding, Rules
<1>5. /\ x.rule = "FT001" /\ x.file = file /\ x.symbol = Entry.symbol /\ x.confidence = "certain"
      /\ z.rule = "FT003" /\ z.file = file
  BY DEF Finding
<1>6. Shares(file, Entry) <=> Entry.racy /\ Entry.type \notin Unsendable(file)
  <2>1. known = UNION {crate[f].unsendable : f \in Read}
    BY DEF PlaceInv
  <2> QED BY <2>1, <1>1 DEF Shares, Unsendable
<1>7. FT001(Entry) = IF Shares(file, Entry) THEN <<x>> ELSE <<>>
  BY <1>6 DEF FT001
<1>8. FT003(Entry) = <<z>> \/ FT003(Entry) = <<>>
  BY DEF FT003
<1> HIDE DEF x, z
<1>9. \A w : DOMAIN <<w>> = {1} /\ <<w>>[1] = w
  OBVIOUS
<1>10. \A y : Tells(FT001(Entry), file, y) <=> Shares(file, Entry) /\ Entry.symbol = y
  <2>1. CASE Shares(file, Entry)
    BY <2>1, <1>5, <1>7, <1>9 DEF Tells
  <2>2. CASE ~ Shares(file, Entry)
    <3>1. DOMAIN FT001(Entry) = {}
      BY <2>2, <1>7
    <3> QED BY <2>2, <3>1 DEF Tells
  <2> QED BY <2>1, <2>2
<1>11. FT001(Entry) \in Seq(AFinding) /\ FT003(Entry) \in Seq(AFinding)
  <2>1. \A E : <<>> \in Seq(E) /\ \A w \in E : <<w>> \in Seq(E)
    OBVIOUS
  <2>2. <<>> \in Seq(AFinding) /\ <<x>> \in Seq(AFinding) /\ <<z>> \in Seq(AFinding)
    BY <2>1, <1>4
  <2> QED BY <2>2, <1>7, <1>8
<1>12. \A k \in DOMAIN FT001(Entry) : FT001(Entry)[k] = x
  BY <1>7, <1>9
<1>13. \A k \in DOMAIN FT003(Entry) : FT003(Entry)[k] = z
  BY <1>8, <1>9
<1> QED BY <1>5, <1>10, <1>11, <1>12, <1>13
-----------------------------------------------------------------------------
(* The steps of the pass. *)

LEMMA InitCrate == Init => CrateInv
<1> SUFFICES ASSUME Init PROVE CrateInv
  OBVIOUS
<1>1. PlaceInv
  <2>1. NFiles \in Nat
    BY LintAssumption DEF LintAssumption
  <2> QED BY <2>1 DEF Init, PlaceInv
<1>2. FoundInv
  BY DEF Init, FoundInv
<1>3. ReportInv
  <2>1. findings = <<>> /\ file = 1 /\ stage = "collect"
    BY DEF Init
  <2> QED BY <2>1 DEF ReportInv, Ordered, Read, Files
<1>4. NamedInv
  <2>1. unparseable = <<>> /\ file = 1
    BY DEF Init
  <2> QED BY <2>1 DEF NamedInv, Files
<1> QED BY <1>1, <1>2, <1>3, <1>4 DEF CrateInv

\* The crate does not change, nor what is read of it.
LEMMA CrateStays == [Next]_vars => /\ crate' = crate /\ Read' = Read
                                   /\ \A f : EntriesOf(f)' = EntriesOf(f)
                                   /\ \A f, e : Shares(f, e)' <=> Shares(f, e)
<1> SUFFICES ASSUME [Next]_vars PROVE crate' = crate
  BY DEF Read, EntriesOf, Shares
<1> QED
  BY StatementStaysOut DEF Next, vars, Collect, OpenFile, NameFile, EndBody, CloseFile, EndCrate, Outside

LEMMA PlaceStep == PlaceInv /\ [Next]_vars => PlaceInv'
<1> SUFFICES ASSUME PlaceInv, [Next]_vars PROVE PlaceInv'
  OBVIOUS
<1>1. crate' = crate /\ Read' = Read
  BY CrateStays
<1>2. NFiles \in Nat
  BY LintAssumption DEF LintAssumption
<1>3. CASE Collect
  BY <1>1, <1>3 DEF Collect, PlaceInv, Read
<1>4. CASE OpenFile
  <2>1. file \in Read /\ Len(crate[file].entries) \in Nat
    <3>1. file \in Files
      BY <1>2, <1>4 DEF OpenFile, PlaceInv, Files
    <3>2. crate[file].entries \in Seq(EntryPoint)
      BY <3>1, ContentOf
    <3> QED BY <3>1, <3>2, <1>4 DEF OpenFile, Read
  <2> QED BY <1>1, <1>4, <2>1 DEF OpenFile, PlaceInv
<1>5. CASE NameFile
  BY <1>1, <1>2, <1>5 DEF NameFile, PlaceInv
<1>6. CASE EndBody
  <2>1. Len(crate[file].entries) \in Nat
    <3>1. file \in Files
      BY <1>6 DEF EndBody, PlaceInv, Read
    <3> QED BY <3>1, ContentOf
  <2> QED BY <1>1, <1>6, <2>1 DEF EndBody, PlaceInv
<1>7. CASE CloseFile
  <2>1. file \in Files
    BY <1>7 DEF CloseFile, PlaceInv, Read
  <2> QED BY <1>1, <1>2, <1>7, <2>1 DEF CloseFile, PlaceInv, Files
<1>8. CASE EndCrate
  BY <1>1, <1>2, <1>8 DEF EndCrate, PlaceInv
<1>9. CASE Statement \/ UNCHANGED vars
  <2>1. UNCHANGED <<crate, stage, file, entry, known>>
    BY <1>9, StatementStaysOut DEF vars, Outside
  <2> QED BY <2>1, <1>1 DEF PlaceInv
<1> QED BY <1>3, <1>4, <1>5, <1>6, <1>7, <1>8, <1>9 DEF Next

\* A body that ends adds what its entry point gives.
LEMMA FoundStep == PlaceInv /\ FoundInv /\ [Next]_vars => FoundInv'
<1> SUFFICES ASSUME PlaceInv, FoundInv, [Next]_vars, stage' = "body" PROVE FoundInv'
  BY DEF FoundInv
<1>1. crate' = crate /\ \A f, e : Shares(f, e)' <=> Shares(f, e)
  BY CrateStays
<1>2. CASE OpenFile
  <2>1. found' = <<>> /\ entry' = 1 /\ file' = file
    BY <1>2 DEF OpenFile
  <2>2. DOMAIN found' = {} /\ found' \in Seq(AFinding) /\ 1 .. entry' - 1 = {}
    BY <2>1
  <2> QED BY <2>2 DEF FoundInv, Tells
<1>3. CASE EndBody
  <2> DEFINE a == FT001(Entry)  b == FT003(Entry)
  <2>1. stage = "body" /\ entry <= Len(crate[file].entries) /\ file' = file /\ entry' = entry + 1
        /\ found' = (found \o a) \o b
    BY <1>3 DEF EndBody
  <2>2. /\ a \in Seq(AFinding) /\ b \in Seq(AFinding)
        /\ \A k \in DOMAIN a : a[k].file = file /\ a[k].confidence = "certain"
        /\ \A k \in DOMAIN b : b[k].file = file /\ b[k].rule = "FT003"
        /\ \A y : Tells(a, file, y) <=> Shares(file, Entry) /\ Entry.symbol = y
    BY <2>1, EntryFindings
  <2>3. /\ found \in Seq(AFinding)
        /\ \A k \in DOMAIN found : /\ found[k].file = file
                                   /\ found[k].rule = "FT001" => found[k].confidence = "certain"
        /\ \A y : Tells(found, file, y) <=>
             \E i \in 1 .. entry - 1 :
               Shares(file, crate[file].entries[i]) /\ crate[file].entries[i].symbol = y
    BY <2>1 DEF FoundInv
  <2> HIDE DEF a, b
  <2>4. found \o a \in Seq(AFinding) /\ found' \in Seq(AFinding)
    BY <2>1, <2>2, <2>3, HoldsBoth
  <2>5. \A x : Holds(found', x) <=> Holds(found, x) \/ Holds(a, x) \/ Holds(b, x)
    <3>1. \A x : Holds(found \o a, x) <=> Holds(found, x) \/ Holds(a, x)
      BY <2>2, <2>3, HoldsBoth
    <3>2. \A x : Holds(found', x) <=> Holds(found \o a, x) \/ Holds(b, x)
      BY <2>1, <2>2, <2>4, HoldsBoth
    <3> QED BY <3>1, <3>2
  <2>6. ASSUME NEW k \in DOMAIN found'
        PROVE  found'[k].file = file /\ (found'[k].rule = "FT001" => found'[k].confidence = "certain")
    <3>1. Holds(found', found'[k])
      BY DEF Holds
    <3>2. Holds(found, found'[k]) \/ Holds(a, found'[k]) \/ Holds(b, found'[k])
      BY <3>1, <2>5
    <3> QED BY <3>2, <2>2, <2>3 DEF Holds
  <2>7. \A y : Tells(found', file, y) <=> Tells(found, file, y) \/ Tells(a, file, y)
    <3>1. \A y : ~ Tells(b, file, y)
      BY <2>2 DEF Tells
    <3>2. \A y : Tells(found', file, y) <=> Tells(found \o a, file, y) \/ Tells(b, file, y)
      BY <2>1, <2>2, <2>4, TellsBoth
    <3>3. \A y : Tells(found \o a, file, y) <=> Tells(found, file, y) \/ Tells(a, file, y)
      BY <2>2, <2>3, TellsBoth
    <3> QED BY <3>1, <3>2, <3>3
  <2>8. entry \in Nat \ {0} /\ 1 .. entry' - 1 = 1 .. entry - 1 \cup {entry}
    BY <2>1 DEF PlaceInv
  <2>9. \A y : Tells(found', file, y) <=>
          \E i \in 1 .. entry' - 1 :
            Shares(file, crate[file].entries[i]) /\ crate[file].entries[i].symbol = y
    BY <2>2, <2>3, <2>7, <2>8 DEF Entry
  <2>10. \A y : Tells(found, file, y)' <=> Tells(found', file, y)
    BY <2>1 DEF Tells
  <2>11. crate' = crate /\ Read' = Read /\ file' = file
    BY <2>1, CrateStays
  <2>12. (\A symbol : Tells(found, file, symbol) <=>
           \E i \in 1 .. entry - 1 :
             Shares(file, crate[file].entries[i]) /\ crate[file].entries[i].symbol = symbol)'
    BY <2>9, <2>10, <2>11 DEF Shares
  <2> QED BY <2>4, <2>6, <2>11, <2>12 DEF FoundInv
<1>4. CASE Statement \/ UNCHANGED vars
  <2>1. UNCHANGED <<crate, stage, file, entry, found>>
    BY <1>4, StatementStaysOut DEF vars, reportVars, Outside
  <2> QED BY <2>1, <1>1 DEF FoundInv, Tells
<1> QED BY <1>2, <1>3, <1>4 DEF Next, Collect, NameFile, CloseFile, EndCrate
\* A file that was not read is named, and no other.
LEMMA NamedStep == PlaceInv /\ NamedInv /\ [Next]_vars => NamedInv'
<1> SUFFICES ASSUME PlaceInv, NamedInv, [Next]_vars PROVE NamedInv'
  OBVIOUS
<1>1. crate' = crate /\ Read' = Read /\ NFiles \in Nat
  BY CrateStays, LintAssumption DEF LintAssumption
<1>2. CASE NameFile
  <2>1. file \in Files /\ file \notin Read /\ unparseable' = Append(unparseable, file) /\ file' = file + 1
    BY <1>1, <1>2 DEF NameFile, PlaceInv, Files, Read
  <2>2. /\ unparseable' \in Seq(Files) /\ DOMAIN unparseable' = DOMAIN unparseable \cup {Len(unparseable) + 1}
        /\ unparseable'[Len(unparseable) + 1] = file
        /\ \A i \in DOMAIN unparseable : unparseable'[i] = unparseable[i]
    BY <2>1, Appended DEF NamedInv
  <2>3. /\ DOMAIN unparseable' = 1 .. Len(unparseable')
        /\ DOMAIN unparseable = 1 .. Len(unparseable)
    BY <2>2 DEF NamedInv
  <2>4. {unparseable'[i] : i \in 1 .. Len(unparseable')} = {unparseable[i] : i \in 1 .. Len(unparseable)} \cup {file}
    BY <2>2, <2>3
  <2>5. {f \in Files \ Read : f < file + 1} = {f \in Files \ Read : f < file} \cup {file}
    BY <2>1 DEF Files
  <2> QED BY <1>1, <2>1, <2>2, <2>4, <2>5 DEF NamedInv
<1>3. CASE CloseFile
  <2>1. file \in Read /\ file' = file + 1 /\ unparseable' = unparseable
    BY <1>3 DEF CloseFile, PlaceInv
  <2>2. {f \in Files \ Read : f < file + 1} = {f \in Files \ Read : f < file}
    BY <2>1 DEF Files, Read
  <2> QED BY <1>1, <2>1, <2>2 DEF NamedInv
<1>4. CASE ~ NameFile /\ ~ CloseFile
  <2>1. UNCHANGED <<file, unparseable>>
    BY <1>4, StatementStaysOut
       DEF Next, vars, reportVars, Collect, OpenFile, EndBody, EndCrate, Outside
  <2> QED BY <1>1, <2>1 DEF NamedInv
<1> QED BY <1>2, <1>3, <1>4

\* What a file that is closed adds to the report.
LEMMA FileAdds ==
  ASSUME PlaceInv, FoundInv, stage = "body", entry > Len(crate[file].entries),
         NEW d, d = Dedupe(SureOnes(found \o FT002(file)))
  PROVE  /\ d \in Seq(AFinding)
         /\ \A k \in DOMAIN d : Sure(d[k]) /\ d[k].file = file
         /\ \A y : Tells(d, file, y) <=> \E e \in EntriesOf(file) : Shares(file, e) /\ e.symbol = y
<1> DEFINE t == FT002(file)  c == found \o t  s == SureOnes(c)
<1>0. file \in Files
  BY DEF PlaceInv, Read
<1>1. t \in Seq(AFinding) /\ \A k \in DOMAIN t : t[k].file = file /\ t[k].rule = "FT002"
  BY <1>0, FreelistFindings
<1>2. /\ found \in Seq(AFinding)
      /\ \A k \in DOMAIN found : /\ found[k].file = file
                                 /\ found[k].rule = "FT001" => found[k].confidence = "certain"
      /\ \A y : Tells(found, file, y) <=>
           \E i \in 1 .. entry - 1 :
             Shares(file, crate[file].entries[i]) /\ crate[file].entries[i].symbol = y
  BY DEF FoundInv
<1>3. d = Dedupe(s)
  OBVIOUS
<1> HIDE DEF t
<1>4. c \in Seq(AFinding) /\ \A x : Holds(c, x) <=> Holds(found, x) \/ Holds(t, x)
  BY <1>1, <1>2, HoldsBoth
<1>5. ASSUME NEW k \in DOMAIN c PROVE c[k].file = file /\ (c[k].rule = "FT001" => c[k].confidence = "certain")
  <2>1. Holds(c, c[k])
    BY DEF Holds
  <2>2. Holds(found, c[k]) \/ Holds(t, c[k])
    BY <2>1, <1>4
  <2> QED BY <2>2, <1>1, <1>2 DEF Holds
<1>6. \A y : Tells(c, file, y) <=> Tells(found, file, y)
  <2>1. \A y : ~ Tells(t, file, y)
    BY <1>1 DEF Tells
  <2> QED BY <2>1, <1>1, <1>2, TellsBoth
<1> HIDE DEF c
<1>7. Sifted(s, c, Len(c))
  BY <1>4, SureKeeps
<1>8. s \in Seq(AFinding) /\ \A k \in DOMAIN s : Sure(s[k]) /\ \E i \in 1 .. Len(c) : s[k] = c[i]
  BY <1>7 DEF Sifted
<1>9. \A y : Tells(s, file, y) <=> Tells(c, file, y)
  BY <1>4, <1>5, <1>7, TellsSifted
<1> HIDE DEF s
<1>10. Deduped(d, s, Len(s))
  BY <1>3, <1>8, DedupeKeeps
<1>11. d \in Seq(AFinding) /\ \A k \in DOMAIN d : \E i \in 1 .. Len(s) : d[k] = s[i]
  BY <1>10 DEF Deduped
<1>12. \A y : Tells(d, file, y) <=> Tells(s, file, y)
  BY <1>8, <1>10, TellsDeduped
<1>13. DOMAIN s = 1 .. Len(s) /\ DOMAIN c = 1 .. Len(c)
  BY <1>4, <1>8
<1>14. \A k \in DOMAIN d : Sure(d[k]) /\ d[k].file = file
  <2> SUFFICES ASSUME NEW k \in DOMAIN d PROVE Sure(d[k]) /\ d[k].file = file
    OBVIOUS
  <2>1. PICK i \in DOMAIN s : d[k] = s[i]
    BY <1>11, <1>13
  <2>2. PICK j \in DOMAIN c : s[i] = c[j]
    BY <1>8, <1>13
  <2> QED BY <2>1, <2>2, <1>5, <1>8
<1>15. EntriesOf(file) = {crate[file].entries[i] : i \in 1 .. entry - 1}
  <2>1. Len(crate[file].entries) \in Nat
    BY <1>0, ContentOf
  <2>2. Len(crate[file].entries) = entry - 1
    BY <2>1 DEF PlaceInv
  <2> QED BY <2>2 DEF EntriesOf
<1>16. \A y : Tells(d, file, y) <=> \E e \in EntriesOf(file) : Shares(file, e) /\ e.symbol = y
  BY <1>2, <1>6, <1>9, <1>12, <1>15
<1> QED BY <1>11, <1>14, <1>16

\* The report of the files before, with that of the file that is closed.
LEMMA ReportGrows ==
  ASSUME PlaceInv, FoundInv, ReportInv, CloseFile, crate' = crate, Read' = Read
  PROVE  ReportInv'
<1> DEFINE d == Dedupe(SureOnes(found \o FT002(file)))
<1>1. /\ stage = "body" /\ entry > Len(crate[file].entries) /\ stage' = "files" /\ file' = file + 1
      /\ findings' = findings \o d
  BY DEF CloseFile
<1>2. file \in Files /\ file \in Read /\ file \in Nat
  BY <1>1 DEF PlaceInv, Read, Files
<1>3. /\ d \in Seq(AFinding)
      /\ \A k \in DOMAIN d : Sure(d[k]) /\ d[k].file = file
      /\ \A y : Tells(d, file, y) <=> \E e \in EntriesOf(file) : Shares(file, e) /\ e.symbol = y
  BY <1>1, FileAdds
<1> HIDE DEF d
<1>4. /\ findings \in Seq(AFinding) /\ Ordered(findings)
      /\ \A k \in DOMAIN findings : /\ Sure(findings[k]) /\ findings[k].file \in Read
                                    /\ findings[k].file < file
      /\ \A f \in Read : f < file => \A y :
           Tells(findings, f, y) <=> \E e \in EntriesOf(f) : Shares(f, e) /\ e.symbol = y
  BY DEF ReportInv
<1>5. findings' \in Seq(AFinding) /\ \A x : Holds(findings', x) <=> Holds(findings, x) \/ Holds(d, x)
  BY <1>1, <1>3, <1>4, HoldsBoth
<1>6. ASSUME NEW k \in DOMAIN findings'
      PROVE  Sure(findings'[k]) /\ findings'[k].file \in Read /\ findings'[k].file < file + 1
  <2>1. Holds(findings', findings'[k])
    BY DEF Holds
  <2>2. CASE Holds(findings, findings'[k])
    <3>1. findings'[k].file \in Nat
      BY <2>2, <1>4 DEF Holds, Read, Files
    <3> QED BY <2>2, <3>1, <1>2, <1>4 DEF Holds
  <2>3. CASE Holds(d, findings'[k])
    BY <2>3, <1>2, <1>3 DEF Holds
  <2> QED BY <2>1, <2>2, <2>3, <1>5
<1>7. \A f, y : Tells(findings', f, y) <=> Tells(findings, f, y) \/ Tells(d, f, y)
  BY <1>1, <1>3, <1>4, TellsBoth
<1>8. ASSUME NEW f \in Read, f < file + 1, NEW y
      PROVE  Tells(findings', f, y) <=> \E e \in EntriesOf(f) : Shares(f, e) /\ e.symbol = y
  <2>1. CASE f = file
    <3>1. ~ Tells(findings, file, y)
      BY <1>2, <1>4 DEF Tells
    <3> QED BY <2>1, <3>1, <1>3, <1>7
  <2>2. CASE f # file
    <3>1. f \in Nat /\ f < file
      BY <1>2, <1>8, <2>2 DEF Read, Files
    <3>2. ~ Tells(d, f, y)
      BY <2>2, <1>3 DEF Tells
    <3> QED BY <3>1, <3>2, <1>4, <1>7
  <2> QED BY <2>1, <2>2
<1>9. ASSUME NEW i \in DOMAIN findings', NEW j \in DOMAIN findings', i < j
      PROVE  findings'[i].file <= findings'[j].file
  <2>1. /\ Len(findings) \in Nat /\ DOMAIN findings = 1 .. Len(findings)
        /\ Len(d) \in Nat /\ DOMAIN d = 1 .. Len(d) /\ DOMAIN findings' = 1 .. Len(findings) + Len(d)
        /\ \A k \in DOMAIN findings' : findings'[k] = IF k <= Len(findings) THEN findings[k] ELSE d[k - Len(findings)]
    BY <1>1, <1>3, <1>4
  <2>2. CASE j <= Len(findings)
    BY <2>1, <2>2, <1>4, <1>9 DEF Ordered
  <2>3. CASE ~ (j <= Len(findings))
    <3>1. j - Len(findings) \in DOMAIN d
      BY <2>1, <2>3
    <3>2. findings'[j].file = file
      BY <3>1, <2>1, <2>3, <1>3
    <3>3. findings'[i].file \in Nat /\ findings'[i].file < file + 1
      BY <1>6 DEF Read, Files
    <3> QED BY <3>2, <3>3, <1>2
  <2> QED BY <2>2, <2>3
<1>10. Ordered(findings)'
  BY <1>9 DEF Ordered
<1>11. (\A k \in DOMAIN findings : /\ Sure(findings[k]) /\ findings[k].file \in Read
                                   /\ findings[k].file < file)'
  BY <1>1, <1>6 DEF Read, Sure
<1>12. (\A f \in Read : f < file => \A symbol :
          Tells(findings, f, symbol) <=> \E e \in EntriesOf(f) : Shares(f, e) /\ e.symbol = symbol)'
  <2>1. \A f \in Read : f < file + 1 => \A y :
          Tells(findings', f, y) <=> \E e \in EntriesOf(f) : Shares(f, e) /\ e.symbol = y
    BY <1>8
  <2>2. file' = file + 1
    BY <1>1
  <2>3. \A f : EntriesOf(f)' = EntriesOf(f)
    BY DEF EntriesOf
  <2>4. \A f, e : Shares(f, e)' <=> Shares(f, e)
    BY DEF Shares
  <2> QED BY <2>1, <2>2, <2>3, <2>4 DEF Tells
<1> QED BY <1>1, <1>5, <1>10, <1>11, <1>12 DEF ReportInv

\* The last filter leaves one finding of each signature.
LEMMA ReportEnds ==
  ASSUME PlaceInv, ReportInv, EndCrate, crate' = crate, Read' = Read
  PROVE  ReportInv'
<1>1. findings' = Dedupe(findings) /\ file' = file
  BY DEF EndCrate
<1>2. /\ findings \in Seq(AFinding) /\ Ordered(findings)
      /\ \A k \in DOMAIN findings : /\ Sure(findings[k]) /\ findings[k].file \in Read
                                    /\ findings[k].file < file
      /\ \A f \in Read : f < file => \A y :
           Tells(findings, f, y) <=> \E e \in EntriesOf(f) : Shares(f, e) /\ e.symbol = y
  BY DEF ReportInv
<1>3. Deduped(findings', findings, Len(findings))
  BY <1>1, <1>2, DedupeKeeps
<1>4. /\ findings' \in Seq(AFinding) /\ Distinct(findings') /\ Ordered(findings')
      /\ \A k \in DOMAIN findings' : \E i \in 1 .. Len(findings) : findings'[k] = findings[i]
  BY <1>2, <1>3 DEF Deduped
<1>5. \A f, y : Tells(findings', f, y) <=> Tells(findings, f, y)
  BY <1>2, <1>3, TellsDeduped
<1>6. \A k \in DOMAIN findings' : /\ Sure(findings'[k]) /\ findings'[k].file \in Read
                                  /\ findings'[k].file < file
  <2>1. DOMAIN findings = 1 .. Len(findings)
    BY <1>2
  <2> QED BY <2>1, <1>2, <1>4
<1>7. Ordered(findings)' /\ Distinct(findings)'
  BY <1>4 DEF Ordered, Distinct
<1>8. (\A k \in DOMAIN findings : /\ Sure(findings[k]) /\ findings[k].file \in Read
                                  /\ findings[k].file < file)'
  BY <1>1, <1>6 DEF Read, Sure
<1>9. \A f \in Read : f < file => \A y :
        Tells(findings', f, y) <=> \E e \in EntriesOf(f) : Shares(f, e) /\ e.symbol = y
  BY <1>2, <1>5
<1>10. (\A f \in Read : f < file => \A symbol :
          Tells(findings, f, symbol) <=> \E e \in EntriesOf(f) : Shares(f, e) /\ e.symbol = symbol)'
  BY <1>1, <1>9 DEF Tells, EntriesOf, Shares
<1> QED BY <1>4, <1>7, <1>8, <1>10 DEF ReportInv

LEMMA ReportStep == PlaceInv /\ FoundInv /\ ReportInv /\ [Next]_vars => ReportInv'
<1> SUFFICES ASSUME PlaceInv, FoundInv, ReportInv, [Next]_vars PROVE ReportInv'
  OBVIOUS
<1>1. crate' = crate /\ Read' = Read
  BY CrateStays
<1>2. CASE CloseFile
  BY <1>1, <1>2, ReportGrows
<1>3. CASE EndCrate
  BY <1>1, <1>3, ReportEnds
<1>4. CASE NameFile
  <2>1. file' = file + 1 /\ findings' = findings /\ stage' = "files" /\ file \notin Read
    BY <1>4 DEF NameFile, Read
  <2>2. \A f \in Read : f \in Nat /\ (f < file + 1 => f < file) /\ (f < file => f < file + 1)
    BY <2>1 DEF PlaceInv, Read, Files
  <2>3. /\ findings \in Seq(AFinding) /\ Ordered(findings)
        /\ \A k \in DOMAIN findings : /\ Sure(findings[k]) /\ findings[k].file \in Read
                                      /\ findings[k].file < file
        /\ \A f \in Read : f < file => \A y :
             Tells(findings, f, y) <=> \E e \in EntriesOf(f) : Shares(f, e) /\ e.symbol = y
    BY DEF ReportInv
  <2>4. Ordered(findings)'
    BY <2>1, <2>3 DEF Ordered
  <2>5. (\A k \in DOMAIN findings : /\ Sure(findings[k]) /\ findings[k].file \in Read
                                    /\ findings[k].file < file)'
    BY <1>1, <2>1, <2>2, <2>3 DEF Sure
  <2>6. (\A f \in Read : f < file => \A symbol :
          Tells(findings, f, symbol) <=> \E e \in EntriesOf(f) : Shares(f, e) /\ e.symbol = symbol)'
    <3>1. \A f, y : Tells(findings, f, y)' = Tells(findings, f, y)
      BY <2>1 DEF Tells
    <3>2. \A f : EntriesOf(f)' = EntriesOf(f)
      BY <1>1 DEF EntriesOf
    <3>3. \A f, e : Shares(f, e)' = Shares(f, e)
      BY <1>1 DEF Shares
    <3> QED BY <1>1, <2>1, <2>2, <2>3, <3>1, <3>2, <3>3
  <2> QED BY <2>1, <2>3, <2>4, <2>5, <2>6 DEF ReportInv
<1>5. CASE ~ CloseFile /\ ~ EndCrate /\ ~ NameFile
  <2>1. UNCHANGED <<file, findings>> /\ (stage' = "done" => stage = "done")
    BY <1>5, StatementStaysOut
       DEF Next, vars, reportVars, Collect, OpenFile, EndBody, Outside
  <2> QED BY <1>1, <2>1 DEF ReportInv, Ordered, Distinct, Tells, EntriesOf, Shares, Sure
<1> QED BY <1>2, <1>3, <1>4, <1>5

LEMMA AlwaysCrateInv == Spec => []CrateInv
<1>1. CrateInv /\ [Next]_vars => CrateInv'
  BY PlaceStep, FoundStep, ReportStep, NamedStep DEF CrateInv
<1> QED BY InitCrate, <1>1, PTL DEF Spec

\* Every entry point that shares state is in the report of lint_crate, and nothing
\* else is under FT001, whichever file of the crate declares its class unsendable:
\* for crates of any files, entry points and classes.
THEOREM SharedStateFound == Spec => []SharedStateIsReported
<1>1. CrateInv => SharedStateIsReported
  <2> SUFFICES ASSUME CrateInv, stage = "done"
               PROVE  {<<x.file, x.symbol>> : x \in {y \in Reported : y.rule = "FT001"}} =
                        UNION {{<<f, e.symbol>> :
                                  e \in {d \in EntriesOf(f) : d.racy /\ \A g \in Read : d.type \notin crate[g].unsendable}} :
                                f \in Read}
    BY DEF SharedStateIsReported
  <2>1. /\ findings \in Seq(AFinding) /\ DOMAIN findings = 1 .. Len(findings)
        /\ \A k \in DOMAIN findings : findings[k].file \in Read
    BY DEF CrateInv, ReportInv
  <2>2. \A f \in Read : f < file
    <3>1. NFiles \in Nat /\ file = NFiles + 1
      BY LintAssumption DEF CrateInv, PlaceInv, LintAssumption
    <3> QED BY <3>1 DEF Read, Files
  <2>3. \A f \in Read : \A y : Tells(findings, f, y) <=> \E e \in EntriesOf(f) : Shares(f, e) /\ e.symbol = y
    BY <2>2 DEF CrateInv, ReportInv
  <2>4. \A f, y : Tells(findings, f, y) <=> \E x \in Reported : x.rule = "FT001" /\ x.file = f /\ x.symbol = y
    BY <2>1 DEF Tells, Reported
  <2>5. \A x \in Reported : x.file \in Read
    BY <2>1 DEF Reported
  <2> DEFINE T == {<<x.file, x.symbol>> : x \in {y \in Reported : y.rule = "FT001"}}
             W == UNION {{<<f, e.symbol>> :
                            e \in {d \in EntriesOf(f) : d.racy /\ \A g \in Read : d.type \notin crate[g].unsendable}} :
                          f \in Read}
  <2>6. \A z : z \in T <=> \E f \in Read : \E y : z = <<f, y>> /\ Tells(findings, f, y)
    <3>1. ASSUME NEW z \in T PROVE \E f \in Read : \E y : z = <<f, y>> /\ Tells(findings, f, y)
      <4>1. PICK x \in Reported : x.rule = "FT001" /\ z = <<x.file, x.symbol>>
        OBVIOUS
      <4>2. x.file \in Read /\ Tells(findings, x.file, x.symbol)
        BY <4>1, <2>4, <2>5
      <4> QED BY <4>1, <4>2
    <3>2. ASSUME NEW f \in Read, NEW y, Tells(findings, f, y) PROVE <<f, y>> \in T
      <4>1. PICK x \in Reported : x.rule = "FT001" /\ x.file = f /\ x.symbol = y
        BY <3>2, <2>4
      <4> QED BY <4>1
    <3> QED BY <3>1, <3>2
  <2>7. \A z : z \in W <=> \E f \in Read : \E e \in EntriesOf(f) : Shares(f, e) /\ z = <<f, e.symbol>>
    BY DEF Shares
  <2> HIDE DEF T, W
  <2>8. \A z : z \in W <=> \E f \in Read : \E y : z = <<f, y>> /\ Tells(findings, f, y)
    BY <2>3, <2>7
  <2>9. T = W
    BY <2>6, <2>8
  <2> QED BY <2>9 DEF T, W
<1> QED BY <1>1, AlwaysCrateInv, PTL

\* The report of lint_crate leaves no file out: each was read or is named; and its
\* findings stand once each, in the order of the files, as sure as was asked for.
THEOREM NothingLeftOut == Spec => []ReportIsWhole
<1>1. CrateInv => ReportIsWhole
  <2> SUFFICES ASSUME CrateInv, stage = "done"
               PROVE  /\ {unparseable[i] : i \in 1 .. Len(unparseable)} = Files \ Read
                      /\ \A i, j \in 1 .. Len(findings) :
                           i < j => /\ Signature(findings[i]) # Signature(findings[j])
                                    /\ findings[i].file <= findings[j].file
                      /\ \A x \in Reported : Sure(x) /\ x.file \in Read
    BY DEF ReportIsWhole
  <2>1. /\ findings \in Seq(AFinding) /\ DOMAIN findings = 1 .. Len(findings)
        /\ Ordered(findings) /\ Distinct(findings)
        /\ \A k \in DOMAIN findings : Sure(findings[k]) /\ findings[k].file \in Read
    BY DEF CrateInv, ReportInv
  <2>2. \A f \in Files : f < file
    <3>1. NFiles \in Nat /\ file = NFiles + 1
      BY LintAssumption DEF CrateInv, PlaceInv, LintAssumption
    <3> QED BY <3>1 DEF Files
  <2>3. {unparseable[i] : i \in 1 .. Len(unparseable)} = Files \ Read
    BY <2>2 DEF CrateInv, NamedInv
  <2>4. \A x \in Reported : Sure(x) /\ x.file \in Read
    BY <2>1 DEF Reported
  <2>5. \A i, j \in 1 .. Len(findings) :
          i < j => /\ Signature(findings[i]) # Signature(findings[j])
                   /\ findings[i].file <= findings[j].file
    BY <2>1 DEF Ordered, Distinct
  <2> QED BY <2>3, <2>4, <2>5
<1> QED BY <1>1, AlwaysCrateInv, PTL
=============================================================================
