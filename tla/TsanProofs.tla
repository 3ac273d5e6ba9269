----------------------------- MODULE TsanProofs ------------------------------
(***************************************************************************)
(* Proofs about TsanReports and TsanParse, for every set of reports and    *)
(* logs of any length.                                                     *)
(*                                                                         *)
(* TsanReports: attribution does not depend on the side printed first, and *)
(* to_findings() files each report exactly once, with its race.            *)
(*                                                                         *)
(* TsanParse: parse() finds in the lines of the log the reports that were  *)
(* begun, whatever is cut, so that it implements TsanReports.  The lines   *)
(* of a report are fed to the locals of parse() part by part: "Adds" says  *)
(* which sections some lines add, however many of them are read; "Shows-   *)
(* Last" puts the parts together to a report; "Shape" says which of its    *)
(* sections become stacks, and of which thread.                            *)
(***************************************************************************)
EXTENDS TsanParse, DataLemmas, SequenceTheorems

\* What an entry is made of.
Sigs    == {Signature(r, o) : r \in Possible, o \in Owners}
Shows   == {Primary(r, o) : r \in Possible, o \in Owners}
Entries == [sig: Sigs, key: {MergeKey(s, f) : s \in Sigs, f \in Shows}, primary: Shows,
            occurrences: Nat, members: SUBSET Nat]

TypeInv == log \in Seq(Possible) /\ buckets \in [Owners -> Seq(Entries)]

\* The reports of log l, of owner o, filed under sig.
Same(l, o, sig) == {n \in DOMAIN l : Attribute(l[n]) = o /\ Signature(l[n], o) = sig}

SigsDiffer == \A o \in Owners : \A i, j \in DOMAIN buckets[o] :
                buckets[o][i].sig = buckets[o][j].sig => i = j

IInv == TypeInv /\ FiledByRace /\ SigsDiffer

Bounded == Len(log) <= MaxReports

-----------------------------------------------------------------------------
LEMMA OwnersAreFour == \A r : Attribute(r) \in Owners
BY DEF Attribute, Owners

\* A report with its stacks the other way round has the same stacks.
LEMMA SwappedStacks ==
  ASSUME NEW r, r.stacks \in Seq(Stacks(r))
  PROVE  Stacks(Swapped(r)) = Stacks(r) /\ (Swapped(r).stacks = <<>> <=> r.stacks = <<>>)
<1> DEFINE s == r.stacks  t == Swapped(r).stacks
<1>1. /\ Len(s) \in Nat /\ DOMAIN s = 1 .. Len(s)
      /\ DOMAIN t = 1 .. Len(s) /\ \A i \in 1 .. Len(s) : t[i] = s[(Len(s) - i) + 1]
  BY DEF Swapped, Reverse
<1>2. \A i \in 1 .. Len(s) : (Len(s) - i) + 1 \in 1 .. Len(s) /\ (Len(s) - ((Len(s) - i) + 1)) + 1 = i
  BY <1>1
<1>3. ASSUME NEW i \in DOMAIN t PROVE t[i] \in Stacks(r) BY <1>1, <1>2 DEF Stacks
<1>4. ASSUME NEW i \in DOMAIN s PROVE s[i] \in Stacks(Swapped(r))
  <2>1. s[i] = t[(Len(s) - i) + 1] BY <1>1, <1>2
  <2> QED BY <2>1, <1>1, <1>2 DEF Stacks
<1>5. t = <<>> <=> s = <<>> BY <1>1
<1> QED BY <1>3, <1>4, <1>5 DEF Stacks

LEMMA SwappedOwner == ASSUME TsanAssumption, NEW r \in Possible PROVE Attribute(Swapped(r)) = Attribute(r)
<1>1. r.stacks \in Seq(Stacks(r)) BY DEF TsanAssumption, Stacks
<1>2. Stacks(Swapped(r)) = Stacks(r) /\ (Swapped(r).stacks = <<>> <=> r.stacks = <<>>)
  BY <1>1, SwappedStacks
<1>3. Swapped(r).crash = r.crash BY DEF Swapped
<1>4. Anywhere(Swapped(r)) <=> Anywhere(r) BY <1>2 DEF Anywhere
<1>5. HarnessRewrite(Swapped(r)) <=> HarnessRewrite(r) BY <1>2 DEF HarnessRewrite
<1> QED BY <1>2, <1>3, <1>4, <1>5 DEF Attribute

-----------------------------------------------------------------------------
LEMMA InitInv == Init => IInv
<1> SUFFICES ASSUME Init PROVE IInv OBVIOUS
<1>1. log = <<>> /\ \A o \in Owners : buckets[o] = <<>> BY DEF Init
<1>2. TypeInv BY DEF Init, TypeInv
<1>3. DOMAIN log = {} /\ \A o \in Owners : DOMAIN buckets[o] = {} BY <1>1
<1> QED BY <1>2, <1>3 DEF IInv, FiledByRace, SigsDiffer

\* Reading one report: what happens to the entries of its owner.
LEMMA ReadInv ==
  ASSUME IInv, NEW r \in Possible, log' = Append(log, r), buckets' = File(buckets, r, Len(log) + 1)
  PROVE  IInv'
<1> DEFINE owner == Attribute(r)
           sig   == Signature(r, owner)
           n     == Len(log) + 1
           b     == buckets[owner]
           known == {i \in DOMAIN b : b[i].sig = sig}
<1>0. log \in Seq(Possible) /\ buckets \in [Owners -> Seq(Entries)] /\ owner \in Owners /\ b \in Seq(Entries)
  BY OwnersAreFour DEF IInv, TypeInv
<1>1. /\ log' \in Seq(Possible) /\ n \in Nat /\ n \notin DOMAIN log /\ DOMAIN log' = DOMAIN log \cup {n}
      /\ log'[n] = r /\ \A m \in DOMAIN log : log'[m] = log[m] /\ m \in Nat
  BY <1>0
<1>2. IsFiniteSet(DOMAIN log)
  <2>1. DOMAIN log = 1 .. Len(log) /\ Len(log) \in Nat BY <1>0
  <2> QED BY <2>1, FS_Interval
<1>3. \A o, s : Same(log', o, s) = Same(log, o, s) \cup (IF o = owner /\ s = sig THEN {n} ELSE {})
  BY <1>1 DEF Same
<1>31. \A o, s : o # owner \/ s # sig => Same(log', o, s) = Same(log, o, s)
  <2> HIDE DEF owner, sig, n
  <2> SUFFICES ASSUME NEW o, NEW s, o # owner \/ s # sig PROVE Same(log', o, s) = Same(log, o, s) OBVIOUS
  <2>1. Same(log', o, s) = Same(log, o, s) \cup {} BY <1>3
  <2> QED BY <2>1
<1>4. \A o, s : IsFiniteSet(Same(log, o, s)) /\ Cardinality(Same(log, o, s)) \in Nat
  <2>1. \A o, s : Same(log, o, s) \subseteq DOMAIN log BY DEF Same
  <2> QED BY <2>1, <1>2, FS_Subset, FS_CardinalityType
<1>5. Entry(r, owner, n) \in Entries
  BY <1>0, <1>1 DEF Entry, Entries, Sigs, Shows
<1>6. \A o \in Owners :
        /\ \A i \in DOMAIN buckets[o] : /\ buckets[o][i].members = Same(log, o, buckets[o][i].sig)
                                         /\ buckets[o][i].occurrences = Cardinality(Same(log, o, buckets[o][i].sig))
        /\ \A m \in DOMAIN log : Attribute(log[m]) = o =>
             \E i \in DOMAIN buckets[o] : buckets[o][i].sig = Signature(log[m], o)
  BY DEF IInv, FiledByRace, Same
<1>7. SUFFICES
        /\ buckets' \in [Owners -> Seq(Entries)]
        /\ \A o \in Owners :
             /\ \A i \in DOMAIN buckets'[o] :
                  /\ buckets'[o][i].members = Same(log', o, buckets'[o][i].sig)
                  /\ buckets'[o][i].occurrences = Cardinality(Same(log', o, buckets'[o][i].sig))
             /\ \A m \in DOMAIN log' : Attribute(log'[m]) = o =>
                  \E i \in DOMAIN buckets'[o] : buckets'[o][i].sig = Signature(log'[m], o)
             /\ \A i, j \in DOMAIN buckets'[o] : buckets'[o][i].sig = buckets'[o][j].sig => i = j
  <2>1. TypeInv' BY <1>1 DEF TypeInv
  <2>2. FiledByRace' BY DEF FiledByRace, Same
  <2>3. SigsDiffer' BY DEF SigsDiffer
  <2> QED BY <2>1, <2>2, <2>3 DEF IInv
<1>8. \A o \in Owners : \A i, j \in DOMAIN buckets[o] : buckets[o][i].sig = buckets[o][j].sig => i = j
  BY DEF IInv, SigsDiffer
<1> DEFINE e == Entry(r, owner, n)
<1>9. e.sig = sig /\ e.members = {n} /\ e.occurrences = 1 BY DEF Entry
<1>10. \A i \in DOMAIN b : b[i] \in Entries BY <1>0
<1>11. owner = Attribute(r) /\ sig = Signature(r, owner) OBVIOUS
<1>12. known = {i \in DOMAIN b : b[i].sig = sig} OBVIOUS
<1>13. b = buckets[owner] OBVIOUS
<1>14. CASE known = {}
  <2>1. buckets' = [buckets EXCEPT ![owner] = Append(b, e)] BY <1>14 DEF File
  <2>2. Append(b, e) \in Seq(Entries) BY <1>0, <1>5
  <2>3. DOMAIN Append(b, e) = DOMAIN b \cup {Len(b) + 1} /\ Append(b, e)[Len(b) + 1] = e
        /\ \A i \in DOMAIN b : Append(b, e)[i] = b[i]
    BY <1>0
  <2>4. \A i \in DOMAIN b : b[i].sig # sig BY <1>14
  <2>5. Same(log, owner, sig) = {} BY <1>6, <2>4, <1>0, <1>13 DEF Same
  <2> HIDE DEF e, n, known, sig, owner, b
  <2>6. ASSUME NEW o \in Owners, o # owner
        PROVE  /\ \A i \in DOMAIN buckets'[o] :
                    /\ buckets'[o][i].members = Same(log', o, buckets'[o][i].sig)
                    /\ buckets'[o][i].occurrences = Cardinality(Same(log', o, buckets'[o][i].sig))
               /\ \A m \in DOMAIN log' : Attribute(log'[m]) = o =>
                    \E i \in DOMAIN buckets'[o] : buckets'[o][i].sig = Signature(log'[m], o)
               /\ \A i, j \in DOMAIN buckets'[o] : buckets'[o][i].sig = buckets'[o][j].sig => i = j
    <3>1. buckets'[o] = buckets[o] BY <2>1, <2>6, <1>0
    <3>2. \A s : Same(log', o, s) = Same(log, o, s) BY <1>31, <2>6
    <3>3. \A m \in DOMAIN log' : Attribute(log'[m]) = o => m \in DOMAIN log /\ log'[m] = log[m]
      BY <1>1, <1>11, <2>6
    <3> QED BY <3>1, <3>2, <3>3, <1>6, <1>8
  <2>7. buckets'[owner] = Append(b, e) BY <2>1, <1>0
  <2>8. ASSUME NEW i \in DOMAIN Append(b, e)
        PROVE  /\ Append(b, e)[i].members = Same(log', owner, Append(b, e)[i].sig)
               /\ Append(b, e)[i].occurrences = Cardinality(Same(log', owner, Append(b, e)[i].sig))
    <3>1. CASE i \in DOMAIN b
      <4>1. Append(b, e)[i] = b[i] BY <3>1, <2>3
      <4>2. Same(log', owner, b[i].sig) = Same(log, owner, b[i].sig) BY <3>1, <2>4, <1>31
      <4> QED BY <4>1, <4>2, <3>1, <1>6, <1>0, <1>13
    <3>2. CASE i = Len(b) + 1
      <4>1. Append(b, e)[i] = e BY <3>2, <2>3
      <4>2. Same(log', owner, sig) = {n} BY <2>5, <1>3
      <4>3. Cardinality({n}) = 1 BY FS_Singleton
      <4> QED BY <4>1, <4>2, <4>3, <1>9
    <3> QED BY <3>1, <3>2, <2>3
  <2>9. ASSUME NEW m \in DOMAIN log', Attribute(log'[m]) = owner
        PROVE  \E i \in DOMAIN Append(b, e) : Append(b, e)[i].sig = Signature(log'[m], owner)
    <3>1. CASE m = n BY <3>1, <1>1, <1>11, <1>9, <2>3
    <3>2. CASE m \in DOMAIN log
      <4>1. PICK i \in DOMAIN b : b[i].sig = Signature(log[m], owner) BY <3>2, <2>9, <1>1, <1>6, <1>0, <1>13
      <4> QED BY <4>1, <3>2, <1>1, <2>3
    <3> QED BY <3>1, <3>2, <1>1
  <2>10. ASSUME NEW i \in DOMAIN Append(b, e), NEW j \in DOMAIN Append(b, e),
                Append(b, e)[i].sig = Append(b, e)[j].sig
         PROVE  i = j
    BY <2>10, <2>3, <2>4, <1>8, <1>9, <1>0, <1>13
  <2>11. buckets' \in [Owners -> Seq(Entries)] BY <2>1, <2>2, <1>0
  <2>12. ASSUME NEW o \in Owners, o = owner
         PROVE  /\ \A i \in DOMAIN buckets'[o] :
                     /\ buckets'[o][i].members = Same(log', o, buckets'[o][i].sig)
                     /\ buckets'[o][i].occurrences = Cardinality(Same(log', o, buckets'[o][i].sig))
                /\ \A m \in DOMAIN log' : Attribute(log'[m]) = o =>
                     \E i \in DOMAIN buckets'[o] : buckets'[o][i].sig = Signature(log'[m], o)
                /\ \A i, j \in DOMAIN buckets'[o] : buckets'[o][i].sig = buckets'[o][j].sig => i = j
    <3> DEFINE a == Append(b, e)
    <3>1. o = owner /\ buckets'[o] = a BY <2>12, <2>7
    <3>2. \A i \in DOMAIN a : /\ a[i].members = Same(log', owner, a[i].sig)
                              /\ a[i].occurrences = Cardinality(Same(log', owner, a[i].sig))
      BY <2>8
    <3>3. \A m \in DOMAIN log' : Attribute(log'[m]) = owner => \E i \in DOMAIN a : a[i].sig = Signature(log'[m], owner)
      BY <2>9
    <3>4. \A i, j \in DOMAIN a : a[i].sig = a[j].sig => i = j BY <2>10
    <3> HIDE DEF a
    <3> QED BY <3>1, <3>2, <3>3, <3>4
  <2> QED BY <2>6, <2>11, <2>12
<1>15. CASE known # {}
  <2> DEFINE c == [i \in DOMAIN b |-> IF i \in known THEN Counted(b[i], n) ELSE b[i]]
  <2>1. buckets' = [buckets EXCEPT ![owner] = c] BY <1>15 DEF File
  <2>2. \A i \in DOMAIN b : Counted(b[i], n) \in Entries BY <1>10, <1>1 DEF Counted, Entries
  <2>3. \A i \in DOMAIN b : /\ Counted(b[i], n).sig = b[i].sig
                            /\ Counted(b[i], n).members = b[i].members \cup {n}
                            /\ Counted(b[i], n).occurrences = b[i].occurrences + 1
    BY DEF Counted
  <2>4. DOMAIN c = DOMAIN b /\ \A i \in DOMAIN b : c[i] = IF i \in known THEN Counted(b[i], n) ELSE b[i]
    OBVIOUS
  <2>5. \A i \in DOMAIN b : c[i] \in Entries /\ c[i].sig = b[i].sig BY <2>2, <2>3, <2>4, <1>10
  <2>6. c \in Seq(Entries)
    <3>1. DOMAIN b = 1 .. Len(b) /\ Len(b) \in Nat BY <1>0
    <3>2. c \in [1 .. Len(b) -> Entries] BY <3>1, <2>5
    <3> HIDE DEF c
    <3> QED BY <3>1, <3>2
  <2>7. PICK k \in DOMAIN b : b[k].sig = sig BY <1>15
  <2> HIDE DEF c, e, n, known, sig, owner, b
  <2>8. ASSUME NEW o \in Owners, o # owner
        PROVE  /\ \A i \in DOMAIN buckets'[o] :
                    /\ buckets'[o][i].members = Same(log', o, buckets'[o][i].sig)
                    /\ buckets'[o][i].occurrences = Cardinality(Same(log', o, buckets'[o][i].sig))
               /\ \A m \in DOMAIN log' : Attribute(log'[m]) = o =>
                    \E i \in DOMAIN buckets'[o] : buckets'[o][i].sig = Signature(log'[m], o)
               /\ \A i, j \in DOMAIN buckets'[o] : buckets'[o][i].sig = buckets'[o][j].sig => i = j
    <3>1. buckets'[o] = buckets[o] BY <2>1, <2>8, <1>0
    <3>2. \A s : Same(log', o, s) = Same(log, o, s) BY <1>31, <2>8
    <3>3. \A m \in DOMAIN log' : Attribute(log'[m]) = o => m \in DOMAIN log /\ log'[m] = log[m]
      BY <1>1, <1>11, <2>8
    <3> QED BY <3>1, <3>2, <3>3, <1>6, <1>8
  <2>9. buckets'[owner] = c BY <2>1, <1>0
  <2>10. ASSUME NEW i \in DOMAIN b
         PROVE  /\ c[i].members = Same(log', owner, c[i].sig)
                /\ c[i].occurrences = Cardinality(Same(log', owner, c[i].sig))
    <3>1. /\ b[i].members = Same(log, owner, b[i].sig)
          /\ b[i].occurrences = Cardinality(Same(log, owner, b[i].sig))
      BY <1>6, <1>0, <1>13
    <3>2. CASE b[i].sig = sig
      <4>1. c[i] = Counted(b[i], n) BY <3>2, <1>12, <2>4
      <4>2. Same(log', owner, sig) = Same(log, owner, sig) \cup {n} BY <1>3
      <4>3. n \notin Same(log, owner, sig) BY <1>1 DEF Same
      <4>4. Cardinality(Same(log, owner, sig) \cup {n}) = Cardinality(Same(log, owner, sig)) + 1
        BY <4>3, <1>4, FS_AddElement
      <4> QED BY <4>1, <4>2, <4>4, <3>1, <3>2, <2>3
    <3>3. CASE b[i].sig # sig
      <4>1. c[i] = b[i] BY <3>3, <1>12, <2>4
      <4>2. Same(log', owner, b[i].sig) = Same(log, owner, b[i].sig) BY <3>3, <1>31
      <4> QED BY <4>1, <4>2, <3>1
    <3> QED BY <3>2, <3>3
  <2>11. ASSUME NEW m \in DOMAIN log', Attribute(log'[m]) = owner
         PROVE  \E i \in DOMAIN b : c[i].sig = Signature(log'[m], owner)
    <3>1. CASE m = n BY <3>1, <1>1, <1>11, <2>5, <2>7
    <3>2. CASE m \in DOMAIN log
      <4>1. PICK i \in DOMAIN b : b[i].sig = Signature(log[m], owner) BY <3>2, <2>11, <1>1, <1>6, <1>0, <1>13
      <4> QED BY <4>1, <3>2, <1>1, <2>5
    <3> QED BY <3>1, <3>2, <1>1
  <2>12. ASSUME NEW i \in DOMAIN b, NEW j \in DOMAIN b, c[i].sig = c[j].sig PROVE i = j
    BY <2>12, <2>5, <1>8, <1>0, <1>13
  <2>13. buckets' \in [Owners -> Seq(Entries)] BY <2>1, <2>6, <1>0
  <2> QED BY <2>4, <2>8, <2>9, <2>10, <2>11, <2>12, <2>13
<1> QED BY <1>14, <1>15

-----------------------------------------------------------------------------
LEMMA StepInv == IInv /\ [Next]_vars => IInv'
<1> SUFFICES ASSUME IInv, [Next]_vars PROVE IInv' OBVIOUS
<1>1. CASE Read BY <1>1, ReadInv DEF Read
<1>2. CASE UNCHANGED vars
  <2>1. log' = log /\ buckets' = buckets BY <1>2 DEF vars
  <2>2. TypeInv' BY <2>1 DEF IInv, TypeInv
  <2>3. FiledByRace' BY <2>1, ZenonT(40) DEF IInv, FiledByRace
  <2>4. SigsDiffer' BY <2>1 DEF IInv, SigsDiffer
  <2> QED BY <2>2, <2>3, <2>4 DEF IInv
<1> QED BY <1>1, <1>2 DEF Next

LEMMA AlwaysIInv == Spec => []IInv
BY InitInv, StepInv, PTL DEF Spec

\* The log stays within its bound; an entry holds reports of the log only, and no
\* two entries of an owner share a signature: what the search for a known entry
\* in to_findings() relies on.
THEOREM TypesAreKept == Spec => []TypeOK
<1>1. Init => Bounded BY TsanAssumption DEF Init, TsanAssumption, Bounded
<1>2. IInv /\ Bounded /\ [Next]_vars => Bounded'
  <2> SUFFICES ASSUME IInv, Bounded, [Next]_vars PROVE Bounded' OBVIOUS
  <2>1. CASE Read
    <3>1. PICK r \in Possible : log' = Append(log, r) BY <2>1 DEF Read
    <3>2. Len(log') = Len(log) + 1 /\ Len(log) \in Nat BY <3>1 DEF IInv, TypeInv
    <3> QED BY <3>2, <2>1, TsanAssumption DEF Read, TsanAssumption, Bounded
  <2>2. CASE UNCHANGED vars BY <2>2 DEF vars, Bounded
  <2> QED BY <2>1, <2>2 DEF Next
<1>3. IInv /\ Bounded => TypeOK
  <2>1. IInv => \A o \in Owners : \A i \in DOMAIN buckets[o] : buckets[o][i].members \subseteq DOMAIN log
    BY DEF IInv, FiledByRace
  <2> QED BY <2>1 DEF IInv, TypeInv, SigsDiffer, TypeOK, Bounded
<1> QED BY <1>1, <1>2, <1>3, AlwaysIInv, PTL DEF Spec

\* Every report is filed under exactly one entry of its owner, with the others
\* of its race and counted once, whatever TSan prints and however often: the
\* loop of to_findings() neither loses a report nor counts one twice.
THEOREM FiledOnce == Spec => []FiledByRace
<1>1. IInv => FiledByRace BY DEF IInv
<1> QED BY <1>1, AlwaysIInv, PTL

\* attribute() gives a report and the same report printed from its other side
\* one owner: the order of TSan's two accesses never decides the exit code.
THEOREM SidesDoNotMatter == Spec => []AttributionIgnoresSides
<1>1. IInv => AttributionIgnoresSides
  <2> SUFFICES ASSUME IInv, NEW i \in DOMAIN log PROVE Attribute(log[i]) = Attribute(Swapped(log[i]))
    BY DEF AttributionIgnoresSides
  <2>1. log[i] \in Possible BY DEF IInv, TypeInv
  <2> QED BY <2>1, SwappedOwner, TsanAssumption
<1> QED BY <1>1, AlwaysIInv, PTL
-----------------------------------------------------------------------------
(* _merge(): what the findings of a bucket are made of. *)

\* The members of the entries of s with key k, among the first n.
Gathered(s, n, k) == UNION {s[i].members : i \in {j \in 1 .. n : s[j].key = k}}

\* What the findings m have in common with the first n entries of s: a finding
\* for each key there, with the members of all its entries.
Merged(m, s, n) ==
  /\ \A k \in DOMAIN m : \E i \in 1 .. n : s[i].key = m[k].key
  /\ \A k \in DOMAIN m : m[k].members = Gathered(s, n, m[k].key)
  /\ \A i \in 1 .. n : \E k \in DOMAIN m : m[k].key = s[i].key

LEMMA MergeOneType ==
  ASSUME NEW m \in Seq(Entries), NEW e \in Entries
  PROVE  MergeOne(m, e) \in Seq(Entries)
<1> DEFINE same == {i \in DOMAIN m : m[i].key = e.key}
           d == [i \in DOMAIN m |-> IF i \notin same THEN m[i] ELSE Joined(m[i], e)]
<1>1. DOMAIN m = 1 .. Len(m) /\ Len(m) \in Nat /\ \A i \in DOMAIN m : m[i] \in Entries
  OBVIOUS
<1>2. \A i \in DOMAIN m : Joined(m[i], e) \in Entries
  BY <1>1 DEF Joined, Entries
<1>3. d \in [1 .. Len(m) -> Entries]
  BY <1>1, <1>2, Zenon
<1>4. d \in Seq(Entries)
  <2> HIDE DEF d
  <2> QED BY <1>1, <1>3
<1>5. Append(m, e) \in Seq(Entries)
  OBVIOUS
<1> QED BY <1>4, <1>5 DEF MergeOne

\* One more entry is one more merged.
LEMMA MergeOneMerges ==
  ASSUME NEW s \in Seq(Entries), NEW n \in Nat, n + 1 <= Len(s),
         NEW m \in Seq(Entries), Merged(m, s, n)
  PROVE  Merged(MergeOne(m, s[n + 1]), s, n + 1)
<1> DEFINE e == s[n + 1]
           same == {i \in DOMAIN m : m[i].key = e.key}
           a == Append(m, e)
           d == [i \in DOMAIN m |-> IF i \notin same THEN m[i] ELSE Joined(m[i], e)]
<1>1. e \in Entries /\ 1 .. n + 1 = 1 .. n \cup {n + 1} /\ s[n + 1] = e
  OBVIOUS
<1>0. /\ \A k \in DOMAIN m : \E i \in 1 .. n : s[i].key = m[k].key
      /\ \A k \in DOMAIN m : m[k].members = Gathered(s, n, m[k].key)
      /\ \A i \in 1 .. n : \E k \in DOMAIN m : m[k].key = s[i].key
  BY DEF Merged
<1>2. \A k : Gathered(s, n + 1, k) = Gathered(s, n, k) \cup (IF k = e.key THEN e.members ELSE {})
  <2> SUFFICES ASSUME NEW k
               PROVE  Gathered(s, n + 1, k) = Gathered(s, n, k) \cup (IF k = e.key THEN e.members ELSE {})
    OBVIOUS
  <2>1. {j \in 1 .. n + 1 : s[j].key = k} =
          {j \in 1 .. n : s[j].key = k} \cup (IF k = e.key THEN {n + 1} ELSE {})
    BY <1>1
  <2> QED BY <2>1 DEF Gathered
<1>3. CASE same = {}
  <2>1. MergeOne(m, e) = a
    BY <1>3 DEF MergeOne
  <2>2. DOMAIN a = DOMAIN m \cup {Len(m) + 1} /\ a[Len(m) + 1] = e /\ \A i \in DOMAIN m : a[i] = m[i]
    OBVIOUS
  <2>3. \A i \in DOMAIN m : m[i].key # e.key
    BY <1>3
  <2>4. Gathered(s, n, e.key) = {}
    <3>1. \A i \in 1 .. n : s[i].key # e.key
      BY <2>3 DEF Merged
    <3> QED BY <3>1 DEF Gathered
  <2> HIDE DEF a, e
  <2>5. ASSUME NEW k \in DOMAIN a PROVE \E i \in 1 .. n + 1 : s[i].key = a[k].key
    <3>1. CASE k \in DOMAIN m
      <4>1. PICK i \in 1 .. n : s[i].key = m[k].key
        BY <3>1, <1>0
      <4>2. a[k] = m[k] /\ i \in 1 .. n + 1
        BY <3>1, <2>2, <1>1
      <4> QED BY <4>1, <4>2
    <3>2. CASE k = Len(m) + 1
      BY <3>2, <2>2, <1>1
    <3> QED BY <3>1, <3>2, <2>2
  <2>6. ASSUME NEW k \in DOMAIN a PROVE a[k].members = Gathered(s, n + 1, a[k].key)
    <3>1. CASE k \in DOMAIN m
      <4>1. a[k] = m[k] /\ a[k].key # e.key
        BY <3>1, <2>2, <2>3
      <4>2. Gathered(s, n + 1, a[k].key) = Gathered(s, n, a[k].key)
        BY <4>1, <1>2
      <4> QED BY <4>1, <4>2, <3>1, <1>0
    <3>2. CASE k = Len(m) + 1
      <4>1. Gathered(s, n + 1, e.key) = e.members
        BY <2>4, <1>2
      <4> QED BY <3>2, <4>1, <2>2
    <3> QED BY <3>1, <3>2, <2>2
  <2>7. ASSUME NEW i \in 1 .. n + 1 PROVE \E k \in DOMAIN a : a[k].key = s[i].key
    <3>1. CASE i \in 1 .. n
      <4>1. PICK k \in DOMAIN m : m[k].key = s[i].key
        BY <3>1, <1>0
      <4>2. k \in DOMAIN a /\ a[k] = m[k]
        BY <2>2
      <4> QED BY <4>1, <4>2
    <3>2. CASE i = n + 1
      BY <3>2, <2>2, <1>1
    <3> QED BY <3>1, <3>2, <1>1
  <2>8. Merged(a, s, n + 1)
    BY <2>5, <2>6, <2>7 DEF Merged
  <2> QED BY <2>1, <2>8, <1>1
<1>4. CASE same # {}
  <2>1. MergeOne(m, e) = d
    BY <1>4 DEF MergeOne
  <2>2. \A i \in DOMAIN m : m[i] \in Entries
    OBVIOUS
  <2>3. DOMAIN d = DOMAIN m /\ \A i \in DOMAIN m :
          d[i].key = m[i].key /\ d[i].members = m[i].members \cup (IF m[i].key = e.key THEN e.members ELSE {})
    BY <2>2 DEF Joined
  <2>4. PICK k \in DOMAIN m : m[k].key = e.key
    BY <1>4
  <2> HIDE DEF d, e
  <2>5. ASSUME NEW i \in DOMAIN d PROVE d[i].members = Gathered(s, n + 1, d[i].key)
    <3>1. d[i].key = m[i].key /\ m[i].members = Gathered(s, n, m[i].key)
      BY <2>3, <1>0
    <3> QED BY <3>1, <2>3, <1>2
  <2>6. \A i \in DOMAIN d : \E j \in 1 .. n + 1 : s[j].key = d[i].key
    BY <2>3, <1>0, <1>1
  <2>7. ASSUME NEW j \in 1 .. n + 1 PROVE \E i \in DOMAIN d : d[i].key = s[j].key
    <3>1. CASE j \in 1 .. n
      <4>1. PICK i \in DOMAIN m : m[i].key = s[j].key
        BY <3>1, <1>0
      <4> QED BY <4>1, <2>3
    <3>2. CASE j = n + 1
      BY <3>2, <2>3, <2>4, <1>1
    <3> QED BY <3>1, <3>2, <1>1
  <2>8. Merged(d, s, n + 1)
    BY <2>5, <2>6, <2>7 DEF Merged
  <2> QED BY <2>1, <2>8, <1>1
<1> QED BY <1>3, <1>4

\* The fold is the last of a run of steps, one for each entry.
MergeFcn(s) == CHOOSE g : g = [t \in SUBSET DOMAIN s |->
                 IF t = {} THEN <<>> ELSE MergeOne(g[t \ {Max(t)}], s[Max(t)])]

LEMMA MergeIsFcn == ASSUME NEW s PROVE Merge(s) = MergeFcn(s)[DOMAIN s]
  BY DEF Merge, FoldLeft, MapThenFoldSet, MergeFcn

LEMMA MergeUnfolds ==
  ASSUME NEW s \in Seq(Entries), NEW t \in SUBSET DOMAIN s
  PROVE  MergeFcn(s)[t] = IF t = {} THEN <<>> ELSE MergeOne(MergeFcn(s)[t \ {Max(t)}], s[Max(t)])
<1> DEFINE A == Seq(Entries)
           D == DOMAIN s
           F == [x \in A \X Entries |-> MergeOne(x[1], x[2])]
           Val(g, u) == IF u = {} THEN <<>> ELSE MergeOne(g[u \ {Max(u)}], s[Max(u)])
           f == MergeFcn(s)
<1>1. F \in [A \X Entries -> A] /\ <<>> \in A /\ s \in A
  BY MergeOneType
<1>2. \A m \in A, e \in Entries : F[<<m, e>>] = MergeOne(m, e)
  OBVIOUS
<1>3. \A u \in SUBSET D : u # {} => Max(u) \in D /\ s[Max(u)] \in Entries
  <2>1. D = 1 .. Len(s) /\ Len(s) \in Nat /\ \A i \in D : s[i] \in Entries
    OBVIOUS
  <2> QED BY <2>1, LargestIsIn
<1> HIDE DEF F, A, D
<1>4. PICK g \in [SUBSET D -> A] : IsSeqFold(g, s, <<>>, F)
  BY <1>1, SeqFoldSolves, Zenon DEF A, D
<1>5. ASSUME NEW u \in SUBSET D PROVE g[u] = Val(g, u)
  <2>1. g[u] = IF u = {} THEN <<>> ELSE F[<<g[u \ {Max(u)}], s[Max(u)]>>]
    BY <1>4 DEF IsSeqFold, D
  <2>2. u # {} => g[u \ {Max(u)}] \in A /\ s[Max(u)] \in Entries
    BY <1>3
  <2> QED BY <2>1, <2>2, <1>2
<1>6. g = [u \in SUBSET D |-> Val(g, u)]
  BY <1>5
<1>7. f = CHOOSE h : h = [u \in SUBSET D |-> Val(h, u)]
  BY DEF MergeFcn, D
<1> HIDE DEF f
<1>8. f = [u \in SUBSET D |-> Val(f, u)]
  BY <1>6, <1>7
<1>9. f[t] = Val(f, t)
  <2>1. t \in SUBSET D
    BY DEF D
  <2> QED BY <1>8, <2>1
<1> QED BY <1>9 DEF f

\* The findings of a bucket have, for every key of its entries, the members of all
\* entries with that key.
LEMMA MergeMerges ==
  ASSUME NEW s \in Seq(Entries)
  PROVE  Merge(s) \in Seq(Entries) /\ Merged(Merge(s), s, Len(s))
<1> DEFINE f(n) == MergeFcn(s)[1 .. n]
           P == {n \in Nat : n <= Len(s) => f(n) \in Seq(Entries) /\ Merged(f(n), s, n)}
<1>1. DOMAIN s = 1 .. Len(s) /\ Len(s) \in Nat
  OBVIOUS
<1>2. 0 \in P
  <2>1. 1 .. 0 = {} /\ {} \in SUBSET DOMAIN s
    OBVIOUS
  <2>2. MergeFcn(s)[{}] = <<>>
    BY <2>1, MergeUnfolds
  <2>3. f(0) = <<>>
    BY <2>1, <2>2, Zenon
  <2>4. Merged(<<>>, s, 0)
    BY DEF Merged
  <2>5. f(0) \in Seq(Entries) /\ Merged(f(0), s, 0)
    BY <2>3, <2>4
  <2> HIDE DEF f
  <2> QED BY <2>5
<1>3. ASSUME NEW n \in P PROVE n + 1 \in P
  <2> SUFFICES ASSUME n + 1 <= Len(s) PROVE f(n + 1) \in Seq(Entries) /\ Merged(f(n + 1), s, n + 1)
    OBVIOUS
  <2>1. f(n) \in Seq(Entries) /\ Merged(f(n), s, n)
    OBVIOUS
  <2>2. Max(1 .. n + 1) = n + 1 /\ (1 .. n + 1) \ {n + 1} = 1 .. n
    <3>1. n + 1 \in Nat /\ n + 1 # 0 /\ (n + 1) - 1 = n
      OBVIOUS
    <3> QED BY <3>1, LargestOfPrefix
  <2>3. 1 .. n + 1 \in SUBSET DOMAIN s /\ 1 .. n + 1 # {}
    <3>1. n + 1 \in 1 .. n + 1 /\ \A i \in 1 .. n + 1 : i \in 1 .. Len(s)
      OBVIOUS
    <3> QED BY <1>1, <3>1
  <2>4. f(n + 1) = MergeOne(f(n), s[n + 1])
    BY <2>2, <2>3, MergeUnfolds
  <2>5. s[n + 1] \in Entries
    OBVIOUS
  <2> HIDE DEF f
  <2> QED BY <2>1, <2>4, <2>5, MergeOneType, MergeOneMerges
<1> HIDE DEF P
<1>4. P = Nat
  <2>1. P \in SUBSET Nat
    BY DEF P
  <2> QED BY <1>2, <1>3, <2>1, NatInd
<1>5. f(Len(s)) \in Seq(Entries) /\ Merged(f(Len(s)), s, Len(s))
  BY <1>1, <1>4 DEF P
<1> QED BY <1>1, <1>5, MergeIsFcn
\* The findings are those of the four buckets, each merged by itself.
LEMMA FindingsAreMerged ==
  ASSUME TypeInv
  PROVE  \A x : Holds(All, x) <=> \E o \in Owners : Holds(Merge(buckets[o]), x)
<1> DEFINE y == Merge(buckets["yours"])    r == Merge(buckets["reached"])
           e == Merge(buckets["external"]) h == Merge(buckets["harness"])
<1>1. y \in Seq(Entries) /\ r \in Seq(Entries) /\ e \in Seq(Entries) /\ h \in Seq(Entries)
  BY MergeMerges DEF TypeInv, Owners
<1>2. All = (y \o r) \o (e \o h)
  BY DEF All, Findings
<1>3. \A x : (\E o \in Owners : Holds(Merge(buckets[o]), x)) <=> Holds(y, x) \/ Holds(r, x) \/ Holds(e, x) \/ Holds(h, x)
  BY DEF Owners
<1> HIDE DEF y, r, e, h
<1>4. y \o r \in Seq(Entries) /\ e \o h \in Seq(Entries)
  BY <1>1, HoldsBoth
<1>5. \A x : Holds((y \o r) \o (e \o h), x) <=> Holds(y \o r, x) \/ Holds(e \o h, x)
  BY <1>4, HoldsBoth
<1>6. \A x : (Holds(y \o r, x) <=> Holds(y, x) \/ Holds(r, x)) /\ (Holds(e \o h, x) <=> Holds(e, x) \/ Holds(h, x))
  BY <1>1, HoldsBoth
<1>7. \A x : Holds(All, x) <=> Holds(y, x) \/ Holds(r, x) \/ Holds(e, x) \/ Holds(h, x)
  BY <1>2, <1>5, <1>6
<1> QED BY <1>3, <1>7

\* A finding of an owner holds reports of that owner only.
LEMMA FindingsKeepOwner ==
  ASSUME IInv, NEW o \in Owners, NEW k \in DOMAIN Merge(buckets[o]), NEW i \in Merge(buckets[o])[k].members
  PROVE  Attribute(log[i]) = o
<1> DEFINE s == buckets[o]  m == Merge(s)
<1>1. s \in Seq(Entries) /\ DOMAIN s = 1 .. Len(s)
  BY DEF IInv, TypeInv
<1>2. Merged(m, s, Len(s))
  BY <1>1, MergeMerges
<1>3. m[k].members = Gathered(s, Len(s), m[k].key)
  BY <1>2 DEF Merged
<1>4. PICK j \in DOMAIN s : i \in s[j].members
  BY <1>1, <1>3 DEF Gathered
<1>5. s[j].members = {n \in DOMAIN log : Attribute(log[n]) = o /\ Signature(log[n], o) = s[j].sig}
  BY DEF IInv, FiledByRace
<1> QED BY <1>4, <1>5

\* Reports with one owner and one signature are in one finding.
LEMMA SameRaceTogether ==
  ASSUME IInv, NEW i \in DOMAIN log, NEW j \in DOMAIN log, Attribute(log[j]) = Attribute(log[i]),
         Signature(log[j], Attribute(log[i])) = Signature(log[i], Attribute(log[i]))
  PROVE  Together(All, i, j)
<1> DEFINE o == Attribute(log[i])  s == buckets[o]  m == Merge(s)
<1>0. o \in Owners
  BY OwnersAreFour
<1>1. s \in Seq(Entries) /\ DOMAIN s = 1 .. Len(s)
  BY <1>0 DEF IInv, TypeInv
<1>2. Merged(m, s, Len(s))
  BY <1>1, MergeMerges
<1>3. PICK n \in DOMAIN s : s[n].sig = Signature(log[i], o)
  BY <1>0 DEF IInv, FiledByRace
<1>4. s[n].members = {q \in DOMAIN log : Attribute(log[q]) = o /\ Signature(log[q], o) = s[n].sig}
  BY <1>0 DEF IInv, FiledByRace
<1>5. i \in s[n].members /\ j \in s[n].members
  BY <1>3, <1>4
<1>6. PICK k \in DOMAIN m : m[k].key = s[n].key
  BY <1>1, <1>2 DEF Merged
<1>7. m[k].members = Gathered(s, Len(s), s[n].key)
  BY <1>2, <1>6 DEF Merged
<1>8. i \in m[k].members /\ j \in m[k].members
  BY <1>1, <1>5, <1>7 DEF Gathered
<1>9. PICK q \in DOMAIN All : All[q] = m[k]
  <2>1. TypeInv
    BY DEF IInv
  <2>2. Holds(m, m[k])
    BY <1>6 DEF Holds
  <2>3. Holds(All, m[k])
    BY <2>1, <2>2, <1>0, FindingsAreMerged
  <2> QED BY <2>3 DEF Holds
<1> QED BY <1>8, <1>9 DEF Together

\* A report printed from its other side has its signature.
LEMMA SwappedSignature ==
  ASSUME TsanAssumption, NEW r \in Possible, NEW o
  PROVE  Signature(Swapped(r), o) = Signature(r, o)
<1>1. r.stacks \in Seq(Stacks(r))
  BY DEF TsanAssumption, Stacks
<1>2. Stacks(Swapped(r)) = Stacks(r)
  BY <1>1, SwappedStacks
<1>3. Len(Swapped(r).stacks) = Len(r.stacks) /\ Swapped(r).kind = r.kind
  <2>1. Len(r.stacks) \in Nat
    BY <1>1
  <2> QED BY <2>1 DEF Swapped, Reverse
<1> QED BY <1>2, <1>3 DEF Signature

\* _merge() joins entries of one bucket only: no finding has reports of two owners,
\* so that what fails the run is never hidden in what does not.
THEOREM OwnersStayApart == Spec => []OwnersKeptApart
<1>1. IInv => OwnersKeptApart
  <2> SUFFICES ASSUME IInv, NEW k \in DOMAIN All, NEW i \in All[k].members, NEW j \in All[k].members
               PROVE  Attribute(log[i]) = Attribute(log[j])
    BY DEF OwnersKeptApart
  <2>1. TypeInv
    BY DEF IInv
  <2>2. Holds(All, All[k])
    BY DEF Holds
  <2>3. PICK o \in Owners : Holds(Merge(buckets[o]), All[k])
    BY <2>1, <2>2, FindingsAreMerged
  <2>4. PICK q \in DOMAIN Merge(buckets[o]) : Merge(buckets[o])[q] = All[k]
    BY <2>3 DEF Holds
  <2> QED BY <2>4, FindingsKeepOwner
<1> QED BY <1>1, AlwaysIInv, PTL

\* However often a race is printed, and from whichever of its sides, all its reports
\* are in one finding.
THEOREM SidesAreOneFinding == Spec => []SidesCollapse
<1>1. IInv => SidesCollapse
  <2> SUFFICES ASSUME IInv, NEW i \in DOMAIN log, NEW j \in DOMAIN log, log[j] \in {log[i], Swapped(log[i])}
               PROVE  Together(All, i, j)
    BY DEF SidesCollapse
  <2>1. log[i] \in Possible
    BY DEF IInv, TypeInv
  <2>2. Attribute(log[j]) = Attribute(log[i])
    BY <2>1, SwappedOwner, TsanAssumption
  <2>3. Signature(log[j], Attribute(log[i])) = Signature(log[i], Attribute(log[i]))
    BY <2>1, SwappedSignature, TsanAssumption
  <2> QED BY <2>2, <2>3, SameRaceTogether
<1> QED BY <1>1, AlwaysIInv, PTL

-----------------------------------------------------------------------------
(* parse(): what its locals are, and one line. *)

StackFrames == UNION {UNION {Frames(s) : s \in Stacks(r)} : r \in Printable}
AllFrames   == StackFrames \cup Range(Allocation) \cup Range(Creation)
Kinds     == {r.kind : r \in Printable}
Headers   == {Line("access", i) : i \in 1 .. 2}
             \cup {Line("thread", t) : t \in [tid: 1 .. 2, name: {"worker", "mutator"}]}
             \cup {Line("location", 0), Line("mutex", 1), Line("none", "no header")}
Sections  == [header: Headers, frames: Seq(AllFrames)]
Reports   == [kind: Kinds, crash: BOOLEAN, sections: Seq(Sections)]

AllLines ==
  {Line("frame", f) : f \in AllFrames} \cup Headers
  \cup {Line("warning", a) : a \in [kind: Kinds, crash: BOOLEAN]}
  \cup {Line("summary", k) : k \in Kinds}
  \cup {Line("separator", 0), Line("text", "failed to restore the stack"), Line("text", "cycle in lock order graph")}

\* A section is never taken for one that was not opened.
LEMMA HeadersAre ==
  ASSUME NEW h \in Headers
  PROVE  h # NoHeader /\ h.is \in {"access", "thread", "location", "mutex", "none"}
<1>1. NoHeader.is = "none" /\ NoHeader.of = ""
  BY DEF NoHeader
<1>2. \A is, of : Line(is, of).is = is /\ Line(is, of).of = of
  BY DEF Line
<1>3. \/ \E i \in 1 .. 2 : h = Line("access", i)
      \/ \E t \in [tid: 1 .. 2, name: {"worker", "mutator"}] : h = Line("thread", t)
      \/ h = Line("location", 0) \/ h = Line("mutex", 1) \/ h = Line("none", "no header")
  BY Zenon DEF Headers
<1>4. h.is \in {"access", "thread", "location", "mutex"} \/ (h.is = "none" /\ h.of = "no header")
  <2>1. CASE \E i \in 1 .. 2 : h = Line("access", i)
    BY <2>1, <1>2
  <2>2. CASE \E t \in [tid: 1 .. 2, name: {"worker", "mutator"}] : h = Line("thread", t)
    <3>1. h.is = "thread"
      BY <2>2, <1>2
    <3> QED BY <3>1
  <2>3. CASE h = Line("location", 0)
    BY <2>3, <1>2, Zenon
  <2>4. CASE h = Line("mutex", 1)
    BY <2>4, <1>2, Zenon
  <2>5. CASE h = Line("none", "no header")
    <3>1. h.is = "none"
      BY <2>5, <1>2
    <3>2. h.of = "no header"
      BY <2>5, <1>2
    <3> QED BY <3>1, <3>2
  <2> QED BY <1>3, <2>1, <2>2, <2>3, <2>4, <2>5, Zenon
<1> QED BY <1>1, <1>4

\* The locals of parse() inside a report, and outside.
Inside(rs, h, fs) == [reports |-> rs, current |-> TRUE, header |-> h, frames |-> fs]
Outside(rs)       == [reports |-> rs, current |-> FALSE, header |-> NoHeader, frames |-> <<>>]

\* The updates of Closed, Opened and Feed.
Closing(p, rs)   == [p EXCEPT !.reports = rs, !.header = NoHeader, !.frames = <<>>]
Leaving(p)       == [p EXCEPT !.current = FALSE]
Heading(p, h)    == [p EXCEPT !.header = h]
Framing(p, h, fs) == [p EXCEPT !.header = h, !.frames = fs]
Entering(p, rs)  == [p EXCEPT !.current = TRUE, !.reports = rs]

\* One field at a time.
Locals(rs, c, h, fs) == [reports |-> rs, current |-> c, header |-> h, frames |-> fs]
SetReports(p, x) == [p EXCEPT !.reports = x]
SetCurrent(p, x) == [p EXCEPT !.current = x]
SetHeader(p, x)  == [p EXCEPT !.header = x]
SetFrames(p, x)  == [p EXCEPT !.frames = x]

\* What one update makes of the locals.
LEMMA FieldByField ==
  /\ \A rs, c, h, fs, x : SetReports(Locals(rs, c, h, fs), x) = Locals(x, c, h, fs)
  /\ \A rs, c, h, fs, x : SetCurrent(Locals(rs, c, h, fs), x) = Locals(rs, x, h, fs)
  /\ \A rs, c, h, fs, x : SetHeader(Locals(rs, c, h, fs), x) = Locals(rs, c, x, fs)
  /\ \A rs, c, h, fs, x : SetFrames(Locals(rs, c, h, fs), x) = Locals(rs, c, h, x)
<1>1. \A rs, c, h, fs, x : SetReports(Locals(rs, c, h, fs), x) = Locals(x, c, h, fs)
  BY DEF SetReports, Locals
<1>2. \A rs, c, h, fs, x : SetCurrent(Locals(rs, c, h, fs), x) = Locals(rs, x, h, fs)
  BY DEF SetCurrent, Locals
<1>3. \A rs, c, h, fs, x : SetHeader(Locals(rs, c, h, fs), x) = Locals(rs, c, x, fs)
  BY DEF SetHeader, Locals
<1>4. \A rs, c, h, fs, x : SetFrames(Locals(rs, c, h, fs), x) = Locals(rs, c, h, x)
  BY DEF SetFrames, Locals
<1> QED BY <1>1, <1>2, <1>3, <1>4

\* An update of several fields is several updates.
LEMMA OneByOne ==
  /\ \A p, x : Closing(p, x) = SetFrames(SetHeader(SetReports(p, x), NoHeader), <<>>)
  /\ \A p : Leaving(p) = SetCurrent(p, FALSE)
  /\ \A p, x : Heading(p, x) = SetHeader(p, x)
  /\ \A p, x, y : Framing(p, x, y) = SetFrames(SetHeader(p, x), y)
  /\ \A p, x : Entering(p, x) = SetReports(SetCurrent(p, TRUE), x)
<1>1. \A p, x : Closing(p, x) = SetFrames(SetHeader(SetReports(p, x), NoHeader), <<>>)
  BY DEF Closing, SetFrames, SetHeader, SetReports
<1>2. \A p : Leaving(p) = SetCurrent(p, FALSE)
  BY Zenon DEF Leaving, SetCurrent
<1>3. \A p, x : Heading(p, x) = SetHeader(p, x)
  BY Zenon DEF Heading, SetHeader
<1>4. \A p, x, y : Framing(p, x, y) = SetFrames(SetHeader(p, x), y)
  BY DEF Framing, SetFrames, SetHeader
<1>5. \A p, x : Entering(p, x) = SetReports(SetCurrent(p, TRUE), x)
  BY DEF Entering, SetReports, SetCurrent
<1> QED BY <1>1, <1>2, <1>3, <1>4, <1>5, Zenon

\* What the updates make of the locals, inside a report and outside.
LEMMA Updates ==
  /\ \A rs, h, fs, ss : Closing(Inside(rs, h, fs), ss) = Inside(ss, NoHeader, <<>>)
  /\ \A rs, ss : Closing(Outside(rs), ss) = Outside(ss)
  /\ \A rs : Leaving(Inside(rs, NoHeader, <<>>)) = Outside(rs)
  /\ \A rs, h, fs, g : Heading(Inside(rs, h, fs), g) = Inside(rs, g, fs)
  /\ \A rs, h, fs, g, gs : Framing(Inside(rs, h, fs), g, gs) = Inside(rs, g, gs)
  /\ \A rs, h, fs, ss : Entering(Inside(rs, h, fs), ss) = Inside(ss, h, fs)
  /\ \A rs, ss : Entering(Outside(rs), ss) = Inside(ss, NoHeader, <<>>)
<1>0. PICK t, u : t = TRUE /\ u = FALSE
  OBVIOUS
<1>1. \A r, k, f : Inside(r, k, f) = Locals(r, t, k, f)
  BY <1>0, Zenon DEF Inside, Locals
<1>2. \A r : Outside(r) = Locals(r, u, NoHeader, <<>>)
  BY <1>0, Zenon DEF Outside, Locals
<1>3. \A p, x : Leaving(p) = SetCurrent(p, u) /\ Entering(p, x) = SetReports(SetCurrent(p, t), x)
  BY <1>0, OneByOne, Zenon
<1>c. \A p, x, y : /\ Closing(p, x) = SetFrames(SetHeader(SetReports(p, x), NoHeader), <<>>)
                   /\ Heading(p, x) = SetHeader(p, x) /\ Framing(p, x, y) = SetFrames(SetHeader(p, x), y)
  BY OneByOne, Zenon
<1>4. \A rs, h, fs, ss : Closing(Inside(rs, h, fs), ss) = Inside(ss, NoHeader, <<>>)
  BY <1>1, <1>c, FieldByField
<1>5. \A rs, ss : Closing(Outside(rs), ss) = Outside(ss)
  BY <1>2, <1>c, FieldByField
<1>6. \A rs : Leaving(Inside(rs, NoHeader, <<>>)) = Outside(rs)
  BY <1>1, <1>2, <1>3, FieldByField
<1>7. \A rs, h, fs, g : Heading(Inside(rs, h, fs), g) = Inside(rs, g, fs)
  BY <1>1, <1>c, FieldByField
<1>8. \A rs, h, fs, g, gs : Framing(Inside(rs, h, fs), g, gs) = Inside(rs, g, gs)
  BY <1>1, <1>c, FieldByField
<1>9. \A rs, h, fs, ss : Entering(Inside(rs, h, fs), ss) = Inside(ss, h, fs)
  BY <1>1, <1>3, FieldByField
<1>10. \A rs, ss : Entering(Outside(rs), ss) = Inside(ss, NoHeader, <<>>)
  BY <1>1, <1>2, <1>3, FieldByField
<1> QED BY <1>4, <1>5, <1>6, <1>7, <1>8, <1>9, <1>10

\* The reports, the last with a section more.
Ended(rs, h, fs) == [rs EXCEPT ![Len(rs)] = WithSection(rs[Len(rs)], [header |-> h, frames |-> fs])]

\* A section that was opened is ended; outside, nothing is open.
LEMMA ClosedIs ==
  /\ \A rs : Closed(Outside(rs)) = Outside(rs)
  /\ \A rs, fs : Closed(Inside(rs, NoHeader, fs)) = Inside(rs, NoHeader, <<>>)
  /\ \A rs, h, fs : h # NoHeader => Closed(Inside(rs, h, fs)) = Inside(Ended(rs, h, fs), NoHeader, <<>>)
<1>1. \A rs : Closed(Outside(rs)) = Closing(Outside(rs), rs)
  BY DEF Closed, Closing, Outside
<1>2. \A rs, fs : Closed(Inside(rs, NoHeader, fs)) = Closing(Inside(rs, NoHeader, fs), rs)
  BY DEF Closed, Closing, Inside
<1>3. \A rs, h, fs : h # NoHeader => Closed(Inside(rs, h, fs)) = Closing(Inside(rs, h, fs), Ended(rs, h, fs))
  BY DEF Closed, Closing, Inside, Ended
<1> QED BY <1>1, <1>2, <1>3, Updates

\* What a line does.
NoHeaderLine   == Line("none", "no header")
Report(a, ss)  == [kind |-> a.kind, crash |-> a.crash, sections |-> ss]
About          == [kind: Kinds, crash: BOOLEAN]

\* Feed, by the kind of the line, in terms of the updates.
LEMMA FeedIs ==
  ASSUME NEW p, NEW l
  PROVE  /\ l.is = "warning" => Feed(p, l) = Entering(Closed(p), Append(Closed(p).reports, Report(l.of, <<>>)))
         /\ l.is # "warning" /\ ~p.current => Feed(p, l) = p
         /\ p.current /\ l.is \in {"summary", "separator"} => Feed(p, l) = Leaving(Closed(p))
         /\ p.current /\ l.is = "frame" =>
              Feed(p, l) = Framing(p, IF p.header = NoHeader THEN NoHeaderLine ELSE p.header, Append(p.frames, l.of))
         /\ p.current /\ l.is \in {"access", "location", "thread", "mutex"} => Feed(p, l) = Heading(Closed(p), l)
         /\ l.is \in {"text", "none"} => Feed(p, l) = p
<1>1. l.is = "warning" => Feed(p, l) = Entering(Closed(p), Append(Closed(p).reports, Report(l.of, <<>>)))
  BY DEF Feed, Opened, Entering, Report
<1>2. l.is # "warning" /\ ~p.current => Feed(p, l) = p
  BY DEF Feed
<1>3. p.current /\ l.is \in {"summary", "separator"} => Feed(p, l) = Leaving(Closed(p))
  BY DEF Feed, Leaving
<1>4. p.current /\ l.is = "frame" =>
        Feed(p, l) = Framing(p, IF p.header = NoHeader THEN NoHeaderLine ELSE p.header, Append(p.frames, l.of))
  BY DEF Feed, Framing, NoHeaderLine
<1>5. p.current /\ l.is \in {"access", "location", "thread", "mutex"} => Feed(p, l) = Heading(Closed(p), l)
  BY DEF Feed, Heading
<1>6. l.is \in {"text", "none"} => Feed(p, l) = p
  BY DEF Feed
<1> QED BY <1>1, <1>2, <1>3, <1>4, <1>5, <1>6

\* The reports, as they are if the log ends here.
View(p) == Closed(p).reports

\* What would be parsed if the log ended here.
LEMMA ViewIs ==
  /\ \A rs : View(Outside(rs)) = rs
  /\ \A rs, fs : View(Inside(rs, NoHeader, fs)) = rs
  /\ \A rs, h, fs : h # NoHeader => View(Inside(rs, h, fs)) = Ended(rs, h, fs)
<1>1. \A x, g, gs : Inside(x, g, gs).reports = x /\ Outside(x).reports = x
  BY DEF Inside, Outside
<1> QED BY <1>1, ClosedIs DEF View

\* A line inside a report.
LEMMA InsideFeeds ==
  ASSUME NEW rs, NEW h, NEW fs, NEW l
  PROVE  /\ l.is \in {"summary", "separator"} => Feed(Inside(rs, h, fs), l) = Outside(View(Inside(rs, h, fs)))
         /\ l.is = "frame" =>
              Feed(Inside(rs, h, fs), l) = Inside(rs, IF h = NoHeader THEN NoHeaderLine ELSE h, Append(fs, l.of))
         /\ l.is \in {"access", "location", "thread", "mutex"} => Feed(Inside(rs, h, fs), l) = Inside(View(Inside(rs, h, fs)), l, <<>>)
         /\ l.is = "warning" =>
              Feed(Inside(rs, h, fs), l)
                = Inside(Append(View(Inside(rs, h, fs)), Report(l.of, <<>>)), NoHeader, <<>>)
<1> DEFINE p == Inside(rs, h, fs)
<1>1. p.current /\ p.header = h /\ p.frames = fs /\ p.reports = rs
  BY DEF Inside
<1>2. Closed(p) = Inside(View(p), NoHeader, <<>>)
  BY ClosedIs, ViewIs
<1> HIDE DEF p
<1>3. l.is \in {"summary", "separator"} => Feed(p, l) = Outside(View(p))
  <2>1. Leaving(Inside(View(p), NoHeader, <<>>)) = Outside(View(p))
    BY Updates
  <2> QED BY <1>1, <1>2, <2>1, FeedIs
<1>4. l.is = "frame" => Feed(p, l) = Inside(rs, IF h = NoHeader THEN NoHeaderLine ELSE h, Append(fs, l.of))
  <2> DEFINE g == IF h = NoHeader THEN NoHeaderLine ELSE h
             gs == Append(fs, l.of)
  <2>1. l.is = "frame" => Feed(p, l) = Framing(p, g, gs)
    BY <1>1, FeedIs
  <2> HIDE DEF g, gs
  <2>2. Framing(p, g, gs) = Inside(rs, g, gs)
    BY Updates DEF p
  <2>3. l.is = "frame" => Feed(p, l) = Inside(rs, g, gs)
    BY <2>1, <2>2
  <2> QED BY <2>3 DEF g, gs
<1>5. l.is \in {"access", "location", "thread", "mutex"} => Feed(p, l) = Inside(View(p), l, <<>>)
  <2>1. Heading(Inside(View(p), NoHeader, <<>>), l) = Inside(View(p), l, <<>>)
    BY Updates
  <2> QED BY <1>1, <1>2, <2>1, FeedIs
<1>6. l.is = "warning" => Feed(p, l) = Inside(Append(View(p), Report(l.of, <<>>)), NoHeader, <<>>)
  <2> DEFINE ss == Append(View(p), Report(l.of, <<>>))
  <2>1. l.is = "warning" => Feed(p, l) = Entering(Closed(p), ss)
    BY FeedIs DEF View
  <2> HIDE DEF ss
  <2>2. Entering(Inside(View(p), NoHeader, <<>>), ss) = Inside(ss, NoHeader, <<>>)
    BY Updates
  <2>3. l.is = "warning" => Feed(p, l) = Inside(ss, NoHeader, <<>>)
    BY <1>2, <2>1, <2>2
  <2> QED BY <2>3 DEF ss
<1> QED BY <1>3, <1>4, <1>5, <1>6 DEF p

\* A line outside: it opens a report, or nothing happens.
LEMMA OutsideFeeds ==
  ASSUME NEW rs, NEW l
  PROVE  /\ l.is # "warning" => Feed(Outside(rs), l) = Outside(rs)
         /\ l.is = "warning" => Feed(Outside(rs), l) = Inside(Append(rs, Report(l.of, <<>>)), NoHeader, <<>>)
<1> DEFINE p == Outside(rs)
<1>1. ~p.current
  BY DEF Outside
<1>2. Closed(p) = p /\ View(p) = rs
  BY ClosedIs, ViewIs
<1>3. l.is # "warning" => Feed(p, l) = p
  BY <1>1, FeedIs
<1>4. l.is = "warning" => Feed(p, l) = Inside(Append(rs, Report(l.of, <<>>)), NoHeader, <<>>)
  <2> DEFINE ss == Append(rs, Report(l.of, <<>>))
  <2>1. l.is = "warning" => Feed(p, l) = Entering(p, ss)
    BY <1>2, FeedIs DEF View
  <2> HIDE DEF ss
  <2>2. Entering(p, ss) = Inside(ss, NoHeader, <<>>)
    BY Updates
  <2>3. l.is = "warning" => Feed(p, l) = Inside(ss, NoHeader, <<>>)
    BY <2>1, <2>2
  <2> QED BY <2>3 DEF ss
<1> QED BY <1>3, <1>4

\* Inside a report, at its sections ss: of the last, the lines may go on.
Section(h, fs) == [header |-> h, frames |-> fs]
Reading(v, a, ss) ==
  IF ss = <<>> THEN Inside(Append(v, Report(a, <<>>)), NoHeader, <<>>)
  ELSE Inside(Append(v, Report(a, SubSeq(ss, 1, Len(ss) - 1))), ss[Len(ss)].header, ss[Len(ss)].frames)

\* A report with typed sections is one.
LEMMA ReportType ==
  ASSUME NEW a \in About, NEW ss \in Seq(Sections)
  PROVE  Report(a, ss) \in Reports
  BY DEF About, Report, Reports

\* A section more.
LEMMA SectionAppended ==
  ASSUME NEW ss \in Seq(Sections), NEW h \in Headers, NEW fs \in Seq(AllFrames)
  PROVE  Section(h, fs) \in Sections /\ Append(ss, Section(h, fs)) \in Seq(Sections)
<1>1. Section(h, fs) \in Sections
  BY DEF Sections, Section
<1> QED BY <1>1

\* Reading on in a section: the one before it is ended.
LEMMA ReadingAppend ==
  ASSUME NEW v, NEW a, NEW ss \in Seq(Sections), NEW h \in Headers, NEW fs \in Seq(AllFrames)
  PROVE  Reading(v, a, Append(ss, Section(h, fs))) = Inside(Append(v, Report(a, ss)), h, fs)
<1> DEFINE x == Section(h, fs)
           t == Append(ss, x)
<1>1. x \in Sections /\ x.header = h /\ x.frames = fs
  BY DEF Sections, Section
<1> HIDE DEF x
<1>2. t \in Seq(Sections) /\ t # <<>> /\ Len(t) = Len(ss) + 1 /\ t[Len(ss) + 1] = x /\ Len(ss) \in Nat
      /\ \A i \in 1 .. Len(ss) : t[i] = ss[i]
  BY <1>1, AppendProperties
<1> HIDE DEF t
<1>3. SubSeq(t, 1, Len(t) - 1) = ss
  <2>1. Len(t) - 1 = Len(ss)
    BY <1>2
  <2>2. SubSeq(t, 1, Len(ss)) = [i \in 1 .. Len(ss) |-> t[i]]
    BY <1>2
  <2>3. ss = [i \in 1 .. Len(ss) |-> ss[i]]
    OBVIOUS
  <2> QED BY <1>2, <2>1, <2>2, <2>3
<1>4. Reading(v, a, t) = Inside(Append(v, Report(a, SubSeq(t, 1, Len(t) - 1))), t[Len(t)].header, t[Len(t)].frames)
  BY <1>2 DEF Reading
<1>5. Reading(v, a, t) = Inside(Append(v, Report(a, ss)), h, fs)
  BY <1>1, <1>2, <1>3, <1>4
<1> QED BY <1>5 DEF t, x

\* Before the first section.
LEMMA ReadingNone == ASSUME NEW v, NEW a PROVE Reading(v, a, <<>>) = Inside(Append(v, Report(a, <<>>)), NoHeader, <<>>)
  BY DEF Reading

\* Some sections are none, or end with a last one.
LEMMA NoneOrMore ==
  ASSUME NEW ss \in Seq(Sections), ss # <<>>
  PROVE  \E t \in Seq(Sections), h \in Headers, fs \in Seq(AllFrames) : ss = Append(t, Section(h, fs))
<1> DEFINE n == Len(ss)
           t == SubSeq(ss, 1, n - 1)
           x == ss[n]
<1>1. n \in Nat /\ n # 0 /\ \A i \in 1 .. n : ss[i] \in Sections
  OBVIOUS
<1>2. t \in Seq(Sections) /\ Len(t) = n - 1 /\ \A i \in 1 .. n - 1 : t[i] = ss[i]
  <2>1. \A i \in 1 .. n - 1 : ss[i] \in Sections
    BY <1>1
  <2>2. t \in Seq(Sections) /\ Len(t) = (IF 1 <= n - 1 THEN (n - 1) - 1 + 1 ELSE 0) /\ \A i \in 1 .. (n - 1) - 1 + 1 : t[i] = ss[1 + i - 1]
    <3>1. 1 \in Int /\ n - 1 \in Int
      BY <1>1
    <3> HIDE DEF n
    <3> QED BY <2>1, <3>1, SubSeqProperties
  <2> HIDE DEF t
  <2>3. Len(t) = n - 1
    <3> HIDE DEF n
    <3>1. Len(t) = IF 1 <= n - 1 THEN (n - 1) - 1 + 1 ELSE 0
      BY <2>2
    <3> QED BY <1>1, <3>1
  <2>4. \A i \in 1 .. n - 1 : i \in 1 .. (n - 1) - 1 + 1 /\ 1 + i - 1 = i
    BY <1>1
  <2>5. \A i \in 1 .. n - 1 : t[i] = ss[i]
    BY <2>2, <2>4
  <2> QED BY <2>2, <2>3, <2>5
<1>3. x \in Sections
  BY <1>1
<1>4. Append(t, x) = ss
  <2>1. Append(t, x) \in Seq(Sections) /\ Len(Append(t, x)) = n /\ Append(t, x)[n] = x
        /\ \A i \in 1 .. n - 1 : Append(t, x)[i] = ss[i]
    BY <1>1, <1>2, <1>3, AppendProperties
  <2> HIDE DEF t
  <2>2. \A i \in 1 .. n : Append(t, x)[i] = ss[i]
    BY <1>1, <2>1
  <2> QED BY <2>1, <2>2, SeqEqual
<1>5. x = Section(x.header, x.frames) /\ x.header \in Headers /\ x.frames \in Seq(AllFrames)
  BY <1>3 DEF Sections, Section
<1> HIDE DEF t, x
<1> QED BY <1>2, <1>4, <1>5

\* Ending the section that is open adds it to the last report.
LEMMA EndedIs ==
  ASSUME NEW v \in Seq(Reports), NEW a \in About, NEW ss \in Seq(Sections), NEW h \in Headers, NEW fs \in Seq(AllFrames)
  PROVE  Ended(Append(v, Report(a, ss)), h, fs) = Append(v, Report(a, Append(ss, Section(h, fs))))
<1> DEFINE r == Report(a, ss)
           x == Section(h, fs)
           q == Report(a, Append(ss, x))
           w == Append(v, r)
<1>1. WithSection(r, x) = q
  <2>1. r = [kind |-> a.kind, crash |-> a.crash, sections |-> ss]
    BY DEF Report
  <2>2. WithSection(r, x) = [r EXCEPT !.sections = Append(ss, x)]
    BY <2>1 DEF WithSection
  <2> HIDE DEF x, r
  <2>3. \A z : [r EXCEPT !.sections = z] = [kind |-> a.kind, crash |-> a.crash, sections |-> z]
    BY <2>1
  <2> QED BY <2>2, <2>3 DEF Report
<1>2. r \in Reports /\ q \in Reports
  BY ReportType, SectionAppended
<1>3. /\ w \in Seq(Reports) /\ Len(w) = Len(v) + 1 /\ w[Len(v) + 1] = r /\ Len(v) \in Nat
      /\ \A i \in 1 .. Len(v) : w[i] = v[i]
  BY <1>2, AppendProperties
<1>4. /\ Append(v, q) \in Seq(Reports) /\ Len(Append(v, q)) = Len(v) + 1 /\ Append(v, q)[Len(v) + 1] = q
      /\ \A i \in 1 .. Len(v) : Append(v, q)[i] = v[i]
  BY <1>2, AppendProperties
<1>5. Ended(w, h, fs) = [w EXCEPT ![Len(w)] = WithSection(w[Len(w)], x)]
  BY DEF Ended, Section
<1> HIDE DEF r, x, q, w
<1>6. Ended(w, h, fs) = [w EXCEPT ![Len(v) + 1] = q]
  BY <1>1, <1>3, <1>5
<1>7. [w EXCEPT ![Len(v) + 1] = q] \in Seq(Reports) /\ Len([w EXCEPT ![Len(v) + 1] = q]) = Len(v) + 1
      /\ \A i \in 1 .. Len(v) + 1 : [w EXCEPT ![Len(v) + 1] = q][i] = IF i = Len(v) + 1 THEN q ELSE w[i]
  BY <1>2, <1>3
<1>8. \A i \in 1 .. Len(v) + 1 : [w EXCEPT ![Len(v) + 1] = q][i] = Append(v, q)[i]
  BY <1>3, <1>4, <1>7
<1>9. [w EXCEPT ![Len(v) + 1] = q] = Append(v, q)
  BY <1>4, <1>7, <1>8, SeqEqual
<1> QED BY <1>6, <1>9 DEF r, x, q, w

\* While a report is read, it is the last, with what was read of it.
LEMMA ReadingShows ==
  ASSUME NEW v \in Seq(Reports), NEW a \in About, NEW ss \in Seq(Sections)
  PROVE  View(Reading(v, a, ss)) = Append(v, Report(a, ss))
<1>1. CASE ss = <<>>
  <2>1. Reading(v, a, ss) = Inside(Append(v, Report(a, <<>>)), NoHeader, <<>>)
    BY <1>1, ReadingNone
  <2> QED BY <1>1, <2>1, ViewIs
<1>2. CASE ss # <<>>
  <2>1. PICK t \in Seq(Sections), h \in Headers, fs \in Seq(AllFrames) : ss = Append(t, Section(h, fs))
    BY <1>2, NoneOrMore
  <2>2. Reading(v, a, ss) = Inside(Append(v, Report(a, t)), h, fs)
    BY <2>1, ReadingAppend
  <2>3. View(Reading(v, a, ss)) = Ended(Append(v, Report(a, t)), h, fs)
    BY <2>2, HeadersAre, ViewIs
  <2> QED BY <2>1, <2>3, EndedIs
<1> QED BY <1>1, <1>2

\* A header opens a section.
LEMMA ReadHeader ==
  ASSUME NEW v \in Seq(Reports), NEW a \in About, NEW ss \in Seq(Sections),
         NEW l \in Headers, l.is \in {"access", "location", "thread", "mutex"}
  PROVE  Feed(Reading(v, a, ss), l) = Reading(v, a, Append(ss, Section(l, <<>>)))
<1>1. \E rs, h, fs : Reading(v, a, ss) = Inside(rs, h, fs)
  BY Zenon DEF Reading
<1>2. Feed(Reading(v, a, ss), l) = Inside(View(Reading(v, a, ss)), l, <<>>)
  BY <1>1, InsideFeeds
<1>3. View(Reading(v, a, ss)) = Append(v, Report(a, ss))
  BY ReadingShows
<1>4. <<>> \in Seq(AllFrames)
  OBVIOUS
<1>5. Reading(v, a, Append(ss, Section(l, <<>>))) = Inside(Append(v, Report(a, ss)), l, <<>>)
  BY <1>4, ReadingAppend, Zenon
<1> QED BY <1>2, <1>3, <1>5

\* A frame is added to the section that is open.
LEMMA ReadFrame ==
  ASSUME NEW v, NEW a, NEW ss \in Seq(Sections), NEW h \in Headers, NEW fs \in Seq(AllFrames), NEW f \in AllFrames
  PROVE  Feed(Reading(v, a, Append(ss, Section(h, fs))), Line("frame", f)) = Reading(v, a, Append(ss, Section(h, Append(fs, f))))
<1>1. Line("frame", f).is = "frame" /\ Line("frame", f).of = f
  BY DEF Line
<1>2. Reading(v, a, Append(ss, Section(h, fs))) = Inside(Append(v, Report(a, ss)), h, fs)
  BY ReadingAppend
<1>3. Append(fs, f) \in Seq(AllFrames)
  OBVIOUS
<1>4. Reading(v, a, Append(ss, Section(h, Append(fs, f)))) = Inside(Append(v, Report(a, ss)), h, Append(fs, f))
  <2>1. PICK gs \in Seq(AllFrames) : gs = Append(fs, f)
    BY <1>3
  <2>2. Reading(v, a, Append(ss, Section(h, gs))) = Inside(Append(v, Report(a, ss)), h, gs)
    BY ReadingAppend
  <2> QED BY <2>1, <2>2
<1>5. h # NoHeader
  BY HeadersAre
<1> QED BY <1>1, <1>2, <1>4, <1>5, InsideFeeds

\* Frames that no header comes before.
LEMMA ReadBare ==
  ASSUME NEW v, NEW a, NEW f \in AllFrames
  PROVE  Feed(Reading(v, a, <<>>), Line("frame", f)) = Reading(v, a, Append(<<>>, Section(NoHeaderLine, <<f>>)))
<1>1. Line("frame", f).is = "frame" /\ Line("frame", f).of = f
  BY DEF Line
<1>2. NoHeaderLine \in Headers
  BY DEF NoHeaderLine, Headers
<1>3. <<>> \in Seq(Sections) /\ <<f>> \in Seq(AllFrames) /\ Append(<<>>, f) = <<f>>
  OBVIOUS
<1>4. Reading(v, a, Append(<<>>, Section(NoHeaderLine, <<f>>))) = Inside(Append(v, Report(a, <<>>)), NoHeaderLine, <<f>>)
  <2>1. PICK gs \in Seq(AllFrames) : gs = <<f>>
    BY <1>3
  <2>2. PICK ss \in Seq(Sections) : ss = <<>>
    BY <1>3
  <2>3. Reading(v, a, Append(ss, Section(NoHeaderLine, gs))) = Inside(Append(v, Report(a, ss)), NoHeaderLine, gs)
    BY <1>2, ReadingAppend
  <2> QED BY <2>1, <2>2, <2>3, Zenon
<1>5. Feed(Inside(Append(v, Report(a, <<>>)), NoHeader, <<>>), Line("frame", f))
        = Inside(Append(v, Report(a, <<>>)), NoHeaderLine, Append(<<>>, f))
  <2>1. PICK rs, h, fs, l : rs = Append(v, Report(a, <<>>)) /\ h = NoHeader /\ fs = <<>> /\ l = Line("frame", f)
    OBVIOUS
  <2>2. Feed(Inside(rs, h, fs), l) = Inside(rs, NoHeaderLine, Append(fs, l.of))
    <3>1. l.is = "frame"
      BY <1>1, <2>1, Zenon
    <3>2. Feed(Inside(rs, h, fs), l) = Inside(rs, IF h = NoHeader THEN NoHeaderLine ELSE h, Append(fs, l.of))
      BY <3>1, InsideFeeds
    <3>3. (IF h = NoHeader THEN NoHeaderLine ELSE h) = NoHeaderLine
      BY <2>1
    <3> QED BY <3>2, <3>3
  <2> QED BY <1>1, <2>1, <2>2, Zenon
<1> QED BY <1>3, <1>4, <1>5, ReadingNone, Zenon

\* Other text changes nothing.
LEMMA ReadText ==
  ASSUME NEW p, NEW x
  PROVE  Feed(p, Line("text", x)) = p
<1>1. Line("text", x).is = "text"
  BY DEF Line
<1> QED BY <1>1, FeedIs

\* What the locals of parse() may be.
Parsers ==
  {Inside(x.reports, x.header, x.frames) :
     x \in [reports: Seq(Reports) \ {<<>>}, header: Headers \cup {NoHeader}, frames: Seq(AllFrames)]}
  \cup {Outside(rs) : rs \in Seq(Reports)}

\* The locals are those inside some report, or those outside.
LEMMA ParsersAre ==
  ASSUME NEW p \in Parsers
  PROVE  \/ \E rs \in Seq(Reports) \ {<<>>}, h \in Headers \cup {NoHeader}, fs \in Seq(AllFrames) : p = Inside(rs, h, fs)
         \/ \E rs \in Seq(Reports) : p = Outside(rs)
<1>1. CASE \E rs \in Seq(Reports) : p = Outside(rs)
  BY <1>1
<1>2. CASE \E x \in [reports: Seq(Reports) \ {<<>>}, header: Headers \cup {NoHeader}, frames: Seq(AllFrames)] :
             p = Inside(x.reports, x.header, x.frames)
  BY <1>2
<1> QED BY <1>1, <1>2 DEF Parsers

\* Inside a report, the locals are typed.
LEMMA InsideType ==
  ASSUME NEW rs \in Seq(Reports), rs # <<>>, NEW h \in Headers \cup {NoHeader}, NEW fs \in Seq(AllFrames)
  PROVE  Inside(rs, h, fs) \in Parsers
<1> DEFINE x == [reports |-> rs, header |-> h, frames |-> fs]
<1>1. x \in [reports: Seq(Reports) \ {<<>>}, header: Headers \cup {NoHeader}, frames: Seq(AllFrames)]
  OBVIOUS
<1>2. x.reports = rs /\ x.header = h /\ x.frames = fs
  OBVIOUS
<1> HIDE DEF x
<1>3. Inside(x.reports, x.header, x.frames) \in Parsers
  BY <1>1 DEF Parsers
<1> QED BY <1>2, <1>3

\* Outside, the locals are typed.
LEMMA OutsideType == ASSUME NEW rs \in Seq(Reports) PROVE Outside(rs) \in Parsers
  BY DEF Parsers

\* Ending a section keeps the reports typed.
LEMMA EndedType ==
  ASSUME NEW rs \in Seq(Reports), rs # <<>>, NEW h \in Headers, NEW fs \in Seq(AllFrames)
  PROVE  Ended(rs, h, fs) \in Seq(Reports) /\ Ended(rs, h, fs) # <<>>
<1> DEFINE n == Len(rs)
           r == rs[n]
           x == [header |-> h, frames |-> fs]
           with == WithSection(r, x)
<1>1. n \in DOMAIN rs /\ r \in Reports
  OBVIOUS
<1>2. x \in Sections
  BY DEF Sections
<1>3. r = [kind |-> r.kind, crash |-> r.crash, sections |-> r.sections]
      /\ r.kind \in Kinds /\ r.crash \in BOOLEAN /\ r.sections \in Seq(Sections)
  BY <1>1 DEF Reports
<1>4. with = [r EXCEPT !.sections = Append(r.sections, x)]
  BY DEF WithSection
<1> HIDE DEF n, r, x, with
<1>5. Append(r.sections, x) \in Seq(Sections)
  BY <1>2, <1>3
<1>6. with = [kind |-> r.kind, crash |-> r.crash, sections |-> Append(r.sections, x)]
  BY <1>3, <1>4
<1>7. with \in Reports
  BY <1>3, <1>5, <1>6 DEF Reports
<1>8. [rs EXCEPT ![n] = with] \in Seq(Reports) /\ [rs EXCEPT ![n] = with] # <<>>
  BY <1>1, <1>7
<1> QED BY <1>8 DEF Ended, n, with, r, x

\* What is parsed so far is reports.
LEMMA ViewType ==
  ASSUME NEW p \in Parsers
  PROVE  View(p) \in Seq(Reports)
<1>1. CASE \E rs \in Seq(Reports) : p = Outside(rs)
  BY <1>1, ViewIs
<1>2. ASSUME NEW rs \in Seq(Reports) \ {<<>>}, NEW h \in Headers \cup {NoHeader}, NEW fs \in Seq(AllFrames),
             p = Inside(rs, h, fs)
      PROVE  View(p) \in Seq(Reports)
  <2>1. CASE h = NoHeader
    BY <1>2, <2>1, ViewIs
  <2>2. CASE h # NoHeader
    BY <1>2, <2>2, ViewIs, EndedType
  <2> QED BY <2>1, <2>2
<1> QED BY <1>1, <1>2, ParsersAre

\* So it is inside a report, whatever is open.
LEMMA InsideViewType ==
  ASSUME NEW rs \in Seq(Reports) \ {<<>>}, NEW h \in Headers \cup {NoHeader}, NEW fs \in Seq(AllFrames)
  PROVE  View(Inside(rs, h, fs)) \in Seq(Reports) \ {<<>>}
<1>1. CASE h = NoHeader
  BY <1>1, ViewIs
<1>2. CASE h # NoHeader
  BY <1>2, ViewIs, EndedType
<1> QED BY <1>1, <1>2

\* A line is of one of these kinds.
LEMMA LinesAre ==
  ASSUME NEW l \in AllLines
  PROVE  /\ l.is \in {"warning", "summary", "separator", "frame", "access", "location", "thread", "mutex", "text", "none"}
         /\ l.is = "warning" => l.of \in About
         /\ l.is = "frame" => l.of \in AllFrames
         /\ l.is \in {"access", "location", "thread", "mutex"} => l \in Headers
<1>1. \A is, of : Line(is, of).is = is /\ Line(is, of).of = of
  BY DEF Line
<1>2. CASE l \in Headers
  BY <1>2, HeadersAre
<1>3. CASE \E f \in AllFrames : l = Line("frame", f)
  BY <1>1, <1>3
<1>4. CASE \E a \in [kind: Kinds, crash: BOOLEAN] : l = Line("warning", a)
  BY <1>1, <1>4 DEF About
<1>5. CASE l.is \in {"summary", "separator", "text"}
  BY <1>5
<1>6. \/ \E f \in AllFrames : l = Line("frame", f)
      \/ l \in Headers
      \/ \E a \in [kind: Kinds, crash: BOOLEAN] : l = Line("warning", a)
      \/ \E k \in Kinds : l = Line("summary", k)
      \/ l = Line("separator", 0)
      \/ l = Line("text", "failed to restore the stack") \/ l = Line("text", "cycle in lock order graph")
  BY Zenon DEF AllLines
<1>7. CASE \E k \in Kinds : l = Line("summary", k)
  BY <1>1, <1>5, <1>7
<1>8. CASE l = Line("separator", 0)
  BY <1>1, <1>5, <1>8, Zenon
<1>9. CASE l = Line("text", "failed to restore the stack") \/ l = Line("text", "cycle in lock order graph")
  <2>1. l.is = "text"
    BY <1>1, <1>9, Zenon
  <2> QED BY <1>5, <2>1
<1> QED BY <1>2, <1>3, <1>4, <1>6, <1>7, <1>8, <1>9, Zenon

\* A report more.
LEMMA EnteredType ==
  ASSUME NEW rs \in Seq(Reports), NEW a \in About
  PROVE  Inside(Append(rs, Report(a, <<>>)), NoHeader, <<>>) \in Parsers
<1>1. <<>> \in Seq(Sections) /\ <<>> \in Seq(AllFrames) /\ NoHeader \in Headers \cup {NoHeader}
  OBVIOUS
<1>2. Report(a, <<>>) \in Reports
  BY <1>1, ReportType
<1>3. Append(rs, Report(a, <<>>)) \in Seq(Reports) /\ Append(rs, Report(a, <<>>)) # <<>>
  BY <1>2, AppendProperties
<1> QED BY <1>1, <1>3, InsideType, Zenon

\* A line keeps the locals typed.
LEMMA FeedType ==
  ASSUME NEW p \in Parsers, NEW l \in AllLines
  PROVE  Feed(p, l) \in Parsers
<1>1. ASSUME NEW rs \in Seq(Reports), p = Outside(rs) PROVE Feed(p, l) \in Parsers
  <2>1. CASE l.is = "warning"
    <3>1. Feed(p, l) = Inside(Append(rs, Report(l.of, <<>>)), NoHeader, <<>>)
      BY <1>1, <2>1, OutsideFeeds
    <3>2. l.of \in About
      BY <2>1, LinesAre
    <3> QED BY <3>1, <3>2, EnteredType
  <2>2. CASE l.is # "warning"
    BY <1>1, <2>2, OutsideFeeds
  <2> QED BY <2>1, <2>2
<1>2. ASSUME NEW rs \in Seq(Reports) \ {<<>>}, NEW h \in Headers \cup {NoHeader}, NEW fs \in Seq(AllFrames),
             p = Inside(rs, h, fs)
      PROVE  Feed(p, l) \in Parsers
  <2>0. View(p) \in Seq(Reports) /\ View(p) # <<>>
    BY <1>2, InsideViewType
  <2>1. CASE l.is = "warning"
    <3>1. Feed(p, l) = Inside(Append(View(p), Report(l.of, <<>>)), NoHeader, <<>>)
      BY <1>2, <2>1, InsideFeeds
    <3>2. l.of \in About
      BY <2>1, LinesAre
    <3> QED BY <2>0, <3>1, <3>2, EnteredType
  <2>2. CASE l.is \in {"summary", "separator"}
    <3>1. Feed(p, l) = Outside(View(p))
      BY <1>2, <2>2, InsideFeeds
    <3> QED BY <2>0, <3>1, OutsideType
  <2>3. CASE l.is = "frame"
    <3> DEFINE g == IF h = NoHeader THEN NoHeaderLine ELSE h
               gs == Append(fs, l.of)
    <3>1. Feed(p, l) = Inside(rs, g, gs)
      BY <1>2, <2>3, InsideFeeds
    <3>2. l.of \in AllFrames
      BY <2>3, LinesAre
    <3>3. NoHeaderLine \in Headers
      BY DEF NoHeaderLine, Headers
    <3>4. g \in Headers \cup {NoHeader}
      BY <3>3
    <3>5. gs \in Seq(AllFrames)
      BY <3>2
    <3> HIDE DEF g, gs
    <3> QED BY <3>1, <3>4, <3>5, InsideType
  <2>4. CASE l.is \in {"access", "location", "thread", "mutex"}
    <3>1. Feed(p, l) = Inside(View(p), l, <<>>)
      BY <1>2, <2>4, InsideFeeds
    <3>2. l \in Headers \cup {NoHeader}
      BY <2>4, LinesAre
    <3>3. <<>> \in Seq(AllFrames)
      OBVIOUS
    <3> QED BY <2>0, <3>1, <3>2, <3>3, InsideType
  <2>5. CASE l.is \in {"text", "none"}
    BY <2>5, FeedIs
  <2> QED BY LinesAre, <2>1, <2>2, <2>3, <2>4, <2>5
<1> QED BY ParsersAre, <1>1, <1>2

-----------------------------------------------------------------------------
(* Line after line. *)

FedFcn(p, lines, k) == CHOOSE f : f = [i \in 0 .. k |-> IF i = 0 THEN p ELSE Feed(f[i - 1], lines[i])]

\* Fed is this function, at its last place.
LEMMA FedIsFcn == ASSUME NEW p, NEW lines, NEW k PROVE Fed(p, lines, k) = FedFcn(p, lines, k)[k]
  BY DEF Fed, FedFcn

\* The function unfolds line by line.
LEMMA FedUnfolds ==
  ASSUME NEW p \in Parsers, NEW lines \in Seq(AllLines), NEW k \in 0 .. Len(lines)
  PROVE  /\ FedFcn(p, lines, k)[0] = p
         /\ \A i \in 0 .. k : FedFcn(p, lines, k)[i] \in Parsers
         /\ \A i \in 1 .. k : FedFcn(p, lines, k)[i] = Feed(FedFcn(p, lines, k)[i - 1], lines[i])
<1> DEFINE F == [x \in (1 .. k) \X Parsers |-> Feed(x[2], lines[x[1]])]
           Val(g, i) == IF i = 0 THEN p ELSE Feed(g[i - 1], lines[i])
           f == FedFcn(p, lines, k)
<1>1. k \in Nat /\ \A i \in 1 .. k : lines[i] \in AllLines
  OBVIOUS
<1>3. F \in [(1 .. k) \X Parsers -> Parsers]
  <2>1. \A x \in (1 .. k) \X Parsers : Feed(x[2], lines[x[1]]) \in Parsers
    BY <1>1, FeedType
  <2> QED BY <2>1
<1>4. \A i \in 1 .. k, q \in Parsers : F[<<i, q>>] = Feed(q, lines[i])
  OBVIOUS
<1> HIDE DEF F
<1>5. PICK g \in [0 .. k -> Parsers] : IsRun(g, k, p, F)
  BY <1>1, <1>3, StepsSolve
<1>6. \A i \in 0 .. k : i = 0 \/ (i \in 1 .. k /\ i - 1 \in 0 .. k)
  BY <1>1
<1>7. \A i \in 0 .. k : g[i] \in Parsers /\ g[i] = Val(g, i)
  <2> SUFFICES ASSUME NEW i \in 0 .. k PROVE g[i] \in Parsers /\ g[i] = Val(g, i)
    OBVIOUS
  <2>1. CASE i = 0
    BY <2>1, <1>5 DEF IsRun
  <2>2. CASE i # 0
    <3>1. i \in 1 .. k /\ g[i - 1] \in Parsers /\ g[i] = F[<<i, g[i - 1]>>]
      BY <2>2, <1>5, <1>6 DEF IsRun
    <3> QED BY <2>2, <3>1, <1>4
  <2> QED BY <2>1, <2>2
<1>8. g = [i \in 0 .. k |-> Val(g, i)]
  BY <1>7
<1>9. f = [i \in 0 .. k |-> Val(f, i)]
  BY <1>8 DEF FedFcn
<1> HIDE DEF f
<1>10. \A i \in 0 .. k : f[i] = Val(f, i)
  BY <1>9
<1>11. f[0] = p /\ \A i \in 1 .. k : f[i] = Feed(f[i - 1], lines[i])
  BY <1>1, <1>10
<1>12. \A i \in 0 .. k : f[i] = g[i]
  <2>1. g[0] = p /\ \A i \in 1 .. k : g[i] = Feed(g[i - 1], lines[i])
    BY <1>1, <1>7
  <2>2. Agree(f, g, k)
    BY <1>11, <2>1 DEF Agree
  <2> QED BY <1>1, <2>2, StepsAgree
<1> QED BY <1>7, <1>11, <1>12 DEF f

\* Fed takes the lines one by one.
LEMMA FedSteps ==
  ASSUME NEW p \in Parsers, NEW lines \in Seq(AllLines)
  PROVE  /\ Fed(p, lines, 0) = p
         /\ \A k \in 0 .. Len(lines) : Fed(p, lines, k) \in Parsers
         /\ \A k \in 1 .. Len(lines) : Fed(p, lines, k) = Feed(Fed(p, lines, k - 1), lines[k])
<1>1. \A k \in 0 .. Len(lines) :
        /\ FedFcn(p, lines, k)[0] = p
        /\ \A i \in 0 .. k : FedFcn(p, lines, k)[i] \in Parsers
        /\ \A i \in 1 .. k : FedFcn(p, lines, k)[i] = Feed(FedFcn(p, lines, k)[i - 1], lines[i])
  BY FedUnfolds
<1>2. Len(lines) \in Nat /\ 0 \in 0 .. Len(lines)
  OBVIOUS
<1>3. Fed(p, lines, 0) = p
  BY <1>1, <1>2, FedIsFcn
<1>4. \A k \in 0 .. Len(lines) : Fed(p, lines, k) \in Parsers
  <2>1. \A k \in 0 .. Len(lines) : k \in 0 .. k
    BY <1>2
  <2> QED BY <1>1, <2>1, FedIsFcn
<1>5. ASSUME NEW k \in 1 .. Len(lines) PROVE Fed(p, lines, k) = Feed(Fed(p, lines, k - 1), lines[k])
  <2> DEFINE f == FedFcn(p, lines, k)
             g == FedFcn(p, lines, k - 1)
  <2>1. k \in 0 .. Len(lines) /\ k - 1 \in 0 .. Len(lines) /\ k - 1 \in Nat /\ k \in 1 .. k
    BY <1>2
  <2>2. f[0] = p /\ \A i \in 1 .. k : f[i] = Feed(f[i - 1], lines[i])
    BY <1>1, <2>1
  <2>3. g[0] = p /\ \A i \in 1 .. k - 1 : g[i] = Feed(g[i - 1], lines[i])
    BY <1>1, <2>1
  <2> HIDE DEF f, g
  <2>4. Agree(f, g, k - 1)
    <3>1. \A i \in 1 .. k - 1 : i \in 1 .. k
      BY <2>1
    <3> QED BY <2>2, <2>3, <3>1 DEF Agree
  <2>5. \A i \in 0 .. k - 1 : f[i] = g[i]
    BY <2>1, <2>4, StepsAgree
  <2>6. f[k - 1] = g[k - 1]
    BY <2>1, <2>5
  <2> QED BY <2>1, <2>2, <2>6, FedIsFcn DEF f, g
<1> QED BY <1>3, <1>4, <1>5

\* Feeding two runs of lines is feeding one and then the other.
LEMMA FedConcat ==
  ASSUME NEW p \in Parsers, NEW a \in Seq(AllLines), NEW b \in Seq(AllLines)
  PROVE  /\ \A k \in 0 .. Len(a) : Fed(p, a \o b, k) = Fed(p, a, k)
         /\ \A k \in 0 .. Len(b) : Fed(p, a \o b, Len(a) + k) = Fed(Fed(p, a, Len(a)), b, k)
<1> DEFINE c == a \o b
           q == Fed(p, a, Len(a))
           f == [k \in 0 .. Len(c) |-> Fed(p, c, k)]
           g == [k \in 0 .. Len(a) |-> Fed(p, a, k)]
           h == [k \in 0 .. Len(b) |-> Fed(q, b, k)]
           f2 == [k \in 0 .. Len(b) |-> Fed(p, c, Len(a) + k)]
<1>1. /\ Len(a) \in Nat /\ Len(b) \in Nat /\ c \in Seq(AllLines) /\ Len(c) = Len(a) + Len(b)
      /\ \A i \in 1 .. Len(a) + Len(b) : c[i] = IF i <= Len(a) THEN a[i] ELSE b[i - Len(a)]
  BY ConcatProperties
<1> HIDE DEF c
<1>2. q \in Parsers
  BY <1>1, FedSteps
<1>3. Fed(p, c, 0) = p /\ \A k \in 1 .. Len(a) + Len(b) : Fed(p, c, k) = Feed(Fed(p, c, k - 1), c[k])
  BY <1>1, FedSteps
<1>4. Fed(p, a, 0) = p /\ \A k \in 1 .. Len(a) : Fed(p, a, k) = Feed(Fed(p, a, k - 1), a[k])
  BY <1>1, FedSteps
<1>5. Fed(q, b, 0) = q /\ \A k \in 1 .. Len(b) : Fed(q, b, k) = Feed(Fed(q, b, k - 1), b[k])
  BY <1>2, FedSteps
<1> HIDE DEF q
<1>6. \A k \in 0 .. Len(a) : Fed(p, c, k) = Fed(p, a, k)
  <2>1. \A k \in 0 .. Len(a) : f[k] = Fed(p, c, k) /\ g[k] = Fed(p, a, k)
    BY <1>1
  <2> HIDE DEF f, g
  <2>2. ASSUME NEW i \in 1 .. Len(a), f[i - 1] = g[i - 1] PROVE f[i] = g[i]
    <3>1. i \in 0 .. Len(a) /\ i - 1 \in 0 .. Len(a) /\ i \in 1 .. Len(a) + Len(b) /\ c[i] = a[i]
      BY <1>1
    <3> QED BY <2>1, <2>2, <3>1, <1>3, <1>4
  <2>3. f[0] = g[0]
    BY <2>1, <1>1, <1>3, <1>4
  <2>4. \A k \in 0 .. Len(a) : f[k] = g[k]
    <3>1. Agree(f, g, Len(a))
      BY <2>2, <2>3 DEF Agree
    <3> QED BY <3>1, <1>1, StepsAgree
  <2> QED BY <2>1, <2>4
<1>7. \A k \in 0 .. Len(b) : Fed(p, c, Len(a) + k) = Fed(q, b, k)
  <2>1. \A k \in 0 .. Len(b) : f2[k] = Fed(p, c, Len(a) + k) /\ h[k] = Fed(q, b, k)
    BY <1>1
  <2> HIDE DEF f2, h
  <2>2. ASSUME NEW i \in 1 .. Len(b), f2[i - 1] = h[i - 1] PROVE f2[i] = h[i]
    <3>1. /\ i \in 0 .. Len(b) /\ i - 1 \in 0 .. Len(b) /\ Len(a) + i \in 1 .. Len(a) + Len(b)
          /\ (Len(a) + i) - 1 = Len(a) + (i - 1) /\ ~ (Len(a) + i <= Len(a)) /\ (Len(a) + i) - Len(a) = i
      BY <1>1
    <3>2. c[Len(a) + i] = b[i]
      BY <1>1, <3>1
    <3> QED BY <2>1, <2>2, <3>1, <3>2, <1>3, <1>5
  <2>3. f2[0] = h[0]
    <3>1. 0 \in 0 .. Len(b) /\ Len(a) + 0 = Len(a) /\ Len(a) \in 0 .. Len(a)
      BY <1>1
    <3> QED BY <2>1, <3>1, <1>5, <1>6 DEF q
  <2>4. \A k \in 0 .. Len(b) : f2[k] = h[k]
    <3>1. Agree(f2, h, Len(b))
      BY <2>2, <2>3 DEF Agree
    <3> QED BY <3>1, <1>1, StepsAgree
  <2> QED BY <2>1, <2>4
<1> QED BY <1>6, <1>7 DEF c, q

\* The beginnings of a sequence.
LEMMA Beginnings ==
  ASSUME NEW S, NEW s \in Seq(S), NEW j \in 0 .. Len(s)
  PROVE  /\ SubSeq(s, 1, j) \in Seq(S) /\ Len(SubSeq(s, 1, j)) = j /\ \A i \in 1 .. j : SubSeq(s, 1, j)[i] = s[i]
         /\ SubSeq(s, 1, 0) = <<>> /\ SubSeq(s, 1, Len(s)) = s
         /\ j + 1 <= Len(s) => SubSeq(s, 1, j + 1) = Append(SubSeq(s, 1, j), s[j + 1])
<1> DEFINE t(k) == SubSeq(s, 1, k)
<1>1. ASSUME NEW k \in 0 .. Len(s)
      PROVE  t(k) \in Seq(S) /\ Len(t(k)) = k /\ \A i \in 1 .. k : t(k)[i] = s[i]
  <2>1. k \in Nat /\ t(k) = [i \in 1 .. k |-> s[i]] /\ \A i \in 1 .. k : s[i] \in S
    OBVIOUS
  <2> HIDE DEF t
  <2> QED BY <2>1
<1>2. Len(s) \in Nat /\ \A i \in 1 .. Len(s) : s[i] \in S
  OBVIOUS
<1> HIDE DEF t
<1>3. t(0) = <<>>
  <2>1. 0 \in 0 .. Len(s)
    BY <1>2
  <2> QED BY <1>1, <2>1
<1>4. t(Len(s)) = s
  <2>1. Len(s) \in 0 .. Len(s)
    BY <1>2
  <2> QED BY <1>1, <2>1, SeqEqual
<1>5. ASSUME j + 1 <= Len(s) PROVE t(j + 1) = Append(t(j), s[j + 1])
  <2>1. j + 1 \in 0 .. Len(s) /\ j + 1 \in 1 .. Len(s) /\ j \in Nat
    BY <1>2, <1>5
  <2>2. t(j + 1) \in Seq(S) /\ Len(t(j + 1)) = j + 1 /\ \A i \in 1 .. j + 1 : t(j + 1)[i] = s[i]
    BY <1>1, <2>1
  <2>3. t(j) \in Seq(S) /\ Len(t(j)) = j /\ \A i \in 1 .. j : t(j)[i] = s[i]
    BY <1>1
  <2>4. s[j + 1] \in S
    BY <1>2, <2>1
  <2>5. /\ Append(t(j), s[j + 1]) \in Seq(S) /\ Len(Append(t(j), s[j + 1])) = j + 1
        /\ Append(t(j), s[j + 1])[j + 1] = s[j + 1] /\ \A i \in 1 .. j : Append(t(j), s[j + 1])[i] = s[i]
    BY <2>3, <2>4, AppendProperties
  <2>6. \A i \in 1 .. j + 1 : Append(t(j), s[j + 1])[i] = s[i]
    BY <2>1, <2>5
  <2> QED BY <2>2, <2>5, <2>6, SeqEqual
<1> QED BY <1>1, <1>3, <1>4, <1>5 DEF t

\* While sections are read the locals are typed.
LEMMA ReadingType ==
  ASSUME NEW v \in Seq(Reports), NEW a \in About, NEW ss \in Seq(Sections)
  PROVE  Reading(v, a, ss) \in Parsers
<1>1. CASE ss = <<>>
  BY <1>1, ReadingNone, EnteredType
<1>2. CASE ss # <<>>
  <2>1. PICK t \in Seq(Sections), h \in Headers, fs \in Seq(AllFrames) : ss = Append(t, Section(h, fs))
    BY <1>2, NoneOrMore
  <2>2. Reading(v, a, ss) = Inside(Append(v, Report(a, t)), h, fs)
    BY <2>1, ReadingAppend
  <2>3. Append(v, Report(a, t)) \in Seq(Reports) /\ Append(v, Report(a, t)) # <<>>
    BY ReportType, AppendProperties
  <2> QED BY <2>2, <2>3, InsideType
<1> QED BY <1>1, <1>2

\* The lines of a stack are its frames.
LEMMA FrameLinesAre ==
  ASSUME NEW fs \in Seq(AllFrames)
  PROVE  /\ FrameLines(fs) \in Seq(AllLines) /\ Len(FrameLines(fs)) = Len(fs)
         /\ \A i \in 1 .. Len(fs) : FrameLines(fs)[i] = Line("frame", fs[i])
<1>1. Len(fs) \in Nat /\ DOMAIN fs = 1 .. Len(fs) /\ \A i \in 1 .. Len(fs) : fs[i] \in AllFrames
  OBVIOUS
<1>2. \A i \in 1 .. Len(fs) : Line("frame", fs[i]) \in AllLines
  BY <1>1 DEF AllLines
<1>3. FrameLines(fs) = [i \in 1 .. Len(fs) |-> Line("frame", fs[i])]
  BY <1>1 DEF FrameLines
<1> QED BY <1>1, <1>2, <1>3

\* Frame after frame, from the second line on.
FramesFollow(lines, fs, m) ==
  /\ Len(lines) = Len(fs) + m /\ Len(lines) >= 1
  /\ \A k \in 2 .. Len(lines) : lines[k] = Line("frame", fs[k - m])

FramesRead(p, v, a, ss, h, fs, lines, m, k) ==
  Fed(p, lines, k) = Reading(v, a, Append(ss, Section(h, SubSeq(fs, 1, k - m))))

\* After some lines of a stack, the section has as many of its frames.
LEMMA FramesAfter ==
  ASSUME NEW p \in Parsers, NEW v \in Seq(Reports), NEW a \in About, NEW ss \in Seq(Sections), NEW h \in Headers,
         NEW fs \in Seq(AllFrames), NEW lines \in Seq(AllLines), NEW m \in 0 .. 1, FramesFollow(lines, fs, m),
         FramesRead(p, v, a, ss, h, fs, lines, m, 1)
  PROVE  \A k \in 1 .. Len(lines) : FramesRead(p, v, a, ss, h, fs, lines, m, k)
<1> DEFINE At(k) == Reading(v, a, Append(ss, Section(h, SubSeq(fs, 1, k - m))))
           P == {n \in Nat : n + 1 <= Len(lines) => Fed(p, lines, n + 1) = At(n + 1)}
<1>1. 0 \in P
  BY DEF FramesRead
<1>2. ASSUME NEW n \in P PROVE n + 1 \in P
  <2> SUFFICES ASSUME (n + 1) + 1 <= Len(lines) PROVE Fed(p, lines, (n + 1) + 1) = At((n + 1) + 1)
    OBVIOUS
  <2>0. Len(lines) = Len(fs) + m /\ \A k \in 2 .. Len(lines) : lines[k] = Line("frame", fs[k - m])
    BY DEF FramesFollow
  <2>1. /\ (n + 1) + 1 \in 1 .. Len(lines) /\ (n + 1) + 1 \in 2 .. Len(lines) /\ ((n + 1) + 1) - 1 = n + 1
        /\ ((n + 1) + 1) - m = ((n + 1) - m) + 1 /\ (n + 1) - m \in 0 .. Len(fs) /\ ((n + 1) - m) + 1 <= Len(fs)
    BY <2>0
  <2>2. Fed(p, lines, n + 1) = At(n + 1)
    OBVIOUS
  <2>3. Fed(p, lines, (n + 1) + 1) = Feed(Fed(p, lines, n + 1), lines[(n + 1) + 1])
    <3>1. \A k \in 1 .. Len(lines) : Fed(p, lines, k) = Feed(Fed(p, lines, k - 1), lines[k])
      BY FedSteps
    <3> QED BY <2>1, <3>1
  <2> DEFINE j == (n + 1) - m
  <2>4. lines[(n + 1) + 1] = Line("frame", fs[j + 1])
    BY <2>0, <2>1
  <2>5. SubSeq(fs, 1, j) \in Seq(AllFrames) /\ SubSeq(fs, 1, j + 1) = Append(SubSeq(fs, 1, j), fs[j + 1])
    <3>1. j \in 0 .. Len(fs) /\ j + 1 <= Len(fs)
      BY <2>1
    <3> HIDE DEF j
    <3> QED BY <3>1, Beginnings
  <2>6. fs[j + 1] \in AllFrames
    <3>1. j + 1 \in 1 .. Len(fs)
      BY <2>1
    <3> QED BY <3>1
  <2>7. At(n + 1) = Reading(v, a, Append(ss, Section(h, SubSeq(fs, 1, j))))
    OBVIOUS
  <2>8. At((n + 1) + 1) = Reading(v, a, Append(ss, Section(h, SubSeq(fs, 1, j + 1))))
    BY <2>1
  <2> HIDE DEF At, j
  <2>9. Feed(Reading(v, a, Append(ss, Section(h, SubSeq(fs, 1, j)))), Line("frame", fs[j + 1]))
          = Reading(v, a, Append(ss, Section(h, Append(SubSeq(fs, 1, j), fs[j + 1]))))
    <3>1. PICK gs \in Seq(AllFrames) : gs = SubSeq(fs, 1, j)
      BY <2>5
    <3>2. PICK f \in AllFrames : f = fs[j + 1]
      BY <2>6
    <3>3. Feed(Reading(v, a, Append(ss, Section(h, gs))), Line("frame", f)) = Reading(v, a, Append(ss, Section(h, Append(gs, f))))
      BY ReadFrame
    <3> QED BY <3>1, <3>2, <3>3
  <2> QED BY <2>2, <2>3, <2>4, <2>5, <2>7, <2>8, <2>9
<1> HIDE DEF P
<1>3. P = Nat
  <2>1. P \in SUBSET Nat
    BY DEF P
  <2> QED BY <1>1, <1>2, <2>1, NatInd
<1>4. ASSUME NEW k \in 1 .. Len(lines) PROVE Fed(p, lines, k) = At(k)
  <2>1. k - 1 \in P /\ (k - 1) + 1 = k
    BY <1>3
  <2> QED BY <2>1 DEF P
<1> QED BY <1>4 DEF FramesRead

-----------------------------------------------------------------------------
(* What lines add to the report that is read. *)

\* t is what is left of s: the last section may have lost its end.
IsBegun(x, y) == x.header = y.header /\ \E j \in 0 .. Len(y.frames) : x.frames = SubSeq(y.frames, 1, j)
IsPart(t, s) ==
  t # <<>> => /\ Len(t) \in 1 .. Len(s) /\ \A i \in 1 .. Len(t) - 1 : t[i] = s[i]
              /\ IsBegun(t[Len(t)], s[Len(t)])

\* The lines b have the sections s, wherever they are cut.
Adds(b, s) ==
  \A v \in Seq(Reports), a \in About, ss \in Seq(Sections) :
    /\ Fed(Reading(v, a, ss), b, Len(b)) = Reading(v, a, ss \o s)
    /\ \A k \in 0 .. Len(b) : \E t \in Seq(Sections) : IsPart(t, s) /\ Fed(Reading(v, a, ss), b, k) = Reading(v, a, ss \o t)

\* What a part of some sections is, element by element.
LEMMA SectionsAre ==
  ASSUME NEW s \in Seq(Sections), NEW i \in 1 .. Len(s)
  PROVE  /\ s[i] = Section(s[i].header, s[i].frames)
         /\ s[i].header \in Headers /\ s[i].frames \in Seq(AllFrames)
<1>1. s[i] \in Sections
  OBVIOUS
<1> QED BY <1>1 DEF Sections, Section

\* All of them are a part.
LEMMA WholeIsPart == ASSUME NEW s \in Seq(Sections) PROVE IsPart(s, s)
<1>1. CASE s = <<>>
  BY <1>1 DEF IsPart
<1>2. CASE s # <<>>
  <2>1. Len(s) \in 1 .. Len(s)
    BY <1>2
  <2> DEFINE fs == s[Len(s)].frames
  <2>2. fs \in Seq(AllFrames)
    BY <2>1, SectionsAre
  <2>3. Len(fs) \in 0 .. Len(fs) /\ fs = SubSeq(fs, 1, Len(fs))
    <3> HIDE DEF fs
    <3>1. Len(fs) \in 0 .. Len(fs)
      BY <2>2
    <3> QED BY <2>2, <3>1, Beginnings
  <2> QED BY <2>1, <2>3 DEF IsPart, IsBegun
<1> QED BY <1>1, <1>2

\* A part of the first of two runs of sections is a part of both.
LEMMA PartOfFirst ==
  ASSUME NEW s1 \in Seq(Sections), NEW s2 \in Seq(Sections), NEW t \in Seq(Sections), IsPart(t, s1)
  PROVE  IsPart(t, s1 \o s2)
<1> DEFINE c == s1 \o s2
<1>1. /\ Len(s1) \in Nat /\ Len(s2) \in Nat /\ Len(c) = Len(s1) + Len(s2) /\ Len(t) \in Nat
      /\ \A i \in 1 .. Len(s1) : c[i] = s1[i]
  BY ConcatProperties
<1> HIDE DEF c
<1>2. CASE t # <<>>
  <2>1. /\ Len(t) \in 1 .. Len(s1) /\ \A i \in 1 .. Len(t) - 1 : t[i] = s1[i]
        /\ IsBegun(t[Len(t)], s1[Len(t)])
    BY <1>2 DEF IsPart
  <2>2. c[Len(t)] = s1[Len(t)] /\ Len(t) \in 1 .. Len(c) /\ \A i \in 1 .. Len(t) - 1 : i \in 1 .. Len(s1)
    BY <1>1, <2>1
  <2>3. \A i \in 1 .. Len(t) - 1 : t[i] = c[i]
    BY <1>1, <2>1, <2>2
  <2>4. IsBegun(t[Len(t)], c[Len(t)])
    BY <2>1, <2>2
  <2>5. IsPart(t, c)
    BY <2>2, <2>3, <2>4 DEF IsPart
  <2> QED BY <2>5 DEF c
<1>3. CASE t = <<>>
  BY <1>3 DEF IsPart
<1> QED BY <1>2, <1>3 DEF c

\* So are the whole of the first and a part of the second.
LEMMA PartOfSecond ==
  ASSUME NEW s1 \in Seq(Sections), NEW s2 \in Seq(Sections), NEW t \in Seq(Sections), IsPart(t, s2)
  PROVE  IsPart(s1 \o t, s1 \o s2)
<1> DEFINE c == s1 \o s2
           d == s1 \o t
<1>0. CASE t = <<>>
  <2>1. d = s1
    BY <1>0, ConcatEmptySeq
  <2> QED BY <2>1, WholeIsPart, PartOfFirst
<1>1. /\ Len(s1) \in Nat /\ Len(s2) \in Nat /\ Len(c) = Len(s1) + Len(s2)
      /\ \A i \in 1 .. Len(s1) + Len(s2) : c[i] = IF i <= Len(s1) THEN s1[i] ELSE s2[i - Len(s1)]
  BY ConcatProperties
<1>2. /\ Len(t) \in Nat /\ Len(d) = Len(s1) + Len(t) /\ d \in Seq(Sections)
      /\ \A i \in 1 .. Len(s1) + Len(t) : d[i] = IF i <= Len(s1) THEN s1[i] ELSE t[i - Len(s1)]
  BY ConcatProperties
<1> HIDE DEF c, d
<1>3. CASE t # <<>>
  <2>1. /\ Len(t) \in 1 .. Len(s2) /\ \A i \in 1 .. Len(t) - 1 : t[i] = s2[i]
        /\ IsBegun(t[Len(t)], s2[Len(t)])
    BY <1>3 DEF IsPart
  <2>2. Len(d) \in 1 .. Len(c) /\ Len(d) - Len(s1) = Len(t) /\ ~ (Len(d) <= Len(s1))
        /\ Len(d) \in 1 .. Len(s1) + Len(s2) /\ Len(d) \in 1 .. Len(s1) + Len(t)
    BY <1>1, <1>2, <2>1
  <2>3. d[Len(d)] = t[Len(t)] /\ c[Len(d)] = s2[Len(t)]
    BY <1>1, <1>2, <2>2
  <2>4. ASSUME NEW i \in 1 .. Len(d) - 1 PROVE d[i] = c[i]
    <3>1. i \in 1 .. Len(s1) + Len(s2) /\ i \in 1 .. Len(s1) + Len(t)
      BY <1>1, <1>2, <2>2
    <3>2. CASE i <= Len(s1)
      BY <1>1, <1>2, <3>1, <3>2
    <3>3. CASE ~ (i <= Len(s1))
      <4>1. i - Len(s1) \in 1 .. Len(t) - 1
        BY <1>1, <1>2, <3>1, <3>3
      <4> QED BY <1>1, <1>2, <2>1, <3>1, <3>3, <4>1
    <3> QED BY <3>2, <3>3
  <2>5. IsPart(d, c)
    BY <2>1, <2>2, <2>3, <2>4 DEF IsPart
  <2> QED BY <2>5 DEF c, d
<1> QED BY <1>0, <1>3

\* Three runs of sections, one after the other.
LEMMA SectionsAssociate ==
  ASSUME NEW s \in Seq(Sections), NEW t \in Seq(Sections), NEW u \in Seq(Sections)
  PROVE  (s \o t) \o u = s \o (t \o u)
  BY ConcatAssociative

\* One after the other, and at any place in the second.
LEMMA AddsBoth ==
  ASSUME NEW b1 \in Seq(AllLines), NEW b2 \in Seq(AllLines), NEW s1 \in Seq(Sections), NEW s2 \in Seq(Sections),
         Adds(b1, s1), Adds(b2, s2)
  PROVE  Adds(b1 \o b2, s1 \o s2)
<1> SUFFICES ASSUME NEW v \in Seq(Reports), NEW a \in About, NEW ss \in Seq(Sections)
             PROVE  /\ Fed(Reading(v, a, ss), b1 \o b2, Len(b1 \o b2)) = Reading(v, a, ss \o (s1 \o s2))
                    /\ \A k \in 0 .. Len(b1 \o b2) : \E t \in Seq(Sections) :
                         IsPart(t, s1 \o s2) /\ Fed(Reading(v, a, ss), b1 \o b2, k) = Reading(v, a, ss \o t)
  BY DEF Adds
<1>0. ASSUME NEW t \in Seq(Sections) PROVE (ss \o s1) \o t = ss \o (s1 \o t)
  BY SectionsAssociate
<1> DEFINE p == Reading(v, a, ss)
           c == b1 \o b2
           ss1 == ss \o s1
<1>1. p \in Parsers
  BY ReadingType
<1>2. ss1 \in Seq(Sections) /\ \A t \in Seq(Sections) : ss1 \o t = ss \o (s1 \o t) /\ s1 \o t \in Seq(Sections)
  <2>1. ss1 \in Seq(Sections) /\ \A t \in Seq(Sections) : s1 \o t \in Seq(Sections)
    BY ConcatProperties
  <2> QED BY <1>0, <2>1
<1>3. /\ Fed(p, b1, Len(b1)) = Reading(v, a, ss1)
      /\ \A k \in 0 .. Len(b1) : \E t \in Seq(Sections) : IsPart(t, s1) /\ Fed(p, b1, k) = Reading(v, a, ss \o t)
  BY DEF Adds
<1> HIDE DEF p, ss1
<1>4. /\ Fed(Reading(v, a, ss1), b2, Len(b2)) = Reading(v, a, ss1 \o s2)
      /\ \A k \in 0 .. Len(b2) : \E t \in Seq(Sections) : IsPart(t, s2) /\ Fed(Reading(v, a, ss1), b2, k) = Reading(v, a, ss1 \o t)
  BY <1>2 DEF Adds
<1>5. /\ \A k \in 0 .. Len(b1) : Fed(p, c, k) = Fed(p, b1, k)
      /\ \A k \in 0 .. Len(b2) : Fed(p, c, Len(b1) + k) = Fed(Reading(v, a, ss1), b2, k)
  BY <1>1, <1>3, FedConcat
<1>6. Len(b1) \in Nat /\ Len(b2) \in Nat /\ Len(c) = Len(b1) + Len(b2)
  BY ConcatProperties
<1> HIDE DEF c
<1>7. Fed(p, c, Len(c)) = Reading(v, a, ss \o (s1 \o s2))
  <2>1. Len(b2) \in 0 .. Len(b2)
    BY <1>6
  <2> QED BY <1>2, <1>4, <1>5, <1>6, <2>1
<1>8. ASSUME NEW k \in 0 .. Len(c)
      PROVE  \E t \in Seq(Sections) : IsPart(t, s1 \o s2) /\ Fed(p, c, k) = Reading(v, a, ss \o t)
  <2>1. CASE k <= Len(b1)
    <3>1. k \in 0 .. Len(b1)
      BY <1>6, <2>1
    <3>2. PICK t \in Seq(Sections) : IsPart(t, s1) /\ Fed(p, b1, k) = Reading(v, a, ss \o t)
      BY <1>3, <3>1
    <3> QED BY <1>5, <3>1, <3>2, PartOfFirst
  <2>2. CASE ~ (k <= Len(b1))
    <3>1. k - Len(b1) \in 0 .. Len(b2) /\ Len(b1) + (k - Len(b1)) = k
      BY <1>6, <2>2
    <3>2. PICK t \in Seq(Sections) : IsPart(t, s2) /\ Fed(Reading(v, a, ss1), b2, k - Len(b1)) = Reading(v, a, ss1 \o t)
      BY <1>4, <3>1
    <3>3. IsPart(s1 \o t, s1 \o s2)
      BY <3>2, PartOfSecond
    <3>4. Fed(p, c, k) = Reading(v, a, ss \o (s1 \o t)) /\ s1 \o t \in Seq(Sections)
      BY <1>2, <1>5, <3>1, <3>2
    <3> QED BY <3>3, <3>4
  <2> QED BY <2>1, <2>2
<1> QED BY <1>7, <1>8 DEF p, c

\* Nothing adds nothing, nor does text.
Idle(b) == \A p \in Parsers : \A k \in 0 .. Len(b) : Fed(p, b, k) = p

\* A line that changes nothing adds no section.
LEMMA IdleAdds ==
  ASSUME NEW b \in Seq(AllLines), Idle(b)
  PROVE  Adds(b, <<>>)
<1>1. PICK e \in Seq(Sections) : e = <<>>
  <2>1. <<>> \in Seq(Sections)
    OBVIOUS
  <2> QED BY <2>1, Zenon
<1>2. IsPart(e, e) /\ \A ss \in Seq(Sections) : ss \o e = ss
  BY <1>1, ConcatEmptySeq DEF IsPart
<1>3. ASSUME NEW v \in Seq(Reports), NEW a \in About, NEW ss \in Seq(Sections)
      PROVE  /\ Fed(Reading(v, a, ss), b, Len(b)) = Reading(v, a, ss \o e)
             /\ \A k \in 0 .. Len(b) : \E t \in Seq(Sections) : IsPart(t, e) /\ Fed(Reading(v, a, ss), b, k) = Reading(v, a, ss \o t)
  <2>1. PICK p \in Parsers : p = Reading(v, a, ss)
    BY ReadingType
  <2>2. Len(b) \in 0 .. Len(b)
    OBVIOUS
  <2>3. \A k \in 0 .. Len(b) : Fed(p, b, k) = p
    BY DEF Idle
  <2> QED BY <1>2, <2>1, <2>2, <2>3
<1>4. Adds(b, e)
  BY <1>3 DEF Adds
<1> QED BY <1>1, <1>4

\* No line adds no section.
LEMMA AddsNothing == Adds(<<>>, <<>>)
<1>1. <<>> \in Seq(AllLines)
  OBVIOUS
<1>2. PICK b \in Seq(AllLines) : b = <<>>
  BY <1>1, Zenon
<1>3. ASSUME NEW p \in Parsers, NEW k \in 0 .. Len(b) PROVE Fed(p, b, k) = p
  <2>1. k = 0
    BY <1>2
  <2> QED BY <2>1, FedSteps
<1>4. Adds(b, <<>>)
  BY <1>3, IdleAdds DEF Idle
<1> QED BY <1>2, <1>4

\* Text adds no section.
LEMMA AddsText == ASSUME NEW x, Line("text", x) \in AllLines PROVE Adds(<<Line("text", x)>>, <<>>)
<1>1. PICK l \in AllLines : l = Line("text", x)
  OBVIOUS
<1>2. <<l>> \in Seq(AllLines) /\ Len(<<l>>) = 1 /\ <<l>>[1] = l
  OBVIOUS
<1>3. PICK b \in Seq(AllLines) : b = <<l>>
  BY <1>2, Zenon
<1>4. Len(b) = 1 /\ b[1] = l
  BY <1>2, <1>3
<1>5. ASSUME NEW p \in Parsers, NEW k \in 0 .. Len(b) PROVE Fed(p, b, k) = p
  <2>1. Fed(p, b, 0) = p /\ \A i \in 1 .. Len(b) : Fed(p, b, i) = Feed(Fed(p, b, i - 1), b[i])
    BY FedSteps
  <2>2. Fed(p, b, 1) = Feed(p, l)
    <3>1. 1 \in 1 .. Len(b) /\ 1 - 1 = 0
      BY <1>4
    <3> QED BY <1>4, <2>1, <3>1
  <2>3. Feed(p, l) = p
    BY <1>1, ReadText
  <2>4. k = 0 \/ k = 1
    BY <1>4
  <2> QED BY <2>1, <2>2, <2>3, <2>4
<1>6. Adds(b, <<>>)
  BY <1>5, IdleAdds DEF Idle
<1> QED BY <1>1, <1>3, <1>6

\* The lines of a section: its header, and its frames.
LEMMA UnderLines ==
  ASSUME NEW h \in Headers, NEW fs \in Seq(AllFrames)
  PROVE  /\ Under(h, fs) \in Seq(AllLines) /\ Len(Under(h, fs)) = Len(fs) + 1 /\ Under(h, fs)[1] = h
         /\ \A k \in 2 .. Len(fs) + 1 : Under(h, fs)[k] = Line("frame", fs[k - 1])
<1>1. PICK g \in Seq(AllLines) : g = <<h>>
  <2>1. h \in AllLines
    BY DEF AllLines
  <2>2. <<h>> \in Seq(AllLines)
    BY <2>1
  <2> QED BY <2>2, Zenon
<1>2. Len(g) = 1 /\ g[1] = h
  BY <1>1
<1>3. PICK f \in Seq(AllLines) : f = FrameLines(fs)
  BY FrameLinesAre
<1>4. Len(f) = Len(fs) /\ Len(fs) \in Nat /\ \A i \in 1 .. Len(fs) : f[i] = Line("frame", fs[i])
  BY <1>3, FrameLinesAre
<1>5. Under(h, fs) = g \o f
  BY <1>1, <1>3 DEF Under
<1>6. /\ g \o f \in Seq(AllLines) /\ Len(g \o f) = Len(g) + Len(f)
      /\ \A i \in 1 .. Len(g) + Len(f) : (g \o f)[i] = IF i <= Len(g) THEN g[i] ELSE f[i - Len(g)]
  BY ConcatProperties
<1>7. PICK c : c = g \o f
  OBVIOUS
<1>8. c \in Seq(AllLines) /\ Len(c) = Len(fs) + 1 /\ c[1] = h
  BY <1>2, <1>4, <1>6, <1>7
<1>9. ASSUME NEW k \in 2 .. Len(fs) + 1 PROVE c[k] = Line("frame", fs[k - 1])
  <2>1. k \in 1 .. Len(g) + Len(f) /\ ~ (k <= Len(g)) /\ k - Len(g) = k - 1 /\ k - 1 \in 1 .. Len(fs)
    BY <1>2, <1>4
  <2> QED BY <1>4, <1>6, <1>7, <2>1
<1> QED BY <1>5, <1>7, <1>8, <1>9

\* A section alone, whole or begun.
LEMMA OneSection ==
  ASSUME NEW h \in Headers, NEW fs \in Seq(AllFrames), NEW j \in 0 .. Len(fs)
  PROVE  /\ <<Section(h, SubSeq(fs, 1, j))>> \in Seq(Sections)
         /\ IsPart(<<Section(h, SubSeq(fs, 1, j))>>, <<Section(h, fs)>>)
         /\ \A ss \in Seq(Sections) : ss \o <<Section(h, SubSeq(fs, 1, j))>> = Append(ss, Section(h, SubSeq(fs, 1, j)))
<1>1. PICK gs \in Seq(AllFrames) : gs = SubSeq(fs, 1, j)
  BY Beginnings
<1>2. PICK x \in Sections : x = Section(h, gs)
  BY SectionAppended, <1>1 DEF Section, Sections
<1>3. PICK y \in Sections : y = Section(h, fs)
  BY DEF Section, Sections
<1>4. x.header = h /\ y.header = h /\ x.frames = gs /\ y.frames = fs
  BY <1>2, <1>3 DEF Section
<1>5. IsBegun(x, y)
  BY <1>1, <1>4 DEF IsBegun
<1>6. IsPart(<<x>>, <<y>>)
  <2>1. PICK t, s : t = <<x>> /\ s = <<y>>
    OBVIOUS
  <2>2. Len(t) = 1 /\ Len(s) = 1 /\ t[1] = x /\ s[1] = y
    BY <2>1
  <2>3. Len(t) \in 1 .. Len(s) /\ \A i \in 1 .. Len(t) - 1 : t[i] = s[i]
    BY <2>2
  <2>4. IsPart(t, s)
    BY <1>5, <2>2, <2>3 DEF IsPart
  <2> QED BY <2>1, <2>4
<1>7. <<x>> \in Seq(Sections) /\ \A ss \in Seq(Sections) : ss \o <<x>> = Append(ss, x)
  <2>1. ASSUME NEW ss \in Seq(Sections) PROVE ss \o <<x>> = Append(ss, x)
    BY AppendIsConcat
  <2> QED BY <2>1
<1> QED BY <1>1, <1>2, <1>3, <1>6, <1>7

\* A header and the frames under it.
LEMMA AddsUnder ==
  ASSUME NEW h \in Headers, h.is \in {"access", "location", "thread", "mutex"}, NEW fs \in Seq(AllFrames)
  PROVE  Adds(Under(h, fs), <<Section(h, fs)>>)
<1> SUFFICES ASSUME NEW v \in Seq(Reports), NEW a \in About, NEW ss \in Seq(Sections)
             PROVE  /\ Fed(Reading(v, a, ss), Under(h, fs), Len(Under(h, fs))) = Reading(v, a, ss \o <<Section(h, fs)>>)
                    /\ \A k \in 0 .. Len(Under(h, fs)) : \E t \in Seq(Sections) :
                         IsPart(t, <<Section(h, fs)>>) /\ Fed(Reading(v, a, ss), Under(h, fs), k) = Reading(v, a, ss \o t)
  BY DEF Adds
<1>1. PICK p \in Parsers : p = Reading(v, a, ss)
  BY ReadingType
<1>2. PICK b \in Seq(AllLines) : b = Under(h, fs)
  BY UnderLines
<1>3. Len(b) = Len(fs) + 1 /\ b[1] = h /\ Len(fs) \in Nat /\ \A k \in 2 .. Len(b) : b[k] = Line("frame", fs[k - 1])
  BY <1>2, UnderLines
<1>4. Fed(p, b, 0) = p /\ \A k \in 1 .. Len(b) : Fed(p, b, k) = Feed(Fed(p, b, k - 1), b[k])
  BY FedSteps
<1>5. Fed(p, b, 1) = Reading(v, a, Append(ss, Section(h, <<>>)))
  <2>1. 1 \in 1 .. Len(b) /\ 1 - 1 = 0
    BY <1>3
  <2>2. Fed(p, b, 1) = Feed(p, h)
    BY <1>3, <1>4, <2>1
  <2> QED BY <1>1, <2>2, ReadHeader
<1>6. SubSeq(fs, 1, 0) = <<>> /\ SubSeq(fs, 1, Len(fs)) = fs
  <2>1. 0 \in 0 .. Len(fs)
    BY <1>3
  <2> QED BY <2>1, Beginnings
<1>7. \A k \in 1 .. Len(b) : Fed(p, b, k) = Reading(v, a, Append(ss, Section(h, SubSeq(fs, 1, k - 1))))
  <2>1. PICK m \in 0 .. 1 : m = 1
    OBVIOUS
  <2>2. FramesRead(p, v, a, ss, h, fs, b, m, 1)
    <3>1. 1 - m = 0
      BY <2>1
    <3> QED BY <1>5, <1>6, <3>1 DEF FramesRead
  <2>3. FramesFollow(b, fs, m)
    BY <1>3, <2>1 DEF FramesFollow
  <2>4. \A k \in 1 .. Len(b) : FramesRead(p, v, a, ss, h, fs, b, m, k)
    BY <2>2, <2>3, FramesAfter
  <2> QED BY <2>1, <2>4 DEF FramesRead
<1>8. ASSUME NEW k \in 1 .. Len(b)
      PROVE  \E t \in Seq(Sections) : /\ t = <<Section(h, SubSeq(fs, 1, k - 1))>> /\ IsPart(t, <<Section(h, fs)>>)
                                      /\ Fed(p, b, k) = Reading(v, a, ss \o t)
  <2>1. PICK j \in 0 .. Len(fs) : j = k - 1
    BY <1>3
  <2>2. PICK t \in Seq(Sections) : t = <<Section(h, SubSeq(fs, 1, j))>>
    BY OneSection
  <2>3. IsPart(t, <<Section(h, fs)>>) /\ ss \o t = Append(ss, Section(h, SubSeq(fs, 1, j)))
    BY <2>2, OneSection
  <2> QED BY <1>7, <2>1, <2>2, <2>3
<1>9. Fed(p, b, Len(b)) = Reading(v, a, ss \o <<Section(h, fs)>>)
  <2>1. Len(b) \in 1 .. Len(b) /\ Len(b) - 1 = Len(fs)
    BY <1>3
  <2> QED BY <1>6, <1>8, <2>1
<1>10. ASSUME NEW k \in 0 .. Len(b)
       PROVE  \E t \in Seq(Sections) : IsPart(t, <<Section(h, fs)>>) /\ Fed(p, b, k) = Reading(v, a, ss \o t)
  <2>1. CASE k = 0
    <3>0. <<>> \in Seq(Sections)
      OBVIOUS
    <3>1. PICK e \in Seq(Sections) : e = <<>>
      BY <3>0, Zenon
    <3>2. IsPart(e, <<Section(h, fs)>>) /\ ss \o e = ss
      BY <3>1, ConcatEmptySeq DEF IsPart
    <3> QED BY <1>1, <1>4, <2>1, <3>2
  <2>2. CASE k # 0
    <3>1. k \in 1 .. Len(b)
      BY <1>3, <2>2
    <3> QED BY <1>8, <3>1
  <2> QED BY <2>1, <2>2
<1> QED BY <1>1, <1>2, <1>9, <1>10

-----------------------------------------------------------------------------
(* What is printed of a report, and its sections. *)

\* What is known of a report that is printed.
LEMMA PrintedIs ==
  ASSUME NEW r \in Printable
  PROVE  /\ r = [kind |-> r.kind, crash |-> r.crash, stacks |-> r.stacks]
         /\ r.kind \in Kinds /\ r.crash \in BOOLEAN /\ Len(r.stacks) \in 0 .. 2 /\ DOMAIN r.stacks = 1 .. Len(r.stacks)
         /\ r.crash => Len(r.stacks) <= 1
         /\ r.kind = Inversion => ~r.crash /\ Len(r.stacks) = 0
         /\ r.stacks = <<>> <=> Len(r.stacks) = 0
         /\ \A i \in 1 .. Len(r.stacks) :
              /\ r.stacks[i] = [thread |-> r.stacks[i].thread, frames |-> r.stacks[i].frames]
              /\ r.stacks[i].frames \in Seq(AllFrames) /\ r.stacks[i].frames # <<>>
              /\ r.stacks[i].thread \in IF r.crash THEN {"worker"} ELSE {"worker", "mutator"}
<1>1. r \in Possible /\ IsPrinted(r)
  BY ParseAssumption
<1>2. r.kind \in Kinds
  BY DEF Kinds
<1>3. /\ r.stacks \in Seq({r.stacks[i] : i \in DOMAIN r.stacks}) /\ Len(r.stacks) <= 2
      /\ \A i \in DOMAIN r.stacks : r.stacks[i].frames # <<>>
  BY <1>1, TsanAssumption
<1>4. /\ Len(r.stacks) \in Nat /\ DOMAIN r.stacks = 1 .. Len(r.stacks)
      /\ r.stacks = <<>> <=> Len(r.stacks) = 0
  BY <1>3
<1>5. ASSUME NEW i \in 1 .. Len(r.stacks)
      PROVE  /\ r.stacks[i] = [thread |-> r.stacks[i].thread, frames |-> r.stacks[i].frames]
             /\ r.stacks[i].frames \in Seq(AllFrames)
             /\ r.stacks[i].thread \in IF r.crash THEN {"worker"} ELSE {"worker", "mutator"}
  <2>1. PICK s \in Stacks(r) : s = r.stacks[i]
    BY <1>4 DEF Stacks
  <2>2. /\ s = [thread |-> s.thread, frames |-> s.frames] /\ s.frames \in Seq(Frames(s))
        /\ s.thread \in IF r.crash THEN {"worker"} ELSE {"worker", "mutator"}
    BY <1>1 DEF IsPrinted
  <2>3. Frames(s) \subseteq AllFrames
    <3>1. UNION {Frames(x) : x \in Stacks(r)} \subseteq AllFrames
      BY Zenon DEF StackFrames, AllFrames
    <3> QED BY <3>1
  <2>4. s.frames \in Seq(AllFrames)
    BY <2>2, <2>3
  <2> QED BY <2>1, <2>2, <2>4
<1>6. /\ r = [kind |-> r.kind, crash |-> r.crash, stacks |-> r.stacks]
      /\ r.crash \in BOOLEAN /\ (r.crash => Len(r.stacks) <= 1)
      /\ (r.kind = Inversion => ~r.crash /\ r.stacks = <<>>)
  BY <1>1 DEF IsPrinted
<1>7. Len(r.stacks) \in 0 .. 2
  <2>1. PICK n : n = Len(r.stacks)
    OBVIOUS
  <2>2. n <= 2
    BY <1>3, <2>1
  <2>3. n \in Nat
    BY <1>4, <2>1
  <2>4. n \in 0 .. 2
    BY <2>2, <2>3
  <2> QED BY <2>1, <2>4
<1>8. \A i \in 1 .. Len(r.stacks) : r.stacks[i].frames # <<>>
  BY <1>3, <1>4, Zenon
<1> QED BY <1>2, <1>4, <1>5, <1>6, <1>7, <1>8, Zenon

\* The frames of allocations and creations are frames.
LEMMA OthersFrames == Allocation \in Seq(AllFrames) /\ Creation \in Seq(AllFrames)
<1>1. {Allocation[i] : i \in DOMAIN Allocation} \subseteq AllFrames /\ {Creation[i] : i \in DOMAIN Creation} \subseteq AllFrames
  BY DEF AllFrames, Range
<1>2. Allocation \in Seq({Allocation[i] : i \in DOMAIN Allocation}) /\ Creation \in Seq({Creation[i] : i \in DOMAIN Creation})
  BY ParseAssumption
<1>3. Allocation \in Seq(AllFrames)
  BY <1>1, <1>2
<1>4. Creation \in Seq(AllFrames)
  BY <1>1, <1>2
<1> QED BY <1>3, <1>4

ThreadLine(i, name) == Line("thread", [tid |-> i, name |-> name])
\* The headers that are printed.
LEMMA HeaderLines ==
  /\ \A i \in 1 .. 2 : Line("access", i) \in Headers /\ Line("access", i).is = "access" /\ Line("access", i).of = i
  /\ \A i \in 1 .. 2 : \A n \in {"worker", "mutator"} : ThreadLine(i, n) \in Headers /\ ThreadLine(i, n).is = "thread"
  /\ Line("location", 0) \in Headers /\ Line("location", 0).is = "location"
  /\ Line("mutex", 1) \in Headers /\ Line("mutex", 1).is = "mutex"
  /\ NoHeaderLine \in Headers /\ NoHeaderLine.is = "none"
<1>1. \A is, of : Line(is, of).is = is /\ Line(is, of).of = of
  BY DEF Line
<1>2. \A i \in 1 .. 2 : Line("access", i) \in Headers /\ Line("access", i).is = "access" /\ Line("access", i).of = i
  <2>1. \A i \in 1 .. 2 : Line("access", i) \in Headers
    BY DEF Headers
  <2> QED BY <1>1, <2>1
<1>3. ASSUME NEW i \in 1 .. 2, NEW n \in {"worker", "mutator"} PROVE ThreadLine(i, n) \in Headers /\ ThreadLine(i, n).is = "thread"
  <2>1. PICK t \in [tid: 1 .. 2, name: {"worker", "mutator"}] : t = [tid |-> i, name |-> n]
    OBVIOUS
  <2>2. Line("thread", t) \in Headers
    BY DEF Headers
  <2> QED BY <1>1, <2>1, <2>2 DEF ThreadLine
<1>4. Line("location", 0) \in Headers /\ Line("mutex", 1) \in Headers /\ Line("none", "no header") \in Headers
  BY Zenon DEF Headers
<1>6. NoHeaderLine \in Headers /\ NoHeaderLine.is = "none"
  BY <1>1, <1>4, Zenon DEF NoHeaderLine
<1>7. Line("location", 0).is = "location" /\ Line("mutex", 1).is = "mutex"
  BY <1>1, Zenon
<1> QED BY <1>2, <1>3, <1>4, <1>6, <1>7, Zenon

AccessLines(r, i) ==
  IF i \in DOMAIN r.stacks THEN Under(Line("access", i), r.stacks[i].frames)
  ELSE <<Line("access", i), Line("text", "failed to restore the stack")>>
ThreadLines(r, i) == IF i \in DOMAIN r.stacks THEN Under(ThreadLine(i, r.stacks[i].thread), Creation) ELSE <<>>

AccessSec(r, i)  == Section(Line("access", i), IF i \in DOMAIN r.stacks THEN r.stacks[i].frames ELSE <<>>)
ThreadSecs(r, i) == IF i \in DOMAIN r.stacks THEN <<Section(ThreadLine(i, r.stacks[i].thread), Creation)>> ELSE <<>>

\* The sections of a report that is parsed whole.
Secs(r) ==
  IF r.kind = Inversion THEN <<Section(Line("mutex", 1), Allocation)>>
  ELSE IF r.crash THEN IF r.stacks = <<>> THEN <<>> ELSE <<Section(NoHeaderLine, r.stacks[1].frames)>>
  ELSE <<AccessSec(r, 1)>> \o <<AccessSec(r, 2)>> \o <<Section(Line("location", 0), Allocation)>>
       \o ThreadSecs(r, 1) \o ThreadSecs(r, 2)

\* Two lines, one after the other.
LEMMA TwoLines == ASSUME NEW a, NEW b PROVE <<a>> \o <<b>> = <<a, b>>
<1>1. PICK S : S = {a, b}
  OBVIOUS
<1>2. <<a>> \in Seq(S) /\ <<b>> \in Seq(S) /\ <<a, b>> \in Seq(S)
  BY <1>1
<1>3. PICK x \in Seq(S), y \in Seq(S), z \in Seq(S) : x = <<a>> /\ y = <<b>> /\ z = <<a, b>>
  BY <1>2, Zenon
<1>4. Len(x) = 1 /\ x[1] = a /\ Len(y) = 1 /\ y[1] = b /\ Len(z) = 2 /\ z[1] = a /\ z[2] = b
  BY <1>3
<1>5. /\ x \o y \in Seq(S) /\ Len(x \o y) = 2
      /\ \A i \in 1 .. 2 : (x \o y)[i] = IF i <= 1 THEN x[i] ELSE y[i - 1]
  BY <1>4, ConcatProperties
<1>6. \A i \in 1 .. 2 : (x \o y)[i] = z[i]
  BY <1>4, <1>5
<1>7. x \o y = z
  BY <1>4, <1>5, <1>6, SeqEqual
<1> QED BY <1>3, <1>7, Zenon

\* One section.
LEMMA SingleSection == ASSUME NEW h \in Headers, NEW fs \in Seq(AllFrames) PROVE <<Section(h, fs)>> \in Seq(Sections)
<1>1. PICK x \in Sections : x = Section(h, fs)
  BY DEF Sections, Section
<1>2. <<x>> \in Seq(Sections)
  OBVIOUS
<1> QED BY <1>1, <1>2

\* An access adds its section, with frames or without.
LEMMA AccessAdds ==
  ASSUME NEW r \in Printable, NEW i \in 1 .. 2
  PROVE  /\ AccessLines(r, i) \in Seq(AllLines) /\ <<AccessSec(r, i)>> \in Seq(Sections)
         /\ Adds(AccessLines(r, i), <<AccessSec(r, i)>>)
<1>1. PICK h \in Headers : h = Line("access", i) /\ h.is = "access"
  BY HeaderLines
<1>2. CASE i \in DOMAIN r.stacks
  <2>1. PICK fs \in Seq(AllFrames) : fs = r.stacks[i].frames
    BY <1>2, PrintedIs
  <2>2. AccessLines(r, i) = Under(h, fs) /\ AccessSec(r, i) = Section(h, fs)
    BY <1>1, <1>2, <2>1 DEF AccessLines, AccessSec
  <2>3. <<Section(h, fs)>> \in Seq(Sections)
    BY SingleSection
  <2> QED BY <1>1, <2>2, <2>3, UnderLines, AddsUnder
<1>3. CASE i \notin DOMAIN r.stacks
  <2>0. <<>> \in Seq(AllFrames) /\ <<>> \in Seq(Sections)
    OBVIOUS
  <2>1. PICK fs \in Seq(AllFrames), e \in Seq(Sections) : fs = <<>> /\ e = <<>>
    BY <2>0, Zenon
  <2>2. PICK x \in AllLines : x = Line("text", "failed to restore the stack")
    BY Zenon DEF AllLines
  <2>3. PICK b1 \in Seq(AllLines) : b1 = Under(h, fs)
    BY UnderLines
  <2>4. b1 = <<h>>
    <3>0. Len(fs) = 0
      BY <2>1
    <3>1. Len(b1) = 1 /\ b1[1] = h
      <4>1. Len(Under(h, fs)) = Len(fs) + 1 /\ Under(h, fs)[1] = h
        BY UnderLines
      <4> QED BY <2>3, <3>0, <4>1
    <3> QED BY <3>1
  <2>5. <<x>> \in Seq(AllLines)
    OBVIOUS
  <2>6. PICK b2 \in Seq(AllLines) : b2 = <<x>>
    BY <2>5, Zenon
  <2>7. AccessLines(r, i) = b1 \o b2
    <3>1. <<h>> \o <<x>> = <<h, x>>
      BY TwoLines
    <3> QED BY <1>1, <1>3, <2>2, <2>4, <2>6, <3>1 DEF AccessLines
  <2>8. PICK s \in Seq(Sections) : s = <<Section(h, fs)>>
    BY SingleSection
  <2>9. AccessSec(r, i) = Section(h, fs)
    BY <1>1, <1>3, <2>1 DEF AccessSec
  <2>10. Adds(b1, s)
    BY <1>1, <2>3, <2>8, AddsUnder
  <2>11. Adds(b2, e)
    BY <2>1, <2>2, <2>6, AddsText
  <2>12. s \o e = s
    BY <2>1, ConcatEmptySeq
  <2>13. Adds(b1 \o b2, s \o e) /\ b1 \o b2 \in Seq(AllLines)
    BY <2>10, <2>11, AddsBoth
  <2> QED BY <2>7, <2>8, <2>9, <2>12, <2>13
<1> QED BY <1>2, <1>3

\* A thread adds its section, if the access was printed.
LEMMA ThreadAdds ==
  ASSUME NEW r \in Printable, ~r.crash, NEW i \in 1 .. 2
  PROVE  /\ ThreadLines(r, i) \in Seq(AllLines) /\ ThreadSecs(r, i) \in Seq(Sections)
         /\ Adds(ThreadLines(r, i), ThreadSecs(r, i))
<1>1. CASE i \in DOMAIN r.stacks
  <2>0. r.stacks[i].thread \in {"worker", "mutator"}
    BY <1>1, PrintedIs
  <2>1. PICK h \in Headers : h = ThreadLine(i, r.stacks[i].thread) /\ h.is = "thread"
    BY <2>0, HeaderLines
  <2>2. ThreadLines(r, i) = Under(h, Creation) /\ ThreadSecs(r, i) = <<Section(h, Creation)>>
    BY <1>1, <2>1 DEF ThreadLines, ThreadSecs
  <2>3. PICK fs \in Seq(AllFrames) : fs = Creation
    BY OthersFrames
  <2>4. <<Section(h, fs)>> \in Seq(Sections)
    BY SingleSection
  <2> QED BY <2>1, <2>2, <2>3, <2>4, UnderLines, AddsUnder
<1>2. CASE i \notin DOMAIN r.stacks
  <2>1. ThreadLines(r, i) = <<>> /\ ThreadSecs(r, i) = <<>>
    BY <1>2 DEF ThreadLines, ThreadSecs
  <2>2. <<>> \in Seq(AllLines) /\ <<>> \in Seq(Sections)
    OBVIOUS
  <2> QED BY <2>1, <2>2, AddsNothing, Zenon
<1> QED BY <1>1, <1>2

\* From the start of a report, the lines b give it the sections s.
Gives(b, s) ==
  \A v \in Seq(Reports), a \in About :
    /\ Fed(Reading(v, a, <<>>), b, Len(b)) = Reading(v, a, s)
    /\ \A k \in 0 .. Len(b) : \E t \in Seq(Sections) : IsPart(t, s) /\ Fed(Reading(v, a, <<>>), b, k) = Reading(v, a, t)

\* What adds sections to any adds them to none.
LEMMA AddsGives == ASSUME NEW b, NEW s \in Seq(Sections), Adds(b, s) PROVE Gives(b, s)
<1>1. <<>> \in Seq(Sections)
  OBVIOUS
<1>2. PICK e \in Seq(Sections) : e = <<>>
  BY <1>1, Zenon
<1>3. \A t \in Seq(Sections) : e \o t = t
  BY <1>2, ConcatEmptySeq
<1>4. ASSUME NEW v \in Seq(Reports), NEW a \in About
      PROVE  /\ Fed(Reading(v, a, e), b, Len(b)) = Reading(v, a, s)
             /\ \A k \in 0 .. Len(b) : \E t \in Seq(Sections) : IsPart(t, s) /\ Fed(Reading(v, a, e), b, k) = Reading(v, a, t)
  <2>1. /\ Fed(Reading(v, a, e), b, Len(b)) = Reading(v, a, e \o s)
        /\ \A k \in 0 .. Len(b) : \E t \in Seq(Sections) : IsPart(t, s) /\ Fed(Reading(v, a, e), b, k) = Reading(v, a, e \o t)
    BY DEF Adds
  <2> QED BY <1>3, <2>1
<1> QED BY <1>2, <1>4 DEF Gives

Adding(b, s) == b \in Seq(AllLines) /\ s \in Seq(Sections) /\ Adds(b, s)

\* Lines that add sections, one after the other.
LEMMA AddsJoined == ASSUME NEW b1, NEW s1, NEW b2, NEW s2, Adding(b1, s1), Adding(b2, s2) PROVE Adding(b1 \o b2, s1 \o s2)
<1>1. b1 \in Seq(AllLines) /\ b2 \in Seq(AllLines) /\ s1 \in Seq(Sections) /\ s2 \in Seq(Sections)
      /\ Adds(b1, s1) /\ Adds(b2, s2)
  BY DEF Adding
<1>2. b1 \o b2 \in Seq(AllLines) /\ s1 \o s2 \in Seq(Sections)
  BY <1>1, ConcatProperties
<1>3. Adds(b1 \o b2, s1 \o s2)
  BY <1>1, AddsBoth
<1> QED BY <1>2, <1>3 DEF Adding

\* The stack of a crash has no header.
LEMMA BareGives ==
  ASSUME NEW fs \in Seq(AllFrames), fs # <<>>
  PROVE  Gives(FrameLines(fs), <<Section(NoHeaderLine, fs)>>)
<1> SUFFICES ASSUME NEW v \in Seq(Reports), NEW a \in About
             PROVE  /\ Fed(Reading(v, a, <<>>), FrameLines(fs), Len(FrameLines(fs))) = Reading(v, a, <<Section(NoHeaderLine, fs)>>)
                    /\ \A k \in 0 .. Len(FrameLines(fs)) : \E t \in Seq(Sections) :
                         IsPart(t, <<Section(NoHeaderLine, fs)>>) /\ Fed(Reading(v, a, <<>>), FrameLines(fs), k) = Reading(v, a, t)
  BY DEF Gives
<1>0. <<>> \in Seq(Sections)
  OBVIOUS
<1>1. PICK e \in Seq(Sections) : e = <<>>
  BY <1>0, Zenon
<1>2. PICK p \in Parsers : p = Reading(v, a, e)
  BY ReadingType
<1>3. PICK b \in Seq(AllLines) : b = FrameLines(fs)
  BY FrameLinesAre
<1>4. /\ Len(b) = Len(fs) /\ Len(fs) \in Nat /\ Len(fs) >= 1
      /\ \A i \in 1 .. Len(fs) : b[i] = Line("frame", fs[i]) /\ fs[i] \in AllFrames
  <2>1. Len(fs) \in Nat /\ Len(fs) # 0 /\ \A i \in 1 .. Len(fs) : fs[i] \in AllFrames
    OBVIOUS
  <2>2. Len(b) = Len(fs) /\ \A i \in 1 .. Len(fs) : b[i] = Line("frame", fs[i])
    BY <1>3, FrameLinesAre
  <2> QED BY <2>1, <2>2
<1>5. Fed(p, b, 0) = p /\ \A k \in 1 .. Len(b) : Fed(p, b, k) = Feed(Fed(p, b, k - 1), b[k])
  BY FedSteps
<1>6. PICK h \in Headers : h = NoHeaderLine
  BY HeaderLines
<1>7. Fed(p, b, 1) = Reading(v, a, Append(e, Section(h, SubSeq(fs, 1, 1))))
  <2>1. 1 \in 1 .. Len(b) /\ 1 - 1 = 0 /\ 1 \in 1 .. Len(fs)
    BY <1>4
  <2>2. PICK f \in AllFrames : f = fs[1]
    BY <1>4, <2>1
  <2>3. Fed(p, b, 1) = Feed(p, Line("frame", f))
    BY <1>4, <1>5, <2>1, <2>2
  <2>4. Feed(Reading(v, a, <<>>), Line("frame", f)) = Reading(v, a, Append(<<>>, Section(NoHeaderLine, <<f>>)))
    BY ReadBare
  <2>5. SubSeq(fs, 1, 1) = <<f>>
    <3>1. SubSeq(fs, 1, 1) \in Seq(AllFrames) /\ Len(SubSeq(fs, 1, 1)) = 1 /\ SubSeq(fs, 1, 1)[1] = f
      <4>1. 1 \in 0 .. Len(fs) /\ 1 \in 1 .. 1
        BY <1>4
      <4> QED BY <2>2, <4>1, Beginnings
    <3>2. PICK g \in Seq(AllFrames) : g = SubSeq(fs, 1, 1)
      BY <3>1
    <3>3. Len(g) = 1 /\ g[1] = f
      BY <3>1, <3>2
    <3>4. g = <<f>>
      BY <3>3
    <3> QED BY <3>2, <3>4
  <2> QED BY <1>1, <1>2, <1>6, <2>3, <2>4, <2>5, Zenon
<1>8. \A k \in 1 .. Len(b) : Fed(p, b, k) = Reading(v, a, Append(e, Section(h, SubSeq(fs, 1, k))))
  <2>1. PICK m \in 0 .. 1 : m = 0
    OBVIOUS
  <2>2. 1 - m = 1 /\ \A k \in 1 .. Len(b) : k - m = k
    BY <2>1
  <2>3. FramesRead(p, v, a, e, h, fs, b, m, 1)
    BY <1>7, <2>2 DEF FramesRead
  <2>4. FramesFollow(b, fs, m)
    BY <1>4, <2>1 DEF FramesFollow
  <2>5. \A k \in 1 .. Len(b) : FramesRead(p, v, a, e, h, fs, b, m, k)
    BY <2>3, <2>4, FramesAfter
  <2> QED BY <2>2, <2>5 DEF FramesRead
<1>9. ASSUME NEW k \in 1 .. Len(b)
      PROVE  \E t \in Seq(Sections) : /\ t = <<Section(h, SubSeq(fs, 1, k))>> /\ IsPart(t, <<Section(h, fs)>>)
                                      /\ Fed(p, b, k) = Reading(v, a, t)
  <2>1. PICK j \in 0 .. Len(fs) : j = k
    BY <1>4
  <2>2. PICK t \in Seq(Sections) : t = <<Section(h, SubSeq(fs, 1, j))>>
    BY OneSection
  <2>3. IsPart(t, <<Section(h, fs)>>) /\ e \o t = Append(e, Section(h, SubSeq(fs, 1, j)))
    BY <2>2, OneSection
  <2>4. e \o t = t
    BY <1>1, ConcatEmptySeq
  <2> QED BY <1>8, <2>1, <2>2, <2>3, <2>4
<1>10. Fed(p, b, Len(b)) = Reading(v, a, <<Section(h, fs)>>)
  <2>1. Len(b) \in 1 .. Len(b) /\ Len(b) = Len(fs)
    BY <1>4
  <2>2. SubSeq(fs, 1, Len(fs)) = fs
    <3>1. 0 \in 0 .. Len(fs)
      BY <1>4
    <3> QED BY <3>1, Beginnings
  <2> QED BY <1>9, <2>1, <2>2
<1>11. ASSUME NEW k \in 0 .. Len(b)
       PROVE  \E t \in Seq(Sections) : IsPart(t, <<Section(h, fs)>>) /\ Fed(p, b, k) = Reading(v, a, t)
  <2>1. CASE k = 0
    <3>1. IsPart(e, <<Section(h, fs)>>)
      BY <1>1 DEF IsPart
    <3> QED BY <1>2, <1>5, <2>1, <3>1
  <2>2. CASE k # 0
    <3>1. k \in 1 .. Len(b)
      BY <1>4, <2>2
    <3> QED BY <1>9, <3>1
  <2> QED BY <2>1, <2>2
<1> QED BY <1>1, <1>2, <1>3, <1>6, <1>10, <1>11

\* The three kinds of reports.
LEMMA BodyIs ==
  ASSUME NEW r
  PROVE  /\ r.kind = Inversion =>
              Body(r) = <<Line("text", "cycle in lock order graph")>> \o Under(Line("mutex", 1), Allocation)
         /\ r.kind # Inversion /\ r.crash => Body(r) = IF r.stacks = <<>> THEN <<>> ELSE FrameLines(r.stacks[1].frames)
         /\ r.kind # Inversion /\ ~r.crash =>
              Body(r) = AccessLines(r, 1) \o AccessLines(r, 2) \o Under(Line("location", 0), Allocation)
                        \o ThreadLines(r, 1) \o ThreadLines(r, 2)
  BY Zenon DEF Body, AccessLines, ThreadLines, ThreadLine

\* The body of a lock-order inversion.
LEMMA InversionAdds ==
  Adding(<<Line("text", "cycle in lock order graph")>> \o Under(Line("mutex", 1), Allocation), <<Section(Line("mutex", 1), Allocation)>>)
<1>1. PICK h \in Headers : h = Line("mutex", 1) /\ h.is = "mutex"
  BY HeaderLines
<1>2. PICK fs \in Seq(AllFrames) : fs = Allocation
  BY OthersFrames
<1>3. PICK x \in AllLines : x = Line("text", "cycle in lock order graph")
  BY Zenon DEF AllLines
<1>4. <<x>> \in Seq(AllLines) /\ <<>> \in Seq(Sections)
  OBVIOUS
<1>5. PICK b1 \in Seq(AllLines), e \in Seq(Sections) : b1 = <<x>> /\ e = <<>>
  BY <1>4, Zenon
<1>6. PICK b2 \in Seq(AllLines) : b2 = Under(h, fs)
  BY UnderLines
<1>7. PICK s \in Seq(Sections) : s = <<Section(h, fs)>>
  BY SingleSection
<1>8. Adding(b1, e)
  BY <1>3, <1>5, AddsText DEF Adding
<1>9. Adding(b2, s)
  BY <1>1, <1>6, <1>7, AddsUnder DEF Adding
<1>10. e \o s = s
  BY <1>5, ConcatEmptySeq
<1>11. Adding(b1 \o b2, s)
  BY <1>8, <1>9, <1>10, AddsJoined
<1> QED BY <1>1, <1>2, <1>3, <1>5, <1>6, <1>7, <1>11, Zenon

\* The body of a report has the sections Secs, wherever it is cut.
LEMMA BodyGives ==
  ASSUME NEW r \in Printable
  PROVE  Body(r) \in Seq(AllLines) /\ Secs(r) \in Seq(Sections) /\ Gives(Body(r), Secs(r))
<1>1. CASE r.kind = Inversion
  <2>1. /\ Body(r) = <<Line("text", "cycle in lock order graph")>> \o Under(Line("mutex", 1), Allocation)
        /\ Secs(r) = <<Section(Line("mutex", 1), Allocation)>>
    BY <1>1, BodyIs DEF Secs
  <2> QED BY <2>1, InversionAdds, AddsGives, Zenon DEF Adding
<1>2. CASE r.kind # Inversion /\ r.crash
  <2>1. CASE r.stacks = <<>>
    <3>1. Body(r) = <<>> /\ Secs(r) = <<>>
      BY <1>2, <2>1, BodyIs DEF Secs
    <3>2. <<>> \in Seq(AllLines) /\ <<>> \in Seq(Sections)
      OBVIOUS
    <3> QED BY <3>1, <3>2, AddsNothing, AddsGives, Zenon
  <2>2. CASE r.stacks # <<>>
    <3>1. Len(r.stacks) = 1
      BY <1>2, <2>2, PrintedIs
    <3>2. PICK fs \in Seq(AllFrames) : fs = r.stacks[1].frames /\ fs # <<>>
      <4>1. 1 \in 1 .. Len(r.stacks)
        BY <3>1
      <4> QED BY <4>1, PrintedIs
    <3>3. Body(r) = FrameLines(fs) /\ Secs(r) = <<Section(NoHeaderLine, fs)>>
      BY <1>2, <2>2, <3>2, BodyIs DEF Secs
    <3>4. FrameLines(fs) \in Seq(AllLines) /\ <<Section(NoHeaderLine, fs)>> \in Seq(Sections)
      BY FrameLinesAre, SingleSection, HeaderLines
    <3> QED BY <3>2, <3>3, <3>4, BareGives
  <2> QED BY <2>1, <2>2
<1>3. CASE r.kind # Inversion /\ ~r.crash
  <2>0. 1 \in 1 .. 2 /\ 2 \in 1 .. 2
    OBVIOUS
  <2>1. PICK a1, s1 : a1 = AccessLines(r, 1) /\ s1 = <<AccessSec(r, 1)>> /\ Adding(a1, s1)
    BY <2>0, AccessAdds, Zenon DEF Adding
  <2>2. PICK a2, s2 : a2 = AccessLines(r, 2) /\ s2 = <<AccessSec(r, 2)>> /\ Adding(a2, s2)
    BY <2>0, AccessAdds, Zenon DEF Adding
  <2>3. PICK a3, s3 : /\ a3 = Under(Line("location", 0), Allocation) /\ s3 = <<Section(Line("location", 0), Allocation)>>
                      /\ Adding(a3, s3)
    <3>1. PICK h \in Headers : h = Line("location", 0) /\ h.is = "location"
      BY HeaderLines
    <3>2. PICK fs \in Seq(AllFrames) : fs = Allocation
      BY OthersFrames
    <3>3. Adding(Under(h, fs), <<Section(h, fs)>>)
      BY <3>1, UnderLines, SingleSection, AddsUnder DEF Adding
    <3> QED BY <3>1, <3>2, <3>3
  <2>4. PICK a4, s4 : a4 = ThreadLines(r, 1) /\ s4 = ThreadSecs(r, 1) /\ Adding(a4, s4)
    BY <1>3, <2>0, ThreadAdds, Zenon DEF Adding
  <2>5. PICK a5, s5 : a5 = ThreadLines(r, 2) /\ s5 = ThreadSecs(r, 2) /\ Adding(a5, s5)
    BY <1>3, <2>0, ThreadAdds, Zenon DEF Adding
  <2>6. Body(r) = a1 \o a2 \o a3 \o a4 \o a5 /\ Secs(r) = s1 \o s2 \o s3 \o s4 \o s5
    BY <1>3, <2>1, <2>2, <2>3, <2>4, <2>5, BodyIs, Zenon DEF Secs
  <2>7. Adding(a1 \o a2, s1 \o s2)
    BY <2>1, <2>2, AddsJoined
  <2>8. Adding(a1 \o a2 \o a3, s1 \o s2 \o s3)
    BY <2>3, <2>7, AddsJoined
  <2>9. Adding(a1 \o a2 \o a3 \o a4, s1 \o s2 \o s3 \o s4)
    BY <2>4, <2>8, AddsJoined
  <2>10. Adding(Body(r), Secs(r))
    BY <2>5, <2>6, <2>9, AddsJoined
  <2> QED BY <2>10, AddsGives DEF Adding
<1> QED BY <1>1, <1>2, <1>3

-----------------------------------------------------------------------------
(* The lines of one report. *)

\* The first line of a report opens it, wherever the log was left.
LEMMA WarningFeeds ==
  ASSUME NEW p \in Parsers, NEW a \in About
  PROVE  Feed(p, Line("warning", a)) = Reading(View(p), a, <<>>)
<1>1. PICK l : l = Line("warning", a)
  OBVIOUS
<1>2. l.is = "warning" /\ l.of = a
  BY <1>1 DEF Line
<1>3. Reading(View(p), a, <<>>) = Inside(Append(View(p), Report(a, <<>>)), NoHeader, <<>>)
  BY ReadingNone
<1>4. ASSUME NEW rs \in Seq(Reports), p = Outside(rs)
      PROVE  Feed(p, l) = Inside(Append(View(p), Report(a, <<>>)), NoHeader, <<>>)
  <2>1. View(p) = rs
    BY <1>4, ViewIs
  <2> QED BY <1>2, <1>4, <2>1, OutsideFeeds
<1>5. ASSUME NEW rs \in Seq(Reports) \ {<<>>}, NEW h \in Headers \cup {NoHeader}, NEW fs \in Seq(AllFrames), p = Inside(rs, h, fs)
      PROVE  Feed(p, l) = Inside(Append(View(p), Report(a, <<>>)), NoHeader, <<>>)
  BY <1>2, <1>5, InsideFeeds
<1>6. Feed(p, l) = Inside(Append(View(p), Report(a, <<>>)), NoHeader, <<>>)
  BY <1>4, <1>5, ParsersAre
<1> QED BY <1>1, <1>3, <1>6

\* What ends a report shows nothing new.
Ends(l) == l \in AllLines /\ l.is \in {"summary", "separator"}

\* A summary or a separator ends a section and the report.
LEMMA EndFeeds ==
  ASSUME NEW p \in Parsers, NEW l, Ends(l)
  PROVE  View(Feed(p, l)) = View(p)
<1>1. l.is # "warning" /\ l.is \in {"summary", "separator"}
  BY DEF Ends
<1>2. ASSUME NEW rs \in Seq(Reports), p = Outside(rs) PROVE View(Feed(p, l)) = View(p)
  BY <1>1, <1>2, OutsideFeeds
<1>3. ASSUME NEW rs \in Seq(Reports) \ {<<>>}, NEW h \in Headers \cup {NoHeader}, NEW fs \in Seq(AllFrames), p = Inside(rs, h, fs)
      PROVE  View(Feed(p, l)) = View(p)
  <2>1. Feed(p, l) = Outside(View(p))
    BY <1>1, <1>3, InsideFeeds
  <2> QED BY <2>1, ViewIs
<1> QED BY <1>2, <1>3, ParsersAre

\* Summaries and separators are such lines.
LEMMA EndLines ==
  /\ Ends(Line("separator", 0))
  /\ \A k \in Kinds : Ends(Line("summary", k))
  /\ \A a \in About : Line("warning", a) \in AllLines
<1>1. \A is, of : Line(is, of).is = is
  BY DEF Line
<1>2. Line("separator", 0) \in AllLines
  BY Zenon DEF AllLines
<1>3. Ends(Line("separator", 0))
  BY <1>1, <1>2, Zenon DEF Ends
<1>4. ASSUME NEW k \in Kinds PROVE Ends(Line("summary", k))
  <2>1. Line("summary", k) \in AllLines
    BY Zenon DEF AllLines
  <2> QED BY <1>1, <2>1 DEF Ends
<1>5. ASSUME NEW a \in About PROVE Line("warning", a) \in AllLines
  BY Zenon DEF AllLines, About
<1> QED BY <1>3, <1>4, <1>5

\* The opening of a report, and what it says.
LEMMA OpeningIs ==
  ASSUME NEW r \in Printable
  PROVE  \E a \in About, o \in Seq(AllLines) :
           /\ a = [kind |-> r.kind, crash |-> r.crash] /\ o = Opening(r)
           /\ \/ Len(o) = 1 /\ o[1] = Line("warning", a)
              \/ Len(o) = 2 /\ Ends(o[1]) /\ o[2] = Line("warning", a)
<1>1. r.kind \in Kinds /\ r.crash \in BOOLEAN
  BY PrintedIs
<1>2. PICK a \in About : a = [kind |-> r.kind, crash |-> r.crash]
  <2>1. [kind |-> r.kind, crash |-> r.crash] \in About
    BY <1>1 DEF About
  <2> QED BY <2>1, Zenon
<1>3. PICK w \in AllLines : w = Line("warning", a)
  BY EndLines
<1>4. PICK s \in AllLines : s = Line("separator", 0) /\ Ends(s)
  BY EndLines, Zenon DEF Ends
<1>5. Opening(r) = IF r.crash THEN <<w>> ELSE <<s, w>>
  <2>1. CASE r.crash
    <3>1. r.crash = TRUE
      BY <1>1, <2>1, Zenon
    <3>2. [kind |-> r.kind, crash |-> TRUE] = a
      BY <1>2, <3>1, Zenon
    <3> QED BY <1>3, <2>1, <3>2, Zenon DEF Opening
  <2>2. CASE ~r.crash
    <3>1. r.crash = FALSE
      BY <1>1, <2>2, Zenon
    <3>2. [kind |-> r.kind, crash |-> FALSE] = a
      BY <1>2, <3>1, Zenon
    <3> QED BY <1>3, <1>4, <2>2, <3>2, Zenon DEF Opening
  <2> QED BY <2>1, <2>2, Zenon
<1>6. <<w>> \in Seq(AllLines) /\ Len(<<w>>) = 1 /\ <<w>>[1] = w
  OBVIOUS
<1>7. <<s, w>> \in Seq(AllLines) /\ Len(<<s, w>>) = 2 /\ <<s, w>>[1] = s /\ <<s, w>>[2] = w
  OBVIOUS
<1>8. PICK o \in Seq(AllLines) :
        /\ o = Opening(r)
        /\ \/ Len(o) = 1 /\ o[1] = w
           \/ Len(o) = 2 /\ Ends(o[1]) /\ o[2] = w
  BY <1>4, <1>5, <1>6, <1>7, Zenon
<1> QED BY <1>2, <1>3, <1>8

\* The reports before stand while a report opens; once it has, it is the last.
LEMMA OpeningFeeds ==
  ASSUME NEW p \in Parsers, NEW r \in Printable
  PROVE  \E a \in About, o \in Seq(AllLines) :
           /\ a = [kind |-> r.kind, crash |-> r.crash] /\ o = Opening(r) /\ Len(o) \in 1 .. 2
           /\ Fed(p, o, Len(o)) = Reading(View(p), a, <<>>)
           /\ \A k \in 0 .. Len(o) : k < Len(o) => View(Fed(p, o, k)) = View(p)
<1>1. PICK a \in About, o \in Seq(AllLines) :
        /\ a = [kind |-> r.kind, crash |-> r.crash] /\ o = Opening(r)
        /\ \/ Len(o) = 1 /\ o[1] = Line("warning", a)
           \/ Len(o) = 2 /\ Ends(o[1]) /\ o[2] = Line("warning", a)
  BY OpeningIs
<1>2. /\ Fed(p, o, 0) = p /\ \A k \in 1 .. Len(o) : Fed(p, o, k) = Feed(Fed(p, o, k - 1), o[k])
      /\ \A k \in 0 .. Len(o) : Fed(p, o, k) \in Parsers
  BY FedSteps
<1>3. CASE Len(o) = 1 /\ o[1] = Line("warning", a)
  <2>1. Fed(p, o, 1) = Reading(View(p), a, <<>>)
    <3>1. 1 \in 1 .. Len(o) /\ 1 - 1 = 0
      BY <1>3
    <3> QED BY <1>2, <1>3, <3>1, WarningFeeds
  <2>2. ASSUME NEW k \in 0 .. Len(o), k < Len(o) PROVE View(Fed(p, o, k)) = View(p)
    <3>1. k = 0
      BY <1>3, <2>2
    <3> QED BY <1>2, <3>1
  <2>3. Len(o) \in 1 .. 2
    BY <1>3
  <2> QED BY <1>1, <1>3, <2>1, <2>2, <2>3
<1>4. CASE Len(o) = 2 /\ Ends(o[1]) /\ o[2] = Line("warning", a)
  <2>0. 1 \in 1 .. Len(o) /\ 1 - 1 = 0 /\ 2 \in 1 .. Len(o) /\ 2 - 1 = 1 /\ 1 \in 0 .. Len(o)
    BY <1>4
  <2>1. PICK q \in Parsers : q = Fed(p, o, 1)
    BY <1>2, <2>0
  <2>2. q = Feed(p, o[1])
    BY <1>2, <2>0, <2>1
  <2>3. View(q) = View(p)
    BY <1>4, <2>2, EndFeeds
  <2>4. Fed(p, o, 2) = Feed(q, Line("warning", a))
    BY <1>2, <1>4, <2>0, <2>1
  <2>5. Fed(p, o, 2) = Reading(View(p), a, <<>>)
    BY <2>3, <2>4, WarningFeeds
  <2>6. ASSUME NEW k \in 0 .. Len(o), k < Len(o) PROVE View(Fed(p, o, k)) = View(p)
    <3>1. k = 0 \/ k = 1
      BY <1>4, <2>6
    <3> QED BY <1>2, <2>1, <2>3, <3>1
  <2>7. Len(o) \in 1 .. 2
    BY <1>4
  <2> QED BY <1>1, <1>4, <2>5, <2>6, <2>7
<1> QED BY <1>1, <1>3, <1>4

\* After the lines c of r, cut anywhere: r is the last of the reports, with a
\* part of its sections, or it was not opened and they are what they were.
ShowsLast(p, r, c) ==
  /\ Len(Opening(r)) <= Len(c)
  /\ \A k \in 0 .. Len(c) : k < Len(Opening(r)) => View(Fed(p, c, k)) = View(p)
  /\ \A k \in 0 .. Len(c) : k >= Len(Opening(r)) =>
       \E t \in Seq(Sections) : IsPart(t, Secs(r)) /\ View(Fed(p, c, k)) = Append(View(p), Report(r, t))
  /\ View(Fed(p, c, Len(c))) = Append(View(p), Report(r, Secs(r)))

\* After the opening and the body.
LEMMA BodyShows ==
  ASSUME NEW p \in Parsers, NEW r \in Printable
  PROVE  Opening(r) \o Body(r) \in Seq(AllLines) /\ ShowsLast(p, r, Opening(r) \o Body(r))
<1>1. PICK a \in About, o \in Seq(AllLines) :
        /\ a = [kind |-> r.kind, crash |-> r.crash] /\ o = Opening(r) /\ Len(o) \in 1 .. 2
        /\ Fed(p, o, Len(o)) = Reading(View(p), a, <<>>)
        /\ \A k \in 0 .. Len(o) : k < Len(o) => View(Fed(p, o, k)) = View(p)
  BY OpeningFeeds
<1>2. PICK b \in Seq(AllLines), s \in Seq(Sections) : b = Body(r) /\ s = Secs(r) /\ Gives(b, s)
  BY BodyGives
<1>3. PICK v \in Seq(Reports) : v = View(p)
  BY ViewType
<1>4. \A t : Report(a, t) = Report(r, t)
  BY <1>1 DEF Report
<1>5. PICK q : q = Reading(v, a, <<>>)
  OBVIOUS
<1>6. /\ Fed(q, b, Len(b)) = Reading(v, a, s)
      /\ \A k \in 0 .. Len(b) : \E t \in Seq(Sections) : IsPart(t, s) /\ Fed(q, b, k) = Reading(v, a, t)
  BY <1>2, <1>5 DEF Gives
<1>7. \A t \in Seq(Sections) : View(Reading(v, a, t)) = Append(v, Report(r, t))
  BY <1>4, ReadingShows
<1>8. PICK c : c = o \o b
  OBVIOUS
<1>9. c \in Seq(AllLines) /\ Len(c) = Len(o) + Len(b) /\ Len(o) \in Nat /\ Len(b) \in Nat
  BY <1>8, ConcatProperties
<1>10. /\ \A k \in 0 .. Len(o) : Fed(p, c, k) = Fed(p, o, k)
       /\ \A k \in 0 .. Len(b) : Fed(p, c, Len(o) + k) = Fed(q, b, k)
  <2>1. Fed(p, o, Len(o)) = q
    BY <1>1, <1>3, <1>5
  <2>2. /\ \A k \in 0 .. Len(o) : Fed(p, o \o b, k) = Fed(p, o, k)
        /\ \A k \in 0 .. Len(b) : Fed(p, o \o b, Len(o) + k) = Fed(Fed(p, o, Len(o)), b, k)
    BY FedConcat
  <2> QED BY <1>8, <2>1, <2>2
<1>11. ASSUME NEW k \in 0 .. Len(c), k < Len(o) PROVE View(Fed(p, c, k)) = v
  <2>1. k \in 0 .. Len(o)
    BY <1>9, <1>11
  <2> QED BY <1>1, <1>3, <1>10, <1>11, <2>1
<1>12. ASSUME NEW k \in 0 .. Len(c), k >= Len(o)
       PROVE  \E t \in Seq(Sections) : IsPart(t, s) /\ View(Fed(p, c, k)) = Append(v, Report(r, t))
  <2>1. k - Len(o) \in 0 .. Len(b) /\ Len(o) + (k - Len(o)) = k
    BY <1>9, <1>12
  <2>2. PICK t \in Seq(Sections) : IsPart(t, s) /\ Fed(q, b, k - Len(o)) = Reading(v, a, t)
    BY <1>6, <2>1
  <2> QED BY <1>7, <1>10, <2>1, <2>2
<1>13. View(Fed(p, c, Len(c))) = Append(v, Report(r, s))
  <2>1. Len(b) \in 0 .. Len(b)
    BY <1>9
  <2> QED BY <1>6, <1>7, <1>9, <1>10, <2>1
<1>14. Len(o) <= Len(c)
  BY <1>9
<1>15. ShowsLast(p, r, c)
  BY <1>1, <1>2, <1>3, <1>11, <1>12, <1>13, <1>14 DEF ShowsLast
<1> QED BY <1>1, <1>2, <1>8, <1>9, <1>15

\* A line that ends it, at most, after the others.
Ending(b) == b \in Seq(AllLines) /\ (b = <<>> \/ (Len(b) = 1 /\ Ends(b[1])))

\* The last lines of a report change nothing of what is parsed.
LEMMA EndingShows ==
  ASSUME NEW p \in Parsers, NEW r \in Printable, NEW c \in Seq(AllLines), NEW b, Ending(b), ShowsLast(p, r, c)
  PROVE  c \o b \in Seq(AllLines) /\ ShowsLast(p, r, c \o b)
<1>1. CASE b = <<>>
  BY <1>1, ConcatEmptySeq
<1>2. CASE Len(b) = 1 /\ Ends(b[1])
  <2>0. b \in Seq(AllLines)
    BY DEF Ending
  <2>1. PICK d : d = c \o b
    OBVIOUS
  <2>2. d \in Seq(AllLines) /\ Len(d) = Len(c) + 1 /\ Len(c) \in Nat
    <3>1. c \o b \in Seq(AllLines) /\ Len(c \o b) = Len(c) + Len(b)
      BY <2>0, ConcatProperties
    <3> QED BY <1>2, <2>1, <3>1
  <2>3. PICK q \in Parsers : q = Fed(p, c, Len(c))
    <3>1. Len(c) \in 0 .. Len(c)
      BY <2>2
    <3> QED BY <3>1, FedSteps
  <2>4. /\ \A k \in 0 .. Len(c) : Fed(p, d, k) = Fed(p, c, k)
        /\ \A k \in 0 .. Len(b) : Fed(p, d, Len(c) + k) = Fed(q, b, k)
    BY <2>0, <2>1, <2>3, FedConcat
  <2>5. Fed(q, b, 1) = Feed(q, b[1])
    <3>1. 1 \in 1 .. Len(b) /\ 1 - 1 = 0
      BY <1>2
    <3>2. Fed(q, b, 0) = q /\ \A k \in 1 .. Len(b) : Fed(q, b, k) = Feed(Fed(q, b, k - 1), b[k])
      BY <2>0, FedSteps
    <3> QED BY <3>1, <3>2
  <2>6. View(Fed(p, d, Len(d))) = View(q)
    <3>1. 1 \in 0 .. Len(b)
      BY <1>2
    <3>2. Fed(p, d, Len(d)) = Feed(q, b[1])
      BY <2>2, <2>4, <2>5, <3>1
    <3> QED BY <1>2, <3>2, EndFeeds
  <2>7. PICK s \in Seq(Sections), n \in Nat : s = Secs(r) /\ n = Len(Opening(r))
    <3>1. Len(Opening(r)) \in Nat
      BY OpeningIs
    <3> QED BY <3>1, BodyGives
  <2>8. /\ n <= Len(c)
        /\ \A k \in 0 .. Len(c) : k < n => View(Fed(p, c, k)) = View(p)
        /\ \A k \in 0 .. Len(c) : k >= n =>
             \E t \in Seq(Sections) : IsPart(t, s) /\ View(Fed(p, c, k)) = Append(View(p), Report(r, t))
        /\ View(q) = Append(View(p), Report(r, s))
    BY <2>3, <2>7 DEF ShowsLast
  <2>9. \A k \in 0 .. Len(d) : k \in 0 .. Len(c) \/ (k = Len(d) /\ ~ (k < n))
    BY <2>2, <2>8
  <2>10. \A k \in 0 .. Len(d) : k < n => View(Fed(p, d, k)) = View(p)
    BY <2>4, <2>8, <2>9
  <2>11. ASSUME NEW k \in 0 .. Len(d), k >= n
         PROVE  \E t \in Seq(Sections) : IsPart(t, s) /\ View(Fed(p, d, k)) = Append(View(p), Report(r, t))
    <3>1. CASE k \in 0 .. Len(c)
      BY <2>4, <2>8, <2>11, <3>1
    <3>2. CASE k = Len(d)
      BY <2>6, <2>8, <3>2, WholeIsPart
    <3> QED BY <2>9, <3>1, <3>2
  <2>12. n <= Len(d)
    BY <2>2, <2>8
  <2>13. ShowsLast(p, r, d)
    BY <2>6, <2>7, <2>8, <2>10, <2>11, <2>12 DEF ShowsLast
  <2> QED BY <2>1, <2>2, <2>13
<1> QED BY <1>1, <1>2 DEF Ending

\* All the lines of a report, cut anywhere.
LEMMA LinesShow ==
  ASSUME NEW p \in Parsers, NEW r \in Printable
  PROVE  Lines(r) \in Seq(AllLines) /\ ShowsLast(p, r, Lines(r))
<1>1. PICK c \in Seq(AllLines) : c = Opening(r) \o Body(r) /\ ShowsLast(p, r, c)
  BY BodyShows
<1>2. Ending(<<Line("summary", r.kind)>>)
  <2>1. PICK l : l = Line("summary", r.kind) /\ Ends(l) /\ l \in AllLines
    BY PrintedIs, EndLines DEF Ends
  <2>2. <<l>> \in Seq(AllLines) /\ Len(<<l>>) = 1 /\ <<l>>[1] = l
    BY <2>1
  <2>3. Ending(<<l>>)
    BY <2>1, <2>2, Zenon DEF Ending
  <2> QED BY <2>1, <2>3
<1>3. Ending(<<Line("separator", 0)>>)
  <2>1. PICK l : l = Line("separator", 0) /\ Ends(l) /\ l \in AllLines
    BY EndLines, Zenon DEF Ends
  <2>2. <<l>> \in Seq(AllLines) /\ Len(<<l>>) = 1 /\ <<l>>[1] = l
    BY <2>1
  <2>3. Ending(<<l>>)
    BY <2>1, <2>2, Zenon DEF Ending
  <2> QED BY <2>1, <2>3
<1>4. Ending(<<>>)
  <2>1. <<>> \in Seq(AllLines)
    OBVIOUS
  <2> QED BY <2>1, Zenon DEF Ending
<1>5. PICK e : e = (IF r.crash THEN <<>> ELSE <<Line("separator", 0)>>) /\ Ending(e)
  BY <1>3, <1>4, Zenon
<1>6. PICK s : s = <<Line("summary", r.kind)>> /\ Ending(s)
  BY <1>2
<1>7. Lines(r) = c \o s \o e
  BY <1>1, <1>5, <1>6, Zenon DEF Lines
<1>8. PICK d \in Seq(AllLines) : d = c \o s /\ ShowsLast(p, r, d)
  BY <1>1, <1>6, EndingShows
<1> QED BY <1>5, <1>7, <1>8, EndingShows

-----------------------------------------------------------------------------
(* access_stacks: the fold of KeepAccess, section by section. *)

KeptFcn(s) == CHOOSE g : g = [t \in SUBSET DOMAIN s |->
                IF t = {} THEN <<>> ELSE KeepAccess(g[t \ {Max(t)}], s[Max(t)])]

\* AccessStacks is this function, over all the sections.
LEMMA KeptIsFcn == ASSUME NEW s PROVE AccessStacks(s) = KeptFcn(s)[DOMAIN s]
  BY DEF AccessStacks, FoldLeft, MapThenFoldSet, KeptFcn

\* The function unfolds section by section.
LEMMA KeptUnfolds ==
  ASSUME NEW s \in Seq(Sections), NEW t \in SUBSET DOMAIN s
  PROVE  KeptFcn(s)[t] = IF t = {} THEN <<>> ELSE KeepAccess(KeptFcn(s)[t \ {Max(t)}], s[Max(t)])
<1> DEFINE A == Seq(Sections)
           D == DOMAIN s
           F == [x \in A \X Sections |-> KeepAccess(x[1], x[2])]
           Val(g, u) == IF u = {} THEN <<>> ELSE KeepAccess(g[u \ {Max(u)}], s[Max(u)])
           f == KeptFcn(s)
<1>1. F \in [A \X Sections -> A] /\ <<>> \in A /\ s \in A
  <2>1. \A m \in A, e \in Sections : KeepAccess(m, e) \in A
    BY DEF KeepAccess
  <2>2. \A x \in A \X Sections : KeepAccess(x[1], x[2]) \in A
    BY <2>1
  <2> QED BY <2>2
<1>2. \A m \in A, e \in Sections : F[<<m, e>>] = KeepAccess(m, e)
  OBVIOUS
<1>3. \A u \in SUBSET D : u # {} => Max(u) \in D /\ s[Max(u)] \in Sections
  <2>1. D = 1 .. Len(s) /\ Len(s) \in Nat /\ \A i \in D : s[i] \in Sections
    OBVIOUS
  <2> QED BY <2>1, LargestIsIn
<1> HIDE DEF F, A, D
<1>4. PICK g \in [SUBSET D -> A] : IsSeqFold(g, s, <<>>, F)
  BY <1>1, SeqFoldSolves, Zenon DEF A, D
<1>5. ASSUME NEW u \in SUBSET D PROVE g[u] = Val(g, u)
  <2>1. g[u] = IF u = {} THEN <<>> ELSE F[<<g[u \ {Max(u)}], s[Max(u)]>>]
    BY <1>4 DEF IsSeqFold, D
  <2>2. u # {} => g[u \ {Max(u)}] \in A /\ s[Max(u)] \in Sections
    BY <1>3
  <2> QED BY <2>1, <2>2, <1>2
<1>6. g = [u \in SUBSET D |-> Val(g, u)]
  BY <1>5
<1>7. f = CHOOSE h : h = [u \in SUBSET D |-> Val(h, u)]
  BY DEF KeptFcn, D
<1> HIDE DEF f
<1>8. f = [u \in SUBSET D |-> Val(f, u)]
  BY <1>6, <1>7
<1>9. f[t] = Val(f, t)
  <2>1. t \in SUBSET D
    BY DEF D
  <2> QED BY <1>8, <2>1
<1> QED BY <1>9 DEF f

\* Of sections that are accesses with frames, and then others, the first are kept.
Kept(x) == IsAccess(x) /\ x.frames # <<>>

\* If the accesses with frames come first, they are kept.
LEMMA KeptAre ==
  ASSUME NEW s \in Seq(Sections), NEW m \in 0 .. Len(s),
         \A i \in 1 .. Len(s) : Kept(s[i]) <=> i <= m
  PROVE  AccessStacks(s) = SubSeq(s, 1, m)
<1> DEFINE f == KeptFcn(s)
           Till(n) == IF n <= m THEN n ELSE m
           P == {n \in Nat : n <= Len(s) => f[1 .. n] = SubSeq(s, 1, Till(n))}
<1>0. Len(s) \in Nat /\ DOMAIN s = 1 .. Len(s) /\ m \in Nat /\ m <= Len(s)
  OBVIOUS
<1>1. \A t \in SUBSET (1 .. Len(s)) : f[t] = IF t = {} THEN <<>> ELSE KeepAccess(f[t \ {Max(t)}], s[Max(t)])
  BY <1>0, KeptUnfolds
<1> HIDE DEF f
<1>2. 0 \in P
  <2>1. 1 .. 0 = {} /\ {} \in SUBSET (1 .. Len(s)) /\ Till(0) = 0
    BY <1>0
  <2>2. SubSeq(s, 1, 0) = <<>>
    BY Beginnings
  <2>3. f[1 .. 0] = <<>>
    BY <1>1, <2>1
  <2> QED BY <2>1, <2>2, <2>3
<1>3. ASSUME NEW n \in P PROVE n + 1 \in P
  <2> SUFFICES ASSUME n + 1 <= Len(s) PROVE f[1 .. n + 1] = SubSeq(s, 1, Till(n + 1))
    OBVIOUS
  <2>1. n + 1 \in 1 .. Len(s) /\ n \in Nat /\ n + 1 # 0 /\ (n + 1) - 1 = n
    BY <1>0
  <2>2. f[1 .. n] = SubSeq(s, 1, Till(n))
    BY <2>1
  <2>3. f[1 .. n + 1] = KeepAccess(f[1 .. n], s[n + 1])
    <3>1. 1 .. n + 1 \in SUBSET (1 .. Len(s)) /\ 1 .. n + 1 # {}
      <4>1. \A i \in 1 .. n + 1 : i \in 1 .. Len(s)
        BY <1>0, <2>1
      <4>2. n + 1 \in 1 .. n + 1
        BY <2>1
      <4> QED BY <4>1, <4>2
    <3>2. n + 1 \in Nat
      BY <2>1
    <3>3. Max(1 .. n + 1) = n + 1 /\ (1 .. n + 1) \ {n + 1} = 1 .. (n + 1) - 1
      BY <2>1, <3>2, LargestOfPrefix
    <3>4. f[1 .. n + 1] = KeepAccess(f[(1 .. n + 1) \ {Max(1 .. n + 1)}], s[Max(1 .. n + 1)])
      BY <1>1, <3>1
    <3> QED BY <2>1, <3>3, <3>4
  <2>4. CASE n + 1 <= m
    <3>1. Till(n) = n /\ Till(n + 1) = n + 1 /\ n \in 0 .. Len(s)
      BY <2>1, <2>4, <1>0
    <3>2. SubSeq(s, 1, n + 1) = Append(SubSeq(s, 1, n), s[n + 1])
      BY <3>1, Beginnings
    <3>3. Kept(s[n + 1])
      BY <2>1, <2>4
    <3> QED BY <2>2, <2>3, <3>1, <3>2, <3>3 DEF KeepAccess, Kept
  <2>5. CASE ~ (n + 1 <= m)
    <3>1. Till(n + 1) = m /\ Till(n) = m
      BY <2>1, <2>5, <1>0
    <3>2. ~ Kept(s[n + 1])
      BY <2>1, <2>5
    <3> QED BY <2>2, <2>3, <3>1, <3>2 DEF KeepAccess, Kept
  <2> QED BY <2>4, <2>5
<1> HIDE DEF P
<1>4. P = Nat
  <2>1. P \in SUBSET Nat
    BY DEF P
  <2> QED BY <1>2, <1>3, <2>1, NatInd
<1>5. f[1 .. Len(s)] = SubSeq(s, 1, Till(Len(s))) /\ Till(Len(s)) = m
  <2>1. Len(s) \in P /\ Len(s) <= Len(s)
    BY <1>0, <1>4
  <2>2. Till(Len(s)) = m
    <3>1. PICK n \in Nat : n = Len(s)
      BY <1>0
    <3>2. n <= m => n = m
      <4>1. m <= n
        BY <1>0, <3>1
      <4>2. m \in Int /\ n \in Int
        BY <1>0
      <4> QED BY <4>1, <4>2
    <3>3. Till(n) = m
      BY <3>2
    <3> QED BY <3>1, <3>3
  <2> QED BY <2>1, <2>2 DEF P
<1> QED BY <1>0, <1>5, KeptIsFcn DEF f

\* What is parsed of a report with these sections.
LEMMA ParsedIs ==
  ASSUME NEW r, NEW t \in Seq(Sections), NEW m \in 0 .. Len(t), \A i \in 1 .. Len(t) : Kept(t[i]) <=> i <= m
  PROVE  Parsed(Report(r, t)) =
           [kind |-> r.kind, crash |-> r.crash,
            stacks |-> [i \in 1 .. m |-> [thread |-> ThreadOf(t[i], t), frames |-> t[i].frames]]]
<1>1. PICK s : s = AccessStacks(t)
  OBVIOUS
<1>2. s = SubSeq(t, 1, m)
  BY <1>1, KeptAre
<1>3. s \in Seq(Sections) /\ Len(s) = m /\ \A i \in 1 .. m : s[i] = t[i]
  BY <1>2, Beginnings
<1>4. DOMAIN s = 1 .. m
  BY <1>3
<1>5. [i \in DOMAIN s |-> [thread |-> ThreadOf(s[i], t), frames |-> s[i].frames]]
        = [i \in 1 .. m |-> [thread |-> ThreadOf(t[i], t), frames |-> t[i].frames]]
  BY <1>3, <1>4
<1>6. /\ Report(r, t).kind = r.kind /\ Report(r, t).crash = r.crash /\ Report(r, t).sections = t
  BY DEF Report
<1>7. Parsed(Report(r, t)) =
        [kind |-> r.kind, crash |-> r.crash,
         stacks |-> [i \in DOMAIN s |-> [thread |-> ThreadOf(s[i], t), frames |-> s[i].frames]]]
  BY <1>1, <1>6, Zenon DEF Parsed
<1> QED BY <1>5, <1>7

-----------------------------------------------------------------------------
(* The sections of a report, and what is parsed of a part of them. *)

Longer(c, s, x) == Len(c) = Len(s) + 1 /\ c[Len(s) + 1] = x /\ \A i \in 1 .. Len(s) : c[i] = s[i]

\* A section more, element by element.
LEMMA Added ==
  ASSUME NEW ss \in Seq(Sections), NEW x \in Sections
  PROVE  \E c \in Seq(Sections) : c = ss \o <<x>> /\ Longer(c, ss, x)
<1>1. PICK c : c = Append(ss, x)
  OBVIOUS
<1>2. c = ss \o <<x>>
  BY <1>1, AppendIsConcat
<1>3. c \in Seq(Sections) /\ Longer(c, ss, x)
  BY <1>1, AppendProperties DEF Longer
<1> QED BY <1>2, <1>3

\* The accesses come first, in order; the threads are named at the end.
Shape(r, s) ==
  LET n == Len(r.stacks) IN
  /\ n <= Len(s) /\ Len(s) <= 3 + n
  /\ \A i \in 1 .. n : Kept(s[i]) /\ s[i].frames = r.stacks[i].frames
  /\ \A i \in 1 .. Len(s) : i > n => ~IsAccess(s[i]) \/ s[i].frames = <<>>
  /\ \A i \in 1 .. n : IF r.crash THEN s[i].header.is # "access" ELSE s[i].header = Line("access", i)
  /\ ~r.crash => \A i \in 1 .. n : 3 + i <= Len(s) /\ s[3 + i].header = ThreadLine(i, r.stacks[i].thread)
  /\ ~r.crash => \A j \in 1 .. Len(s) : s[j].header.is = "thread" => j - 3 \in 1 .. n

\* The fields of a section.
LEMMA SectionIs == \A h, fs : Section(h, fs).header = h /\ Section(h, fs).frames = fs
  BY DEF Section

\* A lock-order inversion has no access.
LEMMA InversionShape ==
  ASSUME NEW r \in Printable, r.kind = Inversion
  PROVE  Shape(r, Secs(r))
<1>1. ~r.crash /\ Len(r.stacks) = 0
  BY PrintedIs
<1>2. PICK h \in Headers : h = Line("mutex", 1) /\ h.is = "mutex"
  BY HeaderLines
<1>3. PICK x : x = Section(h, Allocation)
  OBVIOUS
<1>4. Secs(r) = <<x>>
  BY <1>2, <1>3 DEF Secs
<1>5. PICK s : s = <<x>>
  OBVIOUS
<1>6. Len(s) = 1 /\ s[1] = x
  BY <1>5
<1>7. x.header = h /\ ~IsAccess(x) /\ x.header.is # "thread"
  BY <1>2, <1>3, SectionIs DEF IsAccess
<1>8. Shape(r, s)
  BY <1>1, <1>6, <1>7 DEF Shape
<1> QED BY <1>4, <1>5, <1>8

\* A crash has one stack, or none, without a header.
LEMMA CrashShape ==
  ASSUME NEW r \in Printable, r.crash
  PROVE  Shape(r, Secs(r))
<1>0. r.kind # Inversion /\ Len(r.stacks) \in 0 .. 1 /\ (r.stacks = <<>> <=> Len(r.stacks) = 0)
  BY PrintedIs
<1>1. CASE r.stacks = <<>>
  <2>1. PICK s : s = <<>>
    OBVIOUS
  <2>2. Len(s) = 0 /\ Secs(r) = s /\ Len(r.stacks) = 0
    BY <1>0, <1>1, <2>1 DEF Secs
  <2>3. Shape(r, s)
    BY <2>2 DEF Shape
  <2> QED BY <2>2, <2>3
<1>2. CASE r.stacks # <<>>
  <2>1. Len(r.stacks) = 1
    BY <1>0, <1>2
  <2>2. PICK fs \in Seq(AllFrames) : fs = r.stacks[1].frames /\ fs # <<>>
    <3>1. 1 \in 1 .. Len(r.stacks)
      BY <2>1
    <3> QED BY <3>1, PrintedIs
  <2>3. PICK h \in Headers : h = NoHeaderLine /\ h.is = "none"
    BY HeaderLines
  <2>4. PICK x : x = Section(h, fs)
    OBVIOUS
  <2>5. PICK s : s = <<x>>
    OBVIOUS
  <2>6. Len(s) = 1 /\ s[1] = x /\ Secs(r) = s
    BY <1>0, <1>2, <2>2, <2>3, <2>4, <2>5 DEF Secs
  <2>7. x.header.is = "none" /\ x.frames = fs
    BY <2>3, <2>4, SectionIs
  <2>8. Kept(x) /\ x.header.is # "access"
    BY <2>2, <2>7 DEF Kept, IsAccess
  <2>9. Shape(r, s)
    BY <2>1, <2>2, <2>6, <2>7, <2>8 DEF Shape
  <2> QED BY <2>6, <2>9
<1> QED BY <1>1, <1>2

\* The sections of a race, one by one.
LEMMA RaceSections ==
  ASSUME NEW r \in Printable, r.kind # Inversion, ~r.crash
  PROVE  \E s \in Seq(Sections) :
           /\ s = Secs(r) /\ Len(s) = 3 + Len(r.stacks)
           /\ s[1] = AccessSec(r, 1) /\ s[2] = AccessSec(r, 2) /\ s[3] = Section(Line("location", 0), Allocation)
           /\ \A i \in 1 .. Len(r.stacks) : s[3 + i] = Section(ThreadLine(i, r.stacks[i].thread), Creation)
<1>0. Len(r.stacks) \in 0 .. 2 /\ DOMAIN r.stacks = 1 .. Len(r.stacks)
  BY PrintedIs
<1>1. PICK x1 \in Sections, x2 \in Sections, x3 \in Sections :
        x1 = AccessSec(r, 1) /\ x2 = AccessSec(r, 2) /\ x3 = Section(Line("location", 0), Allocation)
  <2>1. <<AccessSec(r, 1)>> \in Seq(Sections) /\ <<AccessSec(r, 2)>> \in Seq(Sections)
    <3>1. 1 \in 1 .. 2 /\ 2 \in 1 .. 2
      OBVIOUS
    <3> QED BY <3>1, AccessAdds, Zenon
  <2>2. \A x : <<x>> \in Seq(Sections) => x \in Sections
    OBVIOUS
  <2>3. Section(Line("location", 0), Allocation) \in Sections
    BY HeaderLines, OthersFrames DEF Section, Sections
  <2> QED BY <2>1, <2>2, <2>3, Zenon
<1>2. <<x1>> \in Seq(Sections) /\ Len(<<x1>>) = 1 /\ <<x1>>[1] = x1
  OBVIOUS
<1>3. PICK c1 \in Seq(Sections) : c1 = <<x1>> /\ Len(c1) = 1 /\ c1[1] = x1
  BY <1>2, Zenon
<1>4. PICK c2 \in Seq(Sections) : c2 = c1 \o <<x2>> /\ Longer(c2, c1, x2)
  BY Added, Zenon
<1>5. PICK c3 \in Seq(Sections) : c3 = c2 \o <<x3>> /\ Longer(c3, c2, x3)
  BY Added, Zenon
<1>c. Len(c3) = 3 /\ c3[1] = x1 /\ c3[2] = x2 /\ c3[3] = x3
  <2>1. Len(c2) = 2 /\ c2[1] = x1 /\ c2[2] = x2
    BY <1>3, <1>4 DEF Longer
  <2> QED BY <1>5, <2>1 DEF Longer
<1>6. ASSUME NEW i \in 1 .. 2
      PROVE  /\ i > Len(r.stacks) => ThreadSecs(r, i) = <<>>
             /\ i <= Len(r.stacks) => \E y \in Sections : y = Section(ThreadLine(i, r.stacks[i].thread), Creation) /\ ThreadSecs(r, i) = <<y>>
  <2>1. ASSUME i > Len(r.stacks) PROVE ThreadSecs(r, i) = <<>>
    BY <1>0, <2>1 DEF ThreadSecs
  <2>2. ASSUME i <= Len(r.stacks)
        PROVE  \E y \in Sections : y = Section(ThreadLine(i, r.stacks[i].thread), Creation) /\ ThreadSecs(r, i) = <<y>>
    <3>1. i \in 1 .. Len(r.stacks) /\ i \in DOMAIN r.stacks
      BY <1>0, <2>2
    <3>2. PICK h \in Headers : h = ThreadLine(i, r.stacks[i].thread)
      <4>1. r.stacks[i].thread \in {"worker", "mutator"}
        BY <3>1, PrintedIs
      <4> QED BY <4>1, HeaderLines
    <3>3. PICK y \in Sections : y = Section(h, Creation)
      BY OthersFrames DEF Section, Sections
    <3> QED BY <3>1, <3>2, <3>3 DEF ThreadSecs
  <2> QED BY <2>1, <2>2
<1>7. Secs(r) = c3 \o ThreadSecs(r, 1) \o ThreadSecs(r, 2)
  BY <1>1, <1>3, <1>4, <1>5, Zenon DEF Secs
<1>8. \A c \in Seq(Sections) : c \o <<>> = c
  BY ConcatEmptySeq
<1>9. CASE Len(r.stacks) = 0
  <2>1. ThreadSecs(r, 1) = <<>> /\ ThreadSecs(r, 2) = <<>>
    BY <1>6, <1>9
  <2>2. Secs(r) = c3
    BY <1>7, <1>8, <2>1
  <2>3. \A i \in 1 .. Len(r.stacks) : FALSE
    BY <1>9
  <2>4. Len(c3) = 3 + Len(r.stacks)
    BY <1>c, <1>9
  <2> QED BY <1>1, <1>c, <2>2, <2>3, <2>4, Zenon
<1>10. CASE Len(r.stacks) = 1
  <2>1. PICK y1 \in Sections : y1 = Section(ThreadLine(1, r.stacks[1].thread), Creation) /\ ThreadSecs(r, 1) = <<y1>>
    BY <1>6, <1>10
  <2>2. ThreadSecs(r, 2) = <<>>
    BY <1>6, <1>10
  <2>3. PICK c4 \in Seq(Sections) : c4 = c3 \o <<y1>> /\ Longer(c4, c3, y1)
    BY Added, Zenon
  <2>4. Len(c4) = 3 + Len(r.stacks) /\ c4[1] = x1 /\ c4[2] = x2 /\ c4[3] = x3 /\ c4[4] = y1
    BY <1>c, <1>10, <2>3 DEF Longer
  <2>5. Secs(r) = c4
    BY <1>7, <1>8, <2>1, <2>2, <2>3
  <2>6. \A i \in 1 .. Len(r.stacks) : i = 1 /\ 3 + i = 4
    BY <1>10
  <2>7. \A i \in 1 .. Len(r.stacks) : c4[3 + i] = Section(ThreadLine(i, r.stacks[i].thread), Creation)
    BY <2>1, <2>4, <2>6
  <2> QED BY <1>1, <2>4, <2>5, <2>7, Zenon
<1>11. CASE Len(r.stacks) = 2
  <2>1. PICK y1 \in Sections : y1 = Section(ThreadLine(1, r.stacks[1].thread), Creation) /\ ThreadSecs(r, 1) = <<y1>>
    BY <1>6, <1>11
  <2>2. PICK y2 \in Sections : y2 = Section(ThreadLine(2, r.stacks[2].thread), Creation) /\ ThreadSecs(r, 2) = <<y2>>
    BY <1>6, <1>11
  <2>3. PICK c4 \in Seq(Sections) : c4 = c3 \o <<y1>> /\ Longer(c4, c3, y1)
    BY Added, Zenon
  <2>4. PICK c5 \in Seq(Sections) : c5 = c4 \o <<y2>> /\ Longer(c5, c4, y2)
    BY Added, Zenon
  <2>5. Len(c4) = 4 /\ c4[1] = x1 /\ c4[2] = x2 /\ c4[3] = x3 /\ c4[4] = y1
    BY <1>c, <2>3 DEF Longer
  <2>6. Len(c5) = 3 + Len(r.stacks) /\ c5[1] = x1 /\ c5[2] = x2 /\ c5[3] = x3 /\ c5[4] = y1 /\ c5[5] = y2
    BY <1>11, <2>4, <2>5 DEF Longer
  <2>7. Secs(r) = c5
    BY <1>7, <2>1, <2>2, <2>3, <2>4
  <2>8. \A i \in 1 .. Len(r.stacks) : (i = 1 /\ 3 + i = 4) \/ (i = 2 /\ 3 + i = 5)
    BY <1>11
  <2>9. \A i \in 1 .. Len(r.stacks) : c5[3 + i] = Section(ThreadLine(i, r.stacks[i].thread), Creation)
    BY <2>1, <2>2, <2>6, <2>8
  <2> QED BY <1>1, <2>6, <2>7, <2>9, Zenon
<1>12. Len(r.stacks) = 0 \/ Len(r.stacks) = 1 \/ Len(r.stacks) = 2
  BY <1>0
<1> QED BY <1>9, <1>10, <1>11, <1>12

\* A race has its accesses first and its threads last.
LEMMA RaceShape ==
  ASSUME NEW r \in Printable, r.kind # Inversion, ~r.crash
  PROVE  Shape(r, Secs(r))
<1>0. Len(r.stacks) \in 0 .. 2
  BY PrintedIs
<1>d. DOMAIN r.stacks = 1 .. Len(r.stacks)
  BY PrintedIs
<1>1. PICK s \in Seq(Sections) :
        /\ s = Secs(r) /\ Len(s) = 3 + Len(r.stacks)
        /\ s[1] = AccessSec(r, 1) /\ s[2] = AccessSec(r, 2) /\ s[3] = Section(Line("location", 0), Allocation)
        /\ \A i \in 1 .. Len(r.stacks) : s[3 + i] = Section(ThreadLine(i, r.stacks[i].thread), Creation)
  BY RaceSections
<1>2. \A i \in 1 .. 2 : s[i] = AccessSec(r, i)
  BY <1>1
<1>3. \A i \in 1 .. Len(s) : i \in 1 .. 2 \/ i = 3 \/ (i - 3 \in 1 .. Len(r.stacks) /\ 3 + (i - 3) = i)
  BY <1>0, <1>1
<1>4. ASSUME NEW i \in 1 .. 2
      PROVE  /\ s[i].header = Line("access", i) /\ s[i].header.is = "access" /\ IsAccess(s[i])
             /\ s[i].frames = IF i <= Len(r.stacks) THEN r.stacks[i].frames ELSE <<>>
  <2>1. s[i].header = Line("access", i) /\ s[i].frames = IF i \in DOMAIN r.stacks THEN r.stacks[i].frames ELSE <<>>
    BY <1>2, SectionIs DEF AccessSec
  <2>2. Line("access", i).is = "access"
    BY HeaderLines
  <2>3. s[i].frames = IF i <= Len(r.stacks) THEN r.stacks[i].frames ELSE <<>>
    BY <1>0, <1>d, <2>1
  <2> QED BY <2>1, <2>2, <2>3 DEF IsAccess
<1>5. s[3].header.is = "location" /\ ~IsAccess(s[3])
  BY <1>1, SectionIs, HeaderLines DEF IsAccess
<1>6. ASSUME NEW i \in 1 .. Len(r.stacks)
      PROVE  s[3 + i].header = ThreadLine(i, r.stacks[i].thread) /\ ~IsAccess(s[3 + i])
  <2>1. s[3 + i].header = ThreadLine(i, r.stacks[i].thread)
    BY <1>1, SectionIs
  <2>2. ThreadLine(i, r.stacks[i].thread).is = "thread"
    BY DEF ThreadLine, Line
  <2> QED BY <2>1, <2>2 DEF IsAccess
<1>7. ASSUME NEW i \in 1 .. Len(r.stacks) PROVE Kept(s[i]) /\ s[i].frames = r.stacks[i].frames /\ s[i].header = Line("access", i)
  <2>1. i \in 1 .. 2 /\ i <= Len(r.stacks)
    <3>1. PICK n \in 0 .. 2 : n = Len(r.stacks)
      BY <1>0
    <3>2. i \in 1 .. n
      BY <3>1
    <3>3. i \in 1 .. 2 /\ i <= n
      BY <3>2
    <3> QED BY <3>1, <3>3
  <2>2. r.stacks[i].frames # <<>>
    BY PrintedIs
  <2> QED BY <1>4, <2>1, <2>2 DEF Kept
<1>8. ASSUME NEW i \in 1 .. Len(s), i > Len(r.stacks) PROVE ~IsAccess(s[i]) \/ s[i].frames = <<>>
  <2>1. CASE i \in 1 .. 2
    <3>1. ~ (i <= Len(r.stacks))
      BY <1>0, <1>8
    <3> QED BY <1>4, <2>1, <3>1
  <2> QED BY <1>3, <1>5, <1>6, <2>1
<1>9. ASSUME NEW j \in 1 .. Len(s), s[j].header.is = "thread" PROVE j - 3 \in 1 .. Len(r.stacks)
  BY <1>3, <1>4, <1>5, <1>9
<1>10. Len(r.stacks) <= Len(s) /\ Len(s) <= 3 + Len(r.stacks) /\ \A i \in 1 .. Len(r.stacks) : 3 + i <= Len(s)
  BY <1>0, <1>1
<1>11. Shape(r, s)
  BY <1>6, <1>7, <1>8, <1>9, <1>10 DEF Shape
<1> QED BY <1>1, <1>11

\* The sections of every report that is printed.
LEMMA SecsShape == ASSUME NEW r \in Printable PROVE Shape(r, Secs(r))
  BY InversionShape, CrashShape, RaceShape

\* A part of some sections, by their places.
LEMMA PartIs ==
  ASSUME NEW t \in Seq(Sections), NEW s \in Seq(Sections), IsPart(t, s)
  PROVE  /\ Len(t) \in Nat /\ Len(s) \in Nat /\ Len(t) <= Len(s)
         /\ \A j \in 1 .. Len(t) : j \in 1 .. Len(s) /\ t[j].header = s[j].header /\ (j < Len(t) => t[j] = s[j])
         /\ t # <<>> => IsBegun(t[Len(t)], s[Len(t)])
<1>0. Len(t) \in Nat /\ Len(s) \in Nat
  OBVIOUS
<1>1. CASE t = <<>>
  <2>1. Len(t) = 0
    BY <1>1
  <2> QED BY <1>0, <1>1, <2>1
<1>2. CASE t # <<>>
  <2>1. Len(t) \in 1 .. Len(s) /\ (\A i \in 1 .. Len(t) - 1 : t[i] = s[i]) /\ IsBegun(t[Len(t)], s[Len(t)])
    BY <1>2 DEF IsPart
  <2>2. t[Len(t)].header = s[Len(t)].header
    BY <2>1 DEF IsBegun
  <2>3. \A j \in 1 .. Len(t) : j \in 1 .. Len(s) /\ (j \in 1 .. Len(t) - 1 \/ j = Len(t)) /\ (j < Len(t) => j \in 1 .. Len(t) - 1)
    BY <1>0, <2>1
  <2> QED BY <1>0, <2>1, <2>2, <2>3
<1> QED BY <1>1, <1>2

\* The line of a thread tells which it is and what it is called.
LEMMA SameThreadLine == ASSUME NEW i, NEW j, NEW x, NEW y, ThreadLine(i, x) = ThreadLine(j, y) PROVE i = j /\ x = y
<1>1. \A is, of : Line(is, of).of = of
  BY DEF Line
<1>2. [tid |-> i, name |-> x] = [tid |-> j, name |-> y]
  BY <1>1 DEF ThreadLine
<1> QED BY <1>2

\* A thread is known once its own section was opened.
LEMMA ThreadsAre ==
  ASSUME NEW r \in Printable, NEW t \in Seq(Sections), IsPart(t, Secs(r)), NEW i \in 1 .. Len(r.stacks), i <= Len(t)
  PROVE  ThreadOf(t[i], t) = IF 3 + i <= Len(t) THEN r.stacks[i].thread ELSE "worker"
<1>1. PICK s \in Seq(Sections) : s = Secs(r) /\ Shape(r, s)
  BY BodyGives, SecsShape
<1>2. PICK n \in 0 .. 2 : n = Len(r.stacks)
  BY PrintedIs
<1>3. Len(t) \in Nat /\ DOMAIN t = 1 .. Len(t) /\ \A j \in 1 .. Len(t) : j \in 1 .. Len(s) /\ t[j].header = s[j].header
  BY <1>1, PartIs
<1>4. i \in 1 .. n /\ i \in 1 .. Len(t)
  BY <1>2, <1>3
<1>5. r.stacks[i].thread \in IF r.crash THEN {"worker"} ELSE {"worker", "mutator"}
  BY PrintedIs
<1>6. CASE r.crash
  <2>1. t[i].header.is # "access"
    BY <1>1, <1>2, <1>3, <1>4, <1>6 DEF Shape
  <2>2. ThreadOf(t[i], t) = "worker"
    BY <2>1 DEF ThreadOf
  <2> QED BY <1>5, <1>6, <2>2
<1>7. CASE ~r.crash
  <2>1. t[i].header = Line("access", i)
    BY <1>1, <1>2, <1>3, <1>4, <1>7 DEF Shape
  <2>2. t[i].header.is = "access" /\ t[i].header.of = i
    BY <2>1 DEF Line
  <2>3. ThreadOf(t[i], t) = IF \E j \in DOMAIN t : t[j].header = ThreadLine(i, "mutator") THEN "mutator" ELSE "worker"
    BY <2>2 DEF ThreadOf, ThreadLine
  <2>4. \A k \in 1 .. n : s[3 + k].header = ThreadLine(k, r.stacks[k].thread)
    BY <1>1, <1>2, <1>7 DEF Shape
  <2>5. \A j \in 1 .. Len(s) : s[j].header.is = "thread" => j - 3 \in 1 .. n
    BY <1>1, <1>2, <1>7 DEF Shape
  <2>6. ASSUME NEW j \in DOMAIN t, t[j].header = ThreadLine(i, "mutator")
        PROVE  3 + i <= Len(t) /\ r.stacks[i].thread = "mutator"
    <3>1. j \in 1 .. Len(t) /\ j \in 1 .. Len(s) /\ s[j].header = ThreadLine(i, "mutator")
      BY <1>3, <2>6
    <3>2. s[j].header.is = "thread"
      BY <3>1 DEF ThreadLine, Line
    <3>3. j - 3 \in 1 .. n /\ 3 + (j - 3) = j
      BY <2>5, <3>1, <3>2
    <3>4. PICK k \in 1 .. n : k = j - 3 /\ 3 + k = j
      BY <3>3
    <3>5. ThreadLine(k, r.stacks[k].thread) = ThreadLine(i, "mutator")
      BY <2>4, <3>1, <3>4
    <3>6. k = i /\ r.stacks[k].thread = "mutator"
      BY <3>5, SameThreadLine
    <3> QED BY <3>1, <3>4, <3>6
  <2>7. ASSUME 3 + i <= Len(t), r.stacks[i].thread = "mutator"
        PROVE  \E j \in DOMAIN t : t[j].header = ThreadLine(i, "mutator")
    <3>1. 3 + i \in 1 .. Len(t)
      BY <1>3, <1>4, <2>7
    <3> QED BY <1>3, <1>4, <2>4, <2>7, <3>1
  <2>8. r.stacks[i].thread \in {"worker", "mutator"}
    BY <1>5, <1>7
  <2>9. CASE 3 + i <= Len(t) /\ r.stacks[i].thread = "mutator"
    BY <2>3, <2>7, <2>9
  <2>10. CASE ~ (3 + i <= Len(t) /\ r.stacks[i].thread = "mutator")
    <3>1. ThreadOf(t[i], t) = "worker"
      BY <2>3, <2>6, <2>10
    <3> QED BY <2>8, <2>10, <3>1
  <2> QED BY <2>9, <2>10
<1> QED BY <1>6, <1>7

\* The three ways of being cut.
LEMMA RemainsAre ==
  ASSUME NEW st
  PROVE  /\ <<>> \in Remains(st)
         /\ \A i \in DOMAIN st : \A b \in Begun(st[i]) : CutIn(st, i, b) \in Remains(st)
         /\ \A i \in 0 .. Len(st) : NamedTo(st, i) \in Remains(st)
<1>1. ASSUME NEW i \in DOMAIN st, NEW b \in Begun(st[i]) PROVE CutIn(st, i, b) \in Remains(st)
  <2>1. CutIn(st, i, b) \in {CutIn(st, i, c) : c \in Begun(st[i])}
    OBVIOUS
  <2>2. CutIn(st, i, b) \in UNION {{CutIn(st, k, c) : c \in Begun(st[k])} : k \in DOMAIN st}
    BY <2>1, Zenon
  <2> QED BY <2>2, Zenon DEF Remains
<1>2. ASSUME NEW i \in 0 .. Len(st) PROVE NamedTo(st, i) \in Remains(st)
  <2>1. NamedTo(st, i) \in {NamedTo(st, k) : k \in 0 .. Len(st)}
    OBVIOUS
  <2> QED BY <2>1, Zenon DEF Remains
<1>3. <<>> \in Remains(st)
  BY Zenon DEF Remains
<1> QED BY <1>1, <1>2, <1>3

\* A report with what remains of its stacks is a part of it.
LEMMA PartOfReport ==
  ASSUME NEW r, NEW z \in Remains(r.stacks)
  PROVE  [kind |-> r.kind, crash |-> r.crash, stacks |-> z] \in Parts(r)
  BY Zenon DEF Parts

\* What is cut in its i-th stack, after k of its frames.
LEMMA CutStack ==
  ASSUME NEW r \in Printable, NEW i \in 1 .. Len(r.stacks), NEW k \in 1 .. Len(r.stacks[i].frames),
         NEW z, z = [j \in 1 .. i |-> IF j < i THEN Unnamed(r.stacks[j])
                                      ELSE [thread |-> "worker", frames |-> SubSeq(r.stacks[i].frames, 1, k)]]
  PROVE  z \in Remains(r.stacks)
<1>1. i \in DOMAIN r.stacks
  BY PrintedIs
<1>2. PICK b \in Begun(r.stacks[i]) : b = [thread |-> "worker", frames |-> SubSeq(r.stacks[i].frames, 1, k)]
  BY Zenon DEF Begun
<1>3. z = CutIn(r.stacks, i, b)
  BY <1>2 DEF CutIn
<1>4. CutIn(r.stacks, i, b) \in Remains(r.stacks)
  BY <1>1, RemainsAre
<1> QED BY <1>3, <1>4

\* What is parsed of a part of a report is a part of what it says.
LEMMA PartParsed ==
  ASSUME NEW r \in Printable, NEW t \in Seq(Sections), IsPart(t, Secs(r))
  PROVE  Parsed(Report(r, t)) \in Parts(r)
<1>1. PICK s \in Seq(Sections) : s = Secs(r) /\ Shape(r, s)
  BY BodyGives, SecsShape
<1>2. PICK n \in 0 .. 2 : n = Len(r.stacks) /\ DOMAIN r.stacks = 1 .. n
  BY PrintedIs
<1>3. PICK l \in Nat : l = Len(t) /\ l <= Len(s)
  BY <1>1, PartIs
<1>4. \A i \in 1 .. l : i \in 1 .. Len(s) /\ t[i].header = s[i].header /\ (i < l => t[i] = s[i])
  BY <1>1, <1>3, PartIs
<1>5. \A i \in 1 .. n : Kept(s[i]) /\ s[i].frames = r.stacks[i].frames
  BY <1>1, <1>2 DEF Shape
<1>6. \A i \in 1 .. Len(s) : i > n => ~IsAccess(s[i]) \/ s[i].frames = <<>>
  BY <1>1, <1>2 DEF Shape
<1>7. Len(s) \in Nat /\ Len(s) <= 3 + n
  BY <1>1, <1>2 DEF Shape
<1>8. \A i \in 1 .. n : i <= l => ThreadOf(t[i], t) = IF 3 + i <= l THEN r.stacks[i].thread ELSE "worker"
  BY <1>2, <1>3, ThreadsAre
<1>9. \A i \in 1 .. n : /\ r.stacks[i] = [thread |-> r.stacks[i].thread, frames |-> r.stacks[i].frames]
                        /\ r.stacks[i].frames \in Seq(AllFrames)
  BY <1>2, PrintedIs
<1>10. ASSUME NEW m \in 0 .. l, NEW z \in Remains(r.stacks), \A i \in 1 .. l : Kept(t[i]) <=> i <= m,
              z = [i \in 1 .. m |-> [thread |-> ThreadOf(t[i], t), frames |-> t[i].frames]]
       PROVE  Parsed(Report(r, t)) \in Parts(r)
  BY <1>3, <1>10, ParsedIs, PartOfReport
<1>11. ASSUME NEW i \in 1 .. l
       PROVE  /\ IsAccess(t[i]) <=> IsAccess(s[i])
              /\ s[i].frames = <<>> => t[i].frames = <<>>
  <2>1. IsAccess(t[i]) <=> IsAccess(s[i])
    BY <1>4 DEF IsAccess
  <2>2. CASE i < l
    BY <1>4, <2>1, <2>2
  <2>3. CASE i = l
    <3>1. t # <<>>
      BY <1>3
    <3>2. IsBegun(t[i], s[i])
      BY <1>1, <1>3, <2>3, <3>1, PartIs
    <3>3. s[i] \in Sections
      BY <1>1, <1>4
    <3>4. ASSUME s[i].frames = <<>> PROVE t[i].frames = <<>>
      <4>1. PICK j \in 0 .. Len(s[i].frames) : t[i].frames = SubSeq(s[i].frames, 1, j)
        BY <3>2 DEF IsBegun
      <4>2. s[i].frames \in Seq(AllFrames) /\ Len(s[i].frames) = 0
        BY <3>4
      <4>3. j = 0
        BY <4>2
      <4> QED BY <4>1, <4>2, <4>3, Beginnings
    <3> QED BY <2>1, <3>4
  <2> QED BY <2>2, <2>3
<1>12. CASE l = 0
  <2>1. PICK z : z = [i \in 1 .. 0 |-> [thread |-> ThreadOf(t[i], t), frames |-> t[i].frames]]
    OBVIOUS
  <2>2. z = <<>>
    BY <2>1
  <2>3. z \in Remains(r.stacks) /\ 0 \in 0 .. l
    BY <1>12, <2>2, RemainsAre
  <2>4. \A i \in 1 .. l : Kept(t[i]) <=> i <= 0
    BY <1>12
  <2> QED BY <1>10, <2>1, <2>3, <2>4
<1>13. CASE l \in 1 .. n
  <2>1. \A i \in 1 .. l : i \in 1 .. n /\ (i < l => Kept(t[i]) /\ t[i].frames = r.stacks[i].frames)
    BY <1>4, <1>5, <1>13
  <2>2. t # <<>> /\ l \in 1 .. l
    BY <1>3, <1>13
  <2>3. IsBegun(t[l], s[l]) /\ Kept(s[l]) /\ s[l].frames = r.stacks[l].frames
    BY <1>1, <1>3, <1>5, <1>13, <2>2, PartIs
  <2>4. PICK fs \in Seq(AllFrames) : fs = r.stacks[l].frames
    BY <1>9, <1>13
  <2>5. PICK j \in 0 .. Len(fs) : t[l].frames = SubSeq(fs, 1, j)
    BY <2>3, <2>4 DEF IsBegun
  <2>6. IsAccess(t[l])
    BY <1>11, <2>2, <2>3 DEF Kept
  <2>7. \A i \in 1 .. l : ThreadOf(t[i], t) = "worker"
    <3>1. \A i \in 1 .. l : i \in 1 .. n /\ i <= l /\ ~ (3 + i <= l)
      BY <1>13
    <3> QED BY <1>8, <3>1
  <2>8. CASE j = 0
    <3>1. t[l].frames = <<>>
      BY <2>5, <2>8, Beginnings
    <3>2. \A i \in 1 .. l : Kept(t[i]) <=> i <= l - 1
      <4>1. \A i \in 1 .. l : i < l \/ i = l
        OBVIOUS
      <4>2. ~ Kept(t[l])
        BY <3>1 DEF Kept
      <4> QED BY <2>1, <4>1, <4>2
    <3>3. PICK z : z = [i \in 1 .. l - 1 |-> [thread |-> ThreadOf(t[i], t), frames |-> t[i].frames]]
      OBVIOUS
    <3>4. l - 1 \in 0 .. l
      BY <1>13
    <3>5. CASE l = 1
      <4>1. z = <<>>
        BY <3>3, <3>5
      <4>2. z \in Remains(r.stacks)
        BY <4>1, RemainsAre
      <4> QED BY <1>10, <3>2, <3>3, <3>4, <4>2
    <3>6. CASE l = 2
      <4>1. 1 \in 1 .. n /\ 1 \in 1 .. Len(r.stacks) /\ 1 \in 1 .. l /\ 1 < l
        BY <1>2, <1>13, <3>6
      <4>2. PICK gs \in Seq(AllFrames) : gs = r.stacks[1].frames /\ gs # <<>>
        <5>1. r.stacks[1].frames # <<>>
          BY <4>1, PrintedIs
        <5> QED BY <1>9, <4>1, <5>1
      <4>3. Len(gs) \in 1 .. Len(gs) /\ SubSeq(gs, 1, Len(gs)) = gs
        <5>1. Len(gs) \in Nat /\ Len(gs) # 0
          BY <4>2
        <5>2. Len(gs) \in 0 .. Len(gs)
          BY <5>1
        <5> QED BY <5>1, <5>2, Beginnings
      <4>4. t[1].frames = gs /\ ThreadOf(t[1], t) = "worker"
        BY <2>1, <2>7, <4>1, <4>2
      <4>5. z = [i \in 1 .. 1 |-> [thread |-> "worker", frames |-> gs]]
        BY <3>3, <3>6, <4>4
      <4>6. z = [i \in 1 .. 1 |-> IF i < 1 THEN Unnamed(r.stacks[i])
                                  ELSE [thread |-> "worker", frames |-> SubSeq(r.stacks[1].frames, 1, Len(gs))]]
        <5>1. \A i \in 1 .. 1 : ~ (i < 1)
          OBVIOUS
        <5>2. SubSeq(r.stacks[1].frames, 1, Len(gs)) = gs
          BY <4>2, <4>3
        <5> QED BY <4>5, <5>1, <5>2
      <4>7. z \in Remains(r.stacks)
        BY <4>1, <4>2, <4>3, <4>6, CutStack
      <4> QED BY <1>10, <3>2, <3>3, <3>4, <4>7
    <3>7. l = 1 \/ l = 2
      BY <1>13
    <3> QED BY <3>5, <3>6, <3>7
  <2>9. CASE j # 0
    <3>1. j \in 1 .. Len(fs)
      BY <2>4, <2>9
    <3>2. t[l].frames # <<>>
      <4>1. Len(SubSeq(fs, 1, j)) = j
        BY Beginnings
      <4> QED BY <2>5, <2>9, <4>1
    <3>3. \A i \in 1 .. l : Kept(t[i]) <=> i <= l
      <4>1. \A i \in 1 .. l : i < l \/ i = l
        OBVIOUS
      <4>2. Kept(t[l])
        BY <2>6, <3>2 DEF Kept
      <4> QED BY <2>1, <4>1, <4>2
    <3>4. PICK z : z = [i \in 1 .. l |-> [thread |-> ThreadOf(t[i], t), frames |-> t[i].frames]]
      OBVIOUS
    <3>5. \A i \in 1 .. l : [thread |-> ThreadOf(t[i], t), frames |-> t[i].frames]
                             = IF i < l THEN Unnamed(r.stacks[i])
                               ELSE [thread |-> "worker", frames |-> SubSeq(r.stacks[l].frames, 1, j)]
      <4>1. \A i \in 1 .. l : i < l \/ i = l
        OBVIOUS
      <4> QED BY <2>1, <2>4, <2>5, <2>7, <4>1 DEF Unnamed
    <3>6. z = [i \in 1 .. l |-> IF i < l THEN Unnamed(r.stacks[i])
                                ELSE [thread |-> "worker", frames |-> SubSeq(r.stacks[l].frames, 1, j)]]
      BY <3>4, <3>5
    <3>7. l \in 1 .. Len(r.stacks) /\ j \in 1 .. Len(r.stacks[l].frames) /\ l \in 0 .. l
      BY <1>2, <1>13, <2>4, <3>1
    <3>8. z \in Remains(r.stacks)
      BY <3>6, <3>7, CutStack
    <3> QED BY <1>10, <3>3, <3>4, <3>7, <3>8
  <2> QED BY <2>8, <2>9
<1>14. CASE l > n
  <2>1. \A i \in 1 .. l : Kept(t[i]) <=> i <= n
    <3>1. \A i \in 1 .. l : (i <= n => i \in 1 .. n /\ i < l) /\ (~ (i <= n) => i > n)
      BY <1>14
    <3>2. \A i \in 1 .. l : i <= n => Kept(t[i])
      BY <1>4, <1>5, <3>1
    <3>3. \A i \in 1 .. l : ~ (i <= n) => ~ Kept(t[i])
      BY <1>4, <1>6, <1>11, <3>1 DEF Kept
    <3> QED BY <3>2, <3>3
  <2>2. PICK u \in 0 .. n : \A i \in 1 .. n : 3 + i <= l <=> i <= u
    <3>1. CASE l >= 3
      <4>1. l - 3 \in 0 .. n /\ \A i \in 1 .. n : 3 + i <= l <=> i <= l - 3
        BY <1>3, <1>7, <3>1
      <4> QED BY <4>1
    <3>2. CASE ~ (l >= 3)
      <4>1. 0 \in 0 .. n /\ \A i \in 1 .. n : 3 + i <= l <=> i <= 0
        BY <3>2
      <4> QED BY <4>1
    <3> QED BY <3>1, <3>2
  <2>3. PICK z : z = [i \in 1 .. n |-> [thread |-> ThreadOf(t[i], t), frames |-> t[i].frames]]
    OBVIOUS
  <2>4. \A i \in 1 .. n : [thread |-> ThreadOf(t[i], t), frames |-> t[i].frames]
                           = IF i <= u THEN r.stacks[i] ELSE Unnamed(r.stacks[i])
    <3>1. \A i \in 1 .. n : i <= l /\ i < l /\ i \in 1 .. l
      BY <1>14
    <3>2. \A i \in 1 .. n : t[i].frames = r.stacks[i].frames
      BY <1>4, <1>5, <3>1
    <3> QED BY <1>8, <1>9, <2>2, <3>1, <3>2 DEF Unnamed
  <2>5. z = NamedTo(r.stacks, u)
    BY <1>2, <2>3, <2>4 DEF NamedTo
  <2>6. z \in Remains(r.stacks) /\ n \in 0 .. l
    BY <1>2, <1>14, <2>5, RemainsAre
  <2> QED BY <1>10, <2>1, <2>3, <2>6
<1>15. l = 0 \/ l \in 1 .. n \/ l > n
  OBVIOUS
<1> QED BY <1>12, <1>13, <1>14, <1>15

\* A whole report is parsed as it was.
LEMMA WholeParsed ==
  ASSUME NEW r \in Printable
  PROVE  Parsed(Report(r, Secs(r))) = r
<1>1. PICK s \in Seq(Sections) : s = Secs(r) /\ Shape(r, s)
  BY BodyGives, SecsShape
<1>2. PICK n \in 0 .. 2 : n = Len(r.stacks) /\ DOMAIN r.stacks = 1 .. n
  BY PrintedIs
<1>3. Len(s) \in Nat /\ n <= Len(s) /\ n \in 0 .. Len(s)
  BY <1>1, <1>2 DEF Shape
<1>4. \A i \in 1 .. n : Kept(s[i]) /\ s[i].frames = r.stacks[i].frames
  BY <1>1, <1>2 DEF Shape
<1>5. \A i \in 1 .. Len(s) : i > n => ~ Kept(s[i])
  BY <1>1, <1>2 DEF Shape, Kept
<1>6. \A i \in 1 .. Len(s) : Kept(s[i]) <=> i <= n
  BY <1>3, <1>4, <1>5
<1>7. \A i \in 1 .. n : ThreadOf(s[i], s) = r.stacks[i].thread
  <2>0. IsPart(s, s)
    BY WholeIsPart
  <2>1. \A i \in 1 .. n : ThreadOf(s[i], s) = IF 3 + i <= Len(s) THEN r.stacks[i].thread ELSE "worker"
    BY <1>1, <1>2, <1>3, <2>0, ThreadsAre
  <2>2. \A i \in 1 .. n : r.stacks[i].thread \in IF r.crash THEN {"worker"} ELSE {"worker", "mutator"}
    BY <1>2, PrintedIs
  <2>3. ~r.crash => \A i \in 1 .. n : 3 + i <= Len(s)
    BY <1>1, <1>2 DEF Shape
  <2> QED BY <2>1, <2>2, <2>3
<1>8. \A i \in 1 .. n : r.stacks[i] = [thread |-> r.stacks[i].thread, frames |-> r.stacks[i].frames]
  BY <1>2, PrintedIs
<1>9. PICK z : z = [i \in 1 .. n |-> [thread |-> ThreadOf(s[i], s), frames |-> s[i].frames]]
  OBVIOUS
<1>10. z = r.stacks
  <2>1. r.stacks = [i \in 1 .. n |-> r.stacks[i]]
    <3>1. r.stacks \in Seq({r.stacks[i] : i \in DOMAIN r.stacks})
      BY ParseAssumption, TsanAssumption
    <3>2. \A S : \A q \in Seq(S) : q = [i \in DOMAIN q |-> q[i]]
      OBVIOUS
    <3> QED BY <1>2, <3>1, <3>2
  <2> QED BY <1>4, <1>7, <1>8, <1>9, <2>1
<1>11. r = [kind |-> r.kind, crash |-> r.crash, stacks |-> r.stacks]
  BY PrintedIs
<1>12. Parsed(Report(r, s)) = [kind |-> r.kind, crash |-> r.crash, stacks |-> z]
  BY <1>3, <1>6, <1>9, ParsedIs
<1> QED BY <1>1, <1>10, <1>11, <1>12

-----------------------------------------------------------------------------
(* collect(): the reports filed one by one. *)

\* Filing a report keeps the buckets typed.
LEMMA FileType ==
  ASSUME NEW b \in [Owners -> Seq(Entries)], NEW r \in Possible, NEW n \in Nat
  PROVE  File(b, r, n) \in [Owners -> Seq(Entries)]
<1> DEFINE owner == Attribute(r)
           sig   == Signature(r, owner)
           e     == Entry(r, owner, n)
<1>1. PICK s \in Seq(Entries) : s = b[owner] /\ owner \in Owners
  BY OwnersAreFour
<1> DEFINE known == {i \in DOMAIN s : s[i].sig = sig}
           c     == [i \in DOMAIN s |-> IF i \in known THEN Counted(s[i], n) ELSE s[i]]
<1>2. File(b, r, n) = IF known = {} THEN [b EXCEPT ![owner] = Append(s, e)] ELSE [b EXCEPT ![owner] = c]
  BY <1>1 DEF File
<1>3. e \in Entries
  BY <1>1 DEF Entry, Entries, Sigs, Shows
<1>4. \A i \in DOMAIN s : s[i] \in Entries /\ Counted(s[i], n) \in Entries
  <2>1. \A x \in Entries : Counted(x, n) \in Entries
    BY DEF Counted, Entries
  <2> QED BY <2>1
<1>5. c \in Seq(Entries)
  <2>1. DOMAIN s = 1 .. Len(s) /\ Len(s) \in Nat
    OBVIOUS
  <2>2. c \in [1 .. Len(s) -> Entries]
    BY <2>1, <1>4
  <2> HIDE DEF c
  <2> QED BY <2>1, <2>2
<1> HIDE DEF c, e, known, owner
<1>6. Append(s, e) \in Seq(Entries)
  BY <1>3
<1> QED BY <1>1, <1>2, <1>5, <1>6

NothingFiled == [yours |-> <<>>, reached |-> <<>>, external |-> <<>>, harness |-> <<>>]

\* Every owner's bucket is empty.
LEMMA NothingIsFiled == NothingFiled = [o \in Owners |-> <<>>]
<1>1. PICK b : b = [o \in Owners |-> <<>>]
  OBVIOUS
<1>2. /\ b = [o \in {"yours", "reached", "external", "harness"} |-> b[o]]
      /\ b["yours"] = <<>> /\ b["reached"] = <<>> /\ b["external"] = <<>> /\ b["harness"] = <<>>
  BY <1>1 DEF Owners
<1>3. b = [yours |-> <<>>, reached |-> <<>>, external |-> <<>>, harness |-> <<>>]
  BY <1>2
<1> QED BY <1>1, <1>3 DEF NothingFiled

ColFcn(reports) == CHOOSE f : f = [n \in 0 .. Len(reports) |->
                     IF n = 0 THEN NothingFiled ELSE File(f[n - 1], reports[n], n)]

\* Collected is this function, at its last place.
LEMMA ColIsFcn == ASSUME NEW reports PROVE Collected(reports) = ColFcn(reports)[Len(reports)]
  BY DEF Collected, ColFcn, NothingFiled

\* The function unfolds report by report.
LEMMA ColUnfolds ==
  ASSUME NEW s \in Seq(Possible)
  PROVE  /\ ColFcn(s)[0] = [o \in Owners |-> <<>>]
         /\ \A i \in 1 .. Len(s) : ColFcn(s)[i] = File(ColFcn(s)[i - 1], s[i], i)
<1> DEFINE A == [Owners -> Seq(Entries)]
           base == NothingFiled
           F == [x \in (1 .. Len(s)) \X A |-> File(x[2], s[x[1]], x[1])]
           Val(g, i) == IF i = 0 THEN base ELSE File(g[i - 1], s[i], i)
           f == ColFcn(s)
<1>0. base \in A
  <2>1. [o \in Owners |-> <<>>] \in A
    OBVIOUS
  <2> QED BY <2>1, NothingIsFiled
<1>1. Len(s) \in Nat /\ \A i \in 1 .. Len(s) : s[i] \in Possible
  OBVIOUS
<1>3. F \in [(1 .. Len(s)) \X A -> A]
  <2>1. \A x \in (1 .. Len(s)) \X A : File(x[2], s[x[1]], x[1]) \in A
    BY <1>1, FileType
  <2> QED BY <2>1
<1>4. \A i \in 1 .. Len(s), q \in A : F[<<i, q>>] = File(q, s[i], i)
  OBVIOUS
<1> HIDE DEF F, A, base
<1>5. PICK g \in [0 .. Len(s) -> A] : IsRun(g, Len(s), base, F)
  BY <1>0, <1>1, <1>3, StepsSolve
<1>6. \A i \in 0 .. Len(s) : i = 0 \/ (i \in 1 .. Len(s) /\ i - 1 \in 0 .. Len(s))
  BY <1>1
<1>7. \A i \in 0 .. Len(s) : g[i] \in A /\ g[i] = Val(g, i)
  <2> SUFFICES ASSUME NEW i \in 0 .. Len(s) PROVE g[i] \in A /\ g[i] = Val(g, i)
    OBVIOUS
  <2>1. CASE i = 0
    BY <2>1, <1>5 DEF IsRun
  <2>2. CASE i # 0
    <3>1. i \in 1 .. Len(s) /\ g[i - 1] \in A /\ g[i] = F[<<i, g[i - 1]>>]
      BY <2>2, <1>5, <1>6 DEF IsRun
    <3> QED BY <2>2, <3>1, <1>4
  <2> QED BY <2>1, <2>2
<1>8. g = [i \in 0 .. Len(s) |-> Val(g, i)]
  BY <1>7
<1>9. f = [i \in 0 .. Len(s) |-> Val(f, i)]
  BY <1>8 DEF ColFcn, base
<1> HIDE DEF f
<1>10. \A i \in 0 .. Len(s) : f[i] = Val(f, i)
  BY <1>9
<1>11. f[0] = base /\ \A i \in 1 .. Len(s) : f[i] = File(f[i - 1], s[i], i)
  BY <1>1, <1>10
<1> QED BY <1>11, NothingIsFiled DEF f, base

\* What to_findings() files of a log grows report by report, as Read does.
LEMMA CollectedGrows ==
  ASSUME NEW s \in Seq(Possible), NEW r \in Possible
  PROVE  Collected(Append(s, r)) = File(Collected(s), r, Len(s) + 1)
<1>1. PICK c \in Seq(Possible) : c = Append(s, r)
  BY AppendProperties
<1>2. /\ Len(s) \in Nat /\ Len(c) = Len(s) + 1 /\ c[Len(s) + 1] = r
      /\ \A i \in 1 .. Len(s) : c[i] = s[i]
  BY <1>1, AppendProperties
<1> DEFINE f == ColFcn(c)
           g == ColFcn(s)
<1>3. f[0] = [o \in Owners |-> <<>>] /\ \A i \in 1 .. Len(c) : f[i] = File(f[i - 1], c[i], i)
  BY ColUnfolds
<1>4. g[0] = [o \in Owners |-> <<>>] /\ \A i \in 1 .. Len(s) : g[i] = File(g[i - 1], s[i], i)
  BY ColUnfolds
<1>5. Collected(c) = f[Len(c)] /\ Collected(s) = g[Len(s)]
  BY ColIsFcn
<1> HIDE DEF f, g
<1>6. Agree(f, g, Len(s))
  <2>1. \A i \in 1 .. Len(s) : i \in 1 .. Len(c)
    BY <1>2
  <2> QED BY <1>2, <1>3, <1>4, <2>1 DEF Agree
<1>7. f[Len(s)] = g[Len(s)]
  <2>1. Len(s) \in 0 .. Len(s)
    BY <1>2
  <2> QED BY <1>2, <1>6, <2>1, StepsAgree
<1>8. f[Len(s) + 1] = File(f[Len(s)], r, Len(s) + 1)
  <2>1. Len(s) + 1 \in 1 .. Len(c) /\ (Len(s) + 1) - 1 = Len(s)
    BY <1>2
  <2>2. f[Len(s) + 1] = File(f[(Len(s) + 1) - 1], c[Len(s) + 1], Len(s) + 1)
    BY <1>3, <2>1
  <2> QED BY <1>2, <2>1, <2>2
<1> QED BY <1>1, <1>2, <1>5, <1>7, <1>8

\* Of no report, nothing is filed.
LEMMA CollectedNone == Collected(<<>>) = [o \in Owners |-> <<>>]
<1>0. <<>> \in Seq(Possible)
  OBVIOUS
<1>1. PICK s \in Seq(Possible) : s = <<>>
  BY <1>0, Zenon
<1>2. Len(s) = 0
  BY <1>1
<1>3. Collected(s) = ColFcn(s)[0] /\ ColFcn(s)[0] = [o \in Owners |-> <<>>]
  BY <1>2, ColIsFcn, ColUnfolds
<1> QED BY <1>1, <1>3

-----------------------------------------------------------------------------
(* The reports that were begun: the fold of KeepStarted, print by print. *)

Prints == [report: Printable, lines: Nat]

BegunFcn(s) == CHOOSE g : g = [t \in SUBSET DOMAIN s |->
                 IF t = {} THEN <<>> ELSE KeepStarted(g[t \ {Max(t)}], s[Max(t)])]

StartedOf(s) == FoldLeft(KeepStarted, <<>>, s)

\* Started is this function, over all that was printed.
LEMMA BegunIsFcn == ASSUME NEW s PROVE StartedOf(s) = BegunFcn(s)[DOMAIN s]
  BY DEF StartedOf, FoldLeft, MapThenFoldSet, BegunFcn

\* The function unfolds print by print.
LEMMA BegunUnfolds ==
  ASSUME NEW s \in Seq(Prints)
  PROVE  /\ BegunFcn(s)[{}] = <<>>
         /\ \A n \in 1 .. Len(s) : BegunFcn(s)[1 .. n] = KeepStarted(BegunFcn(s)[1 .. n - 1], s[n])
<1> DEFINE A == Seq(Prints)
           D == DOMAIN s
           F == [x \in A \X Prints |-> KeepStarted(x[1], x[2])]
           Val(g, u) == IF u = {} THEN <<>> ELSE KeepStarted(g[u \ {Max(u)}], s[Max(u)])
           f == BegunFcn(s)
<1>1. F \in [A \X Prints -> A] /\ <<>> \in A /\ s \in A
  <2>1. \A m \in A, e \in Prints : KeepStarted(m, e) \in A
    BY DEF KeepStarted
  <2>2. \A x \in A \X Prints : KeepStarted(x[1], x[2]) \in A
    BY <2>1
  <2> QED BY <2>2
<1>2. \A m \in A, e \in Prints : F[<<m, e>>] = KeepStarted(m, e)
  OBVIOUS
<1>d. D = 1 .. Len(s) /\ Len(s) \in Nat /\ \A i \in D : s[i] \in Prints
  OBVIOUS
<1>3. \A u \in SUBSET D : u # {} => Max(u) \in D /\ s[Max(u)] \in Prints
  BY <1>d, LargestIsIn
<1> HIDE DEF F, A, D
<1>4. PICK g \in [SUBSET D -> A] : IsSeqFold(g, s, <<>>, F)
  BY <1>1, SeqFoldSolves, Zenon DEF A, D
<1>5. ASSUME NEW u \in SUBSET D PROVE g[u] = Val(g, u)
  <2>1. g[u] = IF u = {} THEN <<>> ELSE F[<<g[u \ {Max(u)}], s[Max(u)]>>]
    BY <1>4 DEF IsSeqFold, D
  <2>2. u # {} => g[u \ {Max(u)}] \in A /\ s[Max(u)] \in Prints
    BY <1>3
  <2> QED BY <2>1, <2>2, <1>2
<1>6. g = [u \in SUBSET D |-> Val(g, u)]
  BY <1>5
<1>7. f = CHOOSE h : h = [u \in SUBSET D |-> Val(h, u)]
  BY DEF BegunFcn, D
<1> HIDE DEF f
<1>8. f = [u \in SUBSET D |-> Val(f, u)]
  BY <1>6, <1>7
<1>9. \A u \in SUBSET D : f[u] = Val(f, u)
  BY <1>8
<1>10. f[{}] = <<>>
  BY <1>9
<1>11. ASSUME NEW n \in 1 .. Len(s) PROVE f[1 .. n] = KeepStarted(f[1 .. n - 1], s[n])
  <2>1. 1 .. n \in SUBSET D /\ 1 .. n # {} /\ n \in Nat /\ n # 0
    <3>1. n \in 1 .. n /\ n \in Nat /\ n # 0 /\ n <= Len(s)
      OBVIOUS
    <3>2. \A i \in 1 .. n : i \in 1 .. Len(s)
      BY <1>d, <3>1
    <3> QED BY <1>d, <3>1, <3>2
  <2>2. Max(1 .. n) = n /\ (1 .. n) \ {n} = 1 .. n - 1
    BY <2>1, LargestOfPrefix
  <2>3. f[1 .. n] = KeepStarted(f[(1 .. n) \ {Max(1 .. n)}], s[Max(1 .. n)])
    BY <1>9, <2>1
  <2> QED BY <2>2, <2>3
<1> QED BY <1>10, <1>11 DEF f

\* A print more is begun, or it is not.
LEMMA StartedGrows ==
  ASSUME NEW s \in Seq(Prints), NEW x \in Prints
  PROVE  StartedOf(Append(s, x)) = KeepStarted(StartedOf(s), x)
<1>1. PICK c \in Seq(Prints) : c = Append(s, x)
  BY AppendProperties
<1>2. /\ Len(s) \in Nat /\ Len(c) = Len(s) + 1 /\ c[Len(s) + 1] = x
      /\ \A i \in 1 .. Len(s) : c[i] = s[i]
  BY <1>1, AppendProperties
<1>3. PICK f : f = BegunFcn(c) /\ f[{}] = <<>> /\ \A n \in 1 .. Len(c) : f[1 .. n] = KeepStarted(f[1 .. n - 1], c[n])
  BY BegunUnfolds
<1>4. PICK g : g = BegunFcn(s) /\ g[{}] = <<>> /\ \A n \in 1 .. Len(s) : g[1 .. n] = KeepStarted(g[1 .. n - 1], s[n])
  BY BegunUnfolds
<1>5. StartedOf(c) = f[1 .. Len(c)] /\ StartedOf(s) = g[1 .. Len(s)]
  <2>1. DOMAIN c = 1 .. Len(c) /\ DOMAIN s = 1 .. Len(s)
    OBVIOUS
  <2> QED BY <1>3, <1>4, <2>1, BegunIsFcn
<1> DEFINE a == [n \in 0 .. Len(s) |-> f[1 .. n]]
           b == [n \in 0 .. Len(s) |-> g[1 .. n]]
<1>6. \A n \in 0 .. Len(s) : a[n] = f[1 .. n] /\ b[n] = g[1 .. n]
  OBVIOUS
<1> HIDE DEF a, b
<1>7. a[0] = b[0]
  <2>1. 1 .. 0 = {} /\ 0 \in 0 .. Len(s)
    BY <1>2
  <2>2. a[0] = f[1 .. 0] /\ b[0] = g[1 .. 0]
    BY <1>6, <2>1
  <2>3. a[0] = f[{}] /\ b[0] = g[{}]
    BY <2>1, <2>2
  <2> QED BY <1>3, <1>4, <2>3
<1>8. ASSUME NEW n \in 1 .. Len(s), a[n - 1] = b[n - 1] PROVE a[n] = b[n]
  <2>1. n \in 0 .. Len(s) /\ n - 1 \in 0 .. Len(s) /\ n \in 1 .. Len(c)
    BY <1>2
  <2>2. f[1 .. n - 1] = g[1 .. n - 1]
    BY <1>6, <1>8, <2>1
  <2>3. f[1 .. n] = KeepStarted(f[1 .. n - 1], s[n]) /\ g[1 .. n] = KeepStarted(g[1 .. n - 1], s[n])
    BY <1>2, <1>3, <1>4, <2>1
  <2> QED BY <1>6, <2>1, <2>2, <2>3
<1>9. a[Len(s)] = b[Len(s)]
  <2>1. Agree(a, b, Len(s))
    BY <1>7, <1>8 DEF Agree
  <2>2. Len(s) \in 0 .. Len(s)
    BY <1>2
  <2> QED BY <1>2, <2>1, <2>2, StepsAgree
<1>10. f[1 .. Len(s)] = g[1 .. Len(s)]
  <2>1. Len(s) \in 0 .. Len(s)
    BY <1>2
  <2> QED BY <1>6, <1>9, <2>1
<1>11. f[1 .. Len(c)] = KeepStarted(f[1 .. Len(s)], x)
  <2>1. Len(c) \in 1 .. Len(c) /\ Len(c) - 1 = Len(s) /\ c[Len(c)] = x
    BY <1>2
  <2>2. f[1 .. Len(c)] = KeepStarted(f[1 .. Len(c) - 1], c[Len(c)])
    BY <1>3, <2>1
  <2> QED BY <2>1, <2>2
<1> QED BY <1>1, <1>5, <1>10, <1>11

\* Before the first print, none is begun.
LEMMA StartedNone == StartedOf(<<>>) = <<>>
<1>0. <<>> \in Seq(Prints)
  OBVIOUS
<1>1. PICK s \in Seq(Prints) : s = <<>>
  BY <1>0, Zenon
<1>2. DOMAIN s = {}
  BY <1>1
<1>3. StartedOf(s) = BegunFcn(s)[{}] /\ BegunFcn(s)[{}] = <<>>
  BY <1>2, BegunIsFcn, BegunUnfolds
<1> QED BY <1>1, <1>3

-----------------------------------------------------------------------------
(* What always holds of a log that is parsed. *)

\* What parse() may make of a print.
ParseOf(c) == IF c.lines = Len(Lines(c.report)) THEN {c.report} ELSE Parts(c.report)

ParseInv ==
  /\ parser \in Parsers /\ printed \in Seq(Prints)
  /\ Started \in Seq(Prints) /\ Len(Started) <= Len(printed)
  /\ log \in Seq(Possible) /\ log = ParsedAll(parser) /\ buckets = Collected(log)
  /\ Len(log) = Len(Started) /\ \A i \in DOMAIN log : log[i] \in ParseOf(Started[i])

\* The log is parsed from the view of the locals.
LEMMA ParsedAllIs == ASSUME NEW p PROVE ParsedAll(p) = [i \in DOMAIN View(p) |-> Parsed(View(p)[i])]
  BY DEF ParsedAll, View

\* A report more in view is one more in the log.
LEMMA ParsedAllGrows ==
  ASSUME NEW p, NEW q, NEW v \in Seq(Reports), NEW x \in Reports, View(p) = v, View(q) = Append(v, x)
  PROVE  ParsedAll(q) = Append(ParsedAll(p), Parsed(x))
<1>1. PICK w \in Seq(Reports) : w = Append(v, x) /\ Len(w) = Len(v) + 1 /\ w[Len(v) + 1] = x /\ \A i \in 1 .. Len(v) : w[i] = v[i]
  BY AppendProperties
<1>2. Len(v) \in Nat /\ DOMAIN v = 1 .. Len(v) /\ DOMAIN w = 1 .. Len(v) + 1
  BY <1>1
<1>3. PICK a : a = [i \in 1 .. Len(v) |-> Parsed(v[i])]
  OBVIOUS
<1>4. PICK b : b = [i \in 1 .. Len(v) + 1 |-> Parsed(w[i])]
  OBVIOUS
<1>5. ParsedAll(p) = a /\ ParsedAll(q) = b
  BY <1>1, <1>2, <1>3, <1>4, ParsedAllIs
<1>6. Len(a) = Len(v)
  BY <1>2, <1>3
<1>7. Append(a, Parsed(x)) = [i \in 1 .. Len(v) + 1 |-> IF i <= Len(v) THEN a[i] ELSE Parsed(x)]
  <2>1. PICK S : S = {Parsed(v[i]) : i \in 1 .. Len(v)} \cup {Parsed(x)}
    OBVIOUS
  <2>2. \A i \in 1 .. Len(v) : Parsed(v[i]) \in S
    BY <2>1
  <2>3. Parsed(x) \in S
    BY <2>1
  <2>4. a \in Seq(S)
    <3>1. a \in [1 .. Len(v) -> S]
      BY <1>3, <2>2
    <3> QED BY <1>2, <3>1
  <2>5. PICK y : y = Parsed(x) /\ y \in S
    BY <2>3
  <2>6. Append(a, y) = [i \in 1 .. Len(v) + 1 |-> IF i <= Len(v) THEN a[i] ELSE y]
    <3>1. PICK d \in Seq(S) : d = Append(a, y) /\ Len(d) = Len(a) + 1 /\ d[Len(a) + 1] = y /\ \A i \in 1 .. Len(a) : d[i] = a[i]
      <4>1. Append(a, y) \in Seq(S) /\ Len(Append(a, y)) = Len(a) + 1 /\ Append(a, y)[Len(a) + 1] = y
        BY <2>4, <2>5, AppendProperties
      <4>2. \A i \in 1 .. Len(a) : Append(a, y)[i] = a[i]
        BY <2>4, <2>5, AppendProperties
      <4> QED BY <4>1, <4>2, Zenon
    <3>2. d = [i \in 1 .. Len(v) + 1 |-> d[i]]
      <4>1. DOMAIN d = 1 .. Len(v) + 1
        BY <1>2, <1>6, <3>1
      <4>2. \A e \in Seq(S) : e = [i \in DOMAIN e |-> e[i]]
        OBVIOUS
      <4> QED BY <4>1, <4>2
    <3>3. \A i \in 1 .. Len(v) + 1 : (i <= Len(v) /\ i \in 1 .. Len(v)) \/ (~ (i <= Len(v)) /\ i = Len(v) + 1)
      BY <1>2
    <3>4. \A i \in 1 .. Len(v) + 1 : d[i] = IF i <= Len(v) THEN a[i] ELSE y
      BY <1>6, <3>1, <3>3
    <3> QED BY <3>1, <3>2, <3>4
  <2> QED BY <2>5, <2>6
<1>8. \A i \in 1 .. Len(v) + 1 : Parsed(w[i]) = IF i <= Len(v) THEN a[i] ELSE Parsed(x)
  <2>1. \A i \in 1 .. Len(v) + 1 : (i <= Len(v) /\ i \in 1 .. Len(v)) \/ (~ (i <= Len(v)) /\ i = Len(v) + 1)
    BY <1>2
  <2> QED BY <1>1, <1>3, <2>1
<1>9. b = Append(a, Parsed(x))
  BY <1>4, <1>7, <1>8
<1> QED BY <1>5, <1>9

\* The empty log.
LEMMA ParseInitInv == ParseInit => ParseInv
<1> SUFFICES ASSUME ParseInit PROVE ParseInv
  OBVIOUS
<1>1. PICK rs \in Seq(Reports) : rs = <<>>
  <2>1. <<>> \in Seq(Reports)
    OBVIOUS
  <2> QED BY <2>1, Zenon
<1>2. parser = Outside(rs)
  BY <1>1 DEF ParseInit, Outside
<1>3. parser \in Parsers /\ View(parser) = rs
  BY <1>2, OutsideType, ViewIs
<1>4. printed = <<>> /\ printed \in Seq(Prints) /\ log = <<>> /\ log \in Seq(Possible)
      /\ buckets = [o \in Owners |-> <<>>]
  BY DEF ParseInit, Init
<1>5. Started = <<>>
  BY <1>4, StartedNone DEF Started, StartedOf
<1>6. ParsedAll(parser) = <<>>
  <2>1. ParsedAll(parser) = [i \in DOMAIN rs |-> Parsed(rs[i])]
    BY <1>3, ParsedAllIs
  <2>2. DOMAIN rs = {}
    BY <1>1
  <2> QED BY <2>1, <2>2
<1>7. buckets = Collected(log)
  BY <1>4, CollectedNone
<1>8. Started \in Seq(Prints) /\ Len(Started) = 0 /\ Len(printed) = 0 /\ Len(log) = 0 /\ DOMAIN log = {}
  BY <1>4, <1>5
<1> QED BY <1>3, <1>4, <1>6, <1>7, <1>8 DEF ParseInv

\* The lines of a report go by: it is not opened, or it is the next of the log.
LEMMA PrintStep ==
  ASSUME ParseInv, NEW r \in Printable, NEW k \in 1 .. Len(Lines(r)), PrintedTo(r, k),
         k < Len(Lines(r)) => r \in Cuttable
  PROVE  ParseInv' /\ (Read \/ UNCHANGED vars)
<1>1. PICK c \in Seq(AllLines) : c = Lines(r) /\ ShowsLast(parser, r, c)
  BY LinesShow DEF ParseInv
<1>2. PICK p \in Parsers, q \in Parsers : p = parser /\ q = parser' /\ q = Fed(p, c, k)
  BY <1>1, FedSteps DEF ParseInv, PrintedTo
<1>3. PICK v \in Seq(Reports) : v = View(p)
  BY ViewType
<1>4. log = ParsedAll(p) /\ log' = ParsedAll(q) /\ buckets = Collected(log) /\ buckets' = Collected(log')
  BY <1>2 DEF ParseInv, PrintedTo
<1>5. PICK x \in Prints : x = [report |-> r, lines |-> k] /\ x.report = r /\ x.lines = k
  <2>1. k \in Nat
    BY <1>1
  <2>2. PICK x : x = [report |-> r, lines |-> k]
    OBVIOUS
  <2> QED BY <2>1, <2>2 DEF Prints
<1>6. printed \in Seq(Prints) /\ printed' = Append(printed, x)
  BY <1>5 DEF ParseInv, PrintedTo
<1>7. Started' = KeepStarted(Started, x)
  BY <1>6, StartedGrows DEF Started, StartedOf
<1>8. PICK s \in Seq(Prints) : s = Started /\ Len(s) = Len(log) /\ Len(s) <= Len(printed)
  BY DEF ParseInv
<1>9. PICK l \in Seq(Possible) : l = log
  BY DEF ParseInv
<1>10. printed' \in Seq(Prints) /\ Len(printed') = Len(printed) + 1 /\ Len(printed) \in Nat /\ Len(printed) < MaxReports /\ MaxReports \in Nat
  BY <1>6, AppendProperties, TsanAssumption DEF PrintedTo
<1>11. /\ Len(Opening(r)) <= Len(c) /\ k \in 0 .. Len(c)
       /\ k < Len(Opening(r)) => View(q) = v
       /\ k >= Len(Opening(r)) => \E t \in Seq(Sections) : IsPart(t, Secs(r)) /\ View(q) = Append(v, Report(r, t))
       /\ k = Len(c) => View(q) = Append(v, Report(r, Secs(r)))
  <2>1. k \in 0 .. Len(c)
    BY <1>1
  <2>2. /\ Len(Opening(r)) <= Len(c)
        /\ k < Len(Opening(r)) => View(q) = View(p)
        /\ k = Len(c) => View(q) = Append(View(p), Report(r, Secs(r)))
    BY <1>1, <1>2, <2>1 DEF ShowsLast
  <2>3. k >= Len(Opening(r)) => \E t \in Seq(Sections) : IsPart(t, Secs(r)) /\ View(q) = Append(View(p), Report(r, t))
    BY <1>1, <1>2, <2>1 DEF ShowsLast
  <2> QED BY <1>3, <2>1, <2>2, <2>3
<1>12. Len(Opening(r)) \in Nat
  BY OpeningIs
<1>13. \A i \in DOMAIN l : l[i] \in ParseOf(s[i])
  BY <1>8, <1>9 DEF ParseInv
<1>14. CASE k < Len(Opening(r))
  <2>1. View(q) = View(p)
    BY <1>3, <1>11, <1>14
  <2>2. log' = log
    BY <1>4, <2>1, ParsedAllIs
  <2>3. buckets' = buckets
    BY <1>4, <2>2
  <2>4. Started' = s
    BY <1>5, <1>7, <1>8, <1>12, <1>14 DEF KeepStarted
  <2>5. Len(s) <= Len(printed')
    BY <1>8, <1>10
  <2>6. ParseInv'
    <3>1. parser' \in Parsers /\ printed' \in Seq(Prints)
      BY <1>2, <1>10
    <3>2. Started' \in Seq(Prints) /\ Len(Started') <= Len(printed')
      BY <2>4, <2>5
    <3>3. log' \in Seq(Possible) /\ log' = ParsedAll(parser') /\ buckets' = Collected(log')
      BY <1>2, <1>4, <1>9, <2>2
    <3>4. Len(log') = Len(Started') /\ \A i \in DOMAIN log' : log'[i] \in ParseOf(Started'[i])
      BY <1>8, <1>9, <1>13, <2>2, <2>4
    <3> QED BY <3>1, <3>2, <3>3, <3>4 DEF ParseInv, ParseOf, ParsedAll, Collected
  <2> QED BY <2>2, <2>3, <2>6 DEF vars
<1>15. CASE ~ (k < Len(Opening(r)))
  <2>1. k >= Len(Opening(r))
    BY <1>12, <1>15
  <2>2. PICK t \in Seq(Sections) :
          IsPart(t, Secs(r)) /\ View(q) = Append(v, Report(r, t)) /\ (k = Len(c) => t = Secs(r))
    <3>1. CASE k = Len(c)
      <4>1. Secs(r) \in Seq(Sections) /\ IsPart(Secs(r), Secs(r))
        BY BodyGives, WholeIsPart
      <4> QED BY <1>11, <3>1, <4>1
    <3>2. CASE k # Len(c)
      BY <1>11, <2>1, <3>2
    <3> QED BY <3>1, <3>2
  <2>3. PICK y : y = Parsed(Report(r, t))
    OBVIOUS
  <2>4. y \in ParseOf(x)
    <3>1. CASE k = Len(c)
      BY <1>1, <1>5, <2>2, <2>3, <3>1, WholeParsed DEF ParseOf
    <3>2. CASE k # Len(c)
      BY <1>1, <1>5, <2>2, <2>3, <3>2, PartParsed DEF ParseOf
    <3> QED BY <3>1, <3>2
  <2>5. y \in Possible
    <3>1. CASE k = Len(c)
      <4>1. y = r
        BY <2>2, <2>3, <3>1, WholeParsed
      <4> QED BY <4>1, ParseAssumption
    <3>2. CASE k # Len(c)
      <4>1. r \in Cuttable
        BY <1>1, <3>2
      <4>2. y \in Parts(r)
        BY <2>2, <2>3, PartParsed
      <4> QED BY <4>1, <4>2, ParseAssumption
    <3> QED BY <3>1, <3>2
  <2>6. PICK z \in Reports : z = Report(r, t) /\ View(q) = Append(v, z) /\ y = Parsed(z)
    <3>1. Report(r, t) = Report([kind |-> r.kind, crash |-> r.crash], t)
      BY DEF Report
    <3>2. [kind |-> r.kind, crash |-> r.crash] \in About
      BY PrintedIs DEF About
    <3> QED BY <2>2, <2>3, <3>1, <3>2, ReportType
  <2>7. log' = Append(l, y)
    BY <1>3, <1>4, <1>9, <2>6, ParsedAllGrows
  <2>8. buckets' = File(buckets, y, Len(log) + 1)
    BY <1>4, <1>9, <2>5, <2>7, CollectedGrows
  <2>9. Len(log) < MaxReports
    <3>1. Len(log) \in Nat
      BY <1>9
    <3> QED BY <1>8, <1>10, <3>1
  <2>10. Read
    BY <1>9, <2>5, <2>7, <2>8, <2>9 DEF Read
  <2>11. Started' = Append(s, x)
    BY <1>5, <1>7, <1>8, <2>1 DEF KeepStarted
  <2>12. /\ Started' \in Seq(Prints) /\ Len(Started') = Len(s) + 1 /\ Started'[Len(s) + 1] = x
         /\ \A i \in 1 .. Len(s) : Started'[i] = s[i]
    BY <2>11, AppendProperties
  <2>13. /\ log' \in Seq(Possible) /\ Len(log') = Len(l) + 1 /\ log'[Len(l) + 1] = y
         /\ \A i \in 1 .. Len(l) : log'[i] = l[i]
    BY <2>5, <2>7, AppendProperties
  <2>14. Len(l) \in Nat /\ Len(s) = Len(l) /\ DOMAIN l = 1 .. Len(l) /\ DOMAIN log' = 1 .. Len(l) + 1
    BY <1>8, <1>9, <2>13
  <2>15. ASSUME NEW i \in DOMAIN log' PROVE log'[i] \in ParseOf(Started'[i])
    <3>1. CASE i = Len(l) + 1
      BY <2>4, <2>12, <2>13, <2>14, <3>1
    <3>2. CASE i \in 1 .. Len(l)
      BY <1>13, <2>12, <2>13, <2>14, <3>2
    <3> QED BY <2>14, <3>1, <3>2
  <2>16. Len(Started') <= Len(printed') /\ Len(log') = Len(Started')
    BY <1>8, <1>10, <2>12, <2>13, <2>14
  <2>17. ParseInv'
    <3>1. parser' \in Parsers /\ printed' \in Seq(Prints)
      BY <1>2, <1>10
    <3>2. log' = ParsedAll(parser') /\ buckets' = Collected(log')
      BY <1>2, <1>4
    <3> QED BY <3>1, <3>2, <2>12, <2>13, <2>15, <2>16 DEF ParseInv
  <2> QED BY <2>10, <2>17
<1> QED BY <1>14, <1>15

\* Every print keeps the invariant, and is one reading or none.
LEMMA ParseStepInv == ParseInv /\ [ParseNext]_<<vars, parser, printed>> => ParseInv' /\ [Next]_vars
<1> SUFFICES ASSUME ParseInv, [ParseNext]_<<vars, parser, printed>> PROVE ParseInv' /\ [Next]_vars
  OBVIOUS
<1>1. CASE PrintWhole
  <2>1. PICK r \in Printable : PrintedTo(r, Len(Lines(r)))
    BY <1>1 DEF PrintWhole
  <2>2. Len(Lines(r)) \in 1 .. Len(Lines(r))
    <3>1. PICK c \in Seq(AllLines) : c = Lines(r) /\ ShowsLast(parser, r, c)
      BY LinesShow DEF ParseInv
    <3>2. Len(Opening(r)) \in 1 .. 2 /\ Len(Opening(r)) <= Len(c)
      BY <3>1, OpeningIs DEF ShowsLast
    <3>3. Len(c) \in 1 .. Len(c)
      BY <3>2
    <3> QED BY <3>1, <3>3
  <2>3. ~ (Len(Lines(r)) < Len(Lines(r)))
    BY <2>2
  <2>4. ParseInv' /\ (Read \/ UNCHANGED vars)
    BY <2>1, <2>2, <2>3, PrintStep
  <2> QED BY <2>4 DEF Next
<1>2. CASE PrintPart
  <2>1. PICK r \in Cuttable : \E j \in 1 .. Len(Lines(r)) - 1 : PrintedTo(r, j)
    BY <1>2 DEF PrintPart
  <2>2. r \in Printable
    BY ParseAssumption
  <2>3. PICK k \in 1 .. Len(Lines(r)) : PrintedTo(r, k)
    <3>1. Lines(r) \in Seq(AllLines)
      BY <2>2, LinesShow DEF ParseInv
    <3>2. PICK n \in Nat : n = Len(Lines(r))
      BY <3>1
    <3>3. \A j \in 1 .. n - 1 : j \in 1 .. n
      OBVIOUS
    <3> QED BY <2>1, <3>2, <3>3
  <2>4. ParseInv' /\ (Read \/ UNCHANGED vars)
    BY <2>2, <2>3, PrintStep
  <2> QED BY <2>4 DEF Next
<1>3. CASE UNCHANGED <<vars, parser, printed>>
  <2>1. UNCHANGED vars /\ parser' = parser /\ printed' = printed /\ log' = log /\ buckets' = buckets
    BY <1>3 DEF vars
  <2>2. Started' = Started
    BY <2>1 DEF Started
  <2>3. ParsedAll(parser') = ParsedAll(parser) /\ Collected(log') = Collected(log)
    BY <2>1
  <2>4. ParseInv'
    BY <2>1, <2>2, <2>3 DEF ParseInv
  <2> QED BY <2>1, <2>4
<1> QED BY <1>1, <1>2, <1>3 DEF ParseNext

\* The invariant of parse().
LEMMA AlwaysParseInv == ParseSpec => []ParseInv
BY ParseInitInv, ParseStepInv, PTL DEF ParseSpec

\* parse() finds every report that was begun, in the order they were printed: a
\* whole one as it was, whatever was cut before it, and one that was cut with
\* what is left of it and nothing of another.
THEOREM LogsAreParsed == ParseSpec => []ParsedAsPrinted
<1>1. ParseInv => ParsedAsPrinted
  BY DEF ParseInv, ParsedAsPrinted, ParseOf
<1> QED BY <1>1, AlwaysParseInv, PTL

\* Line by line and cut anywhere, parse() and to_findings() implement the reading
\* of a log report by report: each print is one Read or none.
THEOREM LogsAreRead == ParseSpec => ReadsReports
<1>1. ParseInit => Init
  BY DEF ParseInit
<1> QED BY <1>1, AlwaysParseInv, ParseStepInv, PTL DEF ParseSpec, ReadsReports, Spec

\* So what is proved of reports is true of logs as they are printed: each is filed
\* once with its race, whichever side it shows first, and no finding of to_findings()
\* mixes owners or splits a race by side.
THEOREM LogsAreFiled ==
  ParseSpec => [](FiledByRace /\ AttributionIgnoresSides /\ OwnersKeptApart /\ SidesCollapse)
BY LogsAreRead, FiledOnce, SidesDoNotMatter, OwnersStayApart, SidesAreOneFinding, PTL DEF ReadsReports
=============================================================================
