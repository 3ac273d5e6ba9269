---------------------------- MODULE PanicProofs -----------------------------
(***************************************************************************)
(* Proofs about PanicJoin, for any threads, callables, caps and windows:   *)
(* a call is matched to its own line or to none, and what is filed names   *)
(* the site it panicked at.                                                *)
(***************************************************************************)
EXTENDS PanicJoin, DataLemmas, SequenceTheorems

Coming == [qual: Quals, msg: Messages, site: Sites, pos: Nat]
Call   == [qual: Quals, msg: Messages]

TypeInv ==
  /\ tagged \in BOOLEAN /\ filed \in BOOLEAN
  /\ lines \in [Tids -> Seq(Line)]
  /\ coming \in [Threads -> Coming \cup {NoCall}]
  /\ runs \in [Threads -> Seq(Run)]
  /\ full \subseteq Threads
  /\ count \in [Quals -> Nat]
  /\ true \in [Threads -> Seq(Nat)]
  /\ where \in [Quals -> SUBSET Sites]
  /\ DOMAIN panics = Quals
  /\ \A q \in Quals : DOMAIN panics[q] \subseteq Messages /\ IsFiniteSet(DOMAIN panics[q])

\* Lines of a thread are of calls on it or of panics caught there.
LinesInv == \A t \in Threads : \A j \in DOMAIN lines[t] : IsOwn(lines[t][j]) \/ IsCaught(lines[t][j])

\* The line of call c of t, when it has one of its own, and otherwise that of the
\* thread of Rust's that panicked for it.
OwnLine(t, p, m) == p \in DOMAIN lines[t] /\ IsOwn(lines[t][p]) /\ lines[t][p].msg = m
HelperLine(m) == \E j \in DOMAIN lines[Other] : IsHelper(lines[Other][j]) /\ lines[Other][j].msg = m

\* Recorded calls have lines, in the order of the calls.
CallHasLine(t, i) ==
  /\ true[t][i] = 0 => HelperLine(Calls(t)[i].msg)
  /\ true[t][i] # 0 => /\ OwnLine(t, true[t][i], Calls(t)[i].msg)
                       /\ lines[t][true[t][i]].site \in where[Calls(t)[i].qual]
                       /\ \A j \in DOMAIN true[t] : j < i => true[t][j] < true[t][i]
CallsInv ==
  \A t \in Threads : Len(Calls(t)) = Len(true[t]) /\ \A i \in DOMAIN true[t] : CallHasLine(t, i)

\* So has the call on its way, after all of them.
ComingHasLine(t, c) ==
  /\ c.pos = 0 => \E j \in DOMAIN lines[Other] :
                    IsHelper(lines[Other][j]) /\ lines[Other][j] = [site |-> c.site, msg |-> c.msg]
  /\ c.pos # 0 => /\ c.pos \in DOMAIN lines[t] /\ IsOwn(lines[t][c.pos])
                  /\ lines[t][c.pos] = [site |-> c.site, msg |-> c.msg]
                  /\ \A i \in DOMAIN true[t] : true[t][i] < c.pos
ComingInv == \A t \in Threads : coming[t] # NoCall => ComingHasLine(t, coming[t])

\* No line of a call stands before one that is recorded without being so itself:
\* a record has no gaps.
Unrecorded(t, p) ==
  /\ t \in full \/ filed \/ (coming[t] # NoCall /\ coming[t].pos = p)
  /\ \A i \in DOMAIN true[t] : true[t][i] < p
GapInv ==
  \A t \in Threads : \A p \in DOMAIN lines[t] :
    IsOwn(lines[t][p]) => (\E i \in DOMAIN true[t] : true[t][i] = p) \/ Unrecorded(t, p)

\* Without other panics the calls are numbered like the lines.
ExactIn(t) ==
  /\ \A i \in DOMAIN true[t] : true[t][i] = i
  /\ t \notin full /\ ~filed =>
       /\ coming[t] = NoCall => Len(lines[t]) = Len(true[t])
       /\ coming[t] # NoCall => Len(lines[t]) = Len(true[t]) + 1 /\ coming[t].pos = Len(lines[t])
ExactInv == OnlyOwn => \A t \in Threads : ExactIn(t)

\* The recorded calls of q, as [thread, number].
Recorded(q) == {e \in Threads \X Nat : e[2] \in DOMAIN true[e[1]] /\ Calls(e[1])[e[2]].qual = q}

\* What is counted is recorded, as long as there is room; while all of it is, a
\* record shows each site.
SeenAt(e, s) == true[e[1]][e[2]] = 0 \/ lines[e[1]][true[e[1]][e[2]]].site = s
CountIn(q) ==
  /\ IsFiniteSet(Recorded(q)) /\ Cardinality(Recorded(q)) <= count[q]
  /\ full = {} => Cardinality(Recorded(q)) = count[q]
  /\ Cardinality(Recorded(q)) = count[q] => \A s \in where[q] : \E e \in Recorded(q) : SeenAt(e, s)
CountInv == \A q \in Quals : CountIn(q)

\* Each site of q has a line with a message of q that no call of another callable
\* is matched to, now or later.
Shows(q, s, v, j) ==
  /\ lines[v][j].site = s /\ lines[v][j].msg \in DOMAIN panics[q]
  /\ v \in Threads => /\ \A i \in DOMAIN true[v] : true[v][i] = j => Calls(v)[i].qual = q
                      /\ coming[v] # NoCall => coming[v].pos # j
Shown(q, s) == \E v \in Tids : \E j \in DOMAIN lines[v] : Shows(q, s, v, j)
SiteIn(q)   == Cardinality(DOMAIN panics[q]) < MaxMessages => \A s \in where[q] : Shown(q, s)
SiteInv     == \A q \in Quals : SiteIn(q)

\* What holds whatever the extension prints; GapInv needs MessagesApart besides,
\* ExactInv SitesApart.
RunInv == TypeInv /\ LinesInv /\ CallsInv /\ ComingInv /\ CountInv /\ SiteInv

-----------------------------------------------------------------------------
(* A sequence of sequences, flattened. *)

\* What FlattenSeq iterates over, unfolded.
FlatFcn(ss) == CHOOSE f : f = [i \in 1 .. Len(ss) |-> IF i = 1 THEN ss[i] ELSE f[i - 1] \o ss[i]]

LEMMA FlattenIsFcn == ASSUME NEW ss PROVE FlattenSeq(ss) = IF Len(ss) = 0 THEN ss ELSE FlatFcn(ss)[Len(ss)]
  BY DEF FlattenSeq, FlatFcn

LEMMA FlatUnfolds ==
  ASSUME NEW S, NEW ss \in Seq(Seq(S)), NEW i \in 1 .. Len(ss)
  PROVE  /\ FlatFcn(ss)[i] = IF i = 1 THEN ss[i] ELSE FlatFcn(ss)[i - 1] \o ss[i]
         /\ FlatFcn(ss)[i] \in Seq(S)
<1> DEFINE n == Len(ss)
           A == Seq(S)
           F == [x \in (1 .. n) \X A |-> IF x[1] = 1 THEN ss[1] ELSE x[2] \o ss[x[1]]]
           Val(g, k) == IF k = 1 THEN ss[k] ELSE g[k - 1] \o ss[k]
           f == FlatFcn(ss)
<1>1. n \in Nat /\ \A k \in 1 .. n : ss[k] \in A
  OBVIOUS
<1>2. \A x, y \in A : x \o y \in A
  OBVIOUS
<1>3. <<>> \in A
  OBVIOUS
<1>4. F \in [(1 .. n) \X A -> A]
  <2>1. ASSUME NEW x \in (1 .. n) \X A PROVE (IF x[1] = 1 THEN ss[1] ELSE x[2] \o ss[x[1]]) \in A
    <3>1. x[1] \in 1 .. n /\ x[2] \in A
      OBVIOUS
    <3> HIDE DEF A
    <3> QED BY <3>1, <1>1, <1>2
  <2> HIDE DEF A
  <2> QED BY <2>1
<1>5. \A k \in 1 .. n, a \in A : F[<<k, a>>] = IF k = 1 THEN ss[1] ELSE a \o ss[k]
  OBVIOUS
<1> HIDE DEF F, A, n
<1>6. PICK g \in [0 .. n -> A] : IsRun(g, n, <<>>, F)
  BY <1>1, <1>3, <1>4, StepsSolve
<1>7. \A k \in 1 .. n : g[k] \in A /\ k - 1 \in 0 .. n /\ g[k - 1] \in A /\ g[k] = F[<<k, g[k - 1]>>]
  <2>1. \A k \in 1 .. n : k \in 0 .. n /\ k - 1 \in 0 .. n
    BY <1>1
  <2> QED BY <2>1, <1>6 DEF IsRun
<1>8. \A k \in 1 .. n : g[k] = IF k = 1 THEN ss[1] ELSE g[k - 1] \o ss[k]
  BY <1>5, <1>7
<1> DEFINE h == [k \in 1 .. n |-> g[k]]
<1>9. \A k \in 1 .. n : h[k] = Val(h, k)
  <2> SUFFICES ASSUME NEW k \in 1 .. n PROVE h[k] = Val(h, k)
    OBVIOUS
  <2>1. k # 1 => k - 1 \in 1 .. n
    BY <1>1
  <2>2. k # 1 => h[k - 1] = g[k - 1]
    BY <2>1
  <2> QED BY <2>2, <1>8
<1>10. h = [k \in 1 .. n |-> Val(h, k)]
  BY <1>9
<1> HIDE DEF h
<1>11. f = [k \in 1 .. n |-> Val(f, k)]
  BY <1>10 DEF FlatFcn, n
<1> HIDE DEF f
<1>12. \A k \in 1 .. n : f[k] = Val(f, k)
  BY <1>11
<1> DEFINE P == {k \in Nat : k + 1 \in 1 .. n => f[k + 1] \in A}
<1>13. 0 \in P
  <2>1. 1 \in 1 .. n => f[1] = ss[1] /\ ss[1] \in A
    BY <1>1, <1>12
  <2>2. 0 + 1 = 1
    OBVIOUS
  <2> HIDE DEF A
  <2> QED BY <2>1, <2>2
<1>14. ASSUME NEW k \in P PROVE k + 1 \in P
  <2> SUFFICES ASSUME (k + 1) + 1 \in 1 .. n PROVE f[(k + 1) + 1] \in A
    OBVIOUS
  <2>1. k + 1 \in 1 .. n /\ (k + 1) + 1 # 1 /\ ((k + 1) + 1) - 1 = k + 1
    BY <1>1
  <2>2. f[(k + 1) + 1] = f[k + 1] \o ss[(k + 1) + 1]
    BY <2>1, <1>12
  <2> QED BY <2>1, <2>2, <1>1, <1>2
<1> HIDE DEF P
<1>15. P = Nat
  <2>1. P \in SUBSET Nat
    BY DEF P
  <2> QED BY <1>13, <1>14, <2>1, NatInd
<1>16. i - 1 \in P /\ (i - 1) + 1 = i /\ i \in 1 .. n
  BY <1>1, <1>15 DEF n
<1>17. f[i] \in A
  BY <1>16 DEF P
<1> QED BY <1>12, <1>16, <1>17 DEF f, A

\* Flattened as far as two sequences agree they are the same.
LEMMA FlatAgrees ==
  ASSUME NEW S, NEW ss \in Seq(Seq(S)), NEW tt \in Seq(Seq(S)), NEW n \in Nat,
         n <= Len(ss), n <= Len(tt), \A i \in 1 .. n : ss[i] = tt[i], n # 0
  PROVE  FlatFcn(ss)[n] = FlatFcn(tt)[n]
<1> DEFINE f == FlatFcn(ss)
           g == FlatFcn(tt)
           P == {k \in Nat : k + 1 <= n => f[k + 1] = g[k + 1]}
<1>1. /\ \A i \in 1 .. Len(ss) : f[i] = IF i = 1 THEN ss[i] ELSE f[i - 1] \o ss[i]
      /\ \A i \in 1 .. Len(tt) : g[i] = IF i = 1 THEN tt[i] ELSE g[i - 1] \o tt[i]
  BY FlatUnfolds, Zenon
<1>2. Len(ss) \in Nat /\ Len(tt) \in Nat
  OBVIOUS
<1> HIDE DEF f, g
<1>3. 0 \in P
  <2>1. n \in Nat /\ n # 0 /\ 1 \in 1 .. n /\ 1 \in 1 .. Len(ss) /\ 1 \in 1 .. Len(tt) /\ 0 + 1 = 1
    BY <1>2
  <2>2. f[1] = ss[1] /\ g[1] = tt[1]
    BY <2>1, <1>1
  <2> QED BY <2>1, <2>2
<1>4. ASSUME NEW k \in P PROVE k + 1 \in P
  <2> SUFFICES ASSUME (k + 1) + 1 <= n PROVE f[(k + 1) + 1] = g[(k + 1) + 1]
    OBVIOUS
  <2>1. /\ (k + 1) + 1 \in 1 .. n /\ (k + 1) + 1 \in 1 .. Len(ss) /\ (k + 1) + 1 \in 1 .. Len(tt)
        /\ (k + 1) + 1 # 1 /\ ((k + 1) + 1) - 1 = k + 1 /\ k + 1 <= n
    BY <1>2
  <2>2. f[k + 1] = g[k + 1]
    BY <2>1
  <2>3. f[(k + 1) + 1] = f[k + 1] \o ss[(k + 1) + 1] /\ g[(k + 1) + 1] = g[k + 1] \o tt[(k + 1) + 1]
    BY <2>1, <1>1
  <2> QED BY <2>1, <2>2, <2>3
<1> HIDE DEF P
<1>5. P = Nat
  <2>1. P \in SUBSET Nat
    BY DEF P
  <2> QED BY <1>3, <1>4, <2>1, NatInd
<1>6. n - 1 \in P /\ (n - 1) + 1 = n
  BY <1>5
<1> QED BY <1>6 DEF P, f, g

LEMMA FlattenType ==
  ASSUME NEW S, NEW ss \in Seq(Seq(S)) PROVE FlattenSeq(ss) \in Seq(S)
<1>1. CASE Len(ss) = 0
  <2>1. ss = <<>>
    BY <1>1
  <2>2. FlattenSeq(ss) = <<>>
    BY <1>1, <2>1, FlattenIsFcn
  <2> QED BY <2>2
<1>2. CASE Len(ss) # 0
  <2>1. Len(ss) \in 1 .. Len(ss)
    BY <1>2
  <2> QED BY <1>2, <2>1, FlattenIsFcn, FlatUnfolds
<1> QED BY <1>1, <1>2

\* One sequence more, or more in the last one.
LEMMA FlattenAppend ==
  ASSUME NEW S, NEW ss \in Seq(Seq(S)), NEW s \in Seq(S)
  PROVE  FlattenSeq(Append(ss, s)) = FlattenSeq(ss) \o s
<1> DEFINE tt == Append(ss, s)
           n == Len(ss)
<1>1. /\ n \in Nat /\ tt \in Seq(Seq(S)) /\ Len(tt) = n + 1 /\ tt[n + 1] = s
      /\ \A i \in 1 .. n : ss[i] = tt[i]
  OBVIOUS
<1> HIDE DEF tt
<1>2. FlattenSeq(tt) = FlatFcn(tt)[n + 1]
  BY <1>1, FlattenIsFcn
<1>3. FlatFcn(tt)[n + 1] = IF n + 1 = 1 THEN tt[n + 1] ELSE FlatFcn(tt)[(n + 1) - 1] \o tt[n + 1]
  <2>1. n + 1 \in 1 .. Len(tt)
    BY <1>1
  <2> QED BY <2>1, <1>1, FlatUnfolds
<1>4. CASE n = 0
  <2>1. FlattenSeq(ss) = <<>>
    BY <1>4, FlattenIsFcn
  <2>2. s = <<>> \o s
    OBVIOUS
  <2> QED BY <1>1, <1>2, <1>3, <1>4, <2>1, <2>2 DEF tt
<1>5. CASE n # 0
  <2>1. FlatFcn(ss)[n] = FlatFcn(tt)[n]
    <3>1. n <= Len(ss) /\ n <= Len(tt)
      BY <1>1
    <3> QED BY <3>1, <1>1, <1>5, FlatAgrees
  <2>2. FlattenSeq(ss) = FlatFcn(ss)[n]
    BY <1>5, FlattenIsFcn
  <2>3. (n + 1) - 1 = n /\ n + 1 # 1
    BY <1>1, <1>5
  <2> QED BY <1>1, <1>2, <1>3, <2>1, <2>2, <2>3 DEF tt
<1> QED BY <1>4, <1>5

LastGrows(tt, ss, u) ==
  /\ Len(ss) # 0 /\ Len(tt) = Len(ss) /\ tt[Len(ss)] = ss[Len(ss)] \o u
  /\ \A i \in 1 .. Len(ss) - 1 : tt[i] = ss[i]
FlatGrows(tt, ss, u) == FlattenSeq(tt) = FlattenSeq(ss) \o u

Associates(a, b, c) == a \o (b \o c) = (a \o b) \o c

LEMMA ConcatAssociates ==
  ASSUME NEW S, NEW a \in Seq(S), NEW b \in Seq(S), NEW c \in Seq(S) PROVE Associates(a, b, c)
<1>1. (a \o b) \o c = a \o (b \o c)
  OBVIOUS
<1> QED BY <1>1, Zenon DEF Associates

LEMMA FlattenLast ==
  ASSUME NEW S, NEW ss \in Seq(Seq(S)), NEW u \in Seq(S), NEW tt \in Seq(Seq(S)), LastGrows(tt, ss, u)
  PROVE  FlatGrows(tt, ss, u)
<1> DEFINE n == Len(ss)
<1> USE DEF LastGrows, FlatGrows
<1>1. n \in Nat /\ n \in 1 .. Len(ss) /\ n \in 1 .. Len(tt) /\ ss[n] \in Seq(S)
  OBVIOUS
<1>2. FlattenSeq(ss) = FlatFcn(ss)[n] /\ FlattenSeq(tt) = FlatFcn(tt)[n]
  BY FlattenIsFcn
<1>3. /\ FlatFcn(ss)[n] = IF n = 1 THEN ss[n] ELSE FlatFcn(ss)[n - 1] \o ss[n]
      /\ FlatFcn(tt)[n] = IF n = 1 THEN tt[n] ELSE FlatFcn(tt)[n - 1] \o tt[n]
  BY <1>1, FlatUnfolds
<1>4. CASE n = 1
  BY <1>2, <1>3, <1>4
<1>5. CASE n # 1
  <2>1. n - 1 \in Nat /\ n - 1 # 0 /\ n - 1 <= Len(ss) /\ n - 1 <= Len(tt) /\ n - 1 \in 1 .. Len(ss)
    BY <1>1, <1>5
  <2>2. \A i \in 1 .. n - 1 : ss[i] = tt[i]
    OBVIOUS
  <2>3. FlatFcn(ss)[n - 1] = FlatFcn(tt)[n - 1]
    BY <2>1, <2>2, FlatAgrees
  <2>4. FlatFcn(ss)[n - 1] \in Seq(S)
    BY <2>1, FlatUnfolds
  <2>5. FlatFcn(ss)[n - 1] \o (ss[n] \o u) = (FlatFcn(ss)[n - 1] \o ss[n]) \o u
    <3>1. Associates(FlatFcn(ss)[n - 1], ss[n], u)
      BY <1>1, <2>4, ConcatAssociates, Zenon
    <3> QED BY <3>1 DEF Associates
  <2> QED BY <1>1, <1>2, <1>3, <1>5, <2>3, <2>4, <2>5
<1> QED BY <1>4, <1>5

-----------------------------------------------------------------------------
(* The record of a thread, call by call. *)

Ones(r)     == [k \in 1 .. r.count |-> [qual |-> r.qual, msg |-> r.msg]]
OnesOf(rs)  == [i \in DOMAIN rs |-> Ones(rs[i])]
CallsOf(rs) == FlattenSeq(OnesOf(rs))

LEMMA CallsAreOfRuns == ASSUME NEW t PROVE Calls(t) = CallsOf(runs[t])
  BY DEF Calls, CallsOf, OnesOf, Ones

LEMMA OnesType == ASSUME NEW r \in Run PROVE Ones(r) \in Seq(Call)
<1>1. r.count \in Nat /\ r.qual \in Quals /\ r.msg \in Messages
  BY DEF Run
<1>2. \A k \in 1 .. r.count : [qual |-> r.qual, msg |-> r.msg] \in Call
  BY <1>1 DEF Call
<1> QED BY <1>1, <1>2 DEF Ones

LEMMA OnesOfType == ASSUME NEW rs \in Seq(Run) PROVE OnesOf(rs) \in Seq(Seq(Call)) /\ Len(OnesOf(rs)) = Len(rs)
<1>1. Len(rs) \in Nat /\ DOMAIN rs = 1 .. Len(rs) /\ \A i \in 1 .. Len(rs) : rs[i] \in Run
  OBVIOUS
<1>2. \A i \in 1 .. Len(rs) : Ones(rs[i]) \in Seq(Call)
  BY <1>1, OnesType
<1> DEFINE A == Seq(Call)
<1> HIDE DEF A
<1>3. [i \in 1 .. Len(rs) |-> Ones(rs[i])] \in Seq(A)
  BY <1>1, <1>2 DEF A
<1> QED BY <1>1, <1>3 DEF OnesOf, A

LEMMA CallsType == ASSUME NEW rs \in Seq(Run) PROVE CallsOf(rs) \in Seq(Call)
  BY OnesOfType, FlattenType DEF CallsOf

\* A call that is counted is one more call at the end.
LEMMA CountedCalls ==
  ASSUME NEW rs \in Seq(Run), NEW c \in Coming
  PROVE  /\ Counted(rs, c) \in Seq(Run)
         /\ CallsOf(Counted(rs, c)) = CallsOf(rs) \o <<[qual |-> c.qual, msg |-> c.msg]>>
<1> DEFINE one == [qual |-> c.qual, msg |-> c.msg]
           n == Len(rs)
           cs == Counted(rs, c)
<1>1. n \in Nat /\ DOMAIN rs = 1 .. n /\ \A i \in 1 .. n : rs[i] \in Run
  OBVIOUS
<1>2. one \in Call /\ c.qual \in Quals /\ c.msg \in Messages
  BY DEF Call, Coming
<1>3. OnesOf(rs) \in Seq(Seq(Call)) /\ Len(OnesOf(rs)) = n /\ \A i \in 1 .. n : OnesOf(rs)[i] = Ones(rs[i])
  BY <1>1, OnesOfType DEF OnesOf
<1>4. CASE ~ Merges(rs, c)
  <2> DEFINE r == [qual |-> c.qual, msg |-> c.msg, count |-> 1]
  <2>1. cs = Append(rs, r)
    BY <1>4 DEF Counted
  <2>2. r \in Run
    BY <1>2 DEF Run
  <2>3. Ones(r) = <<one>>
    <3>1. r.count = 1 /\ r.qual = c.qual /\ r.msg = c.msg
      OBVIOUS
    <3> HIDE DEF r
    <3>2. Ones(r) = [k \in 1 .. 1 |-> one]
      BY <3>1 DEF Ones
    <3> HIDE DEF one
    <3> QED BY <3>2
  <2> HIDE DEF r, one, cs
  <2>4. cs \in Seq(Run) /\ Len(cs) = n + 1 /\ DOMAIN cs = 1 .. n + 1 /\ cs[n + 1] = r
        /\ \A i \in 1 .. n : cs[i] = rs[i]
    BY <2>1, <2>2
  <2>5. OnesOf(cs) \in Seq(Seq(Call)) /\ Len(OnesOf(cs)) = n + 1
    BY <2>4, OnesOfType
  <2>6. \A i \in 1 .. n + 1 : OnesOf(cs)[i] = IF i = n + 1 THEN <<one>> ELSE OnesOf(rs)[i]
    <3>1. \A i \in 1 .. n + 1 : OnesOf(cs)[i] = Ones(cs[i])
      BY <2>4 DEF OnesOf
    <3>2. \A i \in 1 .. n + 1 : i = n + 1 \/ i \in 1 .. n
      BY <1>1
    <3> QED BY <3>1, <3>2, <2>3, <2>4, <1>3
  <2>7. OnesOf(cs) = Append(OnesOf(rs), <<one>>)
    <3> DEFINE A == Seq(Call)
    <3>1. <<one>> \in A
      BY <1>2
    <3> HIDE DEF A
    <3>2. OnesOf(cs) \in Seq(A) /\ OnesOf(rs) \in Seq(A)
      BY <2>5, <1>3 DEF A
    <3>3. Len(Append(OnesOf(rs), <<one>>)) = n + 1 /\ Append(OnesOf(rs), <<one>>) \in Seq(A)
      BY <3>1, <3>2, <1>3
    <3>4. \A i \in 1 .. n + 1 : Append(OnesOf(rs), <<one>>)[i] = IF i = n + 1 THEN <<one>> ELSE OnesOf(rs)[i]
      BY <3>1, <3>2, <1>3
    <3> QED BY <3>2, <3>3, <3>4, <2>5, <2>6
  <2>8. <<one>> \in Seq(Call)
    BY <1>2
  <2> QED BY <2>4, <2>7, <2>8, <1>3, FlattenAppend DEF CallsOf, cs, one
<1>5. CASE Merges(rs, c)
  <2> DEFINE l == rs[n]
             k == [l EXCEPT !.count = l.count + 1]
  <2>1. n # 0 /\ l.qual = c.qual /\ l.msg = c.msg /\ l \in Run
    BY <1>5, <1>1 DEF Merges, Last
  <2>2. cs = [rs EXCEPT ![n] = k]
    BY <1>5 DEF Counted
  <2>3. k \in Run /\ k.count = l.count + 1 /\ k.qual = c.qual /\ k.msg = c.msg /\ l.count \in Nat
    BY <2>1 DEF Run
  <2>4. Ones(k) = Ones(l) \o <<one>>
    <3>1. Ones(k) = [j \in 1 .. l.count + 1 |-> one] /\ Ones(l) = [j \in 1 .. l.count |-> one]
      BY <2>1, <2>3 DEF Ones
    <3> HIDE DEF k, l, one
    <3>0. l \in Run /\ k \in Run /\ l.count \in Nat
      BY <2>1, <2>3
    <3>2. Ones(l) \in Seq(Call) /\ Ones(k) \in Seq(Call)
      BY <3>0, OnesType
    <3>3. Len(Ones(l)) = l.count /\ Len(Ones(k)) = l.count + 1
      BY <3>0, <3>1
    <3>4. \A j \in 1 .. l.count + 1 : (Ones(l) \o <<one>>)[j] = one
      BY <3>0, <3>1, <3>2, <3>3, <1>2
    <3>5. Len(Ones(l) \o <<one>>) = l.count + 1 /\ Ones(l) \o <<one>> \in Seq(Call)
      BY <3>0, <3>2, <3>3, <1>2
    <3> QED BY <3>0, <3>1, <3>2, <3>3, <3>4, <3>5
  <2> HIDE DEF k, l, cs
  <2>5. cs \in Seq(Run) /\ Len(cs) = n /\ DOMAIN cs = 1 .. n /\ cs[n] = k /\ \A i \in 1 .. n - 1 : cs[i] = rs[i]
    <3>0. n \in Nat /\ n # 0
      BY <2>1, <1>1
    <3>1. n \in 1 .. n /\ \A i \in 1 .. n - 1 : i \in 1 .. n /\ i # n
      BY <3>0
    <3>2. cs \in Seq(Run) /\ Len(cs) = n /\ DOMAIN cs = 1 .. n
      BY <2>2, <2>3, <3>1
    <3> QED BY <2>2, <3>1, <3>2, <1>1
  <2>6. OnesOf(cs) \in Seq(Seq(Call)) /\ Len(OnesOf(cs)) = n
    BY <2>5, OnesOfType
  <2>7. \A i \in 1 .. n : OnesOf(cs)[i] = Ones(cs[i])
    BY <2>5 DEF OnesOf
  <2>8. n \in 1 .. n /\ \A i \in 1 .. n - 1 : i \in 1 .. n
    BY <1>1, <2>1
  <2>9. OnesOf(cs)[n] = OnesOf(rs)[n] \o <<one>>
    BY <2>4, <2>5, <2>7, <2>8, <1>3 DEF l
  <2>10. \A i \in 1 .. n - 1 : OnesOf(cs)[i] = OnesOf(rs)[i]
    BY <2>5, <2>7, <2>8, <1>3
  <2>11. <<one>> \in Seq(Call)
    BY <1>2
  <2> HIDE DEF one
  <2>12. FlattenSeq(OnesOf(cs)) = FlattenSeq(OnesOf(rs)) \o <<one>>
    <3>1. LastGrows(OnesOf(cs), OnesOf(rs), <<one>>)
      BY <2>1, <2>6, <2>9, <2>10, <1>3 DEF LastGrows
    <3> QED BY <3>1, <2>6, <2>11, <1>3, FlattenLast, Zenon DEF FlatGrows
  <2> QED BY <2>5, <2>12 DEF CallsOf, cs, one
<1> QED BY <1>4, <1>5

-----------------------------------------------------------------------------
(* _join(), unfolded. *)

\* The lines that a search from line k on finds for the i-th call of t.
FoundFor(t, i, k) ==
  {j \in k + 1 .. Min({k + JoinWindow, Len(Mine(t))}) : SameMessage(Mine(t)[j].msg, Calls(t)[i].msg)}
NextLine(t, i, k) == IF FoundFor(t, i, k) = {} THEN k ELSE Min(FoundFor(t, i, k))
JoinFcn(t) == CHOOSE k : k = [i \in 0 .. Len(Calls(t)) |-> IF i = 0 THEN 0 ELSE NextLine(t, i, k[i - 1])]

LEMMA JoinedIsFcn == ASSUME NEW t PROVE Joined(t) = JoinFcn(t)
  BY DEF Joined, JoinFcn, NextLine, FoundFor

LEMMA MineType ==
  ASSUME TypeInv, NEW t \in Threads
  PROVE  Mine(t) \in Seq(Line) /\ Len(Mine(t)) \in Nat /\ Calls(t) \in Seq(Call) /\ Len(Calls(t)) \in Nat
<1>1. runs[t] \in Seq(Run) /\ lines[t] \in Seq(Line)
  BY DEF TypeInv, Tids
<1>2. Calls(t) \in Seq(Call)
  BY <1>1, CallsType, CallsAreOfRuns
<1>3. Mine(t) \in Seq(Line)
  BY <1>1 DEF Mine
<1> QED BY <1>2, <1>3

\* What a search finds lies in its window and in the log.
LEMMA FoundInWindow ==
  ASSUME JoinAssumption, TypeInv, NEW t \in Threads, NEW i, NEW k \in Nat
  PROVE  /\ FoundFor(t, i, k) = {j \in 1 .. Len(Mine(t)) : /\ k < j /\ j <= k + JoinWindow
                                                       /\ SameMessage(Mine(t)[j].msg, Calls(t)[i].msg)}
         /\ NextLine(t, i, k) \in Nat
<1>1. Len(Mine(t)) \in Nat /\ JoinWindow \in Nat
  BY MineType DEF JoinAssumption
<1>2. \A a, b \in Nat : Min({a, b}) = IF a <= b THEN a ELSE b
  BY DEF Min
<1>3. Min({k + JoinWindow, Len(Mine(t))}) = IF k + JoinWindow <= Len(Mine(t)) THEN k + JoinWindow ELSE Len(Mine(t))
  BY <1>1, <1>2
<1>4. FoundFor(t, i, k) = {j \in 1 .. Len(Mine(t)) : /\ k < j /\ j <= k + JoinWindow
                                                     /\ SameMessage(Mine(t)[j].msg, Calls(t)[i].msg)}
  BY <1>1, <1>3 DEF FoundFor
<1>5. FoundFor(t, i, k) \in SUBSET Nat
  BY <1>4
<1>6. FoundFor(t, i, k) # {} => Min(FoundFor(t, i, k)) \in Nat
  BY <1>5, SmallestIsIn
<1> QED BY <1>4, <1>6 DEF NextLine

LEMMA JoinUnfolds ==
  ASSUME JoinAssumption, TypeInv, NEW t \in Threads
  PROVE  /\ Joined(t)[0] = 0
         /\ \A i \in 0 .. Len(Calls(t)) : Joined(t)[i] \in Nat
         /\ \A i \in 1 .. Len(Calls(t)) : Joined(t)[i] = NextLine(t, i, Joined(t)[i - 1])
<1> DEFINE n == Len(Calls(t))
           F == [x \in (1 .. n) \X Nat |-> NextLine(t, x[1], x[2])]
           Val(g, i) == IF i = 0 THEN 0 ELSE NextLine(t, i, g[i - 1])
           f == Joined(t)
<1>1. n \in Nat
  BY MineType
<1>2. \A i, k \in Nat : NextLine(t, i, k) \in Nat
  BY FoundInWindow
<1>3. F \in [(1 .. n) \X Nat -> Nat] /\ 0 \in Nat
  <2> HIDE DEF n
  <2>1. \A x \in (1 .. n) \X Nat : NextLine(t, x[1], x[2]) \in Nat
    BY <1>1, <1>2
  <2> QED BY <2>1
<1>4. \A i \in 1 .. n, k \in Nat : F[<<i, k>>] = NextLine(t, i, k)
  OBVIOUS
<1> HIDE DEF F, n
<1>5. PICK g \in [0 .. n -> Nat] : IsRun(g, n, 0, F)
  BY <1>1, <1>3, StepsSolve
<1>6. \A i \in 0 .. n : i = 0 \/ (i \in 1 .. n /\ i - 1 \in 0 .. n)
  BY <1>1
<1>7. \A i \in 0 .. n : g[i] \in Nat /\ g[i] = Val(g, i)
  <2> SUFFICES ASSUME NEW i \in 0 .. n PROVE g[i] \in Nat /\ g[i] = Val(g, i)
    OBVIOUS
  <2>1. CASE i = 0
    BY <2>1, <1>5 DEF IsRun
  <2>2. CASE i # 0
    <3>1. i \in 1 .. n /\ g[i - 1] \in Nat /\ g[i] = F[<<i, g[i - 1]>>]
      BY <2>2, <1>5, <1>6 DEF IsRun
    <3> QED BY <2>2, <3>1, <1>4
  <2> QED BY <2>1, <2>2
<1>8. g = [i \in 0 .. n |-> Val(g, i)]
  BY <1>7
<1>9. f = [i \in 0 .. n |-> Val(f, i)]
  BY <1>8, JoinedIsFcn DEF JoinFcn, n
<1> HIDE DEF f
<1>10. \A i \in 0 .. n : f[i] = Val(f, i)
  BY <1>9
<1>11. 0 \in 0 .. n /\ \A i \in 1 .. n : i \in 0 .. n /\ i # 0
  BY <1>1
<1>12. f[0] = 0 /\ \A i \in 1 .. n : f[i] = NextLine(t, i, f[i - 1])
  BY <1>10, <1>11
<1> DEFINE P == {i \in Nat : i <= n => f[i] \in Nat}
<1>13. 0 \in P
  BY <1>12
<1>14. ASSUME NEW i \in P PROVE i + 1 \in P
  <2> SUFFICES ASSUME i + 1 <= n PROVE f[i + 1] \in Nat
    OBVIOUS
  <2>1. i <= n /\ i + 1 \in 1 .. n /\ (i + 1) - 1 = i /\ f[i] \in Nat /\ i + 1 \in Nat
    BY <1>1
  <2>2. f[i + 1] = NextLine(t, i + 1, f[i])
    BY <2>1, <1>12
  <2>3. NextLine(t, i + 1, f[i]) \in Nat
    BY <2>1, <1>2, Zenon
  <2> QED BY <2>2, <2>3
<1> HIDE DEF P
<1>15. P = Nat
  <2>1. P \in SUBSET Nat
    BY DEF P
  <2> QED BY <1>13, <1>14, <2>1, NatInd
<1>16. \A i \in 0 .. n : i \in P /\ i <= n
  BY <1>1, <1>15
<1>17. \A i \in 0 .. n : f[i] \in Nat
  BY <1>16 DEF P
<1> QED BY <1>12, <1>17 DEF f, n

-----------------------------------------------------------------------------
(* What the steps do, as the proofs use it. *)

LineOf(c) == [site |-> c.site, msg |-> c.msg]

\* A line l of thread u is the one new in the log.
NewLine(u, l) ==
  /\ u \in Tids /\ l \in Line
  /\ lines' \in [Tids -> Seq(Line)]
  /\ \A v \in Tids \ {u} : lines'[v] = lines[v]
  /\ Len(lines'[u]) = Len(lines[u]) + 1 /\ DOMAIN lines'[u] = DOMAIN lines[u] \cup {Len(lines[u]) + 1}
  /\ lines'[u][Len(lines[u]) + 1] = l
  /\ \A j \in DOMAIN lines[u] : lines'[u][j] = lines[u][j]

OwnStep(t, c) ==
  /\ coming[t] = NoCall /\ c \in Coming /\ IsOwn(LineOf(c)) /\ NewLine(t, LineOf(c))
  /\ c.pos = Len(lines[t]) + 1 /\ coming' = [coming EXCEPT ![t] = c]
  /\ UNCHANGED <<tagged, fileVars, filed>>
HelperStep(t, c) ==
  /\ coming[t] = NoCall /\ c \in Coming /\ IsHelper(LineOf(c)) /\ NewLine(Other, LineOf(c))
  /\ c.pos = 0 /\ coming' = [coming EXCEPT ![t] = c]
  /\ UNCHANGED <<tagged, fileVars, filed>>
CaughtStep(u, l) == IsCaught(l) /\ NewLine(u, l) /\ UNCHANGED <<tagged, coming, fileVars, filed>>

\* A call of t leaves for Python.
Arrives(t) == coming[t] \in Coming /\ coming' = [coming EXCEPT ![t] = NoCall] /\ UNCHANGED <<logVars, filed>>

\* It counts for its callable.
Tallied(c) ==
  /\ count' = [count EXCEPT ![c.qual] = @ + 1]
  /\ where' = [where EXCEPT ![c.qual] = @ \cup {c.site}]
  /\ DOMAIN panics' = Quals
  /\ \A q \in Quals \ {c.qual} : panics'[q] = panics[q]
  /\ IF c.msg \in DOMAIN panics[c.qual] \/ Cardinality(DOMAIN panics[c.qual]) < MaxMessages
     THEN DOMAIN panics'[c.qual] = DOMAIN panics[c.qual] \cup {c.msg}
     ELSE DOMAIN panics'[c.qual] = DOMAIN panics[c.qual]

\* It is the last in its thread's record, or nothing is from here on.
Kept(t, c) ==
  /\ t \notin full /\ full' = full
  /\ runs' \in [Threads -> Seq(Run)]
  /\ true' = [true EXCEPT ![t] = Append(@, c.pos)]
  /\ \A v \in Threads \ {t} : Calls(v)' = Calls(v)
  /\ Calls(t)' = Calls(t) \o <<[qual |-> c.qual, msg |-> c.msg]>>
Refused(t) == full' = full \cup {t} /\ UNCHANGED <<runs, true>>

LostStep(t)  == Arrives(t) /\ filed /\ UNCHANGED fileVars
CountStep(t) == Arrives(t) /\ ~filed /\ Tallied(coming[t]) /\ (Kept(t, coming[t]) \/ Refused(t))

AnyStep ==
  \/ \E t \in Threads, c \in Coming : OwnStep(t, c)
  \/ \E t \in Threads, c \in Coming : HelperStep(t, c)
  \/ \E u \in Tids, l \in Line : CaughtStep(u, l)
  \/ \E t \in Threads : LostStep(t)
  \/ \E t \in Threads : CountStep(t)
  \/ WriteResult
  \/ UNCHANGED vars

LEMMA PrintsLine ==
  ASSUME TypeInv, NEW u \in Tids, NEW s, NEW m, [site |-> s, msg |-> m] \in Line, Prints(u, s, m)
  PROVE  NewLine(u, [site |-> s, msg |-> m])
<1> DEFINE l == [site |-> s, msg |-> m]
<1>1. lines \in [Tids -> Seq(Line)] /\ lines[u] \in Seq(Line) /\ l \in Line
  BY DEF TypeInv
<1>2. lines' = [lines EXCEPT ![u] = Append(@, l)]
  BY DEF Prints
<1> HIDE DEF l
<1>3. lines' \in [Tids -> Seq(Line)] /\ lines'[u] = Append(lines[u], l)
  BY <1>1, <1>2
<1>4. \A v \in Tids \ {u} : lines'[v] = lines[v]
  BY <1>1, <1>2
<1>5. /\ Len(lines'[u]) = Len(lines[u]) + 1 /\ DOMAIN lines'[u] = DOMAIN lines[u] \cup {Len(lines[u]) + 1}
      /\ lines'[u][Len(lines[u]) + 1] = l
      /\ \A j \in DOMAIN lines[u] : lines'[u][j] = lines[u][j]
  BY <1>1, <1>3
<1> QED BY <1>1, <1>3, <1>4, <1>5 DEF NewLine, l

LEMMA PanicKinds ==
  ASSUME JoinAssumption, TypeInv, NEW t \in Threads, NEW q \in Quals, Panic(t, q)
  PROVE  \E c \in Coming : OwnStep(t, c) \/ HelperStep(t, c)
<1>1. coming[t] = NoCall /\ UNCHANGED <<tagged, fileVars, filed>> /\ t \in Tids /\ Other \in Tids
  BY DEF Panic, Tids
<1>2. lines[t] \in Seq(Line) /\ Len(lines[t]) + 1 \in Nat
  BY <1>1 DEF TypeInv
<1>3. CASE \E s \in DOMAIN OwnSites : \E m \in OwnSites[s] :
             /\ Prints(t, s, m)
             /\ coming' = [coming EXCEPT ![t] = [qual |-> q, msg |-> m, site |-> s, pos |-> Len(lines[t]) + 1]]
  <2>1. PICK s \in DOMAIN OwnSites : \E m \in OwnSites[s] :
             /\ Prints(t, s, m)
             /\ coming' = [coming EXCEPT ![t] = [qual |-> q, msg |-> m, site |-> s, pos |-> Len(lines[t]) + 1]]
    BY <1>3
  <2>2. PICK m \in OwnSites[s] :
             /\ Prints(t, s, m)
             /\ coming' = [coming EXCEPT ![t] = [qual |-> q, msg |-> m, site |-> s, pos |-> Len(lines[t]) + 1]]
    BY <2>1
  <2> DEFINE c == [qual |-> q, msg |-> m, site |-> s, pos |-> Len(lines[t]) + 1]
  <2>3. m \in Messages /\ s \in Sites
    BY DEF JoinAssumption, Sites
  <2>4. c \in Coming /\ LineOf(c) = [site |-> s, msg |-> m] /\ [site |-> s, msg |-> m] \in Line
    BY <1>2, <2>3 DEF Coming, LineOf, Line
  <2>5. NewLine(t, LineOf(c))
    BY <2>2, <2>4, <1>1, PrintsLine
  <2>6. IsOwn(LineOf(c))
    BY <2>4 DEF IsOwn
  <2> QED BY <1>1, <2>2, <2>4, <2>5, <2>6 DEF OwnStep
<1>4. CASE \E s \in DOMAIN HelperSites : \E m \in HelperSites[s] :
             /\ Prints(Other, s, m)
             /\ coming' = [coming EXCEPT ![t] = [qual |-> q, msg |-> m, site |-> s, pos |-> 0]]
  <2>1. PICK s \in DOMAIN HelperSites : \E m \in HelperSites[s] :
             /\ Prints(Other, s, m)
             /\ coming' = [coming EXCEPT ![t] = [qual |-> q, msg |-> m, site |-> s, pos |-> 0]]
    BY <1>4
  <2>2. PICK m \in HelperSites[s] :
             /\ Prints(Other, s, m)
             /\ coming' = [coming EXCEPT ![t] = [qual |-> q, msg |-> m, site |-> s, pos |-> 0]]
    BY <2>1
  <2> DEFINE c == [qual |-> q, msg |-> m, site |-> s, pos |-> 0]
  <2>3. m \in Messages /\ s \in Sites
    BY DEF JoinAssumption, Sites
  <2>4. c \in Coming /\ LineOf(c) = [site |-> s, msg |-> m] /\ [site |-> s, msg |-> m] \in Line
    BY <2>3 DEF Coming, LineOf, Line
  <2>5. NewLine(Other, LineOf(c))
    BY <2>2, <2>4, <1>1, PrintsLine
  <2>6. IsHelper(LineOf(c))
    BY <2>4 DEF IsHelper
  <2> QED BY <1>1, <2>2, <2>4, <2>5, <2>6 DEF HelperStep
<1> QED BY <1>3, <1>4 DEF Panic

LEMMA CaughtKind ==
  ASSUME JoinAssumption, TypeInv, NEW u \in Tids, CaughtPanic(u)
  PROVE  \E l \in Line : CaughtStep(u, l)
<1>1. PICK s \in DOMAIN CaughtSites : \E m \in CaughtSites[s] : Prints(u, s, m)
  BY DEF CaughtPanic
<1>2. PICK m \in CaughtSites[s] : Prints(u, s, m)
  BY <1>1
<1>3. m \in Messages /\ s \in Sites
  BY DEF JoinAssumption, Sites
<1>4. [site |-> s, msg |-> m] \in Line
  BY <1>3 DEF Line
<1>5. NewLine(u, [site |-> s, msg |-> m])
  BY <1>2, <1>4, PrintsLine
<1>6. IsCaught([site |-> s, msg |-> m])
  BY DEF IsCaught
<1> QED BY <1>4, <1>5, <1>6 DEF CaughtStep, CaughtPanic

LEMMA RecordKinds ==
  ASSUME JoinAssumption, TypeInv, NEW t \in Threads, Record(t)
  PROVE  LostStep(t) \/ CountStep(t)
<1> DEFINE c == coming[t]
           kept == panics[c.qual]
<1>1. c \in Coming /\ c.qual \in Quals /\ c.msg \in Messages
  BY DEF Record, TypeInv, Coming
<1>2. Arrives(t)
  BY <1>1 DEF Record, Arrives
<1>3. CASE filed
  BY <1>2, <1>3 DEF Record, LostStep
<1>4. CASE ~ filed
  <2>1. /\ count' = [count EXCEPT ![c.qual] = @ + 1]
        /\ where' = [where EXCEPT ![c.qual] = @ \cup {c.site}]
        /\ panics' = [panics EXCEPT ![c.qual] =
               IF c.msg \in DOMAIN kept THEN [kept EXCEPT ![c.msg] = @ + 1]
               ELSE IF Cardinality(DOMAIN kept) < MaxMessages
                 THEN [m \in DOMAIN kept \cup {c.msg} |-> IF m = c.msg THEN 1 ELSE kept[m]]
                 ELSE kept]
        /\ RecordRun(t, c)
    BY <1>4 DEF Record
  <2>2. Tallied(c)
    <3>1. DOMAIN panics = Quals
      BY DEF TypeInv
    <3>2. DOMAIN panics' = Quals /\ \A q \in Quals \ {c.qual} : panics'[q] = panics[q]
      BY <2>1, <3>1
    <3>3. panics'[c.qual] =
               IF c.msg \in DOMAIN kept THEN [kept EXCEPT ![c.msg] = @ + 1]
               ELSE IF Cardinality(DOMAIN kept) < MaxMessages
                 THEN [m \in DOMAIN kept \cup {c.msg} |-> IF m = c.msg THEN 1 ELSE kept[m]]
                 ELSE kept
      BY <2>1, <3>1, <1>1
    <3>4. IF c.msg \in DOMAIN kept \/ Cardinality(DOMAIN kept) < MaxMessages
          THEN DOMAIN panics'[c.qual] = DOMAIN kept \cup {c.msg}
          ELSE DOMAIN panics'[c.qual] = DOMAIN kept
      BY <3>3
    <3> QED BY <2>1, <3>2, <3>4 DEF Tallied
  <2> DEFINE room == /\ t \notin full
                     /\ \/ Merges(runs[t], c)
                        \/ Len(runs[t]) < MaxRuns /\ RunsOf(runs) < MaxRunsTotal
  <2>3. /\ full' = IF room THEN full ELSE full \cup {t}
        /\ runs' = IF room THEN [runs EXCEPT ![t] = Counted(@, c)] ELSE runs
        /\ true' = IF room THEN [true EXCEPT ![t] = Append(@, c.pos)] ELSE true
    BY <2>1 DEF RecordRun
  <2>4. CASE ~ room
    <3>1. Refused(t)
      BY <2>3, <2>4 DEF Refused
    <3> QED BY <1>2, <1>4, <2>2, <3>1 DEF CountStep
  <2>5. CASE room
    <3>1. runs \in [Threads -> Seq(Run)] /\ runs[t] \in Seq(Run)
      BY DEF TypeInv
    <3>2. runs' = [runs EXCEPT ![t] = Counted(runs[t], c)]
      BY <2>3, <2>5
    <3>3. Counted(runs[t], c) \in Seq(Run)
      BY <1>1, <3>1, CountedCalls
    <3>4. CallsOf(Counted(runs[t], c)) = CallsOf(runs[t]) \o <<[qual |-> c.qual, msg |-> c.msg]>>
      BY <1>1, <3>1, CountedCalls
    <3> HIDE DEF c
    <3>5. runs' \in [Threads -> Seq(Run)] /\ runs'[t] = Counted(runs[t], c)
          /\ \A v \in Threads \ {t} : runs'[v] = runs[v]
      BY <3>1, <3>2, <3>3
    <3>6. \A v : Calls(v)' = CallsOf(runs'[v]) /\ Calls(v) = CallsOf(runs[v])
      BY DEF Calls, CallsOf, OnesOf, Ones
    <3>7. Kept(t, c)
      BY <2>3, <2>5, <3>4, <3>5, <3>6 DEF Kept
    <3> QED BY <1>2, <1>4, <2>2, <3>7 DEF CountStep, c
  <2> QED BY <2>4, <2>5
<1> QED BY <1>3, <1>4

LEMMA StepKinds == ASSUME JoinAssumption, TypeInv, [Next]_vars PROVE AnyStep
<1>1. ASSUME NEW t \in Threads, Record(t) PROVE AnyStep
  BY <1>1, RecordKinds DEF AnyStep
<1>2. ASSUME NEW t \in Threads, NEW q \in Quals, Panic(t, q) PROVE AnyStep
  BY <1>2, PanicKinds DEF AnyStep
<1>3. ASSUME NEW u \in Tids, CaughtPanic(u) PROVE AnyStep
  BY <1>3, CaughtKind DEF AnyStep
<1>4. CASE WriteResult \/ UNCHANGED vars
  BY <1>4 DEF AnyStep
<1> QED BY <1>1, <1>2, <1>3, <1>4 DEF Next

-----------------------------------------------------------------------------
(* What lines and calls are, through every step. *)

\* What was printed stays.
LogGrows == \A v \in Tids : \A j \in DOMAIN lines[v] : j \in DOMAIN lines'[v] /\ lines'[v][j] = lines[v][j]

LEMMA LogKeeps == ASSUME TypeInv, AnyStep PROVE LogGrows
<1>1. ASSUME NEW u, NEW l, NewLine(u, l) PROVE LogGrows
  BY <1>1 DEF NewLine, LogGrows
<1>2. CASE UNCHANGED lines
  BY <1>2 DEF LogGrows
<1> QED BY <1>1, <1>2 DEF AnyStep, OwnStep, HelperStep, CaughtStep, LostStep, CountStep, Arrives, WriteResult,
        logVars, vars

LEMMA TypeStep == ASSUME JoinAssumption, TypeInv, AnyStep PROVE TypeInv'
<1>1. ASSUME NEW u, NEW l, NewLine(u, l), coming' \in [Threads -> Coming \cup {NoCall}],
             UNCHANGED <<tagged, fileVars, filed>>
      PROVE  TypeInv'
  <2>1. lines' \in [Tids -> Seq(Line)]
    BY <1>1 DEF NewLine
  <2> QED BY <1>1, <2>1 DEF TypeInv, fileVars
<1>2. ASSUME NEW t \in Threads, NEW c \in Coming, OwnStep(t, c) \/ HelperStep(t, c) PROVE TypeInv'
  <2>1. coming' \in [Threads -> Coming \cup {NoCall}]
    BY <1>2 DEF OwnStep, HelperStep, TypeInv
  <2> QED BY <1>1, <1>2, <2>1 DEF OwnStep, HelperStep
<1>3. ASSUME NEW u \in Tids, NEW l \in Line, CaughtStep(u, l) PROVE TypeInv'
  BY <1>1, <1>3 DEF CaughtStep, TypeInv
<1>4. ASSUME NEW t \in Threads, LostStep(t) PROVE TypeInv'
  BY <1>4 DEF LostStep, Arrives, TypeInv, fileVars, logVars
<1>5. ASSUME NEW t \in Threads, CountStep(t) PROVE TypeInv'
  <2> DEFINE c == coming[t]
  <2>1. c \in Coming /\ c.qual \in Quals /\ c.msg \in Messages /\ c.site \in Sites /\ c.pos \in Nat
    BY <1>5 DEF CountStep, Arrives, Coming
  <2> HIDE DEF c
  <2>2. Tallied(c)
    BY <1>5 DEF CountStep, c
  <2>3. coming' \in [Threads -> Coming \cup {NoCall}] /\ tagged' \in BOOLEAN /\ filed' \in BOOLEAN
        /\ lines' \in [Tids -> Seq(Line)]
    BY <1>5 DEF CountStep, Arrives, TypeInv, logVars
  <2>4. count' \in [Quals -> Nat] /\ where' \in [Quals -> SUBSET Sites]
    BY <2>1, <2>2 DEF Tallied, TypeInv
  <2>5. DOMAIN panics' = Quals
    BY <2>2 DEF Tallied
  <2>6. ASSUME NEW q \in Quals PROVE DOMAIN panics'[q] \subseteq Messages /\ IsFiniteSet(DOMAIN panics'[q])
    <3>1. DOMAIN panics[q] \subseteq Messages /\ IsFiniteSet(DOMAIN panics[q])
      BY DEF TypeInv
    <3>2. IsFiniteSet(DOMAIN panics[q] \cup {c.msg})
      BY <3>1, FS_AddElement
    <3>3. DOMAIN panics'[q] = DOMAIN panics[q] \/ DOMAIN panics'[q] = DOMAIN panics[q] \cup {c.msg}
      BY <2>2 DEF Tallied
    <3> QED BY <3>1, <3>2, <3>3, <2>1
  <2>7. runs' \in [Threads -> Seq(Run)] /\ full' \subseteq Threads /\ true' \in [Threads -> Seq(Nat)]
    <3>1. CASE Kept(t, c)
      <4>1. Append(true[t], c.pos) \in Seq(Nat)
        BY <2>1 DEF TypeInv
      <4> QED BY <3>1, <4>1 DEF Kept, TypeInv
    <3>2. CASE Refused(t)
      BY <3>2 DEF Refused, TypeInv
    <3> QED BY <3>1, <3>2, <1>5 DEF CountStep, c
  <2> QED BY <2>3, <2>4, <2>5, <2>6, <2>7 DEF TypeInv
<1>6. CASE WriteResult \/ UNCHANGED vars
  BY <1>6 DEF WriteResult, TypeInv, vars, logVars, fileVars
<1> QED BY <1>2, <1>3, <1>4, <1>5, <1>6 DEF AnyStep

LEMMA LinesStep == ASSUME JoinAssumption, TypeInv, LinesInv, AnyStep PROVE LinesInv'
<1>1. ASSUME NEW u, NEW l, NewLine(u, l), u \in Threads => IsOwn(l) \/ IsCaught(l) PROVE LinesInv'
  <2> SUFFICES ASSUME NEW t \in Threads, NEW j \in DOMAIN lines'[t]
               PROVE  IsOwn(lines'[t][j]) \/ IsCaught(lines'[t][j])
    BY DEF LinesInv, IsOwn, IsCaught
  <2>1. t \in Tids
    BY DEF Tids
  <2>2. CASE j \in DOMAIN lines[t]
    <3>1. lines'[t][j] = lines[t][j]
      BY <1>1, <2>1, <2>2 DEF NewLine
    <3> QED BY <2>2, <3>1 DEF LinesInv
  <2>3. CASE j \notin DOMAIN lines[t]
    <3>1. t = u /\ lines'[t][j] = l
      BY <1>1, <2>1, <2>3 DEF NewLine
    <3> QED BY <3>1, <1>1
  <2> QED BY <2>2, <2>3
<1>2. CASE UNCHANGED lines
  BY <1>2 DEF LinesInv, IsOwn, IsCaught
<1>3. ASSUME NEW t \in Threads, NEW c \in Coming, OwnStep(t, c) \/ HelperStep(t, c) PROVE LinesInv'
  <2>1. CASE OwnStep(t, c)
    BY <1>1, <2>1 DEF OwnStep
  <2>2. CASE HelperStep(t, c)
    <3>1. Other \notin Threads
      BY DEF JoinAssumption
    <3> QED BY <1>1, <2>2, <3>1 DEF HelperStep
  <2> QED BY <1>3, <2>1, <2>2
<1>4. ASSUME NEW u \in Tids, NEW l \in Line, CaughtStep(u, l) PROVE LinesInv'
  BY <1>1, <1>4 DEF CaughtStep
<1> QED BY <1>2, <1>3, <1>4 DEF AnyStep, LostStep, CountStep, Arrives, WriteResult, logVars, vars

LEMMA CallsSame == ASSUME UNCHANGED runs PROVE \A t : Calls(t)' = Calls(t)
  BY DEF Calls

\* The log still has what a call had in it.
LEMMA LinesStay ==
  ASSUME TypeInv, LogGrows
  PROVE  /\ \A m : HelperLine(m) => HelperLine(m)'
         /\ \A t \in Threads : \A p, m : OwnLine(t, p, m) => OwnLine(t, p, m)' /\ lines'[t][p] = lines[t][p]
<1>1. Other \in Tids /\ \A t \in Threads : t \in Tids
  BY DEF Tids
<1>2. ASSUME NEW m, HelperLine(m) PROVE HelperLine(m)'
  BY <1>1, <1>2 DEF LogGrows, HelperLine, IsHelper
<1>3. ASSUME NEW t \in Threads, NEW p, NEW m, OwnLine(t, p, m)
      PROVE  OwnLine(t, p, m)' /\ lines'[t][p] = lines[t][p]
  BY <1>1, <1>3 DEF LogGrows, OwnLine, IsOwn
<1> QED BY <1>2, <1>3

\* The calls of a thread and their lines, as numbers.
LEMMA CallsTyped ==
  ASSUME TypeInv, CallsInv, NEW t \in Threads
  PROVE  /\ Len(true[t]) \in Nat /\ DOMAIN true[t] = 1 .. Len(true[t])
         /\ Len(Calls(t)) = Len(true[t]) /\ DOMAIN Calls(t) = 1 .. Len(true[t])
         /\ \A i \in DOMAIN true[t] : /\ true[t][i] \in Nat /\ Calls(t)[i] \in Call
                                      /\ Calls(t)[i].qual \in Quals /\ Calls(t)[i].msg \in Messages
<1>1. true[t] \in Seq(Nat) /\ Calls(t) \in Seq(Call) /\ Len(Calls(t)) = Len(true[t])
  BY MineType DEF TypeInv, CallsInv
<1>2. \A x \in Call : x.qual \in Quals /\ x.msg \in Messages
  BY DEF Call
<1>3. \A i \in DOMAIN true[t] : true[t][i] \in Nat /\ Calls(t)[i] \in Call
  BY <1>1
<1> QED BY <1>1, <1>2, <1>3

\* r is s with x after it.
IsOneMore(r, s, x) ==
  /\ Len(r) = Len(s) + 1 /\ r[Len(s) + 1] = x
  /\ \A i \in 1 .. Len(s) : r[i] = s[i]

LEMMA OneMore == ASSUME NEW S, NEW s \in Seq(S), NEW x \in S PROVE IsOneMore(s \o <<x>>, s, x)
  BY DEF IsOneMore

\* r is s with x after it, as a longer sequence.
IsLonger(r, s, x) ==
  /\ Len(r) = Len(s) + 1 /\ DOMAIN r = DOMAIN s \cup {Len(s) + 1} /\ r[Len(s) + 1] = x
  /\ \A i \in DOMAIN s : r[i] = s[i]

LEMMA Longer == ASSUME NEW s \in Seq(Nat), NEW x \in Nat PROVE IsLonger(Append(s, x), s, x)
<1>1. Len(Append(s, x)) = Len(s) + 1 /\ Append(s, x)[Len(s) + 1] = x
  OBVIOUS
<1>2. DOMAIN Append(s, x) = DOMAIN s \cup {Len(s) + 1}
  OBVIOUS
<1>3. \A i \in DOMAIN s : Append(s, x)[i] = s[i]
  OBVIOUS
<1> QED BY <1>1, <1>2, <1>3 DEF IsLonger

\* A call that is kept comes last in the record of its thread.
RecordGrows(t, c, n) ==
  /\ n \in Nat /\ n + 1 \notin DOMAIN true[t] /\ \A i \in DOMAIN true[t] : i < n + 1
  /\ Len(true'[t]) = n + 1 /\ DOMAIN true'[t] = DOMAIN true[t] \cup {n + 1} /\ true'[t][n + 1] = c.pos
  /\ \A i \in DOMAIN true[t] : true'[t][i] = true[t][i] /\ Calls(t)'[i] = Calls(t)[i]
  /\ Len(Calls(t)') = n + 1 /\ Calls(t)'[n + 1].qual = c.qual /\ Calls(t)'[n + 1].msg = c.msg
  /\ \A v \in Threads \ {t} : true'[v] = true[v] /\ Calls(v)' = Calls(v)

LEMMA KeptCalls ==
  ASSUME JoinAssumption, TypeInv, CallsInv, NEW t \in Threads, NEW c \in Coming, Kept(t, c),
         NEW n, n = Len(true[t])
  PROVE  RecordGrows(t, c, n)
<1> DEFINE x == [qual |-> c.qual, msg |-> c.msg]
           s == Calls(t)
<1>1. x \in Call /\ x.qual = c.qual /\ x.msg = c.msg /\ c.pos \in Nat
  BY DEF Call, Coming
<1>2. true[t] \in Seq(Nat) /\ s \in Seq(Call) /\ Len(s) = n
  BY MineType, CallsTyped DEF TypeInv
<1>3. /\ true'[t] = Append(true[t], c.pos) /\ Calls(t)' = s \o <<x>>
      /\ \A v \in Threads \ {t} : true'[v] = true[v] /\ Calls(v)' = Calls(v)
  BY DEF Kept, TypeInv
<1>4. /\ n \in Nat /\ DOMAIN true[t] = 1 .. n /\ Len(true'[t]) = n + 1 /\ DOMAIN true'[t] = DOMAIN true[t] \cup {n + 1}
      /\ true'[t][n + 1] = c.pos /\ \A i \in DOMAIN true[t] : true'[t][i] = true[t][i]
  <2>1. IsLonger(true'[t], true[t], c.pos)
    <3>1. IsLonger(Append(true[t], c.pos), true[t], c.pos)
      BY <1>1, <1>2, Longer, Zenon
    <3> QED BY <3>1, <1>3
  <2>2. n \in Nat /\ DOMAIN true[t] = 1 .. n
    BY CallsTyped
  <2> QED BY <2>1, <2>2 DEF IsLonger
<1> HIDE DEF x, s
<1>5. IsOneMore(Calls(t)', s, x)
  BY <1>1, <1>2, <1>3, OneMore
<1>6. /\ Len(Calls(t)') = n + 1 /\ Calls(t)'[n + 1] = x
      /\ \A i \in DOMAIN true[t] : Calls(t)'[i] = s[i]
  BY <1>2, <1>4, <1>5 DEF IsOneMore
<1>7. n + 1 \notin DOMAIN true[t] /\ \A i \in DOMAIN true[t] : i < n + 1
  BY <1>4
<1>8. Calls(t)'[n + 1].qual = c.qual /\ Calls(t)'[n + 1].msg = c.msg
  BY <1>1, <1>6
<1>9. \A i \in DOMAIN true[t] : true'[t][i] = true[t][i] /\ Calls(t)'[i] = Calls(t)[i]
  BY <1>4, <1>6 DEF s
<1> QED BY <1>3, <1>4, <1>6, <1>7, <1>8, <1>9 DEF RecordGrows

LEMMA CallsStep == ASSUME JoinAssumption, TypeInv, CallsInv, ComingInv, AnyStep PROVE CallsInv'
<1>0. LogGrows
  BY LogKeeps
<1>1. ASSUME NEW t \in Threads, true'[t] = true[t], Calls(t)' = Calls(t),
             \A q \in Quals : where[q] \subseteq where'[q]
      PROVE  Len(Calls(t)') = Len(true'[t]) /\ \A i \in DOMAIN true'[t] : CallHasLine(t, i)'
  <2>1. Len(Calls(t)) = Len(true[t]) /\ \A i \in DOMAIN true[t] : CallHasLine(t, i)
    BY DEF CallsInv
  <2>2. ASSUME NEW i \in DOMAIN true[t] PROVE CallHasLine(t, i)'
    <3>1. CallHasLine(t, i)
      BY <2>1
    <3>2. Calls(t)[i].qual \in Quals
      BY CallsTyped
    <3>3. true[t][i] = 0 => \A m : m = Calls(t)[i].msg => HelperLine(m)'
      BY <3>1, <1>0, LinesStay DEF CallHasLine
    <3>4. true[t][i] # 0 => \A p, m : p = true[t][i] /\ m = Calls(t)[i].msg =>
            OwnLine(t, p, m)' /\ lines'[t][p].site \in where'[Calls(t)[i].qual]
      BY <3>1, <3>2, <1>0, <1>1, LinesStay DEF CallHasLine
    <3> QED BY <3>1, <3>3, <3>4, <1>1 DEF CallHasLine, HelperLine, OwnLine
  <2> QED BY <2>1, <2>2, <1>1
<1>2. CASE UNCHANGED <<runs, true>> /\ \A q \in Quals : where[q] \subseteq where'[q]
  <2>1. \A t \in Threads : Len(Calls(t)') = Len(true'[t]) /\ \A i \in DOMAIN true'[t] : CallHasLine(t, i)'
    BY <1>1, <1>2, CallsSame
  <2> QED BY <2>1 DEF CallsInv, CallHasLine
<1>3. ASSUME NEW t \in Threads, CountStep(t) PROVE CallsInv'
  <2> DEFINE c == coming[t]
             n == Len(true[t])
  <2>1. c \in Coming /\ c.qual \in Quals /\ c.msg \in Messages /\ c.site \in Sites /\ c.pos \in Nat /\ c # NoCall
    BY <1>3 DEF CountStep, Arrives, Coming, JoinAssumption
  <2>2. Tallied(c)
    BY <1>3 DEF CountStep
  <2>3. (\A q \in Quals : where[q] \subseteq where'[q]) /\ c.site \in where'[c.qual]
    BY <2>1, <2>2 DEF Tallied, TypeInv
  <2>4. CASE Refused(t)
    BY <1>2, <2>3, <2>4 DEF Refused
  <2>5. CASE Kept(t, c)
    <3>0. c \in Coming
      BY <2>1
    <3> HIDE DEF c
    <3>5. /\ n \in Nat /\ \A i \in DOMAIN true[t] : i < n + 1
          /\ Len(true'[t]) = n + 1 /\ DOMAIN true'[t] = DOMAIN true[t] \cup {n + 1} /\ true'[t][n + 1] = c.pos
          /\ \A i \in DOMAIN true[t] : true'[t][i] = true[t][i] /\ Calls(t)'[i] = Calls(t)[i]
          /\ Len(Calls(t)') = n + 1 /\ Calls(t)'[n + 1].qual = c.qual /\ Calls(t)'[n + 1].msg = c.msg
          /\ \A v \in Threads \ {t} : true'[v] = true[v] /\ Calls(v)' = Calls(v)
      <4>1. RecordGrows(t, c, n)
        BY <3>0, <2>5, KeptCalls, Zenon
      <4> QED BY <4>1 DEF RecordGrows
    <3> HIDE DEF n
    <3>1. ASSUME NEW v \in Threads, v # t
          PROVE  Len(Calls(v)') = Len(true'[v]) /\ \A i \in DOMAIN true'[v] : CallHasLine(v, i)'
      <4>1. true'[v] = true[v] /\ Calls(v)' = Calls(v)
        BY <3>1, <3>5
      <4> QED BY <4>1, <1>1, <2>3
    <3>2. DOMAIN true[t] = 1 .. n
      BY CallsTyped DEF n
    <3>7. ASSUME NEW i \in DOMAIN true[t] PROVE CallHasLine(t, i)'
      <4>1. CallHasLine(t, i)
        BY DEF CallsInv
      <4>2. true'[t][i] = true[t][i] /\ Calls(t)'[i] = Calls(t)[i] /\ Calls(t)[i].qual \in Quals
        BY <3>5, CallsTyped
      <4>3. true[t][i] = 0 => \A m : m = Calls(t)[i].msg => HelperLine(m)'
        BY <4>1, <1>0, LinesStay DEF CallHasLine
      <4>4. true[t][i] # 0 => \A p, m : p = true[t][i] /\ m = Calls(t)[i].msg =>
              OwnLine(t, p, m)' /\ lines'[t][p].site \in where'[Calls(t)[i].qual]
        BY <4>1, <4>2, <1>0, <2>3, LinesStay DEF CallHasLine
      <4>5. true'[t][i] # 0 => \A j \in DOMAIN true'[t] : j < i => true'[t][j] < true'[t][i]
        <5>1. \A j \in DOMAIN true'[t] : j < i => j \in DOMAIN true[t]
          BY <3>2, <3>5
        <5> QED BY <5>1, <4>1, <4>2, <3>5 DEF CallHasLine
      <4> QED BY <4>2, <4>3, <4>4, <4>5 DEF CallHasLine, HelperLine, OwnLine
    <3>8. ASSUME NEW k, k = n + 1 PROVE CallHasLine(t, k)'
      <4>1. c.pos = 0 => \E j \in DOMAIN lines[Other] : IsHelper(lines[Other][j]) /\ lines[Other][j] = LineOf(c)
        BY <2>1 DEF ComingInv, ComingHasLine, LineOf, c
      <4>2. c.pos # 0 => /\ c.pos \in DOMAIN lines[t] /\ IsOwn(lines[t][c.pos]) /\ lines[t][c.pos] = LineOf(c)
                         /\ \A i \in DOMAIN true[t] : true[t][i] < c.pos
        BY <2>1 DEF ComingInv, ComingHasLine, LineOf, c
      <4>3. LineOf(c).msg = c.msg /\ LineOf(c).site = c.site
        BY DEF LineOf
      <4>4. c.pos = 0 => \A m : m = c.msg => HelperLine(m)'
        <5>1. c.pos = 0 => HelperLine(c.msg)
          BY <4>1, <4>3 DEF HelperLine
        <5> QED BY <5>1, <1>0, LinesStay
      <4>5. c.pos # 0 => \A p, m : p = c.pos /\ m = c.msg => OwnLine(t, p, m)' /\ lines'[t][p].site = c.site
        <5>1. c.pos # 0 => OwnLine(t, c.pos, c.msg) /\ lines[t][c.pos].site = c.site
          BY <4>2, <4>3 DEF OwnLine
        <5> QED BY <5>1, <1>0, LinesStay
      <4>6. c.pos # 0 => \A j \in DOMAIN true'[t] : j < n + 1 => true'[t][j] < c.pos
        <5>1. \A j \in DOMAIN true'[t] : j < n + 1 => j \in DOMAIN true[t]
          BY <3>2, <3>5
        <5> QED BY <5>1, <4>2, <3>5
      <4>7. Calls(t)'[n + 1].msg = c.msg /\ Calls(t)'[n + 1].qual = c.qual
        BY <3>5
      <4> QED BY <3>8, <4>4, <4>5, <4>6, <4>7, <3>5, <2>3 DEF CallHasLine, HelperLine, OwnLine
    <3>9. Len(Calls(t)') = Len(true'[t]) /\ \A i \in DOMAIN true'[t] : CallHasLine(t, i)'
      BY <3>5, <3>7, <3>8
    <3>10. \A v \in Threads : Len(Calls(v)') = Len(true'[v]) /\ \A i \in DOMAIN true'[v] : CallHasLine(v, i)'
      BY <3>1, <3>9
    <3> QED BY <3>10 DEF CallsInv, CallHasLine
  <2> QED BY <2>4, <2>5, <1>3 DEF CountStep
<1>4. CASE UNCHANGED fileVars
  BY <1>2, <1>4 DEF fileVars
<1> QED BY <1>3, <1>4 DEF AnyStep, OwnStep, HelperStep, CaughtStep, LostStep, WriteResult, logVars, vars

\* The lines of recorded calls are in the log.
LEMMA TrueInLog ==
  ASSUME TypeInv, CallsInv, NEW t \in Threads, NEW i \in DOMAIN true[t]
  PROVE  true[t][i] = 0 \/ true[t][i] \in DOMAIN lines[t]
  BY DEF CallsInv, CallHasLine, OwnLine

LEMMA LinesTyped == ASSUME TypeInv, NEW v \in Tids PROVE Len(lines[v]) \in Nat /\ DOMAIN lines[v] = 1 .. Len(lines[v])
<1>1. lines[v] \in Seq(Line)
  BY DEF TypeInv
<1> QED BY <1>1

LEMMA ComingStep == ASSUME JoinAssumption, TypeInv, CallsInv, ComingInv, AnyStep PROVE ComingInv'
<1>0. LogGrows /\ Other \in Tids /\ Other \notin Threads /\ \A t \in Threads : t \in Tids
  BY LogKeeps DEF Tids, JoinAssumption
<1>1. ASSUME NEW t \in Threads, true'[t] = true[t], coming'[t] = coming[t]
      PROVE  coming'[t] # NoCall => ComingHasLine(t, coming[t])'
  <2> SUFFICES ASSUME NEW c, c = coming[t], c # NoCall, coming'[t] = c PROVE ComingHasLine(t, c)'
    BY <1>1
  <2>1. ComingHasLine(t, c)
    BY DEF ComingInv
  <2>2. c.pos = 0 => \E j \in DOMAIN lines'[Other] :
                       IsHelper(lines'[Other][j]) /\ lines'[Other][j] = [site |-> c.site, msg |-> c.msg]
    BY <2>1, <1>0 DEF ComingHasLine, LogGrows
  <2>3. c.pos # 0 => /\ c.pos \in DOMAIN lines'[t] /\ IsOwn(lines'[t][c.pos])
                     /\ lines'[t][c.pos] = [site |-> c.site, msg |-> c.msg]
                     /\ \A i \in DOMAIN true[t] : true[t][i] < c.pos
    BY <2>1, <1>0 DEF ComingHasLine, LogGrows
  <2> QED BY <2>2, <2>3, <1>1 DEF ComingHasLine, IsHelper, IsOwn
<1>2. CASE UNCHANGED <<true, coming>>
  BY <1>1, <1>2 DEF ComingInv
<1>3. ASSUME NEW t \in Threads, NEW c \in Coming, OwnStep(t, c) PROVE ComingInv'
  <2>1. ComingHasLine(t, c)'
    <3>1. /\ c.pos = Len(lines[t]) + 1 /\ c.pos # 0
          /\ c.pos \in DOMAIN lines'[t] /\ lines'[t][c.pos] = LineOf(c) /\ IsOwn(LineOf(c))
      BY <1>3, <1>0, LinesTyped DEF OwnStep, NewLine
    <3>2. \A i \in DOMAIN true[t] : true[t][i] < c.pos
      BY <3>1, <1>0, TrueInLog, LinesTyped
    <3>3. true' = true
      BY <1>3 DEF OwnStep, fileVars
    <3> QED BY <3>1, <3>2, <3>3 DEF ComingHasLine, LineOf, IsOwn
  <2>2. coming'[t] = c /\ (\A v \in Threads \ {t} : coming'[v] = coming[v]) /\ true' = true
    BY <1>3 DEF OwnStep, fileVars, TypeInv
  <2>3. \A v \in Threads : coming'[v] # NoCall => \A d : d = coming'[v] => ComingHasLine(v, d)'
    BY <2>1, <2>2, <1>1
  <2> QED BY <2>3 DEF ComingInv
<1>4. ASSUME NEW t \in Threads, NEW c \in Coming, HelperStep(t, c) PROVE ComingInv'
  <2>1. ComingHasLine(t, c)'
    <3>1. \E j \in DOMAIN lines'[Other] : lines'[Other][j] = LineOf(c) /\ IsHelper(lines'[Other][j])
      BY <1>4, <1>0 DEF HelperStep, NewLine
    <3>2. c.pos = 0
      BY <1>4 DEF HelperStep
    <3> QED BY <3>1, <3>2 DEF ComingHasLine, LineOf, IsHelper
  <2>2. coming'[t] = c /\ (\A v \in Threads \ {t} : coming'[v] = coming[v]) /\ true' = true
    BY <1>4 DEF HelperStep, fileVars, TypeInv
  <2>3. \A v \in Threads : coming'[v] # NoCall => \A d : d = coming'[v] => ComingHasLine(v, d)'
    BY <2>1, <2>2, <1>1
  <2> QED BY <2>3 DEF ComingInv
<1>5. ASSUME NEW t \in Threads, Arrives(t), \A v \in Threads \ {t} : true'[v] = true[v] PROVE ComingInv'
  <2>1. coming'[t] = NoCall /\ \A v \in Threads \ {t} : coming'[v] = coming[v]
    BY <1>5 DEF Arrives, TypeInv
  <2>2. \A v \in Threads : coming'[v] # NoCall => \A d : d = coming'[v] => ComingHasLine(v, d)'
    BY <2>1, <1>1, <1>5
  <2> QED BY <2>2 DEF ComingInv
<1>6. ASSUME NEW t \in Threads, LostStep(t) PROVE ComingInv'
  BY <1>5, <1>6 DEF LostStep, fileVars
<1>7. ASSUME NEW t \in Threads, CountStep(t) PROVE ComingInv'
  <2>1. \A v \in Threads \ {t} : true'[v] = true[v]
    BY <1>7 DEF CountStep, Kept, Refused, TypeInv
  <2> QED BY <2>1, <1>5, <1>7 DEF CountStep
<1> QED BY <1>2, <1>3, <1>4, <1>6, <1>7 DEF AnyStep, CaughtStep, WriteResult, fileVars, logVars, vars

-----------------------------------------------------------------------------
(* Records have no gaps, and are exact where nothing but calls panicked.     *)

LEMMA GapStep == ASSUME JoinAssumption, MessagesApart, TypeInv, CallsInv, ComingInv, GapInv, AnyStep PROVE GapInv'
<1> DEFINE Fits(t, p) == (\E i \in DOMAIN true[t] : true[t][i] = p) \/ Unrecorded(t, p)
<1>0. Other \notin Threads /\ \A t \in Threads : t \in Tids
  BY DEF Tids, JoinAssumption
<1>1. ASSUME NEW t \in Threads, NEW p, Fits(t, p), true'[t] = true[t], full \subseteq full', filed => filed',
             coming'[t] = coming[t] \/ coming[t] = NoCall \/ filed' \/ t \in full'
      PROVE  Fits(t, p)'
  BY <1>1 DEF Unrecorded
<1>2. ASSUME NEW u, NEW l, NewLine(u, l), UNCHANGED <<true, full, filed>>,
             \A t \in Threads : coming'[t] = coming[t] \/ coming[t] = NoCall,
             u \in Threads /\ IsOwn(l) => coming'[u] # NoCall /\ coming'[u].pos = Len(lines[u]) + 1
      PROVE  GapInv'
  <2> SUFFICES ASSUME NEW t \in Threads, NEW p \in DOMAIN lines'[t], IsOwn(lines'[t][p]) PROVE Fits(t, p)'
    BY DEF GapInv, IsOwn
  <2>1. CASE p \in DOMAIN lines[t]
    <3>1. IsOwn(lines[t][p])
      BY <2>1, <1>0, <1>2 DEF NewLine, IsOwn
    <3>2. Fits(t, p)
      BY <2>1, <3>1 DEF GapInv
    <3> QED BY <3>2, <1>1, <1>2
  <2>2. CASE p \notin DOMAIN lines[t]
    <3>1. t = u /\ p = Len(lines[t]) + 1 /\ IsOwn(l)
      BY <2>2, <1>0, <1>2 DEF NewLine, IsOwn
    <3>2. \A i \in DOMAIN true[t] : true[t][i] < p
      BY <3>1, <1>0, TrueInLog, LinesTyped
    <3>3. Unrecorded(t, p)'
      BY <3>1, <3>2, <1>2 DEF Unrecorded
    <3> QED BY <3>3
  <2> QED BY <2>1, <2>2
<1>3. ASSUME NEW t \in Threads, NEW c \in Coming, OwnStep(t, c) \/ HelperStep(t, c) PROVE GapInv'
  <2>1. c # NoCall /\ coming'[t] = c /\ coming[t] = NoCall /\ \A v \in Threads \ {t} : coming'[v] = coming[v]
    BY <1>3 DEF OwnStep, HelperStep, TypeInv, JoinAssumption, Coming
  <2>2. UNCHANGED <<true, full, filed>>
    BY <1>3 DEF OwnStep, HelperStep, fileVars
  <2>3. CASE OwnStep(t, c)
    <3>1. NewLine(t, LineOf(c)) /\ c.pos = Len(lines[t]) + 1
      BY <2>3 DEF OwnStep
    <3> QED BY <3>1, <2>1, <2>2, <1>2
  <2>4. CASE HelperStep(t, c)
    <3>1. NewLine(Other, LineOf(c))
      BY <2>4 DEF HelperStep
    <3> QED BY <3>1, <2>1, <2>2, <1>0, <1>2
  <2> QED BY <1>3, <2>3, <2>4
<1>4. ASSUME NEW u \in Tids, NEW l \in Line, CaughtStep(u, l) PROVE GapInv'
  <2>1. ~ IsOwn(l)
    BY <1>4 DEF CaughtStep, MessagesApart, SameMessage
  <2> QED BY <1>2, <1>4, <2>1 DEF CaughtStep, fileVars
<1>5. ASSUME UNCHANGED lines, \A t \in Threads : \A p \in DOMAIN lines[t] : IsOwn(lines[t][p]) /\ Fits(t, p) => Fits(t, p)'
      PROVE  GapInv'
  <2> SUFFICES ASSUME NEW t \in Threads, NEW p \in DOMAIN lines[t], IsOwn(lines[t][p]) PROVE Fits(t, p)'
    BY <1>5 DEF GapInv, IsOwn
  <2>1. Fits(t, p)
    BY DEF GapInv
  <2> QED BY <1>5, <2>1
<1>6. ASSUME NEW t \in Threads, LostStep(t) PROVE GapInv'
  <2>1. UNCHANGED <<lines, true, full, filed>> /\ filed'
    BY <1>6 DEF LostStep, Arrives, fileVars, logVars
  <2> QED BY <2>1, <1>1, <1>5
<1>7. ASSUME NEW t \in Threads, CountStep(t) PROVE GapInv'
  <2> DEFINE c == coming[t]
  <2>1. c \in Coming /\ UNCHANGED <<lines, filed>> /\ ~ filed /\ \A v \in Threads \ {t} : coming'[v] = coming[v]
    BY <1>7 DEF CountStep, Arrives, TypeInv, logVars
  <2> HIDE DEF c
  <2>2. CASE Refused(t)
    <3>1. t \in full' /\ full \subseteq full' /\ true' = true
      BY <2>2 DEF Refused
    <3>2. \A v \in Threads : coming'[v] = coming[v] \/ v \in full'
      BY <3>1, <2>1
    <3> QED BY <3>1, <3>2, <2>1, <1>1, <1>5
  <2>3. CASE Kept(t, c)
    <3>1. ASSUME NEW v \in Threads, NEW p, v # t, Fits(v, p) PROVE Fits(v, p)'
      <4>1. true'[v] = true[v] /\ full' = full /\ coming'[v] = coming[v]
        BY <2>3, <2>1, <3>1 DEF Kept, TypeInv
      <4> QED BY <3>1, <4>1, <2>1, <1>1
    <3>2. PICK n : n = Len(true[t])
      OBVIOUS
    <3>3. /\ DOMAIN true'[t] = DOMAIN true[t] \cup {n + 1} /\ true'[t][n + 1] = c.pos
          /\ \A i \in DOMAIN true[t] : true'[t][i] = true[t][i]
      <4>1. RecordGrows(t, c, n)
        BY <2>1, <2>3, <3>2, KeptCalls, Zenon
      <4> QED BY <4>1 DEF RecordGrows
    <3>4. ASSUME NEW p, Fits(t, p) PROVE Fits(t, p)'
      <4>1. CASE \E i \in DOMAIN true[t] : true[t][i] = p
        BY <4>1, <3>3
      <4>2. CASE Unrecorded(t, p)
        <5>1. c.pos = p
          BY <4>2, <2>1, <2>3 DEF Unrecorded, Kept, c
        <5> QED BY <5>1, <3>3
      <4> QED BY <3>4, <4>1, <4>2
    <3> HIDE DEF Fits
    <3>5. \A v \in Threads : \A p \in DOMAIN lines[v] : Fits(v, p) => Fits(v, p)'
      BY <3>1, <3>4
    <3> QED BY <3>5, <2>1, <1>5
  <2> QED BY <2>2, <2>3, <1>7 DEF CountStep, c
<1>8. CASE WriteResult \/ UNCHANGED vars
  <2>1. UNCHANGED <<lines, true, full, coming>> /\ (filed => filed')
    BY <1>8 DEF WriteResult, fileVars, logVars, vars
  <2> QED BY <2>1, <1>1, <1>5
<1> QED BY <1>3, <1>4, <1>6, <1>7, <1>8 DEF AnyStep

LEMMA ExactStep == ASSUME JoinAssumption, SitesApart, TypeInv, CallsInv, ExactInv, AnyStep PROVE ExactInv'
<1> SUFFICES ASSUME OnlyOwn' PROVE \A t \in Threads : ExactIn(t)'
  BY DEF ExactInv
<1>0. Other \notin Threads /\ Other \in Tids /\ \A t \in Threads : t \in Tids
  BY DEF Tids, JoinAssumption
<1>1. OnlyOwn
  <2>1. LogGrows
    BY LogKeeps
  <2> QED BY <2>1 DEF OnlyOwn, LogGrows
<1>2. \A t \in Threads : ExactIn(t)
  BY <1>1 DEF ExactInv
<1>3. ASSUME NEW t \in Threads, Len(lines'[t]) = Len(lines[t]), true'[t] = true[t], full \subseteq full', filed => filed',
             coming'[t] = coming[t] \/ t \in full' \/ filed'
      PROVE  ExactIn(t)'
  <2>1. ExactIn(t)
    BY <1>2
  <2> QED BY <1>3, <2>1 DEF ExactIn
<1>4. ASSUME NEW t \in Threads, NEW c \in Coming, OwnStep(t, c) PROVE \A v \in Threads : ExactIn(v)'
  <2>1. /\ c # NoCall /\ coming'[t] = c /\ coming[t] = NoCall /\ \A v \in Threads \ {t} : coming'[v] = coming[v]
        /\ UNCHANGED <<true, full, filed>>
    BY <1>4 DEF OwnStep, TypeInv, JoinAssumption, Coming, fileVars
  <2>2. Len(lines'[t]) = Len(lines[t]) + 1 /\ c.pos = Len(lines[t]) + 1
        /\ \A v \in Threads \ {t} : lines'[v] = lines[v]
    BY <1>4, <1>0 DEF OwnStep, NewLine
  <2>3. ExactIn(t)'
    <3>1. ExactIn(t)
      BY <1>2
    <3> QED BY <3>1, <2>1, <2>2 DEF ExactIn
  <2> QED BY <2>1, <2>2, <2>3, <1>3
<1>5. ASSUME NEW u \in Tids, NEW l, NewLine(u, l) PROVE l.site \in DOMAIN OwnSites
  <2>1. Len(lines[u]) + 1 \in DOMAIN lines'[u] /\ lines'[u][Len(lines[u]) + 1] = l
    BY <1>5 DEF NewLine
  <2> QED BY <2>1 DEF OnlyOwn
<1>6. ASSUME NEW t \in Threads, NEW c \in Coming, HelperStep(t, c) PROVE FALSE
  BY <1>0, <1>5, <1>6 DEF HelperStep, IsHelper, SitesApart
<1>7. ASSUME NEW u \in Tids, NEW l \in Line, CaughtStep(u, l) PROVE FALSE
  BY <1>5, <1>7 DEF CaughtStep, IsCaught, SitesApart
<1>8. ASSUME NEW t \in Threads, LostStep(t) PROVE \A v \in Threads : ExactIn(v)'
  <2>1. UNCHANGED <<lines, true, full, filed>> /\ filed'
    BY <1>8 DEF LostStep, Arrives, fileVars, logVars
  <2> QED BY <2>1, <1>3
<1>9. ASSUME NEW t \in Threads, CountStep(t) PROVE \A v \in Threads : ExactIn(v)'
  <2> DEFINE c == coming[t]
  <2>1. c \in Coming /\ c # NoCall /\ UNCHANGED <<lines, filed>> /\ ~ filed /\ coming'[t] = NoCall
        /\ \A v \in Threads \ {t} : coming'[v] = coming[v]
    BY <1>9 DEF CountStep, Arrives, TypeInv, logVars, JoinAssumption, Coming
  <2> HIDE DEF c
  <2>2. CASE Refused(t)
    <3>1. t \in full' /\ full \subseteq full' /\ true' = true
      BY <2>2 DEF Refused
    <3> QED BY <3>1, <2>1, <1>3
  <2>3. CASE Kept(t, c)
    <3>1. full' = full /\ t \notin full /\ \A v \in Threads \ {t} : true'[v] = true[v]
      BY <2>3 DEF Kept, TypeInv
    <3>2. PICK n : n = Len(true[t])
      OBVIOUS
    <3>3. /\ n \in Nat /\ DOMAIN true'[t] = DOMAIN true[t] \cup {n + 1} /\ true'[t][n + 1] = c.pos
          /\ Len(true'[t]) = n + 1 /\ \A i \in DOMAIN true[t] : true'[t][i] = true[t][i]
      <4>1. RecordGrows(t, c, n)
        BY <2>1, <2>3, <3>2, KeptCalls, Zenon
      <4> QED BY <4>1 DEF RecordGrows
    <3>4. ExactIn(t)'
      <4>1. ExactIn(t)
        BY <1>2
      <4>2. Len(lines[t]) = n + 1 /\ c.pos = n + 1 /\ \A i \in DOMAIN true[t] : true[t][i] = i
        BY <4>1, <3>1, <3>2, <2>1 DEF ExactIn, c
      <4> QED BY <4>2, <3>3, <2>1 DEF ExactIn
    <3> QED BY <3>1, <3>4, <2>1, <1>3
  <2> QED BY <2>2, <2>3, <1>9 DEF CountStep, c
<1>10. CASE WriteResult \/ UNCHANGED vars
  <2>1. UNCHANGED <<lines, true, full, coming>> /\ (filed => filed')
    BY <1>10 DEF WriteResult, fileVars, logVars, vars
  <2> QED BY <2>1, <1>3
<1> QED BY <1>4, <1>6, <1>7, <1>8, <1>9, <1>10 DEF AnyStep

-----------------------------------------------------------------------------
(* What is counted, and where it is seen. *)

LEMMA RecordedSame ==
  ASSUME NEW q, \A v \in Threads : true'[v] = true[v] /\ Calls(v)' = Calls(v) PROVE Recorded(q)' = Recorded(q)
<1>1. \A e \in Threads \X Nat :
        e[2] \in DOMAIN true'[e[1]] /\ Calls(e[1])'[e[2]].qual = q <=> e[2] \in DOMAIN true[e[1]] /\ Calls(e[1])[e[2]].qual = q
  OBVIOUS
<1>2. Recorded(q)' = {e \in Threads \X Nat : e[2] \in DOMAIN true'[e[1]] /\ Calls(e[1])'[e[2]].qual = q}
  BY DEF Recorded
<1> QED BY <1>1, <1>2 DEF Recorded

\* A call that is seen at a site stays there.
LEMMA StillSeen ==
  ASSUME TypeInv, CallsInv, LogGrows, NEW e, e[1] \in Threads, e[2] \in DOMAIN true[e[1]],
         true'[e[1]][e[2]] = true[e[1]][e[2]], NEW s, SeenAt(e, s)
  PROVE  SeenAt(e, s)'
<1>1. true[e[1]][e[2]] = 0 \/ true[e[1]][e[2]] \in DOMAIN lines[e[1]]
  BY TrueInLog
<1>2. e[1] \in Tids
  BY DEF Tids
<1> QED BY <1>1, <1>2 DEF SeenAt, LogGrows

LEMMA KeptRecorded ==
  ASSUME JoinAssumption, TypeInv, CallsInv, NEW t \in Threads, NEW c \in Coming, Kept(t, c),
         NEW n, n = Len(true[t]), NEW q \in Quals
  PROVE  /\ Recorded(q)' = IF q = c.qual THEN Recorded(q) \cup {<<t, n + 1>>} ELSE Recorded(q)
         /\ <<t, n + 1>> \notin Recorded(q)
         /\ \A e \in Recorded(q) : true'[e[1]][e[2]] = true[e[1]][e[2]]
<1>1. /\ n \in Nat /\ n + 1 \notin DOMAIN true[t] /\ DOMAIN true'[t] = DOMAIN true[t] \cup {n + 1}
      /\ \A i \in DOMAIN true[t] : true'[t][i] = true[t][i] /\ Calls(t)'[i] = Calls(t)[i]
      /\ Calls(t)'[n + 1].qual = c.qual
      /\ \A v \in Threads \ {t} : true'[v] = true[v] /\ Calls(v)' = Calls(v)
  <2>1. RecordGrows(t, c, n)
    BY KeptCalls, Zenon
  <2> QED BY <2>1 DEF RecordGrows
<1>2. Recorded(q)' = {e \in Threads \X Nat : e[2] \in DOMAIN true'[e[1]] /\ Calls(e[1])'[e[2]].qual = q}
  BY DEF Recorded
<1>3. ASSUME NEW e \in Threads \X Nat
      PROVE  e \in Recorded(q)' <=> e \in Recorded(q) \/ (q = c.qual /\ e = <<t, n + 1>>)
  <2>1. CASE e[1] # t
    BY <1>1, <1>2, <2>1 DEF Recorded
  <2>2. CASE e[1] = t /\ e[2] # n + 1
    BY <1>1, <1>2, <2>2 DEF Recorded
  <2>3. CASE e[1] = t /\ e[2] = n + 1
    BY <1>1, <1>2, <2>3 DEF Recorded
  <2> QED BY <2>1, <2>2, <2>3
<1>4. <<t, n + 1>> \in Threads \X Nat /\ Recorded(q) \subseteq Threads \X Nat /\ Recorded(q)' \subseteq Threads \X Nat
  BY <1>1, <1>2 DEF Recorded
<1>5. Recorded(q)' = IF q = c.qual THEN Recorded(q) \cup {<<t, n + 1>>} ELSE Recorded(q)
  BY <1>3, <1>4
<1>6. <<t, n + 1>> \notin Recorded(q)
  BY <1>1 DEF Recorded
<1>7. \A e \in Recorded(q) : true'[e[1]][e[2]] = true[e[1]][e[2]]
  BY <1>1 DEF Recorded
<1> QED BY <1>5, <1>6, <1>7

LEMMA CountInvStep == ASSUME JoinAssumption, TypeInv, CallsInv, ComingInv, CountInv, AnyStep PROVE CountInv'
<1>0. LogGrows
  BY LogKeeps
<1>1. ASSUME NEW q \in Quals, UNCHANGED <<runs, true>>, where'[q] = where[q], full' = {} => full = {},
             count'[q] = count[q]
      PROVE  CountIn(q)'
  <2>1. Recorded(q)' = Recorded(q) /\ CountIn(q)
    BY <1>1, RecordedSame, CallsSame DEF CountInv
  <2>2. \A e \in Recorded(q) : \A s : SeenAt(e, s) => SeenAt(e, s)'
    BY <1>0, <1>1, StillSeen DEF Recorded
  <2>3. \A s : s \in where[q] /\ (\E e \in Recorded(q) : SeenAt(e, s)) => \E e \in Recorded(q) : SeenAt(e, s)'
    BY <2>2
  <2> QED BY <1>1, <2>1, <2>3 DEF CountIn
<1>2. CASE UNCHANGED fileVars
  BY <1>1, <1>2 DEF fileVars, CountInv
<1>3. ASSUME NEW t \in Threads, CountStep(t) PROVE CountInv'
  <2>0. PICK c : c = coming[t]
    OBVIOUS
  <2>1. c \in Coming /\ c # NoCall /\ c.qual \in Quals /\ lines' = lines
    BY <1>3, <2>0 DEF CountStep, Arrives, logVars, JoinAssumption, Coming
  <2>2. /\ count' = [count EXCEPT ![c.qual] = @ + 1]
        /\ where' = [where EXCEPT ![c.qual] = @ \cup {c.site}]
    BY <1>3, <2>0 DEF CountStep, Tallied
  <2>3. ComingHasLine(t, c)
    BY <2>0, <2>1 DEF ComingInv
  <2>q. PICK q0 \in Quals : q0 = c.qual
    BY <2>1
  <2>4. /\ count'[q0] = count[q0] + 1 /\ where'[q0] = where[q0] \cup {c.site}
        /\ \A q \in Quals \ {q0} : count'[q] = count[q] /\ where'[q] = where[q]
        /\ count[q0] \in Nat
    BY <2>q, <2>2 DEF TypeInv
  <2>5. \A q \in Quals : CountIn(q) /\ Cardinality(Recorded(q)) \in Nat
    BY FS_CardinalityType DEF CountInv, CountIn
  <2>6. CASE Refused(t)
    <3>1. UNCHANGED <<runs, true>> /\ full' # {}
      BY <2>6 DEF Refused
    <3>2. CountIn(q0)'
      <4>1. Recorded(q0)' = Recorded(q0)
        BY <3>1, RecordedSame, CallsSame
      <4>2. Cardinality(Recorded(q0)) <= count[q0] /\ Cardinality(Recorded(q0)) \in Nat
            /\ IsFiniteSet(Recorded(q0))
        BY <2>1, <2>5 DEF CountIn
      <4>3. Cardinality(Recorded(q0)) # count'[q0] /\ Cardinality(Recorded(q0)) <= count'[q0]
        BY <4>2, <2>4
      <4> QED BY <4>1, <4>2, <4>3, <3>1 DEF CountIn
    <3>3. \A q \in Quals \ {q0} : CountIn(q)'
      BY <3>1, <2>4, <1>1
    <3> QED BY <3>2, <3>3 DEF CountInv
  <2>7. CASE Kept(t, c)
    <3>1. PICK n : n = Len(true[t])
      OBVIOUS
    <3> DEFINE e0 == <<t, n + 1>>
    <3>2. \A q \in Quals :
            /\ Recorded(q)' = IF q = q0 THEN Recorded(q) \cup {e0} ELSE Recorded(q)
            /\ e0 \notin Recorded(q) /\ \A e \in Recorded(q) : true'[e[1]][e[2]] = true[e[1]][e[2]]
      BY <2>1, <2>7, <3>1, <2>q, KeptRecorded
    <3>3. \A q \in Quals : \A e \in Recorded(q) : \A s : SeenAt(e, s) => SeenAt(e, s)'
      BY <1>0, <3>2, StillSeen DEF Recorded
    <3>4. full' = full
      BY <2>7 DEF Kept
    <3>5. ASSUME NEW q \in Quals \ {q0} PROVE CountIn(q)'
      <4>1. \A s : (\E e \in Recorded(q) : SeenAt(e, s)) => \E e \in Recorded(q) : SeenAt(e, s)'
        BY <3>3
      <4> QED BY <4>1, <3>2, <3>4, <2>4, <2>5 DEF CountIn
    <3>6. CountIn(q0)'
      <4>1. CountIn(q0) /\ Cardinality(Recorded(q0)) \in Nat
        BY <2>1, <2>5
      <4>2. Recorded(q0)' = Recorded(q0) \cup {e0} /\ e0 \notin Recorded(q0)
        BY <4>1, <3>2
      <4>3. SeenAt(e0, c.site)'
        <5>1. true'[t][n + 1] = c.pos
          <6>1. RecordGrows(t, c, n)
            BY <2>1, <2>7, <3>1, KeptCalls, Zenon
          <6> QED BY <6>1 DEF RecordGrows
        <5>2. c.pos # 0 => lines[t][c.pos].site = c.site
          BY <2>3 DEF ComingHasLine
        <5> QED BY <5>1, <5>2, <2>1 DEF SeenAt
      <4> HIDE DEF e0
      <4>4. IsFiniteSet(Recorded(q0) \cup {e0}) /\ Cardinality(Recorded(q0) \cup {e0}) = Cardinality(Recorded(q0)) + 1
        BY <4>1, <4>2, FS_AddElement DEF CountIn
      <4>5. \A s : (\E e \in Recorded(q0) : SeenAt(e, s)) => \E e \in Recorded(q0) \cup {e0} : SeenAt(e, s)'
        BY <4>1, <3>3
      <4>6. \A s \in where'[q0] : s \in where[q0] \/ s = c.site
        BY <2>4
      <4>7. Cardinality(Recorded(q0)) = count[q0] =>
              \A s \in where'[q0] : \E e \in Recorded(q0) \cup {e0} : SeenAt(e, s)'
        BY <4>1, <4>3, <4>5, <4>6 DEF CountIn
      <4>8. count'[q0] = count[q0] + 1 /\ count[q0] \in Nat
        BY <2>4
      <4>9. Cardinality(Recorded(q0)) <= count[q0] /\ (full = {} => Cardinality(Recorded(q0)) = count[q0])
        BY <4>1 DEF CountIn
      <4> QED BY <4>1, <4>2, <4>4, <4>7, <4>8, <4>9, <3>4 DEF CountIn
    <3> QED BY <3>5, <3>6 DEF CountInv
  <2> QED BY <2>0, <2>6, <2>7, <1>3 DEF CountStep
<1>4. CASE WriteResult \/ UNCHANGED vars
  BY <1>2, <1>4 DEF WriteResult, vars, fileVars
<1> QED BY <1>2, <1>3, <1>4 DEF AnyStep, OwnStep, HelperStep, CaughtStep, LostStep

\* A line goes on showing a site unless a call is matched to it.
LEMMA StillShown ==
  ASSUME TypeInv, LogGrows, NEW q, NEW s, NEW v \in Tids, NEW j \in DOMAIN lines[v], Shows(q, s, v, j),
         DOMAIN panics[q] \subseteq DOMAIN panics'[q],
         v \in Threads =>
           /\ \A i \in DOMAIN true'[v] : true'[v][i] = j =>
                i \in DOMAIN true[v] /\ true[v][i] = j /\ Calls(v)'[i] = Calls(v)[i]
           /\ coming'[v] # NoCall => coming'[v].pos # j
  PROVE  j \in DOMAIN lines'[v] /\ Shows(q, s, v, j)'
<1>1. j \in DOMAIN lines'[v] /\ lines'[v][j] = lines[v][j]
  BY DEF LogGrows
<1>2. lines[v][j].site = s /\ lines[v][j].msg \in DOMAIN panics[q]
  BY DEF Shows
<1>3. v \in Threads => \A i \in DOMAIN true[v] : true[v][i] = j => Calls(v)[i].qual = q
  BY DEF Shows
<1>4. v \in Threads => \A i \in DOMAIN true'[v] : true'[v][i] = j => Calls(v)'[i].qual = q
  BY <1>3
<1> QED BY <1>1, <1>2, <1>4 DEF Shows

LEMMA SiteStep == ASSUME JoinAssumption, TypeInv, CallsInv, ComingInv, SiteInv, AnyStep PROVE SiteInv'
<1>0. LogGrows /\ Other \notin Threads /\ Other \in Tids /\ \A t \in Threads : t \in Tids
  BY LogKeeps DEF Tids, JoinAssumption
<1>1. ASSUME UNCHANGED fileVars,
             \A v \in Threads : \A j \in DOMAIN lines[v] :
               (coming[v] # NoCall => coming[v].pos # j) => (coming'[v] # NoCall => coming'[v].pos # j)
      PROVE  SiteInv'
  <2>1. /\ runs' = runs /\ true' = true /\ panics' = panics /\ where' = where
        /\ \A v : Calls(v)' = Calls(v)
    BY <1>1, CallsSame DEF fileVars
  <2>2. ASSUME NEW q \in Quals, NEW s, Shown(q, s) PROVE Shown(q, s)'
    <3>1. PICK v \in Tids : \E j \in DOMAIN lines[v] : Shows(q, s, v, j)
      BY <2>2 DEF Shown
    <3>2. PICK j \in DOMAIN lines[v] : Shows(q, s, v, j)
      BY <3>1
    <3>3. v \in Threads => (coming'[v] # NoCall => coming'[v].pos # j)
      BY <1>1, <3>2 DEF Shows
    <3>4. j \in DOMAIN lines'[v] /\ Shows(q, s, v, j)'
      BY <1>0, <2>1, <3>2, <3>3, StillShown
    <3> QED BY <3>4 DEF Shown
  <2> QED BY <2>1, <2>2 DEF SiteInv, SiteIn
<1>2. ASSUME NEW t \in Threads, NEW c \in Coming, OwnStep(t, c) \/ HelperStep(t, c) PROVE SiteInv'
  <2>1. coming'[t] = c /\ (\A v \in Threads \ {t} : coming'[v] = coming[v]) /\ UNCHANGED fileVars
    BY <1>2 DEF OwnStep, HelperStep, TypeInv
  <2>2. \A j \in DOMAIN lines[t] : c.pos # j
    <3>1. c.pos = 0 \/ c.pos = Len(lines[t]) + 1
      BY <1>2 DEF OwnStep, HelperStep
    <3> QED BY <3>1, <1>0, LinesTyped
  <2> QED BY <2>1, <2>2, <1>1
<1>3. ASSUME NEW t \in Threads, LostStep(t) PROVE SiteInv'
  <2>1. coming'[t] = NoCall /\ (\A v \in Threads \ {t} : coming'[v] = coming[v]) /\ UNCHANGED fileVars
    BY <1>3 DEF LostStep, Arrives, TypeInv
  <2> QED BY <2>1, <1>1
<1>4. ASSUME NEW t \in Threads, CountStep(t) PROVE SiteInv'
  <2>0. PICK c : c = coming[t]
    OBVIOUS
  <2>1. /\ c \in Coming /\ c # NoCall /\ c.qual \in Quals /\ c.pos \in Nat /\ lines' = lines
        /\ coming'[t] = NoCall /\ \A v \in Threads \ {t} : coming'[v] = coming[v]
    BY <1>4, <2>0 DEF CountStep, Arrives, logVars, JoinAssumption, Coming, TypeInv
  <2>2. Tallied(c)
    BY <1>4, <2>0 DEF CountStep
  <2>3. ComingHasLine(t, c)
    BY <2>0, <2>1 DEF ComingInv
  <2>4. PICK q0 \in Quals : q0 = c.qual
    BY <2>1
  <2>5. PICK n : n = Len(true[t])
    OBVIOUS
  <2>6. /\ \A v \in Threads \ {t} : true'[v] = true[v] /\ Calls(v)' = Calls(v)
        /\ \A i \in DOMAIN true'[t] :
             \/ i \in DOMAIN true[t] /\ true'[t][i] = true[t][i] /\ Calls(t)'[i] = Calls(t)[i]
             \/ true'[t][i] = c.pos /\ Calls(t)'[i].qual = q0
    <3>1. CASE Refused(t)
      BY <3>1, CallsSame DEF Refused
    <3>2. CASE Kept(t, c)
      <4>1. RecordGrows(t, c, n)
        BY <2>1, <2>5, <3>2, KeptCalls, Zenon
      <4> QED BY <4>1, <2>4 DEF RecordGrows
    <3> QED BY <3>1, <3>2, <1>4, <2>0 DEF CountStep
  <2>7. ASSUME NEW q \in Quals
        PROVE  /\ DOMAIN panics[q] \subseteq DOMAIN panics'[q]
               /\ Cardinality(DOMAIN panics'[q]) < MaxMessages =>
                    /\ Cardinality(DOMAIN panics[q]) < MaxMessages
                    /\ q = q0 => c.msg \in DOMAIN panics'[q]
    <3>1. DOMAIN panics[q] \subseteq DOMAIN panics'[q]
      BY <2>2, <2>4 DEF Tallied
    <3>2. IsFiniteSet(DOMAIN panics'[q]) /\ MaxMessages \in Nat
      <4>1. TypeInv'
        BY TypeStep
      <4> QED BY <4>1 DEF TypeInv, JoinAssumption
    <3>3. /\ Cardinality(DOMAIN panics[q]) <= Cardinality(DOMAIN panics'[q])
          /\ Cardinality(DOMAIN panics[q]) \in Nat /\ Cardinality(DOMAIN panics'[q]) \in Nat
      BY <3>1, <3>2, FS_Subset, FS_CardinalityType
    <3>4. q = q0 => \/ c.msg \in DOMAIN panics'[q]
                    \/ /\ ~ (Cardinality(DOMAIN panics[q]) < MaxMessages)
                       /\ DOMAIN panics'[q] = DOMAIN panics[q]
      BY <2>2, <2>4 DEF Tallied
    <3> QED BY <3>1, <3>2, <3>3, <3>4
  <2>8. ASSUME NEW q \in Quals, NEW s, Shown(q, s) PROVE Shown(q, s)'
    <3>1. PICK v \in Tids : \E j \in DOMAIN lines[v] : Shows(q, s, v, j)
      BY <2>8 DEF Shown
    <3>2. PICK j \in DOMAIN lines[v] : Shows(q, s, v, j)
      BY <3>1
    <3>3. v = t => c.pos # j
      BY <2>0, <2>1, <3>2 DEF Shows
    <3>4. v \in Threads =>
           /\ \A i \in DOMAIN true'[v] : true'[v][i] = j =>
                i \in DOMAIN true[v] /\ true[v][i] = j /\ Calls(v)'[i] = Calls(v)[i]
           /\ coming'[v] # NoCall => coming'[v].pos # j
      BY <2>1, <2>6, <3>2, <3>3 DEF Shows
    <3>5. j \in DOMAIN lines'[v] /\ Shows(q, s, v, j)'
      BY <1>0, <2>7, <3>2, <3>4, StillShown
    <3> QED BY <3>5 DEF Shown
  <2>9. ASSUME c.msg \in DOMAIN panics'[q0] PROVE \A s : s = c.site => Shown(q0, s)'
    <3> SUFFICES ASSUME NEW s, s = c.site PROVE Shown(q0, s)'
      OBVIOUS
    <3>1. CASE c.pos = 0
      <4>1. PICK j \in DOMAIN lines[Other] : lines[Other][j] = [site |-> c.site, msg |-> c.msg]
        BY <2>3, <3>1 DEF ComingHasLine
      <4>2. Shows(q0, s, Other, j)'
        BY <4>1, <1>0, <2>1, <2>9 DEF Shows
      <4> QED BY <4>2, <1>0, <2>1 DEF Shown
    <3>2. CASE c.pos # 0
      <4>1. /\ c.pos \in DOMAIN lines[t] /\ lines[t][c.pos] = [site |-> c.site, msg |-> c.msg]
            /\ \A i \in DOMAIN true[t] : true[t][i] < c.pos
        BY <2>3, <3>2 DEF ComingHasLine
      <4>2. \A i \in DOMAIN true'[t] : true'[t][i] = c.pos => Calls(t)'[i].qual = q0
        <5>1. \A i \in DOMAIN true[t] : true[t][i] # c.pos
          BY <4>1, <2>1
        <5> QED BY <5>1, <2>6
      <4>3. \A j : j = c.pos => Shows(q0, s, t, j)'
        BY <4>1, <4>2, <2>1, <2>9 DEF Shows
      <4> QED BY <4>1, <4>3, <1>0, <2>1 DEF Shown
    <3> QED BY <3>1, <3>2
  <2>10. \A q \in Quals : \A s \in where'[q] : s \in where[q] \/ (q = q0 /\ s = c.site)
    BY <2>2, <2>4 DEF Tallied, TypeInv
  <2>11. ASSUME NEW q \in Quals PROVE SiteIn(q)'
    <3> SUFFICES ASSUME Cardinality(DOMAIN panics'[q]) < MaxMessages, NEW s \in where'[q] PROVE Shown(q, s)'
      BY DEF SiteIn
    <3>1. CASE s \in where[q]
      BY <3>1, <2>7, <2>8 DEF SiteInv, SiteIn
    <3>2. CASE q = q0 /\ s = c.site
      BY <3>2, <2>7, <2>9
    <3> QED BY <3>1, <3>2, <2>10
  <2> QED BY <2>11 DEF SiteInv
<1>5. ASSUME UNCHANGED <<coming, fileVars>> PROVE SiteInv'
  BY <1>1, <1>5
<1> QED BY <1>2, <1>3, <1>4, <1>5 DEF AnyStep, CaughtStep, WriteResult, vars

-----------------------------------------------------------------------------
(* The invariants. *)

LEMMA NoCallsYet == ASSUME Init, NEW t \in Threads PROVE Calls(t) = <<>> /\ true[t] = <<>>
<1>1. runs[t] = <<>> /\ true[t] = <<>> /\ Calls(t) = CallsOf(runs[t])
  BY CallsAreOfRuns DEF Init
<1>2. <<>> \in Seq(Run) /\ Len(<<>>) = 0
  OBVIOUS
<1>3. OnesOf(<<>>) \in Seq(Seq(Call)) /\ Len(OnesOf(<<>>)) = 0
  BY <1>2, OnesOfType
<1>4. OnesOf(<<>>) = <<>>
  <2> DEFINE A == Seq(Call)
  <2>1. OnesOf(<<>>) \in Seq(A) /\ Len(OnesOf(<<>>)) = 0
    BY <1>3
  <2> HIDE DEF A
  <2> QED BY <2>1
<1>5. CallsOf(<<>>) = <<>>
  BY <1>3, <1>4, FlattenIsFcn DEF CallsOf
<1> QED BY <1>1, <1>5

LEMMA InitHolds == ASSUME JoinAssumption, Init PROVE RunInv /\ GapInv /\ ExactInv
<1>0. \A t \in Threads : Calls(t) = <<>> /\ true[t] = <<>> /\ coming[t] = NoCall /\ t \in Tids
  BY NoCallsYet DEF Init, Tids
<1>e. DOMAIN <<>> = {} /\ Len(<<>>) = 0 /\ \A S : <<>> \in Seq(S)
  OBVIOUS
<1>1. TypeInv
  <2>1. lines \in [Tids -> Seq(Line)] /\ coming \in [Threads -> Coming \cup {NoCall}]
    BY <1>e DEF Init
  <2>2. runs \in [Threads -> Seq(Run)] /\ true \in [Threads -> Seq(Nat)] /\ full \subseteq Threads
    BY <1>e DEF Init
  <2>3. count \in [Quals -> Nat] /\ where \in [Quals -> SUBSET Sites]
    BY DEF Init
  <2>4. DOMAIN panics = Quals /\ \A q \in Quals : DOMAIN panics[q] = {}
    BY <1>e, Zenon DEF Init
  <2>5. tagged \in BOOLEAN /\ filed \in BOOLEAN
    BY DEF Init
  <2> QED BY <2>1, <2>2, <2>3, <2>4, <2>5, FS_EmptySet DEF TypeInv
<1>2. \A t \in Tids : DOMAIN lines[t] = {} /\ Len(lines[t]) = 0
  BY <1>e, Zenon DEF Init
<1>3. \A t \in Threads : DOMAIN true[t] = {} /\ Len(true[t]) = 0 /\ Len(Calls(t)) = 0
  BY <1>0
<1>4. LinesInv /\ CallsInv /\ ComingInv /\ GapInv
  BY <1>0, <1>2, <1>3 DEF LinesInv, CallsInv, ComingInv, GapInv
<1>5. ExactInv
  BY <1>0, <1>2, <1>3 DEF ExactInv, ExactIn
<1>6. CountInv
  <2> SUFFICES ASSUME NEW q \in Quals PROVE CountIn(q)
    BY DEF CountInv
  <2>1. Recorded(q) = {} /\ count[q] = 0 /\ where[q] = {}
    BY <1>3 DEF Recorded, Init
  <2> QED BY <2>1, FS_EmptySet DEF CountIn
<1>7. SiteInv
  BY DEF SiteInv, SiteIn, Init
<1> QED BY <1>1, <1>4, <1>5, <1>6, <1>7 DEF RunInv

\* For any threads, callables, caps and messages: recorded calls have lines of
\* their own in the log, in order, and every site has a line that shows it.
THEOREM RunsHaveLines == Spec => []RunInv
<1>1. JoinAssumption
  BY JoinAssumption
<1>2. Init => RunInv
  BY <1>1, InitHolds
<1>3. RunInv /\ [Next]_vars => RunInv'
  <2> SUFFICES ASSUME RunInv, [Next]_vars PROVE RunInv'
    OBVIOUS
  <2>1. TypeInv /\ LinesInv /\ CallsInv /\ ComingInv /\ CountInv /\ SiteInv
    BY DEF RunInv
  <2>2. AnyStep
    BY <1>1, <2>1, StepKinds
  <2>3. TypeInv' /\ LinesInv' /\ CallsInv' /\ ComingInv' /\ CountInv' /\ SiteInv'
    BY <1>1, <2>1, <2>2, TypeStep, LinesStep, CallsStep, ComingStep, CountInvStep, SiteStep
  <2> QED BY <2>3 DEF RunInv
<1> QED BY <1>2, <1>3, PTL DEF Spec

LEMMA NoGaps == ASSUME MessagesApart PROVE Spec => []GapInv
<1>1. Init => GapInv
  BY JoinAssumption, InitHolds
<1>2. RunInv /\ GapInv /\ [Next]_vars => GapInv'
  BY JoinAssumption, MessagesApart, StepKinds, GapStep DEF RunInv
<1> QED BY <1>1, <1>2, RunsHaveLines, PTL DEF Spec

LEMMA ExactWhereOwn == ASSUME SitesApart PROVE Spec => []ExactInv
<1>1. Init => ExactInv
  BY JoinAssumption, InitHolds
<1>2. RunInv /\ ExactInv /\ [Next]_vars => ExactInv'
  BY JoinAssumption, SitesApart, StepKinds, ExactStep DEF RunInv
<1> QED BY <1>1, <1>2, RunsHaveLines, PTL DEF Spec

-----------------------------------------------------------------------------
(* Exact joins. *)

\* What happens to lines the search goes over, spelled out.
LEMMA NextIsIn ==
  ASSUME JoinAssumption, TypeInv, NEW t \in Threads, NEW i, NEW k \in Nat
  PROVE  \/ FoundFor(t, i, k) = {} /\ NextLine(t, i, k) = k
         \/ /\ NextLine(t, i, k) \in FoundFor(t, i, k)
            /\ \A j \in FoundFor(t, i, k) : NextLine(t, i, k) <= j
<1>1. FoundFor(t, i, k) \in SUBSET Nat
  BY FoundInWindow
<1>2. FoundFor(t, i, k) # {} => /\ Min(FoundFor(t, i, k)) \in FoundFor(t, i, k)
                               /\ \A j \in FoundFor(t, i, k) : Min(FoundFor(t, i, k)) <= j
  BY <1>1, SmallestIsIn
<1> QED BY <1>2 DEF NextLine

IsFound(t, i, k, j) ==
  j \in 1 .. Len(Mine(t)) /\ k < j /\ j <= k + JoinWindow /\ SameMessage(Mine(t)[j].msg, Calls(t)[i].msg)

LEMMA FoundMeans ==
  ASSUME JoinAssumption, TypeInv, NEW t \in Threads, NEW i, NEW k \in Nat, NEW j
  PROVE  j \in FoundFor(t, i, k) <=> IsFound(t, i, k, j)
  BY FoundInWindow DEF IsFound

\* Where calls are numbered like the lines, the i-th is matched to the i-th.
LEMMA ExactJoins ==
  ASSUME JoinAssumption, TypeInv, CallsInv, ExactInv, tagged, OnlyOwn, NEW t \in Threads
  PROVE  \A i \in 0 .. Len(Calls(t)) : Joined(t)[i] = i
<1> DEFINE n == Len(Calls(t))
           k == Joined(t)
           P == {i \in Nat : i <= n => k[i] = i}
<1>1. n \in Nat /\ DOMAIN true[t] = 1 .. n /\ \A i \in 1 .. n : true[t][i] = i
  BY CallsTyped DEF ExactInv, ExactIn
<1>2. k[0] = 0 /\ \A i \in 1 .. n : k[i] = NextLine(t, i, k[i - 1])
  BY JoinUnfolds
<1>3. \A i \in 1 .. n : i \in DOMAIN lines[t] /\ lines[t][i].msg = Calls(t)[i].msg
  BY <1>1 DEF CallsInv, CallHasLine, OwnLine
<1>4. Mine(t) = lines[t] /\ DOMAIN lines[t] = 1 .. Len(lines[t]) /\ Len(lines[t]) \in Nat
  BY LinesTyped DEF Mine, Tids
<1>5. ASSUME NEW i \in Nat, i + 1 <= n PROVE NextLine(t, i + 1, i) = i + 1
  <2>1. i + 1 \in 1 .. n /\ i + 1 \in Nat
    BY <1>1, <1>5
  <2>2. SameMessage(Mine(t)[i + 1].msg, Calls(t)[i + 1].msg) /\ i + 1 \in 1 .. Len(Mine(t))
    BY <2>1, <1>3, <1>4 DEF SameMessage
  <2>3. i < i + 1 /\ i + 1 <= i + JoinWindow
    BY DEF JoinAssumption
  <2>4. IsFound(t, i + 1, i, i + 1)
    BY <2>2, <2>3 DEF IsFound
  <2>5. i + 1 \in FoundFor(t, i + 1, i) /\ \A j \in FoundFor(t, i + 1, i) : j \in Nat /\ i + 1 <= j
    <3>1. \A j : j \in FoundFor(t, i + 1, i) <=> IsFound(t, i + 1, i, j)
      BY <2>1, FoundMeans
    <3>2. \A j : IsFound(t, i + 1, i, j) => j \in Nat /\ i + 1 <= j
      BY <1>4 DEF IsFound
    <3> QED BY <3>1, <3>2, <2>4
  <2>6. NextLine(t, i + 1, i) \in FoundFor(t, i + 1, i) /\ NextLine(t, i + 1, i) <= i + 1
    BY <2>5, NextIsIn
  <2> QED BY <2>5, <2>6
<1> HIDE DEF n, k
<1>6. 0 \in P
  BY <1>2
<1>7. ASSUME NEW i \in P PROVE i + 1 \in P
  <2> SUFFICES ASSUME i + 1 <= n PROVE k[i + 1] = i + 1
    OBVIOUS
  <2>1. i \in Nat /\ i <= n /\ i + 1 \in 1 .. n /\ (i + 1) - 1 = i
    <3>1. i \in Nat
      OBVIOUS
    <3> HIDE DEF P
    <3> QED BY <3>1, <1>1
  <2>2. k[i + 1] = NextLine(t, i + 1, k[i]) /\ k[i] = i
    BY <2>1, <1>2
  <2> QED BY <2>1, <2>2, <1>5
<1> HIDE DEF P
<1>8. P = Nat
  <2>1. P \in SUBSET Nat
    BY DEF P
  <2> QED BY <1>6, <1>7, <2>1, NatInd
<1>9. \A i \in 0 .. n : i \in P /\ i <= n
  BY <1>1, <1>8
<1> QED BY <1>9 DEF P, n, k

LEMMA ExactMatches ==
  ASSUME JoinAssumption, TypeInv, CallsInv, ExactInv, tagged, OnlyOwn, NEW t \in Threads
  PROVE  /\ Matches(t) = {<<i, true[t][i]>> : i \in DOMAIN Calls(t)}
         /\ \A i \in DOMAIN Calls(t) : true[t][i] = i /\ i \in DOMAIN true[t] /\ i \in Nat /\ i # 0
<1>1. DOMAIN Calls(t) = 1 .. Len(Calls(t)) /\ Len(Calls(t)) \in Nat /\ DOMAIN true[t] = DOMAIN Calls(t)
  BY CallsTyped
<1>2. \A i \in DOMAIN Calls(t) : true[t][i] = i
  BY <1>1 DEF ExactInv, ExactIn
<1>3. \A i \in DOMAIN Calls(t) : i \in 0 .. Len(Calls(t)) /\ i - 1 \in 0 .. Len(Calls(t)) /\ i > i - 1
  BY <1>1
<1>4. \A i \in DOMAIN Calls(t) : Joined(t)[i] = i /\ Joined(t)[i - 1] = i - 1
  BY <1>3, ExactJoins
<1>5. \A i \in DOMAIN Calls(t) : Joined(t)[i] = true[t][i] /\ Joined(t)[i] > Joined(t)[i - 1]
  BY <1>2, <1>3, <1>4
<1>6. {i \in DOMAIN Calls(t) : Joined(t)[i] > Joined(t)[i - 1]} = DOMAIN Calls(t)
  BY <1>5
<1>7. Matches(t) = {<<i, true[t][i]>> : i \in DOMAIN Calls(t)}
  BY <1>5, <1>6 DEF Matches
<1> QED BY <1>1, <1>2, <1>7

\* For any number of threads, calls and lines, and wherever a cap stopped a
\* record: while the only panics are those of calls on their own threads, the
\* calls a record holds are matched to their own lines, all of them.  The sites
\* of these panics are not sites of others.
THEOREM JoinsAreExact == ASSUME SitesApart PROVE Spec => []SitesAreExact
<1>1. RunInv /\ ExactInv => SitesAreExact
  BY JoinAssumption, ExactMatches DEF RunInv, SitesAreExact
<1> QED BY <1>1, RunsHaveLines, ExactWhereOwn, PTL

LEMMA LocatedMeans ==
  ASSUME NEW q, NEW e
  PROVE  /\ e \in Located(q) <=>
              \E t \in Threads : \E m \in Matches(t) : Calls(t)[m[1]].qual = q /\ e = <<t, m[2]>>
         /\ e \in Consumed <=> \E t \in Threads : \E m \in Matches(t) : e = <<t, m[2]>>
  BY DEF Located, Consumed

\* What was located is recorded, where joins are exact.
LEMMA ExactlyLocated ==
  ASSUME JoinAssumption, TypeInv, CallsInv, ExactInv, tagged, OnlyOwn, NEW q \in Quals
  PROVE  Located(q) = Recorded(q) /\ \A e \in Recorded(q) : e = <<e[1], e[2]>> /\ true[e[1]][e[2]] = e[2] /\ e[2] # 0
<1>1. ASSUME NEW e \in Located(q) PROVE e \in Recorded(q)
  <2>1. PICK t \in Threads : \E m \in Matches(t) : Calls(t)[m[1]].qual = q /\ e = <<t, m[2]>>
    BY LocatedMeans
  <2>2. PICK m \in Matches(t) : Calls(t)[m[1]].qual = q /\ e = <<t, m[2]>>
    BY <2>1
  <2>3. PICK i \in DOMAIN Calls(t) : m = <<i, true[t][i]>>
    BY ExactMatches
  <2>4. true[t][i] = i /\ i \in DOMAIN true[t] /\ i \in Nat
    BY ExactMatches
  <2> QED BY <2>2, <2>3, <2>4 DEF Recorded
<1>2. ASSUME NEW e \in Recorded(q)
      PROVE  e \in Located(q) /\ e = <<e[1], e[2]>> /\ true[e[1]][e[2]] = e[2] /\ e[2] # 0
  <2>1. e \in Threads \X Nat /\ e[2] \in DOMAIN true[e[1]] /\ Calls(e[1])[e[2]].qual = q
    BY DEF Recorded
  <2>2. PICK t \in Threads, i \in Nat : e = <<t, i>>
    BY <2>1
  <2>3. i \in DOMAIN true[t] /\ Calls(t)[i].qual = q /\ i \in DOMAIN Calls(t)
    BY <2>1, <2>2, CallsTyped
  <2>4. true[t][i] = i /\ i # 0 /\ <<i, i>> \in Matches(t)
    BY <2>3, ExactMatches
  <2>5. e \in Located(q)
    BY <2>2, <2>3, <2>4, LocatedMeans
  <2> QED BY <2>2, <2>4, <2>5
<1> QED BY <1>1, <1>2

LEMMA ToldApart == ASSUME JoinAssumption, RunInv, ExactInv PROVE SitesAreToldApart
<1> SUFFICES ASSUME tagged, OnlyOwn, full = {}, NEW q \in Wanted PROVE FiledUnder(q) = {{s} : s \in where[q]}
  BY DEF SitesAreToldApart
<1>1. q \in Quals /\ TypeInv /\ CallsInv /\ CountIn(q) /\ count[q] \in Nat
  BY DEF Wanted, RunInv, CountInv, TypeInv
<1>2. Located(q) = Recorded(q) /\ \A e \in Recorded(q) : e = <<e[1], e[2]>> /\ true[e[1]][e[2]] = e[2] /\ e[2] # 0
  BY <1>1, ExactlyLocated
<1>3. Cardinality(Recorded(q)) = count[q]
  BY <1>1 DEF CountIn
<1>4. ~ (Rest(q) > 0)
  BY <1>1, <1>2, <1>3 DEF Rest
<1>5. FiledUnder(q) = {{At(e).site} : e \in Recorded(q)}
  BY <1>2, <1>4 DEF FiledUnder
<1>6. ASSUME NEW e \in Recorded(q) PROVE At(e).site \in where[q]
  <2>1. e[1] \in Threads /\ e[2] \in DOMAIN true[e[1]] /\ Calls(e[1])[e[2]].qual = q
    BY DEF Recorded
  <2>2. CallHasLine(e[1], e[2])
    BY <1>1, <2>1 DEF CallsInv
  <2> QED BY <1>2, <2>1, <2>2 DEF CallHasLine, At
<1>7. ASSUME NEW s \in where[q] PROVE \E e \in Recorded(q) : At(e).site = s
  <2>1. PICK e \in Recorded(q) : SeenAt(e, s)
    BY <1>1, <1>3 DEF CountIn
  <2> QED BY <1>2, <2>1 DEF SeenAt, At
<1> QED BY <1>5, <1>6, <1>7

\* For any number of threads, calls and lines: while only calls panic, a record
\* with room names every site a callable panicked at in a finding of its own, and
\* none besides.  The sites of these panics are not sites of others.
THEOREM SitesStayApart == ASSUME SitesApart PROVE Spec => []SitesAreToldApart
<1>1. RunInv /\ ExactInv => SitesAreToldApart
  BY JoinAssumption, ToldApart
<1> QED BY <1>1, RunsHaveLines, ExactWhereOwn, PTL

-----------------------------------------------------------------------------
(* Joins among other panics. *)

\* After the i-th call the search stands at the line of a call that was matched,
\* and what it will look through next holds no line of the calls before.
StandsAt(t, i, k) ==
  /\ k \in Nat
  /\ k = 0 \/ \E j \in 1 .. i : true[t][j] = k
  /\ \A j \in 1 .. i : ~ (k < true[t][j] /\ true[t][j] <= k + JoinWindow)

\* A line of t that says what a call of t says is the line of a call.
LEMMA SaysTheSame ==
  ASSUME JoinAssumption, MessagesApart, TypeInv, LinesInv, CallsInv, GapInv, tagged,
         NEW t \in Threads, NEW i \in DOMAIN true[t], NEW p \in DOMAIN lines[t],
         SameMessage(lines[t][p].msg, Calls(t)[i].msg)
  PROVE  /\ true[t][i] # 0
         /\ (\E j \in DOMAIN true[t] : true[t][j] = p) \/ (\A j \in DOMAIN true[t] : true[t][j] < p)
<1>1. /\ \A v \in Tids : \A j \in DOMAIN lines[v] : lines[v][j] \in Line
      /\ t \in Tids /\ Other \in Tids /\ CallHasLine(t, i)
  <2>1. \A v \in Tids : lines[v] \in Seq(Line)
    BY DEF TypeInv
  <2> QED BY <2>1 DEF Tids, CallsInv
<1>2. IsOwn(lines[t][p]) \/ IsCaught(lines[t][p])
  BY DEF LinesInv
<1>3. true[t][i] # 0
  <2> SUFFICES ASSUME true[t][i] = 0 PROVE FALSE
    OBVIOUS
  <2>1. PICK j \in DOMAIN lines[Other] : IsHelper(lines[Other][j]) /\ lines[Other][j].msg = Calls(t)[i].msg
    BY <1>1 DEF CallHasLine, HelperLine
  <2>2. lines[Other][j] \in Line /\ lines[t][p] \in Line
    BY <1>1
  <2> QED BY <1>2, <2>1, <2>2 DEF MessagesApart, SameMessage
<1>4. IsOwn(lines[t][p])
  <2>1. true[t][i] \in DOMAIN lines[t] /\ IsOwn(lines[t][true[t][i]]) /\ lines[t][true[t][i]].msg = Calls(t)[i].msg
    BY <1>1, <1>3 DEF CallHasLine, OwnLine
  <2>2. lines[t][p] \in Line /\ lines[t][true[t][i]] \in Line
    BY <1>1, <2>1
  <2> QED BY <1>2, <2>1, <2>2 DEF MessagesApart, SameMessage
<1> QED BY <1>3, <1>4 DEF GapInv, Unrecorded

\* The lines of the calls of a thread come in the order of the calls.
LEMMA LinesInOrder ==
  ASSUME TypeInv, CallsInv, NEW t \in Threads
  PROVE  /\ \A i \in DOMAIN true[t] : true[t][i] \in Nat
         /\ \A i \in DOMAIN true[t] : true[t][i] # 0 =>
              /\ true[t][i] \in DOMAIN lines[t] /\ lines[t][true[t][i]].msg = Calls(t)[i].msg
              /\ \A j \in DOMAIN true[t] : j < i => true[t][j] < true[t][i]
  BY CallsTyped DEF CallsInv, CallHasLine, OwnLine

LEMMA StandsNext ==
  ASSUME JoinAssumption, MessagesApart, TypeInv, LinesInv, CallsInv, GapInv, tagged, NEW t \in Threads,
         NEW i \in Nat, NEW a, a = i + 1, a <= Len(true[t]), NEW k, StandsAt(t, i, k), NEW m, m = NextLine(t, a, k)
  PROVE  StandsAt(t, a, m) /\ (m = k \/ m = true[t][a])
<1>1. /\ DOMAIN true[t] = 1 .. Len(true[t]) /\ Len(true[t]) \in Nat /\ a \in DOMAIN true[t]
      /\ \A j \in 1 .. i : j \in DOMAIN true[t] /\ j < a
      /\ \A j \in 1 .. a : j \in 1 .. i \/ j = a
      /\ \A j \in DOMAIN true[t] : j \in 1 .. i \/ j = a \/ a < j
      /\ 1 .. i \subseteq 1 .. a /\ a \in 1 .. a
  BY CallsTyped
<1>2. k \in Nat /\ JoinWindow \in Nat /\ Mine(t) = lines[t] /\ DOMAIN lines[t] = 1 .. Len(lines[t])
      /\ Len(lines[t]) \in Nat
  BY LinesTyped DEF StandsAt, JoinAssumption, Mine, Tids
<1>3. ASSUME k < true[t][a], true[t][a] <= k + JoinWindow PROVE true[t][a] \in FoundFor(t, a, k)
  <2>1. true[t][a] # 0 /\ true[t][a] \in Nat
    <3>1. a \in DOMAIN true[t]
      BY <1>1
    <3>2. true[t][a] \in Nat
      BY <3>1, LinesInOrder
    <3> QED BY <3>2, <1>2, <1>3
  <2>2. true[t][a] \in DOMAIN lines[t] /\ lines[t][true[t][a]].msg = Calls(t)[a].msg
    BY <1>1, <2>1, LinesInOrder
  <2>3. SameMessage(Mine(t)[true[t][a]].msg, Calls(t)[a].msg)
    BY <1>2, <2>2 DEF SameMessage
  <2>4. IsFound(t, a, k, true[t][a])
    BY <1>2, <1>3, <2>2, <2>3 DEF IsFound
  <2> QED BY <1>2, <2>4, FoundMeans
<1>4. CASE FoundFor(t, a, k) = {} /\ m = k
  <2>1. ~ (k < true[t][a] /\ true[t][a] <= k + JoinWindow)
    BY <1>3, <1>4
  <2>2. \A j \in 1 .. a : ~ (k < true[t][j] /\ true[t][j] <= k + JoinWindow)
    BY <1>1, <2>1 DEF StandsAt
  <2>3. k = 0 \/ \E j \in 1 .. a : true[t][j] = k
    BY <1>1 DEF StandsAt
  <2> QED BY <1>2, <1>4, <2>2, <2>3 DEF StandsAt
<1>5. CASE m \in FoundFor(t, a, k) /\ \A j \in FoundFor(t, a, k) : m <= j
  <2>1. IsFound(t, a, k, m)
    BY <1>2, <1>5, FoundMeans
  <2>2. m \in DOMAIN lines[t] /\ m \in Nat /\ k < m /\ m <= k + JoinWindow
        /\ SameMessage(lines[t][m].msg, Calls(t)[a].msg)
    BY <1>2, <2>1 DEF IsFound
  <2>3. /\ true[t][a] # 0 /\ true[t][a] \in Nat
        /\ (\E j \in DOMAIN true[t] : true[t][j] = m) \/ (\A j \in DOMAIN true[t] : true[t][j] < m)
    BY <1>1, <2>2, SaysTheSame, LinesInOrder
  <2>4. k < true[t][a]
    <3>1. CASE k = 0
      BY <2>3, <3>1
    <3>2. CASE \E j \in 1 .. i : true[t][j] = k
      <4>1. PICK j \in 1 .. i : true[t][j] = k
        BY <3>2
      <4>2. a \in DOMAIN true[t] /\ j \in DOMAIN true[t] /\ j < a
        BY <1>1
      <4> QED BY <4>1, <4>2, <2>3, LinesInOrder
    <3> QED BY <3>1, <3>2 DEF StandsAt
  <2>5. ~ (true[t][a] < m)
    <3> SUFFICES ASSUME true[t][a] < m PROVE FALSE
      OBVIOUS
    <3>0. m \in Nat /\ m <= k + JoinWindow /\ k \in Nat /\ JoinWindow \in Nat /\ true[t][a] \in Nat
      BY <1>2, <2>2, <2>3
    <3>1. true[t][a] <= k + JoinWindow
      BY <3>0
    <3>2. m <= true[t][a]
      BY <3>1, <2>4, <1>3, <1>5
    <3> QED BY <3>2, <2>2, <2>3
  <2>6. m = true[t][a]
    <3>1. PICK j \in DOMAIN true[t] : true[t][j] = m
      BY <1>1, <2>3, <2>5
    <3>2. j \notin 1 .. i
      BY <2>2, <3>1 DEF StandsAt
    <3>3. ~ (a < j)
      <4>1. true[t][j] # 0
        BY <1>2, <2>2, <3>1
      <4>2. \A l \in DOMAIN true[t] : l < j => true[t][l] < true[t][j]
        BY <4>1, LinesInOrder
      <4>3. a \in DOMAIN true[t]
        BY <1>1
      <4> QED BY <4>2, <4>3, <3>1, <2>5
    <3> QED BY <3>1, <3>2, <3>3, <1>1
  <2>7. \A j \in 1 .. a : true[t][j] \in Nat /\ true[t][j] <= m
    <3>1. a \in DOMAIN true[t] /\ \A j \in 1 .. i : j \in DOMAIN true[t] /\ j < a
      BY <1>1
    <3>2. \A l \in DOMAIN true[t] : true[t][l] \in Nat /\ (l < a => true[t][l] < true[t][a])
      BY <3>1, <2>3, LinesInOrder
    <3>3. \A j \in 1 .. i : true[t][j] \in Nat /\ true[t][j] <= m
      BY <3>1, <3>2, <2>2, <2>6
    <3>4. \A j \in 1 .. a : j \in 1 .. i \/ j = a
      BY <1>1
    <3> QED BY <3>3, <3>4, <2>2, <2>6
  <2>8. \A j \in 1 .. a : ~ (m < true[t][j] /\ true[t][j] <= m + JoinWindow)
    BY <2>2, <2>7
  <2>9. \E j \in 1 .. a : true[t][j] = m
    <3>1. a \in 1 .. a
      BY <1>1
    <3> QED BY <3>1, <2>6
  <2> QED BY <2>2, <2>6, <2>8, <2>9 DEF StandsAt
<1> QED BY <1>2, <1>4, <1>5, NextIsIn

LEMMA JoinsStand ==
  ASSUME JoinAssumption, MessagesApart, TypeInv, LinesInv, CallsInv, GapInv, tagged, NEW t \in Threads
  PROVE  \A i \in 0 .. Len(true[t]) : StandsAt(t, i, Joined(t)[i])
<1> DEFINE n == Len(true[t])
           k == Joined(t)
           P == {i \in Nat : i <= n => StandsAt(t, i, k[i])}
<1>1. n \in Nat /\ k[0] = 0 /\ \A i \in 1 .. n : k[i] = NextLine(t, i, k[i - 1])
  BY CallsTyped, JoinUnfolds
<1> HIDE DEF n, k
<1>2. 0 \in P
  BY <1>1 DEF StandsAt
<1>3. ASSUME NEW i \in P PROVE i + 1 \in P
  <2> SUFFICES ASSUME i + 1 <= n PROVE StandsAt(t, i + 1, k[i + 1])
    OBVIOUS
  <2>0. i \in Nat /\ (i <= n => StandsAt(t, i, k[i]))
    OBVIOUS
  <2> HIDE DEF P
  <2>1. i <= n /\ i + 1 \in 1 .. n /\ (i + 1) - 1 = i
    BY <1>1, <2>0
  <2>2. k[i + 1] = NextLine(t, i + 1, k[i]) /\ StandsAt(t, i, k[i])
    BY <2>0, <2>1, <1>1
  <2> QED BY <2>0, <2>2, StandsNext DEF n
<1> HIDE DEF P
<1>4. P = Nat
  <2>1. P \in SUBSET Nat
    BY DEF P
  <2> QED BY <1>2, <1>3, <2>1, NatInd
<1>5. \A i \in 0 .. n : i \in P /\ i <= n
  BY <1>1, <1>4
<1> QED BY <1>5 DEF P, n, k

\* The calls of t that were matched, and to which lines.
LEMMA MatchesAre ==
  ASSUME JoinAssumption, MessagesApart, TypeInv, LinesInv, CallsInv, GapInv, NEW t \in Threads, NEW m \in Matches(t)
  PROVE  /\ m = <<m[1], m[2]>> /\ m[1] \in DOMAIN true[t] /\ m[1] \in Nat
         /\ m[2] = true[t][m[1]] /\ m[2] # 0
<1>1. PICK i \in DOMAIN Calls(t) : m = <<i, Joined(t)[i]>> /\ Joined(t)[i] > Joined(t)[i - 1]
  BY DEF Matches
<1>2. /\ i \in 1 .. Len(true[t]) /\ Len(true[t]) \in Nat /\ i \in DOMAIN true[t] /\ i \in Nat /\ i - 1 \in Nat
      /\ i - 1 \in 0 .. Len(true[t]) /\ (i - 1) + 1 = i /\ i <= Len(true[t]) /\ i \in 1 .. Len(Calls(t))
      /\ i - 1 \in 0 .. Len(Calls(t)) /\ i \in 0 .. Len(Calls(t))
  BY CallsTyped
<1>3. Joined(t)[i] = NextLine(t, i, Joined(t)[i - 1]) /\ Joined(t)[i] \in Nat /\ Joined(t)[i - 1] \in Nat
  BY <1>2, JoinUnfolds
<1>4. tagged
  <2> SUFFICES ASSUME ~ tagged PROVE FALSE
    OBVIOUS
  <2>1. Mine(t) = <<>> /\ Len(<<>>) = 0
    BY DEF Mine
  <2>2. \A j : ~ IsFound(t, i, Joined(t)[i - 1], j)
    BY <2>1 DEF IsFound
  <2>3. FoundFor(t, i, Joined(t)[i - 1]) = {}
    BY <1>3, <2>2, FoundMeans
  <2> QED BY <1>1, <1>3, <2>3 DEF NextLine
<1>5. StandsAt(t, i - 1, Joined(t)[i - 1])
  BY <1>2, <1>4, JoinsStand
<1>6. Joined(t)[i] = Joined(t)[i - 1] \/ Joined(t)[i] = true[t][i]
  BY <1>2, <1>3, <1>4, <1>5, StandsNext
<1>7. Joined(t)[i] = true[t][i] /\ Joined(t)[i] # 0
  BY <1>1, <1>3, <1>6
<1> QED BY <1>1, <1>2, <1>7

\* For any number of threads, calls and lines: whatever else panics, no call is
\* matched to a line that is not its own.  What is printed of a panic tells one
\* of a call from one that the extension catches and from one of its own threads.
THEOREM CallsFindOwnLines == ASSUME MessagesApart PROVE Spec => []JoinsAreTrue
<1>1. RunInv /\ GapInv => JoinsAreTrue
  BY JoinAssumption, MessagesApart, MatchesAre DEF RunInv, JoinsAreTrue
<1> QED BY <1>1, RunsHaveLines, NoGaps, PTL

-----------------------------------------------------------------------------
(* Where a callable is filed. *)

\* The recorded calls of q that were matched.
Matched(q) == {x \in Recorded(q) : <<x[2], true[x[1]][x[2]]>> \in Matches(x[1])}

LEMMA LocatedAreMatched ==
  ASSUME JoinAssumption, MessagesApart, TypeInv, LinesInv, CallsInv, GapInv, NEW q, NEW e
  PROVE  e \in Located(q) <=> \E x \in Matched(q) : e = <<x[1], true[x[1]][x[2]]>>
<1>1. ASSUME e \in Located(q) PROVE \E x \in Matched(q) : e = <<x[1], true[x[1]][x[2]]>>
  <2>1. PICK t \in Threads : \E m \in Matches(t) : Calls(t)[m[1]].qual = q /\ e = <<t, m[2]>>
    BY <1>1, LocatedMeans
  <2>2. PICK m \in Matches(t) : Calls(t)[m[1]].qual = q /\ e = <<t, m[2]>>
    BY <2>1
  <2>3. m = <<m[1], true[t][m[1]]>> /\ m[1] \in DOMAIN true[t] /\ m[1] \in Nat /\ m[2] = true[t][m[1]]
    BY MatchesAre
  <2>4. PICK i \in DOMAIN true[t] : i = m[1] /\ i \in Nat
    BY <2>3
  <2>5. <<t, i>> \in Matched(q)
    <3>1. <<t, i>> \in Recorded(q)
      BY <2>2, <2>4 DEF Recorded
    <3>2. <<i, true[t][i]>> \in Matches(t)
      BY <2>3, <2>4
    <3> QED BY <3>1, <3>2 DEF Matched
  <2> QED BY <2>2, <2>3, <2>4, <2>5
<1>2. ASSUME NEW x \in Matched(q), e = <<x[1], true[x[1]][x[2]]>> PROVE e \in Located(q)
  <2>1. x[1] \in Threads /\ Calls(x[1])[x[2]].qual = q /\ <<x[2], true[x[1]][x[2]]>> \in Matches(x[1])
    BY DEF Matched, Recorded
  <2>2. PICK m \in Matches(x[1]) : m = <<x[2], true[x[1]][x[2]]>>
    BY <2>1
  <2>3. m[1] = x[2] /\ m[2] = true[x[1]][x[2]]
    BY <2>2
  <2> QED BY <1>2, <2>1, <2>3, LocatedMeans
<1> QED BY <1>1, <1>2

LEMMA LocatedCount ==
  ASSUME JoinAssumption, MessagesApart, RunInv, GapInv, NEW q \in Quals
  PROVE  /\ Cardinality(Located(q)) \in Nat /\ count[q] \in Nat /\ Cardinality(Located(q)) <= count[q]
         /\ Cardinality(Located(q)) = count[q] => Matched(q) = Recorded(q) /\ Cardinality(Recorded(q)) = count[q]
<1> DEFINE f == [x \in Matched(q) |-> <<x[1], true[x[1]][x[2]]>>]
<1>1. /\ TypeInv /\ LinesInv /\ CallsInv /\ count[q] \in Nat
      /\ IsFiniteSet(Recorded(q)) /\ Cardinality(Recorded(q)) <= count[q]
  BY DEF RunInv, CountInv, CountIn, TypeInv
<1>2. Matched(q) \in SUBSET Recorded(q)
  BY DEF Matched
<1>3. f \in Surjection(Matched(q), Located(q))
  <2>1. \A e : e \in Located(q) <=> \E x \in Matched(q) : e = <<x[1], true[x[1]][x[2]]>>
    BY <1>1, LocatedAreMatched
  <2> QED BY <2>1 DEF Surjection
<1> HIDE DEF f
<1>4. /\ IsFiniteSet(Matched(q)) /\ Cardinality(Matched(q)) <= Cardinality(Recorded(q))
      /\ Cardinality(Recorded(q)) = Cardinality(Matched(q)) => Recorded(q) = Matched(q)
  BY <1>1, <1>2, FS_Subset
<1>5. IsFiniteSet(Located(q)) /\ Cardinality(Located(q)) <= Cardinality(Matched(q))
  BY <1>3, <1>4, FS_Surjection
<1>6. Cardinality(Located(q)) \in Nat /\ Cardinality(Matched(q)) \in Nat /\ Cardinality(Recorded(q)) \in Nat
  BY <1>1, <1>4, <1>5, FS_CardinalityType
<1> QED BY <1>1, <1>4, <1>5, <1>6

\* A line that shows a site of q is either matched to a call of q or a candidate.
LEMMA ShownIsFiled ==
  ASSUME JoinAssumption, MessagesApart, RunInv, GapInv, NEW q \in Quals, NEW s, Shown(q, s), Rest(q) > 0
  PROVE  s \in UNION FiledUnder(q)
<1>1. PICK v \in Tids : \E j \in DOMAIN lines[v] : Shows(q, s, v, j)
  BY DEF Shown
<1>2. PICK j \in DOMAIN lines[v] : Shows(q, s, v, j)
  BY <1>1
<1> DEFINE e == <<v, j>>
<1>3. e \in Events /\ At(e) = lines[v][j]
  BY <1>2 DEF Events, At
<1>4. At(e).site = s /\ At(e).msg \in DOMAIN panics[q]
  BY <1>2, <1>3 DEF Shows
<1>5. CASE e \in Consumed
  <2>1. v \in Threads /\ \E m \in Matches(v) : j = m[2]
    BY <1>5, LocatedMeans
  <2>2. PICK m \in Matches(v) : j = m[2]
    BY <2>1
  <2>3. m[1] \in DOMAIN true[v] /\ m[2] = true[v][m[1]]
    BY <2>1, MatchesAre DEF RunInv
  <2>4. Calls(v)[m[1]].qual = q
    BY <1>2, <2>1, <2>2, <2>3 DEF Shows
  <2>5. e \in Located(q)
    BY <2>1, <2>2, <2>4, LocatedMeans
  <2> QED BY <2>5, <1>4 DEF FiledUnder
<1>6. CASE e \notin Consumed
  <2>1. e \in Pool
    BY <1>3, <1>6 DEF Pool
  <2>2. s \in Candidates(q)
    BY <2>1, <1>4 DEF Candidates, SameMessage
  <2> QED BY <2>2 DEF FiledUnder
<1> QED BY <1>5, <1>6

LEMMA SiteIsNamed == ASSUME JoinAssumption, MessagesApart, RunInv, GapInv PROVE TrueSiteIsNamed
<1> SUFFICES ASSUME NEW q \in Wanted, Cardinality(DOMAIN panics[q]) < MaxMessages, NEW s \in where[q]
             PROVE  s \in UNION FiledUnder(q)
  BY DEF TrueSiteIsNamed
<1>1. q \in Quals
  BY DEF Wanted
<1>2. CASE Rest(q) > 0
  <2>1. Shown(q, s)
    BY <1>1 DEF RunInv, SiteInv, SiteIn
  <2> QED BY <1>1, <1>2, <2>1, ShownIsFiled
<1>3. CASE ~ (Rest(q) > 0)
  <2>1. Cardinality(Located(q)) = count[q]
    BY <1>1, <1>3, LocatedCount DEF Rest
  <2>2. Matched(q) = Recorded(q) /\ Cardinality(Recorded(q)) = count[q]
    BY <1>1, <2>1, LocatedCount
  <2>3. PICK x \in Recorded(q) : SeenAt(x, s)
    BY <1>1, <2>2 DEF RunInv, CountInv, CountIn
  <2>4. x[1] \in Threads /\ <<x[2], true[x[1]][x[2]]>> \in Matches(x[1])
    BY <2>2 DEF Matched, Recorded
  <2>5. true[x[1]][x[2]] # 0
    <3>1. PICK m \in Matches(x[1]) : m = <<x[2], true[x[1]][x[2]]>>
      BY <2>4
    <3>2. m[2] # 0
      BY <2>4, MatchesAre DEF RunInv
    <3> QED BY <3>1, <3>2
  <2>6. \A e : e = <<x[1], true[x[1]][x[2]]>> => e \in Located(q) /\ At(e).site = s
    BY <2>2, <2>3, <2>5, LocatedAreMatched DEF RunInv, SeenAt, At
  <2> QED BY <2>6 DEF FiledUnder
<1> QED BY <1>2, <1>3

\* For any number of threads, calls and lines, and wherever the caps stopped the
\* records: a finding about a callable names every site it panicked at, as long
\* as no message of it was dropped.  What is printed of a panic tells one of a
\* call from one that the extension catches and from one of its own threads.
THEOREM SitesAreNamed == ASSUME MessagesApart PROVE Spec => []TrueSiteIsNamed
<1>1. RunInv /\ GapInv => TrueSiteIsNamed
  BY JoinAssumption, MessagesApart, SiteIsNamed
<1> QED BY <1>1, RunsHaveLines, NoGaps, PTL
=============================================================================
