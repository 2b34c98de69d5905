-------------------------- MODULE StateStoreProofs --------------------------
(***************************************************************************)
(* For any number of writers, keys and calls, with crashes and I/O errors  *)
(* at any point: a version names one write.  The replay sorts records with *)
(* sort_unstable_by_key (state.rs:111), which leaves records of equal      *)
(* version in no particular order; this is why it does not matter.         *)
(*                                                                         *)
(* The invariant is about every place a version can be: the files, the     *)
(* BufWriter, the entry being appended, the snapshot of a compaction, the  *)
(* entries in memory and the calls in progress.  Each step moves facts     *)
(* between these places, forgets some, or adds one with a version above    *)
(* all others.                                                             *)
(*                                                                         *)
(* The second half is about one call at a time, which is what the store    *)
(* does when nothing runs beside a mutation: it then implements the        *)
(* versioned map of VersionedStore, and, while the disk takes every write, *)
(* what it answered survives a crash and its memory is what a restart      *)
(* would read.  With two writers, or after a failed write, TLC shows       *)
(* behaviours in which these fail.                                         *)
(***************************************************************************)
EXTENDS StateStore, FiniteSetTheorems, WellFoundedInduction, TLAPS

Calls == [op : {"none", "set", "delete"}, key : Keys \cup {Absent},
          value : AllValues \cup {Absent}, version : Nat,
          from : AllValues \cup {Absent}, alone : BOOLEAN]

Labels == {"idle", "diff", "insert", "bump", "delta", "plog", "append", "snap",
           "compact", "return"}

LogTyped ==
    /\ disk \in [DOMAIN disk -> Seq(Records \cup {Torn})]
    /\ wbuf \in Seq(Records) /\ arg \in Records \cup {Torn}
    /\ stage \in {"rotate", "write", "flush"} => arg \in Records
    /\ todo \subseteq Records

Typed ==
    /\ LogTyped
    /\ global_version \in Nat
    /\ entries \in [Keys -> {Absent} \cup Entries]
    /\ pc \in [Writers -> Labels]
    /\ call \in [Writers -> Calls]
    /\ snap \in [Writers -> SUBSET Records]
    /\ unread \in [Writers -> SUBSET Keys]
    /\ \A w \in Writers : pc[w] # "idle" =>
          call[w].key \in Keys /\ call[w].value \in AllValues
    /\ \A w \in Writers : pc[w] \in {"diff", "insert", "delta", "plog"} =>
          call[w].version # 0
    /\ ~up => \A w \in Writers : call[w].version = 0 /\ snap[w] = {}

\* A record some part of the store holds.
In(s, r) == \E i \in DOMAIN s : s[i] = r
InFiles(files, r) == \E n \in DOMAIN files : In(files[n], r)
Logged(r) == InFiles(disk, r) \/ In(wbuf, r) \/ r = arg \/ r \in todo

\* Version n stands for the write of v to key k.
LogFact(n, k, v) ==
    \E r \in Records : /\ r # Torn /\ Logged(r)
                       /\ r.version = n /\ r.key = k /\ r.value = v
SnapFact(n, k, v) ==
    \E w \in Writers : \E r \in snap[w] :
        r.version = n /\ r.key = k /\ r.value = v
EntryFact(n, k, v) ==
    entries[k] # Absent /\ entries[k].version = n /\ entries[k].value = v
CallFact(n, k, v) ==
    \E w \in Writers : /\ call[w].version = n /\ n # 0
                       /\ call[w].key = k /\ call[w].value = v
Fact(n, k, v) ==
    LogFact(n, k, v) \/ SnapFact(n, k, v) \/ EntryFact(n, k, v) \/ CallFact(n, k, v)

OneWrite ==
    \A n \in Nat : \A k, l \in Keys : \A v, u \in AllValues :
        Fact(n, k, v) /\ Fact(n, l, u) => k = l /\ v = u
NoneAbove ==
    \A n \in Nat : \A k \in Keys : \A v \in AllValues :
        Fact(n, k, v) => n <= global_version

IInv == Typed /\ OneWrite /\ NoneAbove

-----------------------------------------------------------------------------
(* Bounded sets of naturals *)

\* The least element of a non-empty set, as in the first torn record of a file:
\* inclusion is well-founded on the intervals 0..x.
LEMMA NextIsGreater ==
    ASSUME NEW m \in Nat, NEW n \in Nat, m <= n
    PROVE  m < n + 1
BY SMT, Z3

LEMMA DeleteNotSet == "delete" # "set"
BY Zenon

LEMMA MinExists ==
    ASSUME NEW S \in SUBSET Nat, S # {}
    PROVE  Min(S) \in S /\ \A x \in S : Min(S) <= x
<1> DEFINE T == {0..x : x \in S}
<1> DEFINE R == StrictSubsetOrdering(Nat)
<1>1. T \subseteq FiniteSubsetsOf(Nat) /\ T # {}
  <2>1. \A x \in S : IsFiniteSet(0..x) /\ 0..x \in SUBSET Nat
    BY FS_Interval, SMT, Z3
  <2> QED
    BY Zenon, <2>1 DEF FiniteSubsetsOf
<1>2. PICK I \in T : \A J \in T : ~(<<J, I>> \in R)
  <2> HIDE DEF T, R
  <2>1. IsWellFoundedOn(R, FiniteSubsetsOf(Nat))
    BY FS_StrictSubsetOrderingWellFounded, Zenon DEF R
  <2> QED
    BY <1>1, <2>1, WFMin, Zenon
<1>3. PICK m \in S : I = 0..m
  BY Zenon
<1>4. ASSUME NEW x \in S, x < m
      PROVE  FALSE
  <2>1. 0..x \in T /\ 0..x \subseteq 0..m /\ m \in 0..m /\ m \notin 0..x
    BY <1>4, SMT, Z3
  <2>2. <<0..x, I>> \in R
    BY <1>3, <2>1, SMT, Z3 DEF StrictSubsetOrdering
  <2> QED
    BY Zenon, <1>2, <2>1, <2>2
<1>5. \E x \in S : \A y \in S : x <= y
  BY <1>4, SMT, Z3
<1> QED
  BY Zenon, <1>5 DEF Min

\* What holds at 0 and passes from each number below n to the next holds up to n.
LEMMA UpTo ==
    ASSUME NEW n \in Nat, NEW S, 0 \in S,
           \A i \in Nat : i < n /\ i \in S => i + 1 \in S
    PROVE  \A i \in 0..n : i \in S
<1> SUFFICES ASSUME NEW j \in 0..n, j \notin S PROVE FALSE
  BY Zenon
<1> DEFINE Bad == {i \in Nat : i <= n /\ i \notin S}
<1>1. Bad \in SUBSET Nat /\ Bad # {}
  BY SMT, Z3
<1>2. PICK m \in Bad : \A x \in Bad : m <= x
  <2> HIDE DEF Bad
  <2> QED  BY <1>1, MinExists, Zenon
<1>3. m # 0 /\ m - 1 \in Nat /\ m - 1 < n /\ ~(m <= m - 1) /\ (m - 1) + 1 = m
  BY SMT, Z3
<1>4. m - 1 \in S
  BY <1>2, <1>3, SMT, Z3
<1> QED
  BY <1>3, <1>4, Zenon

\* The greatest element of a set that has a bound, as in the version that open
\* continues from.
LEMMA MaxExists ==
    ASSUME NEW S \in SUBSET Nat, S # {}, NEW b \in Nat, \A x \in S : x <= b
    PROVE  Max(S) \in S /\ \A x \in S : x <= Max(S)
<1> DEFINE T == {c \in Nat : \A x \in S : x <= c}
<1>1. T # {} /\ T \in SUBSET Nat
  BY ZenonT(30)
<1>2. PICK m \in T : \A y \in T : m <= y
  BY Zenon, <1>1, MinExists
<1>3. m \in S
  <2> SUFFICES ASSUME m \notin S PROVE FALSE
    BY Zenon
  <2>1. PICK x \in S : TRUE
    BY Zenon
  <2>2. m - 1 \in Nat /\ \A y \in S : y <= m - 1
    BY <2>1, SMT, Z3
  <2> QED
    BY <2>2, <1>2, SMT, Z3
<1>4. \E x \in S : \A y \in S : x >= y
  BY <1>3, Zenon
<1> QED
  BY Zenon, <1>4 DEF Max

-----------------------------------------------------------------------------
(* How facts move *)

\* A step whose only new fact has the next version keeps it as well.
OnlyNew(kk, vv) ==
    \A n \in Nat : \A k \in Keys : \A v \in AllValues : Fact(n, k, v)' =>
        Fact(n, k, v) \/ (n = global_version + 1 /\ k = kk /\ v = vv)

\* replay_segment returns records of the file, and no torn one.
LEMMA ReplayIsPrefix ==
    ASSUME NEW f \in Seq(Records \cup {Torn})
    PROVE  /\ ReplaySegment(f) \in Seq(Records \cup {Torn})
           /\ \A i \in DOMAIN ReplaySegment(f) :
                 /\ i \in DOMAIN f /\ ReplaySegment(f)[i] = f[i]
                 /\ f[i] # Torn /\ f[i] \in Records
<1>1. CASE Torn \notin Range(f)
  BY <1>1, SMT, Z3 DEF ReplaySegment, Range
<1>2. CASE Torn \in Range(f)
  <2> DEFINE S == {i \in DOMAIN f : f[i] = Torn}
  <2> DEFINE m == Min(S)
  <2>1. S \in SUBSET Nat /\ S # {}
    BY <1>2, SMT, Z3 DEF Range
  <2>2. m \in S /\ \A i \in S : m <= i
    BY Zenon, <2>1, MinExists
  <2>3. ReplaySegment(f) = SubSeq(f, 1, m - 1)
    BY Zenon, <1>2 DEF ReplaySegment
  <2>4. m \in 1..Len(f) /\ m - 1 \in 0..Len(f)
    BY <2>2, SMT, Z3
  <2> HIDE DEF S, m
  <2>5. /\ SubSeq(f, 1, m - 1) \in Seq(Records \cup {Torn})
        /\ DOMAIN SubSeq(f, 1, m - 1) = 1..(m - 1)
        /\ \A i \in 1..(m - 1) : SubSeq(f, 1, m - 1)[i] = f[i]
    BY <2>4, SMT, Z3
  <2>6. \A i \in 1..(m - 1) : i \in DOMAIN f /\ f[i] # Torn
    BY <2>2, <2>4, SMT, Z3 DEF S
  <2> QED
    BY <2>3, <2>5, <2>6, SMT, Z3
<1> QED
  BY <1>1, <1>2, Zenon

-----------------------------------------------------------------------------
(* Every step *)

\* The empty store satisfies the invariant ...
LEMMA InitIInv == Init => IInv
<1> SUFFICES ASSUME Init PROVE IInv
  BY Zenon
<1>1. <<>> \in Seq(Records) /\ <<>> \in Seq(Records \cup {Torn})
      /\ \A r : ~In(<<>>, r)
  BY SMT, Z3 DEF In
<1>2. LogTyped
  BY Zenon, <1>1 DEF Init, LogInit, LogTyped
<1>3. NoCall \in Calls /\ NoCall.version = 0
  BY Zenon DEF NoCall, Calls
<1>4. Typed
  BY Zenon, <1>2, <1>3 DEF Init, Typed, Labels
<1>5. \A r : Logged(r) => r = Torn
  BY Zenon, <1>1 DEF Init, LogInit, Logged, InFiles
<1>6. \A n \in Nat : \A k \in Keys : \A v \in AllValues : ~Fact(n, k, v)
  <2>1. \A n, k, v : ~LogFact(n, k, v)
    BY <1>5, Zenon DEF LogFact
  <2> QED
    BY <1>3, <2>1, Zenon DEF Init, Fact, SnapFact, EntryFact, CallFact
<1> QED
  BY <1>4, <1>6, Zenon DEF IInv, OneWrite, NoneAbove

\* ... and every step of every task keeps it.
LEMMA NextIInv == IInv /\ [Next]_vars => IInv'
\* A step that brings no new fact and does not lower the counter keeps the
\* invariant.
<1>FactFrame. ASSUME IInv, Typed', global_version' = global_version,
                     \A n \in Nat : \A k \in Keys : \A v \in AllValues :
                        Fact(n, k, v)' => Fact(n, k, v)
              PROVE  IInv'
  BY <1>FactFrame, SMT, Z3 DEF IInv, OneWrite, NoneAbove, Typed
\* A step that leaves the log alone brings no fact from it ...
<1>LogUnchanged. ASSUME UNCHANGED <<disk, wbuf, arg, todo>>
                 PROVE  \A n, k, v : LogFact(n, k, v)' => LogFact(n, k, v)
  BY <1>LogUnchanged, Zenon DEF LogFact, Logged, InFiles
\* ... and one that leaves the entries, calls and snapshots alone none from them.
<1>MemUnchanged. ASSUME UNCHANGED <<entries, call, snap>>
                 PROVE  \A n, k, v : /\ SnapFact(n, k, v)' => SnapFact(n, k, v)
                                     /\ EntryFact(n, k, v)' => EntryFact(n, k, v)
                                     /\ CallFact(n, k, v)' => CallFact(n, k, v)
  BY <1>MemUnchanged, SMT, Z3 DEF SnapFact, EntryFact, CallFact
\* apply and delete
<1>CallSteps. ASSUME IInv, NEW w \in Writers,
                     \/ Diff(w) \/ Insert(w) \/ Bump(w) \/ LogDelta(w) \/ Return(w)
                     \/ \E k \in Keys : Delete(w, k) \/ \E v \in AllValues : Apply(w, k, v)
              PROVE  IInv'
  <2> USE <1>CallSteps
  <2>FactFresh. ASSUME Typed', global_version' = global_version + 1, NEW kk, NEW vv,
                       OnlyNew(kk, vv)
                PROVE  IInv'
    <3> USE <2>FactFresh
    <3>1. global_version \in Nat /\ OneWrite /\ NoneAbove
      BY Zenon DEF IInv, Typed
    <3>2. OneWrite'
      BY <3>1, SMT, Z3 DEF OneWrite, NoneAbove, OnlyNew
    <3>3. NoneAbove'
      BY <3>1, SMT, Z3 DEF NoneAbove, OnlyNew
    <3> QED
      BY <3>2, <3>3, Zenon DEF IInv
  <2>t. Typed /\ global_version \in Nat
    BY Zenon DEF IInv, Typed
  <2>c. /\ call \in [Writers -> Calls] /\ pc \in [Writers -> Labels]
        /\ entries \in [Keys -> {Absent} \cup Entries]
    BY <2>t, Zenon DEF Typed
  <2>s. UNCHANGED <<logVars, snap, unread>>
    <3>1. CASE Diff(w) \/ Insert(w) \/ Bump(w)
      BY <3>1, Zenon DEF Diff, Insert, Bump
    <3>2. CASE LogDelta(w) \/ Return(w) BY <3>2, Zenon DEF LogDelta, Return
    <3>3. ASSUME NEW k \in Keys,
                 Delete(w, k) \/ \E v \in AllValues : Apply(w, k, v)
          PROVE  UNCHANGED <<logVars, snap, unread>>
      BY <3>3, Zenon DEF Delete, Apply
    <3> QED
      BY <3>1, <3>2, <3>3, Zenon
  <2>l. \A n, k, v : /\ LogFact(n, k, v)' => LogFact(n, k, v)
                     /\ SnapFact(n, k, v)' => SnapFact(n, k, v)
    BY <2>s, <1>LogUnchanged, Zenon DEF logVars, SnapFact
  <2>y. LogTyped'
    BY <2>s, <2>t, Zenon DEF logVars, LogTyped, Typed
  <2>v. \A k \in Keys : ValueOf(entries[k]) \in AllValues \cup {Absent}
    BY <2>c, Zenon DEF ValueOf, Entries
  <2>1. CASE Diff(w)
    <3>1. UNCHANGED <<global_version, entries, up>> /\ up
      BY <2>1, ZenonT(30) DEF Diff, memVars, histVars
    <3>2. call[w].key \in Keys /\ call[w].value \in AllValues /\ call[w].version # 0
      BY <2>1, <2>t, Zenon DEF Diff, Typed
    <3>3. call' \in [Writers -> Calls]
      BY <2>1, <2>c, <2>v, <3>2, ZenonT(60) DEF Diff, Calls
    <3>4. \A u \in Writers : /\ call'[u].version = call[u].version
                              /\ call'[u].key = call[u].key
                              /\ call'[u].value = call[u].value
      BY <2>1, <2>c, SMT, Z3 DEF Diff, Calls
    <3>5. pc' \in [Writers -> Labels] /\ \A u \in Writers : u # w => pc'[u] = pc[u]
      BY <2>1, <2>c, Zenon DEF Diff, Goto, Labels
    <3>6. Typed'
      BY <2>t, <2>y, <2>s, <3>1, <3>2, <3>3, <3>4, <3>5, ZenonT(60) DEF Typed
    <3>7. \A n, k, v : /\ EntryFact(n, k, v)' => EntryFact(n, k, v)
                       /\ CallFact(n, k, v)' => CallFact(n, k, v)
      BY <3>1, <3>4, ZenonT(60) DEF EntryFact, CallFact
    <3>f. \A n \in Nat : \A kk \in Keys : \A vv \in AllValues :
            Fact(n, kk, vv)' => Fact(n, kk, vv)
      BY <2>t, <2>l, <3>1, <3>6, <3>7, Zenon DEF Fact
    <3> QED
      BY <3>1, <3>6, <3>f, <1>FactFrame, ZenonT(60)
  <2>2. CASE Insert(w)
    <3>1. UNCHANGED <<global_version, call, up>> /\ up
      BY <2>2, Zenon DEF Insert, histVars
    <3>2. call[w].key \in Keys /\ call[w].value \in AllValues /\ call[w].version # 0
          /\ call[w].version \in Nat
      BY Zenon, <2>2, <2>t DEF Insert, Typed, Calls
    <3>3. entries' = [entries EXCEPT ![call[w].key] =
                        [version |-> call[w].version, value |-> call[w].value]]
      BY <2>2, Zenon DEF Insert
    <3>4. entries' \in [Keys -> {Absent} \cup Entries]
      BY Zenon, <2>c, <3>2, <3>3 DEF Entries
    <3>5. pc' \in [Writers -> Labels] /\ pc[w] = "insert"
          /\ \A u \in Writers : u # w => pc'[u] = pc[u]
      BY <2>2, <2>c, Zenon DEF Insert, Goto, Labels
    <3>6. Typed'
      BY <2>t, <2>y, <2>s, <3>1, <3>2, <3>4, <3>5, ZenonT(60) DEF Typed
    <3>7. \A n \in Nat : \A k \in Keys : \A v \in AllValues :
            EntryFact(n, k, v)' => EntryFact(n, k, v) \/ CallFact(n, k, v)
      BY Zenon, <2>c, <3>2, <3>3 DEF EntryFact, CallFact
    <3>8. \A n, k, v : CallFact(n, k, v)' => CallFact(n, k, v)
      BY <3>1, Zenon DEF CallFact
    <3>f. \A n \in Nat : \A kk \in Keys : \A vv \in AllValues :
            Fact(n, kk, vv)' => Fact(n, kk, vv)
      BY <2>t, <2>l, <3>1, <3>6, <3>7, <3>8, ZenonT(60) DEF Fact
    <3> QED
      BY <3>1, <3>6, <3>f, <1>FactFrame, ZenonT(60)
  <2>3. CASE Bump(w)
    <3>1. UNCHANGED <<entries, up>> /\ up /\ global_version' = global_version + 1
      BY <2>3, ZenonT(30) DEF Bump, histVars
    <3>2. call[w].key \in Keys /\ call[w].value \in AllValues
      BY <2>3, <2>t, Zenon DEF Bump, Typed
    <3>3. call' \in [Writers -> Calls] /\ call'[w].version # 0
      BY <2>3, <2>c, <2>t, SMT, Z3 DEF Bump, Calls
    <3>4. /\ \A u \in Writers : /\ u # w => (call'[u].version = call[u].version)
                                /\ call'[u].key = call[u].key
                                /\ call'[u].value = call[u].value
          /\ call'[w].version = global_version + 1
      BY <2>3, <2>c, SMT, Z3 DEF Bump, Calls
    <3>5. pc' \in [Writers -> Labels] /\ \A u \in Writers : u # w => pc'[u] = pc[u]
      BY <2>3, <2>c, Zenon DEF Bump, Goto, Labels
    <3>6. Typed'
      BY <2>t, <2>y, <2>s, <3>1, <3>2, <3>3, <3>4, <3>5, SMTT(30), Z3T(30) DEF Typed
    <3>7. \A n, k, v : EntryFact(n, k, v)' => EntryFact(n, k, v)
      BY Zenon, <3>1 DEF EntryFact
    <3>8. \A n, k, v : CallFact(n, k, v)' => CallFact(n, k, v) \/
              (n = global_version + 1 /\ k = call[w].key /\ v = call[w].value)
      <4> SUFFICES ASSUME NEW n, NEW k, NEW v, NEW u \in Writers,
                          call'[u].version = n, n # 0, call'[u].key = k,
                          call'[u].value = v
                   PROVE  \/ CallFact(n, k, v)
                          \/ n = global_version + 1 /\ k = call[w].key /\ v = call[w].value
        BY SMT, Z3 DEF CallFact
      <4>1. CASE u = w
        BY Zenon, <4>1, <3>4
      <4>2. CASE u # w
        BY <4>2, <3>4, Zenon DEF CallFact
      <4> QED
        BY Zenon, <4>1, <4>2
    <3>9. OnlyNew(call[w].key, call[w].value)
      BY <2>l, <3>7, <3>8, Zenon DEF Fact, OnlyNew
    <3> QED
      BY <3>1, <3>6, <3>9, <2>FactFresh, ZenonT(60)
  <2>4. CASE LogDelta(w)
    <3>1. UNCHANGED <<entries, call, up, global_version>> /\ up
      BY <2>4, Zenon DEF LogDelta
    <3>2. /\ pc' \in [Writers -> Labels] /\ \A u \in Writers : u # w => pc'[u] = pc[u]
          /\ pc[w] = "delta"
      BY <2>4, <2>c, Zenon DEF LogDelta, Goto, Labels
    <3>3. Typed'
      BY Zenon, <2>t, <2>y, <2>s, <3>1, <3>2 DEF Typed
    <3>f. \A n \in Nat : \A kk \in Keys : \A vv \in AllValues :
            Fact(n, kk, vv)' => Fact(n, kk, vv)
      BY <2>t, <2>l, <2>s, <3>1, <3>3, <1>MemUnchanged, ZenonT(60) DEF Fact
    <3> QED
      BY <3>1, <3>3, <3>f, <1>FactFrame, ZenonT(60)
  <2>5. CASE Return(w)
    <3>1. UNCHANGED <<entries, up, global_version>> /\ up
      BY <2>5, Zenon DEF Return, memVars
    <3>2. call' = [call EXCEPT ![w] = NoCall] /\ NoCall \in Calls
      BY <2>5, Zenon DEF Return, NoCall, Calls
    <3>3. /\ pc' \in [Writers -> Labels] /\ pc'[w] = "idle"
          /\ \A u \in Writers : u # w => pc'[u] = pc[u]
      BY Zenon, <2>5, <2>c DEF Return, Goto, Labels
    <3>5. Typed'
      BY Zenon, <2>t, <2>y, <2>s, <2>c, <3>1, <3>2, <3>3 DEF Typed
    <3>6. \A n, k, v : EntryFact(n, k, v)' => EntryFact(n, k, v)
      BY <3>1, Zenon DEF EntryFact
    <3>7. \A n, k, v : CallFact(n, k, v)' => CallFact(n, k, v)
      BY <2>c, <3>2, Zenon DEF CallFact, NoCall
    <3>f. \A n \in Nat : \A kk \in Keys : \A vv \in AllValues :
            Fact(n, kk, vv)' => Fact(n, kk, vv)
      BY <2>t, <2>l, <3>1, <3>5, <3>6, <3>7, ZenonT(60) DEF Fact
    <3> QED
      BY <3>1, <3>5, <3>f, <1>FactFrame, ZenonT(60)
  <2>6. ASSUME NEW k \in Keys, Delete(w, k)
        PROVE  IInv'
    <3>1. UNCHANGED <<up, global_version>> /\ up
          /\ entries' = [entries EXCEPT ![k] = Absent]
      BY <2>6, Zenon DEF Delete
    <3>2. call' = Began(w, "delete", k, Null, 0, ValueOf(entries[k]))
      BY <2>6, ZenonT(30) DEF Delete
    <3>3. call' \in [Writers -> Calls]
      BY ZenonT(60), <2>c, <2>v, <3>2 DEF Began, Calls, AllValues
    <3>4. /\ \A u \in Writers : u # w => /\ call'[u].version = call[u].version
                                        /\ call'[u].key = call[u].key
                                        /\ call'[u].value = call[u].value
          /\ call'[w].version = 0 /\ call'[w].key = k /\ call'[w].value = Null
      BY <2>c, <3>2, SMT, Z3 DEF Began, Calls
    <3>5. /\ pc' \in [Writers -> Labels] /\ pc'[w] \in {"return", "bump"}
          /\ \A u \in Writers : u # w => pc'[u] = pc[u]
      BY <2>6, <2>c, Zenon DEF Delete, Goto, Labels
    <3>6. entries' \in [Keys -> {Absent} \cup Entries]
      BY <2>c, <3>1, Zenon
    <3>7. Typed'
      BY <2>t, <2>y, <2>s, <3>1, <3>3, <3>4, <3>5, <3>6, SMT, Z3 DEF Typed, AllValues
    <3>8. \A n \in Nat : \A l \in Keys : \A v \in AllValues :
            EntryFact(n, l, v)' => EntryFact(n, l, v)
      BY Zenon, <2>c, <3>1 DEF EntryFact
    <3>9. \A n, l, v : CallFact(n, l, v)' => CallFact(n, l, v)
      BY Zenon, <3>4 DEF CallFact
    <3>f. \A n \in Nat : \A kk \in Keys : \A vv \in AllValues :
            Fact(n, kk, vv)' => Fact(n, kk, vv)
      BY <2>t, <2>l, <3>1, <3>7, <3>8, <3>9, ZenonT(60) DEF Fact
    <3> QED
      BY <3>1, <3>7, <3>f, <1>FactFrame, ZenonT(60)
  <2>7. ASSUME NEW k \in Keys, NEW v \in AllValues, Apply(w, k, v)
        PROVE  IInv'
    <3>1. UNCHANGED <<entries, up>> /\ up
          /\ global_version' = global_version + 1
      BY <2>7, Zenon DEF Apply
    <3>2. call' = Began(w, "set", k, v, global_version + 1, Absent)
      BY <2>7, ZenonT(30) DEF Apply
    <3>3. call' \in [Writers -> Calls]
      <4>1. global_version + 1 \in Nat
        BY <2>t, SMT, Z3
      <4> QED
        BY ZenonT(60), <2>c, <3>2, <4>1 DEF Began, Calls
    <3>4. /\ \A u \in Writers : u # w => /\ call'[u].version = call[u].version
                                        /\ call'[u].key = call[u].key
                                        /\ call'[u].value = call[u].value
          /\ call'[w].version = global_version + 1
          /\ call'[w].key = k /\ call'[w].value = v
      BY <2>c, <3>2, SMT, Z3 DEF Began, Calls
    <3>5. /\ pc' \in [Writers -> Labels]
          /\ \A u \in Writers : u # w => pc'[u] = pc[u]
      BY <2>7, <2>c, Zenon DEF Apply, Goto, Labels
    <3>6. Typed'
      BY <2>t, <2>y, <2>s, <3>1, <3>3, <3>4, <3>5, SMT, Z3 DEF Typed
    <3>7. \A n, l, x : EntryFact(n, l, x)' => EntryFact(n, l, x)
      BY <3>1, ZenonT(60) DEF EntryFact
    <3>8. \A n, l, x : CallFact(n, l, x)' =>
              CallFact(n, l, x) \/ (n = global_version + 1 /\ l = k /\ x = v)
      BY <3>4, ZenonT(60) DEF CallFact
    <3>9. OnlyNew(k, v)
      BY <2>l, <3>7, <3>8, Zenon DEF Fact, OnlyNew
    <3> QED
      BY <3>1, <3>6, <3>9, <2>FactFresh, ZenonT(60)
  <2> QED
    BY ZenonT(60), <2>1, <2>2, <2>3, <2>4, <2>5, <2>6, <2>7
\* The mutex holder's steps: append, snapshot, compact
<1>LogCallSteps. ASSUME IInv, NEW w \in Writers,
                        \/ LogAppend(w) \/ LogAppended(w) \/ SnapshotKey(w)
                        \/ Compact(w) \/ Compacted(w)
                 PROVE  IInv'
  <2> USE <1>LogCallSteps
  <2>t. Typed /\ LogTyped /\ global_version \in Nat
    BY Zenon DEF IInv, Typed
  <2>c. /\ call \in [Writers -> Calls] /\ pc \in [Writers -> Labels]
        /\ entries \in [Keys -> {Absent} \cup Entries]
        /\ snap \in [Writers -> SUBSET Records]
        /\ unread \in [Writers -> SUBSET Keys]
    BY Zenon, <2>t DEF Typed
  <2>s. UNCHANGED <<memVars, call, histVars>> /\ up
    <3>1. CASE LogAppend(w) \/ LogAppended(w)
      BY <3>1, Zenon DEF LogAppend, LogAppended
    <3>2. CASE SnapshotKey(w) BY <3>2, Zenon DEF SnapshotKey
    <3>3. CASE Compact(w) \/ Compacted(w) BY <3>3, Zenon DEF Compact, Compacted
    <3> QED
      BY <3>1, <3>2, <3>3, Zenon
  <2>u. UNCHANGED <<entries, global_version, call, up>> /\ up
    BY Zenon, <2>s DEF memVars, histVars
  <2>m. \A n, k, v : /\ EntryFact(n, k, v)' => EntryFact(n, k, v)
                     /\ CallFact(n, k, v)' => CallFact(n, k, v)
    BY <2>u, Zenon DEF EntryFact, CallFact
  <2>1. CASE LogAppend(w)
    <3> DEFINE e == LogEntry(call[w].key, call[w].version, <<Change(w)>>, call[w].value)
    <3>1. call[w].key \in Keys /\ call[w].value \in AllValues /\ call[w].version # 0
          /\ call[w].version \in Nat /\ call[w].from \in AllValues \cup {Absent}
      BY Zenon, <2>1, <2>t DEF LogAppend, Typed, Calls
    <3>2. e \in Records
      <4>1. Change(w) \in Deltas
        BY <3>1, Zenon DEF Change, Deltas
      <4>2. <<Change(w)>> \in Seq(Deltas)
        BY <4>1, SMT, Z3
      <4> QED
        BY <3>1, <4>2, ZenonT(40) DEF LogEntry, Records
    <3>3. e.version = call[w].version /\ e.key = call[w].key /\ e.value = call[w].value
      BY Zenon DEF LogEntry
    <3>4. arg' = e /\ UNCHANGED <<disk, wbuf, todo, snap, unread>>
      BY <2>1, Zenon DEF LogAppend, AppendStart
    <3> HIDE DEF e
    <3>5. LogTyped'
      BY <2>t, <3>2, <3>4, Zenon DEF LogTyped
    <3>6. pc' \in [Writers -> Labels] /\ pc[w] = "plog"
          /\ \A u \in Writers : u # w => pc'[u] = pc[u]
      BY ZenonT(60), <2>1, <2>c DEF LogAppend, Goto, Labels
    <3>7. Typed'
      <4>1. \A u \in Writers : pc'[u] # "idle" =>
               call'[u].key \in Keys /\ call'[u].value \in AllValues
        <5>1. \A u \in Writers : u # w => (pc[u] # "idle" =>
                 call[u].key \in Keys /\ call[u].value \in AllValues)
          BY <2>t, Zenon DEF Typed
        <5> QED
          BY <2>u, <3>1, <3>6, <5>1, ZenonT(60)
      <4>2. \A u \in Writers : pc'[u] \in {"diff", "insert", "delta", "plog"} =>
               call'[u].version # 0
        <5>1. \A u \in Writers : u # w =>
                 (pc[u] \in {"diff", "insert", "delta", "plog"} => call[u].version # 0)
          BY <2>t, Zenon DEF Typed
        <5> QED
          BY <2>u, <3>1, <3>6, <5>1, ZenonT(60)
      <4>3. /\ global_version' \in Nat /\ entries' \in [Keys -> {Absent} \cup Entries]
            /\ call' \in [Writers -> Calls] /\ snap' \in [Writers -> SUBSET Records]
            /\ unread' \in [Writers -> SUBSET Keys] /\ up'
        BY <2>t, <2>u, <3>4, ZenonT(60) DEF Typed
      <4> QED
        BY <3>5, <3>6, <4>1, <4>2, <4>3, ZenonT(60) DEF Typed
    <3>8. \A r : Logged(r)' => Logged(r) \/ r = e
      BY ZenonT(60), <3>4 DEF Logged
    <3>9. \A n, k, v : LogFact(n, k, v)' => LogFact(n, k, v) \/ CallFact(n, k, v)
      BY <3>1, <3>3, <3>8, ZenonT(60) DEF LogFact, CallFact
    <3>10. \A n, k, v : SnapFact(n, k, v)' => SnapFact(n, k, v)
      BY <3>4, Zenon DEF SnapFact
    <3>f. \A n \in Nat : \A kk \in Keys : \A vv \in AllValues :
            Fact(n, kk, vv)' => Fact(n, kk, vv)
      BY <2>t, <2>u, <2>m, <3>7, <3>9, <3>10, ZenonT(60) DEF Fact
    <3> QED
      BY <2>u, <3>7, <3>f, <1>FactFrame, ZenonT(60)
  <2>2. CASE LogAppended(w) \/ Compacted(w)
    <3>1. UNCHANGED <<disk, wbuf, arg, todo, snap>> /\ stage' = "none"
      BY <2>2, Zenon DEF LogAppended, Compacted
    <3>2. pc' \in [Writers -> Labels] /\ pc[w] \in {"append", "compact"}
          /\ pc'[w] \in {"snap", "return"}
          /\ \A u \in Writers : u # w => pc'[u] = pc[u]
      BY <2>2, <2>c, Zenon DEF LogAppended, Compacted, Goto, Labels
    <3>3. LogTyped'
      BY <2>t, <3>1, Zenon DEF LogTyped
    <3>4. unread' \in [Writers -> SUBSET Keys]
      BY Zenon, <2>2, <2>c DEF LogAppended, Compacted
    <3>5. Typed'
      BY <2>t, <2>u, <3>1, <3>2, <3>3, <3>4, ZenonT(60) DEF Typed
    <3>f. \A n \in Nat : \A kk \in Keys : \A vv \in AllValues :
            Fact(n, kk, vv)' => Fact(n, kk, vv)
      BY <2>t, <2>u, <3>1, <3>5, <1>LogUnchanged, <1>MemUnchanged, ZenonT(60) DEF Fact
    <3> QED
      BY <2>u, <3>5, <3>f, <1>FactFrame, ZenonT(60)
  <2>3. CASE SnapshotKey(w)
    <3>1. PICK k \in unread[w] :
            snap' = [snap EXCEPT ![w] = snap[w] \cup
                 IF entries[k] = Absent THEN {}
                 ELSE {LogEntry(k, entries[k].version, <<>>, entries[k].value)}]
      BY Zenon, <2>3 DEF SnapshotKey
    <3>2. UNCHANGED <<logVars, pc>>
      BY <2>3, Zenon DEF SnapshotKey
    <3>3. LogTyped'
      BY <2>t, <3>2, Zenon DEF LogTyped, logVars
    <3>4. k \in Keys /\ unread' \in [Writers -> SUBSET Keys]
      BY ZenonT(60), <2>3, <2>c DEF SnapshotKey
    <3>5. /\ snap' \in [Writers -> SUBSET Records]
          /\ \A u \in Writers : \A r \in snap'[u] :
                \/ r \in snap[u]
                \/ /\ entries[k] # Absent /\ r.version = entries[k].version
                   /\ r.key = k /\ r.value = entries[k].value
      <4> DEFINE new == IF entries[k] = Absent THEN {}
                        ELSE {LogEntry(k, entries[k].version, <<>>, entries[k].value)}
      <4>1. <<>> \in Seq(Deltas)
        BY SMT, Z3
      <4>2. new \in SUBSET Records
        BY <2>c, <3>4, <4>1, SMT, Z3 DEF LogEntry, Records, Entries
      <4>3. \A r \in new : /\ entries[k] # Absent /\ r.version = entries[k].version
                           /\ r.key = k /\ r.value = entries[k].value
        BY SMT, Z3 DEF LogEntry
      <4>4. snap' = [snap EXCEPT ![w] = snap[w] \cup new]
        BY Zenon, <3>1
      <4> HIDE DEF new
      <4> QED
        BY <2>c, <4>2, <4>3, <4>4, Zenon
    <3>6. Typed'
      BY <2>t, <2>u, <3>2, <3>3, <3>4, <3>5, Zenon DEF Typed
    <3>7. \A n, l, v : SnapFact(n, l, v)' => SnapFact(n, l, v) \/ EntryFact(n, l, v)
      BY <3>5, ZenonT(60) DEF SnapFact, EntryFact
    <3>8. \A n, l, v : LogFact(n, l, v)' => LogFact(n, l, v)
      BY <3>2, <1>LogUnchanged, Zenon DEF logVars
    <3>f. \A n \in Nat : \A kk \in Keys : \A vv \in AllValues :
            Fact(n, kk, vv)' => Fact(n, kk, vv)
      BY <2>t, <2>u, <2>m, <3>6, <3>7, <3>8, Zenon DEF Fact
    <3> QED
      BY <2>u, <3>6, <3>f, <1>FactFrame, ZenonT(60)
  <2>4. CASE Compact(w)
    <3>1. /\ todo' = snap[w] /\ UNCHANGED <<disk, wbuf, arg, unread>> /\ stage' = "create"
          /\ snap' = [snap EXCEPT ![w] = {}]
      BY <2>4, Zenon DEF Compact, CompactStart
    <3>2. pc' \in [Writers -> Labels] /\ pc[w] = "snap" /\ pc'[w] = "compact"
          /\ \A u \in Writers : u # w => pc'[u] = pc[u]
      BY <2>4, <2>c, Zenon DEF Compact, Goto, Labels
    <3>3. LogTyped'
      BY Zenon, <2>t, <2>c, <3>1 DEF LogTyped
    <3>4. Typed'
      BY Zenon, <2>t, <2>u, <2>c, <3>1, <3>2, <3>3 DEF Typed
    <3>5. \A r : Logged(r)' => Logged(r) \/ r \in snap[w]
      BY <3>1, Zenon DEF Logged
    <3>6. \A n, k, v : LogFact(n, k, v)' => LogFact(n, k, v) \/ SnapFact(n, k, v)
      BY <3>5, Zenon DEF LogFact, SnapFact
    <3>7. \A n, k, v : SnapFact(n, k, v)' => SnapFact(n, k, v)
      BY <2>c, <3>1, Zenon DEF SnapFact
    <3>f. \A n \in Nat : \A kk \in Keys : \A vv \in AllValues :
            Fact(n, kk, vv)' => Fact(n, kk, vv)
      BY <2>t, <2>u, <2>m, <3>4, <3>6, <3>7, ZenonT(60) DEF Fact
    <3> QED
      BY <2>u, <3>4, <3>f, <1>FactFrame, ZenonT(60)
  <2> QED
    BY Zenon, <2>1, <2>2, <2>3, <2>4
\* open reads what the files hold: every record it keeps was held before, and
\* the counter continues from the highest version it read.
<1>RecoverStep. ASSUME IInv, Recover
                PROVE  IInv'
  <2> USE <1>RecoverStep
  <2>t. Typed /\ LogTyped /\ global_version \in Nat
    BY ZenonT(30) DEF IInv, Typed
  <2>d. \A n \in DOMAIN disk : disk[n] \in Seq(Records \cup {Torn})
    BY <2>t, Zenon DEF LogTyped
  <2>r. \A r \in Replayed : r \in Records /\ r # Torn /\ Logged(r)
    BY <2>d, ReplayIsPrefix, SMT, Z3 DEF Replayed, Range, Logged, InFiles, In
  <2>v. \A r \in Replayed : r.version \in Nat /\ r.version <= global_version
                            /\ r.key \in Keys /\ r.value \in AllValues
                            /\ LogFact(r.version, r.key, r.value)
    <3> SUFFICES ASSUME NEW r \in Replayed
                 PROVE  r.version \in Nat /\ r.version <= global_version
                        /\ r.key \in Keys /\ r.value \in AllValues
                        /\ LogFact(r.version, r.key, r.value)
      BY Zenon
    <3>1. r \in Records /\ r # Torn /\ Logged(r)
      BY <2>r, Zenon
    <3>2. r.version \in Nat /\ r.key \in Keys /\ r.value \in AllValues
      BY <3>1, Zenon DEF Records
    <3>3. LogFact(r.version, r.key, r.value)
      BY <3>1, ZenonT(30) DEF LogFact
    <3> QED
      BY <3>2, <3>3, Zenon DEF IInv, NoneAbove, Fact
  <2>m. /\ global_version' \in Nat
        /\ \A r \in Replayed : r.version <= global_version'
    <3> DEFINE S == {0} \cup {r.version : r \in Replayed}
    <3>1. S \in SUBSET Nat /\ S # {} /\ \A x \in S : x <= global_version
      BY <2>t, <2>v, SMT, Z3
    <3>2. global_version' = Max(S)
      BY Zenon DEF Recover
    <3>3. \A r \in Replayed : r.version \in S
      BY ZenonT(30)
    <3> HIDE DEF S
    <3>4. Max(S) \in S /\ \A x \in S : x <= Max(S)
      BY Zenon, <2>t, <3>1, MaxExists
    <3> QED
      BY Zenon, <3>1, <3>2, <3>3, <3>4
  <2>l. \A k \in Keys : Latest(k) # Absent => Latest(k) \in Replayed /\ Latest(k).key = k
    <3> SUFFICES ASSUME NEW k \in Keys, RecordsOf(k) # {}
                 PROVE  Latest(k) \in RecordsOf(k)
      BY Zenon DEF Latest, RecordsOf
    <3> DEFINE S == {r.version : r \in RecordsOf(k)}
    <3>1. S \in SUBSET Nat /\ S # {} /\ \A x \in S : x <= global_version
      BY <2>v, ZenonT(30) DEF RecordsOf
    <3>2. Max(S) \in S /\ \A x \in S : x <= Max(S)
      BY Zenon, <2>t, <3>1, MaxExists
    <3>3. PICK r \in RecordsOf(k) : r.version = Max(S)
      BY ZenonT(60), <3>2
    <3>4. \A s \in RecordsOf(k) : s.version <= r.version
      BY <3>2, <3>3, Zenon
    <3> QED
      BY <3>4, Zenon DEF Latest
  <2>o. /\ wbuf' = <<>> /\ stage' = "none" /\ arg' = Torn /\ todo' = {}
        /\ disk' \in [DOMAIN disk' -> Seq(Records \cup {Torn})]
        /\ \A r : InFiles(disk', r) => r \in Replayed
    <3> DEFINE last == IF DOMAIN disk = {} THEN 0 ELSE Max(DOMAIN disk)
    <3>1. disk' = [n \in DOMAIN disk \cup {last} |->
                     IF n \in DOMAIN disk THEN ReplaySegment(disk[n]) ELSE <<>>]
      BY Zenon DEF Recover, Open
    <3>2. \A n \in DOMAIN disk : ReplaySegment(disk[n]) \in Seq(Records \cup {Torn})
      BY <2>d, ReplayIsPrefix, Zenon
    <3>3. <<>> \in Seq(Records \cup {Torn}) /\ \A r : ~In(<<>>, r)
      BY SMT, Z3 DEF In
    <3> HIDE DEF last
    <3>4. disk' \in [DOMAIN disk' -> Seq(Records \cup {Torn})]
      BY Zenon, <3>1, <3>2, <3>3
    <3>5. \A r : InFiles(disk', r) => \E n \in DOMAIN disk : In(ReplaySegment(disk[n]), r)
      BY Zenon, <3>1, <3>3 DEF InFiles
    <3>6. \A r : InFiles(disk', r) => r \in Replayed
      BY <3>5, SMT, Z3 DEF In, Replayed, Range
    <3> QED
      BY ZenonT(40), <3>4, <3>6 DEF Recover, Open
  <2>e. /\ entries' \in [Keys -> {Absent} \cup Entries]
        /\ \A k \in Keys : entries'[k] # Absent =>
              \E r \in Replayed : /\ r.key = k /\ r.version = entries'[k].version
                                 /\ r.value = entries'[k].value
    <3>1. entries' = [k \in Keys |->
            IF Latest(k) = Absent THEN Absent
            ELSE [version |-> Latest(k).version, value |-> Latest(k).value]]
      BY Zenon DEF Recover
    <3>2. \A k \in Keys : Latest(k) # Absent =>
            [version |-> Latest(k).version, value |-> Latest(k).value] \in Entries
      BY Zenon, <2>l, <2>v DEF Entries
    <3> QED
      BY Zenon, <2>l, <3>1, <3>2
  <2>u. UNCHANGED <<pc, call, snap, unread>> /\ ~up /\ up'
    BY Zenon DEF Recover, ctlVars
  <2>i. \A w \in Writers : call[w].version = 0 /\ snap[w] = {}
    BY <2>t, <2>u, Zenon DEF Typed
  <2>1. LogTyped'
    <3>1. <<>> \in Seq(Records)
      BY SMT, Z3
    <3> QED
      BY <2>o, <3>1, Zenon DEF LogTyped
  <2>2. Typed'
    BY ZenonT(60), <2>t, <2>1, <2>m, <2>e, <2>u DEF Typed
  <2>3. ASSUME NEW n \in Nat, NEW k \in Keys, NEW v \in AllValues, Fact(n, k, v)'
        PROVE  \E r \in Replayed : r.version = n /\ r.key = k /\ r.value = v
    <3>1. ~CallFact(n, k, v)' /\ ~SnapFact(n, k, v)'
      BY <2>u, <2>i, Zenon DEF CallFact, SnapFact
    <3>2. CASE EntryFact(n, k, v)'
      BY <2>e, <3>2, Zenon DEF EntryFact
    <3>3. CASE LogFact(n, k, v)'
      <4>1. \A r : ~In(<<>>, r)
        BY SMT, Z3 DEF In
      <4> QED
        BY <2>o, <3>3, <4>1, Zenon DEF LogFact, Logged
    <3> QED
      BY ZenonT(60), <2>3, <3>1, <3>2, <3>3 DEF Fact
  <2>4. NoneAbove'
    BY <2>3, <2>m, SMT, Z3 DEF NoneAbove
  <2>5. OneWrite'
    <3>1. \A n \in Nat : \A k \in Keys : \A v \in AllValues :
            Fact(n, k, v)' => Fact(n, k, v)
      BY <2>3, <2>v, SMT, Z3 DEF Fact
    <3> QED
      BY <3>1, SMT, Z3 DEF IInv, OneWrite
  <2> QED
    BY <2>2, <2>4, <2>5, Zenon DEF IInv
\* A crash keeps the files and forgets everything else.
<1>CrashStep. ASSUME IInv, Crash
              PROVE  IInv'
  <2> USE <1>CrashStep
  <2>t. Typed /\ global_version \in Nat
    BY Zenon DEF IInv, Typed
  <2>1. /\ UNCHANGED <<disk, wbuf, arg, todo, stage, entries, global_version>>
        /\ pc' = [w \in Writers |-> "idle"] /\ call' = [w \in Writers |-> NoCall]
        /\ snap' = [w \in Writers |-> {}] /\ unread' = [w \in Writers |-> {}]
    BY Zenon DEF Crash, logVars, memVars
  <2>2. NoCall \in Calls /\ NoCall.version = 0
    BY Zenon DEF NoCall, Calls
  <2>3. LogTyped'
    BY Zenon, <2>t, <2>1 DEF Typed, LogTyped
  <2>4. Typed'
    BY <2>t, <2>1, <2>2, <2>3, Zenon DEF Typed, Labels
  <2>5. \A n, k, v : LogFact(n, k, v)' => LogFact(n, k, v)
    BY Zenon, <2>1, <1>LogUnchanged
  <2>6. \A n, k, v : /\ EntryFact(n, k, v)' => EntryFact(n, k, v)
                     /\ ~SnapFact(n, k, v)' /\ ~CallFact(n, k, v)'
    BY <2>1, <2>2, ZenonT(40) DEF EntryFact, SnapFact, CallFact
  <2>f. \A n \in Nat : \A kk \in Keys : \A vv \in AllValues :
          Fact(n, kk, vv)' => Fact(n, kk, vv)
    BY <2>t, <2>1, <2>4, <2>5, <2>6, Zenon DEF Fact
  <2> QED
    BY <2>1, <2>4, <2>f, <1>FactFrame, ZenonT(60)
\* A log operation advances or fails.
<1>LogOpStep. ASSUME IInv, LogOp \/ LogError
              PROVE  IInv'
  <2> USE <1>LogOpStep
  \* A step of an operation on the log, or its failure, holds no record that was
  \* not held before.
  <2>LogSteps. ASSUME LogTyped, LogStep \/ IoError
               PROVE  LogTyped' /\ \A r : r # Torn /\ Logged(r)' => Logged(r)
    <3> USE <2>LogSteps
    \* What sequences and files hold after the operations the log uses.
    <3>InAppend. ASSUME NEW T, NEW s \in Seq(T), NEW x \in T
                 PROVE  /\ Append(s, x) \in Seq(T)
                        /\ \A r : In(Append(s, x), r) => In(s, r) \/ r = x
      BY <3>InAppend, SMT, Z3 DEF In
    \* ... of two sequences joined ...
    <3>InConcat. ASSUME NEW T, NEW s \in Seq(T), NEW t \in Seq(T)
                 PROVE  /\ s \o t \in Seq(T)
                        /\ \A r : In(s \o t, r) => In(s, r) \/ In(t, r)
      <4> USE <3>InConcat
      <4>1. s \o t \in Seq(T)
        BY SMT, Z3
      <4>2. ASSUME NEW i \in DOMAIN (s \o t)
            PROVE  \/ i \in DOMAIN s /\ s[i] = (s \o t)[i]
                   \/ i - Len(s) \in DOMAIN t /\ t[i - Len(s)] = (s \o t)[i]
        BY SMT, Z3
      <4> QED
        BY <4>1, <4>2, ZenonT(30) DEF In
    \* ... of a sequence without its last record ...
    <3>InFront. ASSUME NEW T, NEW s \in Seq(T)
                PROVE  /\ WithoutLast(s) \in Seq(T)
                       /\ \A r : In(WithoutLast(s), r) => In(s, r)
      <4> USE <3>InFront
      <4>1. WithoutLast(s) \in Seq(T) /\ \A i \in DOMAIN WithoutLast(s) :
                                      i \in DOMAIN s /\ WithoutLast(s)[i] = s[i]
        BY SMT, Z3 DEF WithoutLast
      <4> QED
        BY <4>1, ZenonT(30) DEF In
    \* ... of the files, when one is rewritten ...
    <3>InExcept. ASSUME NEW f, f = [n \in DOMAIN f |-> f[n]],
                        \A n \in DOMAIN f : f[n] \in Seq(Records \cup {Torn}), NEW m, NEW s,
                        m \in DOMAIN f => s \in Seq(Records \cup {Torn})
                 PROVE  /\ [f EXCEPT ![m] = s] \in [DOMAIN f -> Seq(Records \cup {Torn})]
                        /\ \A r : InFiles([f EXCEPT ![m] = s], r) =>
                                 InFiles(f, r) \/ (m \in DOMAIN f /\ In(s, r))
      BY <3>InExcept, Zenon DEF InFiles
    \* ... when one is created ...
    <3>InCreated. ASSUME NEW D, NEW f \in [D -> Seq(Records \cup {Torn})], NEW m
                  PROVE  /\ Created(f, m) \in [D \cup {m} -> Seq(Records \cup {Torn})]
                         /\ \A r : InFiles(Created(f, m), r) => InFiles(f, r)
      <4> USE <3>InCreated
      <4>1. <<>> \in Seq(Records \cup {Torn}) /\ \A r : ~In(<<>>, r)
        BY SMT, Z3 DEF In
      <4> QED
        BY Zenon, <4>1 DEF InFiles, Created
    \* ... and when the writer's buffer goes out.
    <3>InFlushed. /\ Flushed \in [DOMAIN disk -> Seq(Records \cup {Torn})]
                  /\ \A r : InFiles(Flushed, r) => InFiles(disk, r) \/ In(wbuf, r)
      <4>1. /\ disk = [n \in DOMAIN disk |-> disk[n]]
            /\ \A n \in DOMAIN disk : disk[n] \in Seq(Records \cup {Torn})
            /\ wbuf \in Seq(Records \cup {Torn})
        BY SMT, Z3 DEF LogTyped
      <4>2. wseg \in DOMAIN disk =>
              /\ disk[wseg] \o wbuf \in Seq(Records \cup {Torn})
              /\ \A r : In(disk[wseg] \o wbuf, r) => In(disk[wseg], r) \/ In(wbuf, r)
        BY <4>1, <3>InConcat, Zenon
      <4>3. Flushed = [disk EXCEPT ![wseg] = disk[wseg] \o wbuf]
        BY Zenon DEF Flushed
      <4>4. /\ Flushed \in [DOMAIN disk -> Seq(Records \cup {Torn})]
            /\ \A r : InFiles(Flushed, r) =>
                      InFiles(disk, r) \/ (wseg \in DOMAIN disk /\ In(disk[wseg] \o wbuf, r))
        BY ZenonT(60), <4>1, <4>2, <4>3, <3>InExcept
      <4> QED
        BY Zenon, <4>2, <4>4 DEF InFiles
    <3> DEFINE Rs == Seq(Records \cup {Torn})
    <3>d. /\ disk \in [DOMAIN disk -> Rs]
          /\ disk = [n \in DOMAIN disk |-> disk[n]]
          /\ \A n \in DOMAIN disk : disk[n] \in Rs
          /\ wbuf \in Seq(Records) /\ wbuf \in Rs
      BY SMT, Z3 DEF LogTyped
    <3>f. /\ Flushed \in [DOMAIN disk -> Rs]
          /\ \A r : InFiles(Flushed, r) => InFiles(disk, r) \/ In(wbuf, r)
      BY <3>InFlushed, Zenon
    <3>e. <<>> \in Seq(Records) /\ \A r : ~In(<<>>, r)
      BY SMT, Z3 DEF In
    <3>a. arg \in Records => /\ Append(wbuf, arg) \in Seq(Records)
                             /\ \A r : In(Append(wbuf, arg), r) => In(wbuf, r) \/ r = arg
      BY <3>d, <3>InAppend, Zenon
    <3>c. \A m : /\ Created(Flushed, m) \in [DOMAIN disk \cup {m} -> Rs]
                 /\ \A r : InFiles(Created(Flushed, m), r) => InFiles(Flushed, r)
      BY Zenon, <3>f, <3>InCreated
    <3> HIDE DEF Rs
    <3>1. CASE Rotate
      <4>1. /\ disk' \in [DOMAIN disk' -> Rs] /\ wbuf' = <<>>
            /\ UNCHANGED <<arg, todo>> /\ arg \in Records
            /\ \A r : InFiles(disk', r) => InFiles(disk, r) \/ In(wbuf, r)
        BY Zenon, <3>1, <3>c, <3>f DEF Rotate, LogTyped
      <4> QED
        BY <3>e, <4>1, Zenon DEF LogTyped, Logged, Rs
    <3>2. CASE CreateSnapshot
      <4>1. /\ disk' \in [DOMAIN disk' -> Rs] /\ wbuf' = <<>>
            /\ UNCHANGED <<arg, todo>> /\ stage' = "snapshot"
            /\ \A r : InFiles(disk', r) => InFiles(disk, r) \/ In(wbuf, r)
        BY Zenon, <3>2, <3>c, <3>f DEF CreateSnapshot
      <4> QED
        BY <3>e, <4>1, Zenon DEF LogTyped, Logged, Rs
    <3>3. CASE RotateFails \/ CreateFails
      <4>1. /\ stage' \in {"appended", "compacted"} /\ UNCHANGED arg
            /\ todo' \subseteq todo
            /\ \/ UNCHANGED <<disk, wbuf>>
               \/ disk' = Flushed /\ wbuf' = <<>>
        BY <3>3, ZenonT(30) DEF RotateFails, CreateFails
      <4> QED
        BY Zenon, <3>d, <3>e, <3>f, <4>1 DEF LogTyped, Logged, Rs
    <3>4. CASE WriteRecord
      <4>1. /\ disk' = [disk EXCEPT ![wseg] = Append(disk[wseg], Torn)]
            /\ wbuf' = Append(wbuf, arg) /\ UNCHANGED <<arg, todo>>
            /\ arg \in Records
        BY <3>4, Zenon DEF WriteRecord, LogTyped
      <4>2. wseg \in DOMAIN disk =>
              /\ Append(disk[wseg], Torn) \in Rs
              /\ \A r : In(Append(disk[wseg], Torn), r) => In(disk[wseg], r) \/ r = Torn
        BY <3>d, <3>InAppend, ZenonT(60) DEF Rs
      <4>3. /\ disk' \in [DOMAIN disk -> Rs]
            /\ \A r : InFiles(disk', r) =>
                  InFiles(disk, r) \/ (wseg \in DOMAIN disk /\ In(Append(disk[wseg], Torn), r))
        BY Zenon, <3>d, <4>1, <4>2, <3>InExcept DEF Rs
      <4>4. \A r : InFiles(disk', r) => InFiles(disk, r) \/ r = Torn
        BY <4>2, <4>3, Zenon DEF InFiles
      <4> QED
        BY Zenon, <3>a, <4>1, <4>3, <4>4 DEF LogTyped, Logged, Rs
    <3>5. CASE FlushRecord
      <4> DEFINE s == WithoutLast(disk[wseg]) \o wbuf
      <4>1. /\ disk' = [disk EXCEPT ![wseg] = s]
            /\ wbuf' = <<>> /\ UNCHANGED <<arg, todo>> /\ stage' = "appended"
        BY <3>5, Zenon DEF FlushRecord
      <4>2. wseg \in DOMAIN disk =>
              /\ WithoutLast(disk[wseg]) \in Rs
              /\ \A r : In(WithoutLast(disk[wseg]), r) => In(disk[wseg], r)
        BY <3>d, <3>InFront, Zenon DEF Rs
      <4>3. wseg \in DOMAIN disk =>
              /\ s \in Rs
              /\ \A r : In(s, r) => In(WithoutLast(disk[wseg]), r) \/ In(wbuf, r)
        BY <3>d, <4>2, <3>InConcat, Zenon DEF Rs
      <4> HIDE DEF s
      <4>4. /\ disk' \in [DOMAIN disk -> Rs]
            /\ \A r : InFiles(disk', r) =>
                     InFiles(disk, r) \/ (wseg \in DOMAIN disk /\ In(s, r))
        BY Zenon, <3>d, <4>1, <4>3, <3>InExcept DEF Rs
      <4>5. \A r : InFiles(disk', r) => InFiles(disk, r) \/ In(wbuf, r)
        BY <4>2, <4>3, <4>4, Zenon DEF InFiles
      <4> QED
        BY Zenon, <3>e, <4>1, <4>4, <4>5 DEF LogTyped, Logged, Rs
    <3>6. CASE WriteSnapshot
      <4>1. PICK e \in todo :
              /\ disk' = [disk EXCEPT ![current_seg] = Append(disk[current_seg], e)]
              /\ todo' = todo \ {e}
        BY Zenon, <3>6 DEF WriteSnapshot
      <4>2. UNCHANGED <<wbuf, stage, arg>> /\ e \in Records \cup {Torn}
        BY <3>6, ZenonT(30) DEF WriteSnapshot, LogTyped
      <4>3. current_seg \in DOMAIN disk =>
              /\ Append(disk[current_seg], e) \in Rs
              /\ \A r : In(Append(disk[current_seg], e), r) => In(disk[current_seg], r) \/ r = e
        BY <3>d, <4>2, <3>InAppend, Zenon DEF Rs
      <4>4. /\ disk' \in [DOMAIN disk -> Rs]
            /\ \A r : InFiles(disk', r) => InFiles(disk, r)
                  \/ (current_seg \in DOMAIN disk /\ In(Append(disk[current_seg], e), r))
        BY Zenon, <3>d, <4>1, <4>3, <3>InExcept DEF Rs
      <4>5. \A r : InFiles(disk', r) => InFiles(disk, r) \/ r \in todo
        BY <4>3, <4>4, Zenon DEF InFiles
      <4> QED
        BY Zenon, <4>1, <4>2, <4>4, <4>5 DEF LogTyped, Logged, Rs
    <3>7. CASE OpenLive
      <4>1. disk' = Created(disk, current_seg + 1) /\ UNCHANGED <<wbuf, arg, todo>>
            /\ stage' = "remove"
        BY <3>7, ZenonT(30) DEF OpenLive
      <4>2. /\ disk' \in [DOMAIN disk \cup {current_seg + 1} -> Rs]
            /\ \A r : InFiles(disk', r) => InFiles(disk, r)
        BY Zenon, <3>d, <4>1, <3>InCreated DEF Rs
      <4> QED
        BY <4>1, <4>2, ZenonT(30) DEF LogTyped, Logged, Rs
    <3>8. CASE RemoveOld
      <4>1. /\ disk' \in [DOMAIN disk' -> Rs] /\ UNCHANGED <<wbuf, arg, todo, stage>>
            /\ \A r : InFiles(disk', r) => InFiles(disk, r)
        BY <3>8, <3>d, Zenon DEF RemoveOld, InFiles
      <4> QED
        BY <4>1, ZenonT(30) DEF LogTyped, Logged, Rs
    <3>9. CASE CompactDone \/ SnapshotFails \/ RemoveFails
      <4>1. /\ UNCHANGED <<disk, wbuf, arg>> /\ todo' \subseteq todo
            /\ stage' \in {"compacted", "remove"}
        BY <3>9, ZenonT(30) DEF CompactDone, SnapshotFails, RemoveFails
      <4> QED
        BY <4>1, ZenonT(30) DEF LogTyped, Logged
    <3>10. CASE FlushFails
      <4>1. /\ UNCHANGED <<disk, arg, todo>> /\ wbuf' = Append(wbuf, arg)
            /\ stage' = "appended" /\ arg \in Records
        BY <3>10, ZenonT(30) DEF FlushFails, LogTyped
      <4> QED
        BY <3>a, <4>1, ZenonT(30) DEF LogTyped, Logged
    <3> QED
      BY <3>1, <3>2, <3>3, <3>4, <3>5, <3>6, <3>7, <3>8, <3>9, <3>10, ZenonT(60)
         DEF LogStep, IoError
  \* The facts of the parts a step leaves alone.
  <2>LogFactFrame. ASSUME \A r : r # Torn /\ Logged(r)' => Logged(r)
                   PROVE  \A n, k, v : LogFact(n, k, v)' => LogFact(n, k, v)
    BY <2>LogFactFrame, ZenonT(30) DEF LogFact
  <2>t. Typed /\ LogTyped /\ global_version \in Nat
    BY Zenon DEF IInv, Typed
  <2>1. /\ LogStep \/ IoError
        /\ UNCHANGED <<entries, global_version, pc, call, snap, unread, up>>
    BY Zenon DEF LogOp, LogError, memVars, ctlVars, histVars
  <2>2. LogTyped' /\ \A r : r # Torn /\ Logged(r)' => Logged(r)
    BY Zenon, <2>t, <2>1, <2>LogSteps
  <2>3. Typed'
    BY <2>t, <2>1, <2>2, Zenon DEF Typed
  <2>4. \A n, k, v : LogFact(n, k, v)' => LogFact(n, k, v)
    BY <2>2, <2>LogFactFrame, Zenon
  <2>f. \A n \in Nat : \A kk \in Keys : \A vv \in AllValues :
          Fact(n, kk, vv)' => Fact(n, kk, vv)
    BY <2>t, <2>1, <2>3, <2>4, <1>MemUnchanged, Zenon DEF Fact
  <2> QED
    BY <2>1, <2>3, <2>f, <1>FactFrame, ZenonT(60)
<1> SUFFICES ASSUME IInv, [Next]_vars PROVE IInv'
  BY ZenonT(30)
<1>1. ASSUME NEW w \in Writers,
             \/ WriterStep(w)
             \/ \E k \in Keys : Delete(w, k) \/ \E v \in AllValues : Apply(w, k, v)
      PROVE  IInv'
  BY Zenon, <1>1, <1>CallSteps, <1>LogCallSteps DEF WriterStep
<1>2. CASE UNCHANGED vars
  <2>1. /\ UNCHANGED <<disk, wbuf, arg, todo, stage, entries, global_version>>
        /\ UNCHANGED <<pc, call, snap, unread, up>>
    BY Zenon, <1>2 DEF vars, logVars, memVars, ctlVars, histVars
  <2>2. Typed' /\ global_version \in Nat
    BY <2>1, Zenon DEF IInv, Typed, LogTyped
  <2>f. \A n \in Nat : \A kk \in Keys : \A vv \in AllValues :
          Fact(n, kk, vv)' => Fact(n, kk, vv)
    BY <2>1, <2>2, <1>LogUnchanged, <1>MemUnchanged, Zenon DEF Fact
  <2> QED
    BY <2>1, <2>2, <2>f, <1>FactFrame, ZenonT(60)
<1> QED
  BY <1>1, <1>2, <1>LogOpStep, <1>CrashStep, <1>RecoverStep, Zenon DEF Next

-----------------------------------------------------------------------------

\* Whatever the writers, the crashes and the I/O errors, two records of one
\* version that a restart reads are the same write (state.rs:109-115).
THEOREM VersionsAgree == Spec => []DiskVersionsAgree
<1>1. IInv => DiskVersionsAgree
  <2> SUFFICES ASSUME IInv, NEW r \in Replayed, NEW s \in Replayed,
                      r.version = s.version
               PROVE  r.key = s.key /\ r.value = s.value
    BY Zenon DEF DiskVersionsAgree
  <2>1. \A n \in DOMAIN disk : disk[n] \in Seq(Records \cup {Torn})
    BY Zenon DEF IInv, Typed, LogTyped
  <2>2. \A x \in Replayed : x \in Records /\ x # Torn /\ Logged(x)
    BY <2>1, ReplayIsPrefix, SMTT(30), Z3T(30) DEF Replayed, Range, Logged, InFiles, In
  <2>3. \A x \in Replayed : /\ x.version \in Nat /\ x.key \in Keys
                            /\ x.value \in AllValues
                            /\ Fact(x.version, x.key, x.value)
    BY <2>2, Zenon DEF Records, Fact, LogFact
  <2> QED
    BY <2>3, Zenon DEF IInv, OneWrite
<1> QED
  BY <1>1, InitIInv, NextIInv, PTL DEF Spec

Solitary == \E w : Writers = {w}

\* What the writer holds at each step of its call.
SoloCall(w) ==
    /\ pc[w] # "idle" => call[w].op \in {"set", "delete"} /\ call[w].alone
    /\ call[w].op = "delete" => call[w].value = Null
    /\ pc[w] \in {"diff", "insert"} => call[w].op = "set"
    /\ pc[w] = "bump" => call[w].op = "delete" /\ call[w].version = 0
    /\ pc[w] = "insert" => call[w].from = ValueOf(entries[call[w].key])
    /\ pc[w] \in {"diff", "insert", "delta", "plog", "append"} =>
          call[w].version = global_version

SoloInv ==
    /\ log \in [Keys -> Seq(Deltas)]
    /\ \A k \in Keys : Len(log[k]) <= MaxDeltaLog
    /\ IsFiniteSet(DOMAIN disk)
    /\ ~up => \A w \in Writers : pc[w] = "idle"
    /\ \A w \in Writers : SoloCall(w)

-----------------------------------------------------------------------------
(* Sorting *)

Sorts(f, S) ==
    /\ f \in [1..Cardinality(S) -> S] /\ Range(f) = S
    /\ \A i, j \in DOMAIN f : i < j => f[i].version <= f[j].version

\* A finite set of versioned things has one of the highest version ...
LEMMA HighestExists ==
    ASSUME NEW S, IsFiniteSet(S), S # {}, \A x \in S : x.version \in Nat
    PROVE  \E x \in S : \A y \in S : y.version <= x.version
<1> DEFINE Has(T) == T # {} => \E x \in T : \A y \in T : y.version <= x.version
           N == {n \in Nat : \A T \in SUBSET S : Cardinality(T) = n => Has(T)}
<1>1. \A T \in SUBSET S : IsFiniteSet(T) /\ Cardinality(T) \in Nat
  BY FS_Subset, FS_CardinalityType, Zenon
<1>2. 0 \in N
  <2>1. \A T \in SUBSET S : Cardinality(T) = 0 => Has(T)
    BY <1>1, FS_EmptySet, Zenon
  <2> QED  BY <2>1, ZenonT(30)
<1>3. ASSUME NEW n \in Nat, n \in N
      PROVE  n + 1 \in N
  <2>1. ASSUME NEW T \in SUBSET S, Cardinality(T) = n + 1, T # {}
        PROVE  \E x \in T : \A y \in T : y.version <= x.version
    <3>1. PICK x \in T : TRUE
      BY <2>1, Zenon
    <3> DEFINE U == T \ {x}
    <3>2. Cardinality(U) = n /\ U \in SUBSET S
      <4>1. Cardinality(U) = Cardinality(T) - 1
        BY <1>1, FS_RemoveElement, Zenon
      <4> QED  BY <2>1, <4>1, SMT, Z3
    <3>3. CASE U = {}
      <4>1. \A y \in T : y = x
        BY <3>3, Zenon
      <4>2. x.version <= x.version
        BY SMT, Z3
      <4> QED  BY <4>1, <4>2, Zenon
    <3>4. CASE U # {}
      <4>1. PICK u \in U : \A y \in U : y.version <= u.version
        BY <1>3, <3>2, <3>4, Zenon
      <4>2. u \in T /\ \A y \in T : y = x \/ y \in U
        BY Zenon
      <4>3. x.version \in Nat /\ u.version \in Nat /\ \A y \in T : y.version \in Nat
        BY <4>2, Zenon
      <4>4. CASE x.version <= u.version
        BY <4>1, <4>2, <4>4, Zenon
      <4>5. CASE u.version <= x.version
        <5>1. \A y \in T : y.version <= x.version
          BY <4>1, <4>2, <4>3, <4>5, SMT, Z3
        <5> QED  BY <5>1, Zenon
      <4> QED  BY <4>3, <4>4, <4>5, SMT, Z3
    <3> QED  BY <3>3, <3>4, Zenon
  <2> QED  BY <2>1, SMT, Z3
<1>4. Cardinality(S) \in N
  <2>1. Cardinality(S) \in Nat /\ Cardinality(S) \in 0..Cardinality(S)
    BY FS_CardinalityType, SMT, Z3
  <2> HIDE DEF N
  <2>2. \A i \in 0..Cardinality(S) : i \in N
    BY <1>2, <1>3, <2>1, UpTo, ZenonT(30)
  <2> QED  BY <2>1, <2>2, Zenon
<1> QED  BY <1>4, Zenon

-----------------------------------------------------------------------------
(* What open reads *)

\* Every record open reads is one, with a version the counter has reached.
LEMMA ReplayedTypes ==
    ASSUME IInv
    PROVE  \A r \in Replayed : /\ r \in Records /\ r # Torn /\ r # Absent
                               /\ r.key \in Keys /\ r.version \in Nat
                               /\ r.value \in AllValues /\ r.ops \in Seq(Deltas)
                               /\ r.version <= global_version
<1>1. \A n \in DOMAIN disk : disk[n] \in Seq(Records \cup {Torn})
  BY Zenon DEF IInv, Typed, LogTyped
<1>2. \A r \in Replayed : r \in Records /\ r # Torn /\ Logged(r)
  BY <1>1, ReplayIsPrefix, SMT, Z3 DEF Replayed, Range, Logged, InFiles, In
<1>3. \A r \in Records : /\ r.key \in Keys /\ r.version \in Nat
                         /\ r.value \in AllValues /\ r.ops \in Seq(Deltas)
  BY Zenon DEF Records
<1>4. \A r \in Replayed : Fact(r.version, r.key, r.value)
  BY <1>2, Zenon DEF Fact, LogFact
<1>5. \A r \in Replayed : r.version <= global_version
  BY <1>2, <1>3, <1>4, Zenon DEF IInv, NoneAbove
<1>6. Absent \notin Records
  BY StateStoreAssumption, Zenon
<1> QED  BY <1>2, <1>3, <1>5, <1>6, Zenon

LEMMA ReplayedFinite ==
    ASSUME IInv, IsFiniteSet(DOMAIN disk)
    PROVE  IsFiniteSet(Replayed)
<1>RangeFinite. ASSUME NEW T, NEW s \in Seq(T)
                PROVE  IsFiniteSet(Range(s))
  <2> USE <1>RangeFinite
  <2>1. /\ Len(s) \in Int /\ 1 \in Int
        /\ DOMAIN s = 1..Len(s) /\ s = [i \in DOMAIN s |-> s[i]]
    BY SMT, Z3
  <2>2. IsFiniteSet(1..Len(s))
    BY <2>1, FS_Interval, Zenon
  <2>3. s \in Surjection(1..Len(s), Range(s))
    BY <2>1, Zenon DEF Surjection, Range
  <2> QED  BY <2>2, <2>3, FS_Surjection, Zenon
<1> DEFINE S == {Range(ReplaySegment(disk[n])) : n \in DOMAIN disk}
           f == [n \in DOMAIN disk |-> Range(ReplaySegment(disk[n]))]
<1>1. \A n \in DOMAIN disk : ReplaySegment(disk[n]) \in Seq(Records \cup {Torn})
  BY ReplayIsPrefix, Zenon DEF IInv, Typed, LogTyped
<1>2. \A T \in S : IsFiniteSet(T)
  BY <1>1, <1>RangeFinite, Zenon
<1>3. f \in Surjection(DOMAIN disk, S)
  BY Zenon DEF Surjection
<1>4. IsFiniteSet(S)
  <2> HIDE DEF S, f
  <2> QED  BY <1>3, FS_Surjection, Zenon
<1> HIDE DEF S
<1>5. IsFiniteSet(UNION S)
  BY <1>2, <1>4, FS_UNION, Zenon
<1> QED  BY <1>5, Zenon DEF Replayed, S

\* The deltas among the records of a key.
DiskDeltas(k) == {r.ops[1] : r \in {x \in RecordsOf(k) : x.ops # <<>>}}

-----------------------------------------------------------------------------
(* The invariant of one writer *)

LEMMA DeltaAppendType ==
    ASSUME NEW l \in Seq(Deltas), NEW d \in Deltas, Len(l) <= MaxDeltaLog
    PROVE  /\ DeltaAppend(l, d) \in Seq(Deltas) /\ Len(DeltaAppend(l, d)) <= MaxDeltaLog
           /\ DeltaAppend(l, d) = IF Len(Append(l, d)) > MaxDeltaLog
                                  THEN Tail(Append(l, d)) ELSE Append(l, d)
<1> DEFINE m == Append(l, d)
<1>1. m \in Seq(Deltas) /\ Len(m) = Len(l) + 1 /\ Len(l) \in Nat /\ MaxDeltaLog \in Nat
  BY StateStoreAssumption, SMT, Z3
<1>2. DeltaAppend(l, d) = IF Len(m) > MaxDeltaLog THEN SubSeq(m, Len(m) - MaxDeltaLog + 1, Len(m))
                          ELSE m
  BY Zenon DEF DeltaAppend
<1> HIDE DEF m
<1>3. CASE Len(m) > MaxDeltaLog
  <2>1. Len(m) - MaxDeltaLog + 1 = 2
    BY <1>1, <1>3, SMT, Z3
  <2>2. DeltaAppend(l, d) = SubSeq(m, 2, Len(m))
    BY <1>2, <1>3, <2>1, ZenonT(30)
  <2>3. SubSeq(m, 2, Len(m)) = Tail(m) /\ Tail(m) \in Seq(Deltas) /\ Len(Tail(m)) = Len(m) - 1
    BY <1>1, <1>3, SMT, Z3
  <2>4. Len(m) - 1 <= MaxDeltaLog
    BY <1>1, SMT, Z3
  <2> QED  BY <1>3, <2>2, <2>3, <2>4, Zenon DEF m
<1>4. CASE ~(Len(m) > MaxDeltaLog)
  <2>1. Len(m) <= MaxDeltaLog
    BY <1>1, <1>4, SMT, Z3
  <2> QED  BY <1>1, <1>2, <1>4, <2>1, Zenon DEF m
<1> QED  BY <1>3, <1>4, Zenon

LEMMA ChangeType ==
    ASSUME Typed, NEW w \in Writers, pc[w] # "idle"
    PROVE  Change(w) \in Deltas
<1>1. /\ call[w] \in Calls /\ call[w].value \in AllValues
  BY Zenon DEF Typed
<1>2. call[w].version \in Nat /\ call[w].from \in AllValues \cup {Absent}
  BY <1>1, Zenon DEF Calls
<1> QED  BY <1>1, <1>2, Zenon DEF Change, Deltas

LEMMA SoloNext ==
    ASSUME NEW w, Writers = {w}, IInv, SoloInv, [Next]_vars
    PROVE  SoloInv'
<1>RebuiltType. ASSUME IsFiniteSet(DOMAIN disk), NEW k
                PROVE  RebuiltLog(k) \in Seq(Deltas) /\ Len(RebuiltLog(k)) <= MaxDeltaLog
  <2> USE <1>RebuiltType
  \* The delta log that open rebuilds is the end of the list of those deltas.
  <2>RebuiltIs. \E f, lo : /\ Sorts(f, DiskDeltas(k)) /\ f \in Seq(Deltas)
                           /\ lo \in 1..(Len(f) + 1) /\ Len(f) - lo + 1 <= MaxDeltaLog
                           /\ (f # <<>> => lo <= Len(f))
                           /\ RebuiltLog(k) = SubSeq(f, lo, Len(f))
    \* ... and can be listed by version.
    <3>Sortable. ASSUME NEW S, IsFiniteSet(S), \A x \in S : x.version \in Nat
                 PROVE  \E f : Sorts(f, S)
      <4> USE <3>Sortable
      <4> DEFINE N == {n \in Nat : \A T \in SUBSET S : Cardinality(T) = n => \E f : Sorts(f, T)}
      <4>1. \A T \in SUBSET S : IsFiniteSet(T) /\ Cardinality(T) \in Nat
        BY FS_Subset, FS_CardinalityType, Zenon
      <4>2. 0 \in N
        <5>1. ASSUME NEW T \in SUBSET S, Cardinality(T) = 0
              PROVE  \E f : Sorts(f, T)
          <6>1. T = {}
            BY <4>1, <5>1, FS_EmptySet, Zenon
          <6>2. Sorts(<<>>, T)
            BY <5>1, <6>1, SMT, Z3 DEF Sorts, Range
          <6> QED  BY <6>2, Zenon
        <5> QED  BY <5>1, ZenonT(30)
      <4>3. ASSUME NEW n \in Nat, n \in N
            PROVE  n + 1 \in N
        <5>1. ASSUME NEW T \in SUBSET S, Cardinality(T) = n + 1
              PROVE  \E f : Sorts(f, T)
          <6>1. IsFiniteSet(T) /\ T # {}
            BY <4>1, <5>1, FS_EmptySet, SMT, Z3
          <6>2. PICK x \in T : \A y \in T : y.version <= x.version
            BY <4>1, <6>1, HighestExists, Zenon
          <6> DEFINE U == T \ {x}
          <6>3. Cardinality(U) = n /\ U \in SUBSET S
            <7>1. Cardinality(U) = Cardinality(T) - 1
              BY <6>1, FS_RemoveElement, Zenon
            <7> QED  BY <5>1, <7>1, SMT, Z3
          <6>4. PICK g : Sorts(g, U)
            BY <4>3, <6>3, Zenon
          <6>5. /\ g \in [1..n -> U] /\ Range(g) = U
                /\ \A i, j \in 1..n : i < j => g[i].version <= g[j].version
            BY <6>3, <6>4, Zenon DEF Sorts
          <6> DEFINE f == [i \in 1..(n + 1) |-> IF i = n + 1 THEN x ELSE g[i]]
          <6>6. /\ DOMAIN f = 1..(n + 1) /\ f[n + 1] = x
                /\ \A i \in 1..n : f[i] = g[i] /\ i # n + 1 /\ i \in 1..(n + 1)
                /\ \A i \in 1..(n + 1) : i \in 1..n \/ i = n + 1
                /\ n + 1 \in 1..(n + 1)
            BY SMT, Z3
          <6>7. f \in [1..(n + 1) -> T]
            <7>1. \A i \in 1..(n + 1) : f[i] \in T
              BY <6>5, <6>6, Zenon
            <7> QED  BY <7>1, Zenon
          <6>8. Range(f) = T
            <7>1. \A y \in T : \E i \in 1..(n + 1) : f[i] = y
              BY <6>5, <6>6, Zenon DEF Range
            <7> QED  BY <6>6, <6>7, <7>1, ZenonT(30) DEF Range
          <6>9. \A i, j \in 1..(n + 1) : i < j => f[i].version <= f[j].version
            <7> SUFFICES ASSUME NEW i \in 1..(n + 1), NEW j \in 1..(n + 1), i < j
                         PROVE  f[i].version <= f[j].version
              BY Zenon
            <7>1. i \in 1..n
              BY SMT, Z3
            <7>2. CASE j = n + 1
              BY <6>2, <6>5, <6>6, <7>1, <7>2, Zenon
            <7>3. CASE j \in 1..n
              BY <6>5, <6>6, <7>1, <7>3, Zenon
            <7> QED  BY <6>6, <7>2, <7>3, Zenon
          <6> HIDE DEF f
          <6>10. Sorts(f, T)
            BY <5>1, <6>6, <6>7, <6>8, <6>9, Zenon DEF Sorts
          <6> QED  BY <6>10, Zenon
        <5> QED  BY <5>1, SMT, Z3
      <4>4. Cardinality(S) \in N
        <5>1. Cardinality(S) \in Nat /\ Cardinality(S) \in 0..Cardinality(S)
          BY FS_CardinalityType, SMT, Z3
        <5> HIDE DEF N
        <5>2. \A i \in 0..Cardinality(S) : i \in N
          BY <4>2, <4>3, <5>1, UpTo, ZenonT(30)
        <5> QED  BY <5>1, <5>2, Zenon
      <4> QED  BY <4>4, Zenon
    <3>DiskDeltasTypes. DiskDeltas(k) \subseteq Deltas /\ IsFiniteSet(DiskDeltas(k))
      <4> DEFINE R == {x \in RecordsOf(k) : x.ops # <<>>}
                 f == [r \in R |-> r.ops[1]]
      <4>1. \A r \in R : r \in Replayed /\ r.ops \in Seq(Deltas) /\ r.ops # <<>>
        BY ReplayedTypes, Zenon DEF RecordsOf
      <4>2. \A s \in Seq(Deltas) : s # <<>> => s[1] \in Deltas
        BY SMT, Z3
      <4>3. DiskDeltas(k) \subseteq Deltas
        BY <4>1, <4>2, Zenon DEF DiskDeltas
      <4>4. IsFiniteSet(R)
        <5>1. IsFiniteSet(Replayed) /\ R \in SUBSET Replayed
          BY <4>1, ReplayedFinite, Zenon
        <5> QED  BY <5>1, FS_Subset, Zenon
      <4>5. f \in Surjection(R, DiskDeltas(k))
        BY Zenon DEF Surjection, DiskDeltas
      <4> HIDE DEF R, f
      <4>6. IsFiniteSet(DiskDeltas(k))
        BY <4>4, <4>5, FS_Surjection, Zenon
      <4> QED  BY <4>3, <4>6, Zenon
    <3> DEFINE D == DiskDeltas(k)
               f == SortedByVersion(D)
               lo == Max({1, Len(f) - MaxDeltaLog + 1})
    <3>1. D \subseteq Deltas /\ IsFiniteSet(D)
      BY <3>DiskDeltasTypes, Zenon
    <3>2. \A x \in D : x.version \in Nat
      BY <3>1, Zenon DEF Deltas
    <3>3. Cardinality(D) \in Nat
      BY <3>1, FS_CardinalityType, Zenon
    <3>4. RebuiltLog(k) = SubSeq(f, lo, Len(f))
      BY Zenon DEF RebuiltLog, DiskDeltas
    <3> HIDE DEF D
    <3>5. Sorts(f, D)
      <4>1. \E g : Sorts(g, D)
        BY <3>1, <3>2, <3>Sortable, Zenon
      <4> QED  BY <4>1, Zenon DEF Sorts, SortedByVersion
    <3>6. f \in [1..Cardinality(D) -> D]
      BY <3>5, Zenon DEF Sorts
    <3> HIDE DEF f
    <3>7. f \in Seq(Deltas) /\ Len(f) = Cardinality(D)
      BY <3>1, <3>3, <3>6, SMT, Z3
    <3>8. lo \in {1, Len(f) - MaxDeltaLog + 1} /\ lo >= 1 /\ lo >= Len(f) - MaxDeltaLog + 1
      <4> DEFINE S == {1, Len(f) - MaxDeltaLog + 1}
      <4>1. \E x \in S : \A y \in S : x >= y
        BY <3>3, <3>7, StateStoreAssumption, SMT, Z3
      <4>2. \A y \in S : lo >= y
        BY <4>1, Zenon DEF Max
      <4>3. lo \in S
        BY <4>1, Zenon DEF Max
      <4> QED  BY <4>2, <4>3, Zenon
    <3> HIDE DEF lo
    <3>9. /\ lo \in 1..(Len(f) + 1) /\ Len(f) - lo + 1 <= MaxDeltaLog
          /\ (f # <<>> => lo <= Len(f))
      BY <3>3, <3>7, <3>8, StateStoreAssumption, SMT, Z3
    <3> QED  BY <3>4, <3>5, <3>7, <3>9, Zenon DEF D
  <2>1. PICK f, lo : /\ f \in Seq(Deltas)
                     /\ lo \in 1..(Len(f) + 1) /\ Len(f) - lo + 1 <= MaxDeltaLog
                     /\ RebuiltLog(k) = SubSeq(f, lo, Len(f))
    BY <2>RebuiltIs, Zenon
  <2>2. SubSeq(f, lo, Len(f)) \in Seq(Deltas) /\ Len(SubSeq(f, lo, Len(f))) = Len(f) - lo + 1
    BY <2>1, SMT, Z3
  <2> QED  BY <2>1, <2>2, Zenon
<1>DomainSteps. ASSUME LogStep \/ IoError
                PROVE  \E x : DOMAIN disk' \subseteq DOMAIN disk \cup {x}
  <2> USE <1>DomainSteps
  <2>1. \A f, m : DOMAIN Created(f, m) = DOMAIN f \cup {m}
    BY Zenon DEF Created
  <2>2. DOMAIN Flushed = DOMAIN disk
    BY Zenon DEF Flushed
  <2>3. CASE Rotate \/ CreateSnapshot
    <3>1. disk' = Created(Flushed, current_seg + 1)
      BY <2>3, Zenon DEF Rotate, CreateSnapshot
    <3>2. DOMAIN disk' = DOMAIN disk \cup {current_seg + 1}
      BY <2>1, <2>2, <3>1, Zenon
    <3> QED  BY <3>2, Zenon
  <2>4. CASE OpenLive
    BY <2>1, <2>4, Zenon DEF OpenLive
  <2>5. CASE WriteRecord \/ FlushRecord \/ WriteSnapshot \/ RemoveOld \/ CompactDone
    BY <2>5, Zenon DEF WriteRecord, FlushRecord, WriteSnapshot, RemoveOld, CompactDone
  <2>6. CASE IoError
    <3>1. UNCHANGED disk \/ disk' = Flushed
      BY <2>6, Zenon DEF IoError, RotateFails, FlushFails, CreateFails, SnapshotFails, RemoveFails
    <3> QED  BY <2>2, <3>1, Zenon
  <2> QED  BY <2>3, <2>4, <2>5, <2>6, Zenon DEF LogStep
\* The writer's own steps.
<1>SoloCallSteps. ASSUME Typed, SoloCall(w), \/ WriterStep(w)
                         \/ \E k \in Keys : Delete(w, k) \/ \E v \in AllValues : Apply(w, k, v)
                  PROVE  SoloCall(w)'
  <2> USE <1>SoloCallSteps
  <2>t. /\ pc \in [Writers -> Labels] /\ call \in [Writers -> Calls] /\ w \in Writers
        /\ global_version \in Nat /\ call[w] \in Calls
    BY Zenon DEF Typed
  <2>1. ASSUME NEW k \in Keys, NEW v \in AllValues, Apply(w, k, v)
        PROVE  SoloCall(w)'
    <3>1. call'[w] = [op |-> "set", key |-> k, value |-> v, version |-> global_version + 1,
                      from |-> Absent, alone |-> TRUE]
      BY <2>t, <2>1, Zenon DEF Apply, Began
    <3>2. pc'[w] = "diff" /\ global_version' = global_version + 1
      BY <2>t, <2>1, ZenonT(30) DEF Apply, Goto
    <3> QED  BY <3>1, <3>2, SMT, Z3 DEF SoloCall
  <2>2. ASSUME NEW k \in Keys, Delete(w, k)
        PROVE  SoloCall(w)'
    <3>1. call'[w] = [op |-> "delete", key |-> k, value |-> Null, version |-> 0,
                      from |-> ValueOf(entries[k]), alone |-> TRUE]
      BY <2>t, <2>2, Zenon DEF Delete, Began
    <3>2. pc'[w] \in {"return", "bump"}
      BY <2>t, <2>2, Zenon DEF Delete, Goto
    <3> QED  BY <3>1, <3>2, SMT, Z3 DEF SoloCall
  <2>3. CASE Diff(w)
    <3>1. /\ pc[w] = "diff" /\ pc'[w] = "insert" /\ UNCHANGED <<entries, global_version>>
          /\ call'[w] = [call[w] EXCEPT !.from = ValueOf(entries[call[w].key])]
      BY <2>t, <2>3, Zenon DEF Diff, Goto, memVars
    <3>2. /\ call'[w].op = call[w].op /\ call'[w].value = call[w].value
          /\ call'[w].version = call[w].version /\ call'[w].alone = call[w].alone
          /\ call'[w].key = call[w].key /\ call'[w].from = ValueOf(entries[call[w].key])
      BY <2>t, <3>1, Zenon DEF Calls
    <3> QED  BY <3>1, <3>2, ZenonT(30) DEF SoloCall
  <2>4. CASE Bump(w)
    <3>1. /\ pc[w] = "bump" /\ pc'[w] = "delta" /\ global_version' = global_version + 1
          /\ call'[w] = [call[w] EXCEPT !.version = global_version + 1]
      BY <2>t, <2>4, Zenon DEF Bump, Goto
    <3>2. /\ call'[w].op = call[w].op /\ call'[w].value = call[w].value
          /\ call'[w].version = global_version + 1 /\ call'[w].alone = call[w].alone
      BY <2>t, <3>1, Zenon DEF Calls
    <3> QED  BY <3>1, <3>2, ZenonT(30) DEF SoloCall
  <2>5. CASE Return(w)
    <3>1. pc'[w] = "idle" /\ call'[w] = NoCall
      BY <2>t, <2>5, ZenonT(30) DEF Return, Goto
    <3> QED  BY <3>1, SMT, Z3 DEF SoloCall, NoCall
  <2>6. CASE Insert(w) \/ LogDelta(w)
    <3>1. /\ \/ pc[w] = "insert" /\ pc'[w] \in {"return", "delta"}
             \/ pc[w] = "delta" /\ pc'[w] = "plog"
          /\ UNCHANGED <<call, global_version>>
      BY <2>t, <2>6, Zenon DEF Insert, LogDelta, Goto
    <3> QED  BY <3>1, Zenon DEF SoloCall
  <2>7. CASE LogAppend(w) \/ LogAppended(w)
    <3>1. /\ \/ pc[w] = "plog" /\ pc'[w] = "append"
             \/ pc[w] = "append" /\ pc'[w] \in {"snap", "return"}
          /\ UNCHANGED <<call, global_version>>
      BY <2>t, <2>7, Zenon DEF LogAppend, LogAppended, Goto, memVars
    <3> QED  BY <3>1, ZenonT(30) DEF SoloCall
  <2>8. CASE SnapshotKey(w) \/ Compact(w) \/ Compacted(w)
    <3>1. /\ pc[w] \in {"snap", "compact"} /\ pc'[w] \in {"snap", "compact", "return"}
          /\ UNCHANGED call
      BY <2>t, <2>8, Zenon DEF SnapshotKey, Compact, Compacted, Goto
    <3> QED  BY <3>1, ZenonT(30) DEF SoloCall
  <2> QED  BY <2>1, <2>2, <2>3, <2>4, <2>5, <2>6, <2>7, <2>8, Zenon DEF WriterStep
<1>FiniteStep. ASSUME IsFiniteSet(DOMAIN disk), NEW x,
                      DOMAIN disk' \subseteq DOMAIN disk \cup {x}
               PROVE  IsFiniteSet(DOMAIN disk')
  <2> USE <1>FiniteStep
  <2>1. IsFiniteSet(DOMAIN disk \cup {x})
    BY FS_AddElement, Zenon
  <2> QED  BY <2>1, FS_Subset, Zenon
<1>t. /\ Typed /\ pc \in [Writers -> Labels] /\ call \in [Writers -> Calls] /\ w \in Writers
  BY Zenon DEF IInv, Typed
<1>s. /\ log \in [Keys -> Seq(Deltas)] /\ \A k \in Keys : Len(log[k]) <= MaxDeltaLog
      /\ IsFiniteSet(DOMAIN disk) /\ (~up => pc[w] = "idle") /\ SoloCall(w)
  BY <1>t, Zenon DEF SoloInv
<1>g. ASSUME log' \in [Keys -> Seq(Deltas)], \A k \in Keys : Len(log'[k]) <= MaxDeltaLog,
             IsFiniteSet(DOMAIN disk'), ~up' => pc'[w] = "idle", SoloCall(w)'
      PROVE  SoloInv'
  <2>1. \A u \in Writers : u = w
    BY ZenonT(30)
  <2>2. (~up => \A u \in Writers : pc[u] = "idle")' /\ (\A u \in Writers : SoloCall(u))'
    BY <1>g, <2>1, Zenon
  <2> QED  BY <1>g, <2>2, Zenon DEF SoloInv
<1>l. ASSUME UNCHANGED log
      PROVE  log' \in [Keys -> Seq(Deltas)] /\ \A k \in Keys : Len(log'[k]) <= MaxDeltaLog
  BY <1>s, <1>l, Zenon
<1>1. ASSUME \/ WriterStep(w)
             \/ \E k \in Keys : Delete(w, k) \/ \E v \in AllValues : Apply(w, k, v)
      PROVE  SoloInv'
  <2>1. SoloCall(w)'
    BY <1>t, <1>s, <1>1, <1>SoloCallSteps, Zenon
  <2>2. UNCHANGED <<disk, up>> /\ up
    <3>1. CASE Diff(w) \/ Insert(w) \/ Bump(w) \/ LogDelta(w) \/ Return(w) \/ SnapshotKey(w)
      BY <3>1, Zenon DEF Diff, Insert, Bump, LogDelta, Return, SnapshotKey, logVars, histVars
    <3>2. CASE LogAppend(w) \/ LogAppended(w) \/ Compact(w) \/ Compacted(w)
      BY <3>2, Zenon DEF LogAppend, LogAppended, Compact, Compacted, AppendStart, CompactStart,
                         histVars
    <3>3. CASE \E k \in Keys : Delete(w, k) \/ \E v \in AllValues : Apply(w, k, v)
      BY <3>3, Zenon DEF Delete, Apply, logVars
    <3> QED  BY <1>1, <3>1, <3>2, <3>3, Zenon DEF WriterStep
  <2>u. up'
    BY <2>2, ZenonT(30)
  <2>3. log' \in [Keys -> Seq(Deltas)] /\ \A k \in Keys : Len(log'[k]) <= MaxDeltaLog
    <3>1. CASE LogDelta(w)
      <4> DEFINE kk == call[w].key
      <4>1. /\ log' = [log EXCEPT ![kk] = DeltaAppend(log[kk], Change(w))]
            /\ pc[w] = "delta"
        BY <3>1, Zenon DEF LogDelta
      <4>2. kk \in Keys /\ Change(w) \in Deltas
        BY <1>t, <4>1, ChangeType, ZenonT(30) DEF Typed
      <4>3. log[kk] \in Seq(Deltas) /\ Len(log[kk]) <= MaxDeltaLog
        BY <1>s, <4>2, Zenon
      <4> DEFINE l == DeltaAppend(log[kk], Change(w))
      <4>4. l \in Seq(Deltas) /\ Len(l) <= MaxDeltaLog
        BY <4>2, <4>3, DeltaAppendType, Zenon
      <4> HIDE DEF kk, l
      <4>5. log' = [log EXCEPT ![kk] = l]
        BY <4>1, Zenon DEF kk, l
      <4> QED  BY <1>s, <4>2, <4>4, <4>5, Zenon
    <3>2. CASE ~LogDelta(w)
      <4>1. UNCHANGED log
        BY <1>1, <3>2, Zenon DEF WriterStep, Diff, Insert, Bump, Return, SnapshotKey, LogAppend,
           LogAppended, Compact, Compacted, Delete, Apply, memVars
      <4> QED  BY <1>l, <4>1, Zenon
    <3> QED  BY <3>1, <3>2, Zenon
  <2> QED  BY <1>s, <1>g, <2>1, <2>2, <2>3, <2>u, Zenon
<1>2. CASE LogOp \/ LogError
  <2>1. /\ LogStep \/ IoError
        /\ UNCHANGED <<entries, global_version, log, pc, call, up>>
    BY <1>2, ZenonT(30) DEF LogOp, LogError, memVars, ctlVars, histVars
  <2>2. SoloCall(w)'
    BY <1>s, <2>1, ZenonT(30) DEF SoloCall
  <2>3. IsFiniteSet(DOMAIN disk')
    BY <1>s, <2>1, <1>DomainSteps, <1>FiniteStep, Zenon
  <2> QED  BY <1>s, <1>g, <1>l, <2>1, <2>2, <2>3, Zenon
<1>3. CASE Crash
  <2>1. /\ pc'[w] = "idle" /\ call'[w] = NoCall /\ UNCHANGED <<disk, log>>
    BY <1>t, <1>3, Zenon DEF Crash, logVars, memVars
  <2>2. SoloCall(w)'
    BY <2>1, SMT, Z3 DEF SoloCall, NoCall
  <2> QED  BY <1>s, <1>g, <1>l, <2>1, <2>2, Zenon
<1>4. CASE Recover
  <2>1. /\ UNCHANGED <<pc, call>> /\ pc[w] = "idle" /\ log' = [k \in Keys |-> RebuiltLog(k)]
        /\ Open /\ up'
    BY <1>s, <1>4, Zenon DEF Recover, ctlVars
  <2>2. SoloCall(w)'
    BY <1>s, <2>1, ZenonT(30) DEF SoloCall
  <2>3. \A k \in Keys : RebuiltLog(k) \in Seq(Deltas) /\ Len(RebuiltLog(k)) <= MaxDeltaLog
    BY <1>s, <1>RebuiltType, Zenon
  <2>4. log' \in [Keys -> Seq(Deltas)] /\ \A k \in Keys : Len(log'[k]) <= MaxDeltaLog
    BY <2>1, <2>3, Zenon
  <2>5. IsFiniteSet(DOMAIN disk')
    <3>1. \E x : DOMAIN disk' \subseteq DOMAIN disk \cup {x}
      BY <2>1, Zenon DEF Open
    <3> QED  BY <1>s, <3>1, <1>FiniteStep, Zenon
  <2> QED  BY <1>g, <2>1, <2>2, <2>4, <2>5, Zenon
<1>5. CASE UNCHANGED vars
  <2>1. UNCHANGED <<disk, entries, global_version, log, pc, call, up>>
    BY <1>5, Zenon DEF vars, logVars, memVars, ctlVars, histVars
  <2>2. SoloCall(w)'
    BY <1>s, <2>1, ZenonT(30) DEF SoloCall
  <2> QED  BY <1>s, <1>g, <1>l, <2>1, <2>2, Zenon
<1> QED  BY <1>1, <1>2, <1>3, <1>4, <1>5, Zenon DEF Next

LEMMA SoloStart ==
    ASSUME NEW w, Writers = {w}, Init
    PROVE  SoloInv
<1>1. /\ disk = [n \in {0} |-> <<>>] /\ pc[w] = "idle" /\ call[w] = NoCall /\ up
      /\ log = [k \in Keys |-> <<>>] /\ \A u \in Writers : u = w
  BY Zenon DEF Init, LogInit
<1>2. IsFiniteSet(DOMAIN disk)
  <2>1. DOMAIN disk = {0}
    BY <1>1, Zenon
  <2> QED  BY <2>1, FS_Singleton, Zenon
<1>3. SoloCall(w)
  BY <1>1, SMT, Z3 DEF SoloCall, NoCall
<1>4. log \in [Keys -> Seq(Deltas)] /\ \A k \in Keys : Len(log[k]) <= MaxDeltaLog
  <2>1. <<>> \in Seq(Deltas) /\ Len(<<>>) <= MaxDeltaLog
    BY StateStoreAssumption, SMT, Z3
  <2> QED  BY <1>1, <2>1, Zenon
<1> QED  BY <1>1, <1>2, <1>3, <1>4, Zenon DEF SoloInv

-----------------------------------------------------------------------------
(* The refinement *)

\* The counter and the delta log of the calls that have taken effect, when
\* there is one writer.
Pending(w, k) == call[w].key = k /\ pc[w] \in {"bump", "delta"}
SoloBars(w) ==
    /\ pc[w] = "bump" => ClockBar = global_version + 1
    /\ pc[w] \in {"diff", "insert"} => ClockBar = global_version - 1
    /\ pc[w] \notin {"bump", "diff", "insert"} => ClockBar = global_version
    /\ DeltasBar = [k \in Keys |-> IF Pending(w, k)
                                   THEN DeltaAppend(log[k], Stamped(Change(w)))
                                   ELSE log[k]]

\* Every step of the store is a step of the abstract one or leaves it alone.
LEMMA StepRefines ==
    ASSUME NEW w, Writers = {w}, Typed, Typed', SoloInv, [Next]_vars
    PROVE  [up /\ up' => Abstract!Next]_(Abstract!vars)
<1>SoloBarsHold. ASSUME global_version \in Nat, global_version' \in Nat
                 PROVE  SoloBars(w) /\ SoloBars(w)'
  <2> USE <1>SoloBarsHold
  <2>c. Cardinality({}) = 0 /\ Cardinality({w}) = 1
    BY FS_EmptySet, FS_Singleton, Zenon
  <2>1. SoloBars(w)
    <3> DEFINE B == {u \in Writers : pc[u] = "bump"}
               I == {u \in Writers : pc[u] \in {"diff", "insert"}}
    <3>1. /\ B = IF pc[w] = "bump" THEN {w} ELSE {}
          /\ I = IF pc[w] \in {"diff", "insert"} THEN {w} ELSE {}
      BY ZenonT(30)
    <3>2. ClockBar = global_version + Cardinality(B) - Cardinality(I)
      BY Zenon DEF ClockBar
    <3> HIDE DEF B, I
    <3>3. /\ pc[w] = "bump" => ClockBar = global_version + 1
          /\ pc[w] \in {"diff", "insert"} => ClockBar = global_version - 1
          /\ pc[w] \notin {"bump", "diff", "insert"} => ClockBar = global_version
      BY <2>c, <3>1, <3>2, SMT, Z3
    <3>4. \A k : /\ Pending(w, k) => Unlogged(k) = {w}
                 /\ ~Pending(w, k) => Unlogged(k) = {}
      BY ZenonT(30) DEF Unlogged, Pending
    <3>5. ASSUME NEW k, Pending(w, k)
          PROVE  Unlogged(k) # {} /\ (CHOOSE u \in Unlogged(k) : TRUE) = w
      <4>1. w \in Unlogged(k) /\ \A u \in Unlogged(k) : u = w
        BY <3>4, <3>5, SMT, Z3
      <4>2. (CHOOSE u \in Unlogged(k) : TRUE) \in Unlogged(k)
        BY <4>1, Zenon
      <4> QED  BY <4>1, <4>2, Zenon
    <3>6. ASSUME NEW k \in Keys
          PROVE  (IF Unlogged(k) = {} THEN log[k]
                  ELSE DeltaAppend(log[k], Stamped(Change(CHOOSE u \in Unlogged(k) : TRUE))))
                 = (IF Pending(w, k) THEN DeltaAppend(log[k], Stamped(Change(w))) ELSE log[k])
      <4>1. CASE Pending(w, k)
        <5> DEFINE c == CHOOSE u \in Unlogged(k) : TRUE
        <5>1. Unlogged(k) # {} /\ c = w
          BY <3>5, <4>1, Zenon
        <5> HIDE DEF c
        <5>2. DeltaAppend(log[k], Stamped(Change(c))) = DeltaAppend(log[k], Stamped(Change(w)))
          BY <5>1, Zenon DEF Change
        <5>3. (IF Unlogged(k) = {} THEN log[k] ELSE DeltaAppend(log[k], Stamped(Change(c))))
              = (IF Pending(w, k) THEN DeltaAppend(log[k], Stamped(Change(w))) ELSE log[k])
          BY <4>1, <5>1, <5>2, Zenon
        <5> QED  BY <5>3, Zenon DEF c
      <4>2. CASE ~Pending(w, k)
        BY <3>4, <4>2, Zenon
      <4> QED  BY <4>1, <4>2, Zenon
    <3> QED  BY <3>3, <3>6, Zenon DEF SoloBars, DeltasBar
  <2>2. SoloBars(w)'
    <3> DEFINE B == {u \in Writers : pc'[u] = "bump"}
               I == {u \in Writers : pc'[u] \in {"diff", "insert"}}
    <3>1. /\ B = IF pc'[w] = "bump" THEN {w} ELSE {}
          /\ I = IF pc'[w] \in {"diff", "insert"} THEN {w} ELSE {}
      BY ZenonT(30)
    <3>2. ClockBar' = global_version' + Cardinality(B) - Cardinality(I)
      BY Zenon DEF ClockBar
    <3> HIDE DEF B, I
    <3>3. (/\ pc[w] = "bump" => ClockBar = global_version + 1
           /\ pc[w] \in {"diff", "insert"} => ClockBar = global_version - 1
           /\ pc[w] \notin {"bump", "diff", "insert"} => ClockBar = global_version)'
      BY <2>c, <3>1, <3>2, SMT, Z3
    <3>4. \A k : /\ Pending(w, k)' => Unlogged(k)' = {w}
                 /\ ~Pending(w, k)' => Unlogged(k)' = {}
      BY ZenonT(30) DEF Unlogged, Pending
    <3>5. ASSUME NEW k, Pending(w, k)'
          PROVE  Unlogged(k)' # {} /\ (CHOOSE u \in Unlogged(k)' : TRUE) = w
      <4>1. w \in Unlogged(k)' /\ \A u \in Unlogged(k)' : u = w
        BY <3>4, <3>5, SMT, Z3
      <4>2. (CHOOSE u \in Unlogged(k)' : TRUE) \in Unlogged(k)'
        BY <4>1, Zenon
      <4> QED  BY <4>1, <4>2, Zenon
    <3>6. ASSUME NEW k \in Keys
          PROVE  (IF Unlogged(k) = {} THEN log[k]
                  ELSE DeltaAppend(log[k], Stamped(Change(CHOOSE u \in Unlogged(k) : TRUE))))'
                 = (IF Pending(w, k) THEN DeltaAppend(log[k], Stamped(Change(w))) ELSE log[k])'
      <4>1. CASE Pending(w, k)'
        <5> DEFINE c == CHOOSE u \in Unlogged(k) : TRUE
        <5>1. Unlogged(k)' # {} /\ c' = w
          BY <3>5, <4>1, Zenon
        <5> HIDE DEF c
        <5>2. DeltaAppend(log[k], Stamped(Change(c)))' = DeltaAppend(log[k], Stamped(Change(w)))'
          BY <5>1, Zenon DEF Change
        <5>3. (IF Unlogged(k) = {} THEN log[k] ELSE DeltaAppend(log[k], Stamped(Change(c))))'
              = (IF Pending(w, k) THEN DeltaAppend(log[k], Stamped(Change(w))) ELSE log[k])'
          BY <4>1, <5>1, <5>2, Zenon
        <5> QED  BY <5>3, Zenon DEF c
      <4>2. CASE ~Pending(w, k)'
        BY <3>4, <4>2, Zenon
      <4> QED  BY <4>1, <4>2, Zenon
    <3> QED  BY <3>3, <3>6, Zenon DEF SoloBars, DeltasBar
  <2> QED  BY <2>1, <2>2, Zenon
\* A step that neither begins nor ends what the mapping shows ahead of time.
<1>Unmoved. ASSUME UNCHANGED <<entries, global_version, log>>, \/ UNCHANGED <<pc, call>>
                   \/ /\ pc[w] \notin {"bump", "delta"} /\ pc'[w] \notin {"bump", "delta"}
                      /\ pc[w] \in {"diff", "insert"} <=> pc'[w] \in {"diff", "insert"}
            PROVE  UNCHANGED <<entries, ClockBar, DeltasBar>>
  <2> USE <1>Unmoved
  <2>1. SoloBars(w) /\ SoloBars(w)' /\ global_version \in Nat
    BY <1>SoloBarsHold, Zenon DEF Typed
  <2>2. CASE UNCHANGED <<pc, call>>
    <3>1. ClockBar' = ClockBar
      BY <2>2, Zenon DEF ClockBar
    <3>2. /\ Change(w)' = Change(w) /\ Stamped(Change(w))' = Stamped(Change(w))
          /\ \A k : Pending(w, k)' <=> Pending(w, k)
      BY <2>2, Zenon DEF Pending, Stamped, Change
    <3>3. DeltasBar' = DeltasBar
      BY <2>1, <3>2, Zenon DEF SoloBars
    <3> QED  BY <3>1, <3>3, Zenon
  <2>3. CASE /\ pc[w] \notin {"bump", "delta"} /\ pc'[w] \notin {"bump", "delta"}
             /\ pc[w] \in {"diff", "insert"} <=> pc'[w] \in {"diff", "insert"}
    <3>1. ClockBar' = ClockBar
      BY <2>1, <2>3, Zenon DEF SoloBars
    <3>2. \A k : ~Pending(w, k) /\ ~Pending(w, k)'
      BY <2>3, Zenon DEF Pending
    <3>3. DeltasBar = [k \in Keys |-> log[k]] /\ DeltasBar' = [k \in Keys |-> log'[k]]
      BY <2>1, <3>2, Zenon DEF SoloBars
    <3> QED  BY <3>1, <3>3, Zenon
  <2> QED  BY <2>2, <2>3, Zenon
\* What the abstract store records is what DeltaLog::append keeps.
<1>RecordedIs. ASSUME DeltasBar = [k \in Keys |-> log[k]], NEW kk \in Keys, NEW d \in Deltas
               PROVE  Abstract!Recorded(kk, d) =
                         [k \in Keys |-> IF k = kk THEN DeltaAppend(log[k], d) ELSE log[k]]
  <2> USE <1>RecordedIs
  <2>1. log[kk] \in Seq(Deltas) /\ Len(log[kk]) <= MaxDeltaLog /\ DeltasBar[kk] = log[kk]
    BY Zenon DEF SoloInv
  <2> DEFINE l == Append(log[kk], d)
  <2>2. DeltaAppend(log[kk], d) = IF Len(l) > MaxDeltaLog THEN Tail(l) ELSE l
    BY <2>1, DeltaAppendType, Zenon
  <2>3. Abstract!Recorded(kk, d) = [DeltasBar EXCEPT ![kk] = DeltaAppend(log[kk], d)]
    BY <2>1, <2>2, Zenon DEF Abstract!Recorded
  <2> HIDE DEF l
  <2> QED  BY <2>3, Zenon
<1>InsertRefines. ASSUME Insert(w)
                  PROVE  Abstract!Next
  <2> USE <1>InsertRefines
  <2> DEFINE kk == call[w].key
             vv == call[w].value
  <2>1. SoloBars(w) /\ SoloBars(w)' /\ SoloCall(w) /\ w \in Writers /\ global_version \in Nat
        /\ pc \in [Writers -> Labels]
    BY <1>SoloBarsHold, Zenon DEF Typed, SoloInv
  <2>2. /\ pc[w] = "insert" /\ UNCHANGED <<global_version, log, call>>
        /\ entries' = [entries EXCEPT ![kk] = [version |-> call[w].version, value |-> vv]]
        /\ pc'[w] = IF call[w].from = vv THEN "return" ELSE "delta"
    BY <2>1, ZenonT(30) DEF Insert, Goto
  <2>3. /\ kk \in Keys /\ vv \in AllValues /\ call[w].version # 0 /\ call[w].op = "set"
        /\ call[w].from = ValueOf(entries[kk]) /\ call[w].version = global_version
    BY <2>1, <2>2, ZenonT(30) DEF Typed, SoloCall
  <2>4. ClockBar = global_version - 1 /\ ClockBar' = global_version
    <3>1. pc[w] \in {"diff", "insert"} /\ pc'[w] \notin {"bump", "diff", "insert"}
      BY <2>2, ZenonT(30)
    <3> QED  BY <2>1, <2>2, <3>1, Zenon DEF SoloBars
  <2>5. ClockBar' = ClockBar + 1 /\ ClockBar + 1 = call[w].version
    BY <2>1, <2>3, <2>4, SMT, Z3
  <2>6. DeltasBar = [k \in Keys |-> log[k]]
    <3>1. \A k : ~Pending(w, k)
      BY <2>2, ZenonT(30) DEF Pending
    <3> QED  BY <2>1, <3>1, ZenonT(30) DEF SoloBars
  <2>7. Abstract!ValueOf(kk) = call[w].from
    BY <2>3, Zenon DEF Abstract!ValueOf, ValueOf
  <2> DEFINE d == [version |-> ClockBar + 1, from |-> Abstract!ValueOf(kk), to |-> vv]
  <2>8. d = Change(w) /\ Change(w)' = Change(w) /\ Change(w) \in Deltas
    <3>1. Change(w) = [version |-> call[w].version, from |-> call[w].from, to |-> call[w].value]
      BY <2>3, ZenonT(30) DEF Change
    <3>2. Change(w)' = Change(w)
      BY <2>2, Zenon DEF Change
    <3>3. pc[w] # "idle"
      BY <2>2, ZenonT(30)
    <3> QED  BY <2>1, <2>5, <2>7, <3>1, <3>2, <3>3, ChangeType, ZenonT(30)
  <2> HIDE DEF d
  <2>9. DeltasBar' = IF Abstract!ValueOf(kk) = vv THEN DeltasBar ELSE Abstract!Recorded(kk, d)
    <3>1. CASE call[w].from = vv
      <4>1. \A k : ~Pending(w, k)'
        BY <2>2, <3>1, ZenonT(30) DEF Pending
      <4>2. DeltasBar' = [k \in Keys |-> log[k]]
        BY <2>1, <2>2, <4>1, Zenon DEF SoloBars
      <4> QED  BY <2>6, <2>7, <3>1, <4>2, Zenon
    <3>2. CASE call[w].from # vv
      <4>1. \A k : Pending(w, k)' <=> k = kk
        BY <2>2, <3>2, ZenonT(30) DEF Pending
      <4>2. Stamped(Change(w))' = d
        <5>1. Change(w)'.version # 0
          BY <2>3, <2>8, ZenonT(30) DEF Change
        <5> QED  BY <2>8, <5>1, ZenonT(30) DEF Stamped
      <4>3. DeltasBar' = [k \in Keys |-> IF k = kk THEN DeltaAppend(log[k], d) ELSE log[k]]
        BY <2>1, <2>2, <4>1, <4>2, Zenon DEF SoloBars
      <4>4. d \in Deltas
        BY <2>8, Zenon
      <4>5. Abstract!Recorded(kk, d) =
               [k \in Keys |-> IF k = kk THEN DeltaAppend(log[k], d) ELSE log[k]]
        BY <2>3, <2>6, <4>4, <1>RecordedIs, Zenon
      <4> QED  BY <2>7, <3>2, <4>3, <4>5, Zenon
    <3> QED  BY <3>1, <3>2, Zenon
  <2>10. Abstract!Apply(kk, vv)
    BY <2>2, <2>5, <2>9, Zenon DEF Abstract!Apply, d
  <2> QED  BY <2>3, <2>10, Zenon DEF Abstract!Next
<1>DeleteRefines. ASSUME NEW k \in Keys, Delete(w, k)
                  PROVE  Abstract!Next \/ UNCHANGED <<entries, ClockBar, DeltasBar>>
  <2> USE <1>DeleteRefines
  <2>1. SoloBars(w) /\ SoloBars(w)' /\ w \in Writers /\ global_version \in Nat
        /\ pc \in [Writers -> Labels] /\ entries \in [Keys -> {Absent} \cup Entries]
    BY <1>SoloBarsHold, Zenon DEF Typed, SoloInv
  <2>2. /\ pc[w] = "idle" /\ UNCHANGED <<global_version, log>>
        /\ entries' = [entries EXCEPT ![k] = Absent]
        /\ pc'[w] = IF entries[k] = Absent THEN "return" ELSE "bump"
        /\ call'[w] = [op |-> "delete", key |-> k, value |-> Null, version |-> 0,
                       from |-> ValueOf(entries[k]), alone |-> TRUE]
    BY <2>1, Zenon DEF Delete, Goto, Began
  <2>3. ClockBar = global_version /\ DeltasBar = [l \in Keys |-> log[l]]
    <3>1. pc[w] \notin {"bump", "diff", "insert"} /\ \A l : ~Pending(w, l)
      BY <2>2, ZenonT(30) DEF Pending
    <3> QED  BY <2>1, <3>1, ZenonT(30) DEF SoloBars
  <2>4. CASE entries[k] = Absent
    <3>1. pc'[w] \notin {"bump", "diff", "insert"} /\ \A l : ~Pending(w, l)'
      BY <2>2, <2>4, ZenonT(30) DEF Pending
    <3>2. ClockBar' = global_version' /\ DeltasBar' = [l \in Keys |-> log'[l]]
      BY <2>1, <3>1, Zenon DEF SoloBars
    <3>3. entries' = entries
      BY <2>1, <2>2, <2>4, Zenon
    <3> QED  BY <2>2, <2>3, <3>2, <3>3, Zenon
  <2>5. CASE entries[k] # Absent
    <3>1. pc'[w] = "bump" /\ \A l : Pending(w, l)' <=> l = k
      BY <2>2, <2>5, SMT, Z3 DEF Pending
    <3>2. ClockBar' = ClockBar + 1
      BY <2>1, <2>2, <2>3, <3>1, Zenon DEF SoloBars
    <3>3. Abstract!ValueOf(k) = ValueOf(entries[k])
      BY <2>5, Zenon DEF Abstract!ValueOf, ValueOf
    <3> DEFINE d == [version |-> ClockBar + 1, from |-> Abstract!ValueOf(k), to |-> Absent]
    <3>4. Change(w)' = [version |-> 0, from |-> ValueOf(entries[k]), to |-> Absent]
      BY <2>2, SMT, Z3 DEF Change
    <3>5. Stamped(Change(w))' = d
      <4>1. Change(w)'.version = 0
        BY <3>4, SMT, Z3
      <4>2. Stamped(Change(w))' = [Change(w)' EXCEPT !.version = global_version' + 1]
        BY <4>1, Zenon DEF Stamped
      <4> QED  BY <2>2, <2>3, <3>3, <3>4, <4>2, SMTT(30), Z3T(30)
    <3>6. d \in Deltas
      <4>1. entries[k] \in Entries
        BY <2>1, <2>5, Zenon
      <4>2. entries[k].value \in AllValues
        BY <4>1, Zenon DEF Entries
      <4>3. ClockBar + 1 \in Nat
        BY <2>1, <2>3, SMT, Z3
      <4> QED  BY <2>5, <3>3, <4>2, <4>3, Zenon DEF Deltas, ValueOf
    <3> HIDE DEF d
    <3>7. DeltasBar' = [l \in Keys |-> IF l = k THEN DeltaAppend(log[l], d) ELSE log[l]]
      BY <2>1, <2>2, <3>1, <3>5, Zenon DEF SoloBars
    <3>8. DeltasBar' = Abstract!Recorded(k, d)
      BY <2>3, <3>6, <3>7, <1>RecordedIs, Zenon
    <3>9. Abstract!Delete(k)
      BY <2>2, <2>5, <3>2, <3>8, Zenon DEF Abstract!Delete, d
    <3> QED  BY <3>9, Zenon DEF Abstract!Next
  <2> QED  BY <2>4, <2>5, Zenon
\* The version a delete takes is the one the mapping had given its delta, and
\* the delta log receives what the mapping showed.
<1>TailStutters. ASSUME Bump(w) \/ LogDelta(w)
                 PROVE  UNCHANGED <<entries, ClockBar, DeltasBar>>
  <2> USE <1>TailStutters
  <2>1. SoloBars(w) /\ SoloBars(w)' /\ SoloCall(w) /\ w \in Writers /\ global_version \in Nat
        /\ pc \in [Writers -> Labels] /\ call \in [Writers -> Calls] /\ call[w] \in Calls
        /\ log \in [Keys -> Seq(Deltas)]
    BY <1>SoloBarsHold, Zenon DEF Typed, SoloInv
  <2>2. CASE Bump(w)
    <3>1. /\ pc[w] = "bump" /\ UNCHANGED <<entries, log>> /\ global_version' = global_version + 1
          /\ call'[w] = [call[w] EXCEPT !.version = global_version + 1] /\ pc'[w] = "delta"
      BY <2>1, <2>2, Zenon DEF Bump, Goto
    <3>2. /\ call'[w].key = call[w].key /\ call'[w].from = call[w].from
          /\ call'[w].op = call[w].op /\ call'[w].value = call[w].value
          /\ call'[w].version = global_version + 1
      BY <2>1, <3>1, Zenon DEF Calls
    <3>3. ClockBar' = ClockBar
      <4>1. pc'[w] \notin {"bump", "diff", "insert"}
        BY <3>1, ZenonT(30)
      <4> QED  BY <2>1, <3>1, <4>1, Zenon DEF SoloBars
    <3>4. \A k : Pending(w, k)' <=> Pending(w, k)
      BY <3>1, <3>2, ZenonT(30) DEF Pending
    <3>5. Stamped(Change(w))' = Stamped(Change(w))
      <4>1. call[w].version = 0 /\ call[w].op = "delete" /\ global_version + 1 # 0
        BY <2>1, <3>1, SMT, Z3 DEF SoloCall
      <4>2. /\ Change(w) = [version |-> 0, from |-> call[w].from, to |-> Absent]
            /\ Change(w)' = [version |-> global_version + 1, from |-> call[w].from, to |-> Absent]
        BY <3>2, <4>1, Zenon DEF Change
      <4>3. Stamped(Change(w))' = Change(w)'
        BY <4>1, <4>2, SMT, Z3 DEF Stamped
      <4>4. Stamped(Change(w)) = [version |-> global_version + 1, from |-> call[w].from, to |-> Absent]
        BY <4>1, <4>2, SMT, Z3 DEF Stamped
      <4> QED  BY <4>2, <4>3, <4>4, Zenon
    <3>6. DeltasBar' = DeltasBar
      BY <2>1, <3>1, <3>4, <3>5, Zenon DEF SoloBars
    <3> QED  BY <3>1, <3>3, <3>6, Zenon
  <2>3. CASE LogDelta(w)
    <3> DEFINE kk == call[w].key
    <3>1. /\ pc[w] = "delta" /\ UNCHANGED <<entries, global_version, call>>
          /\ log' = [log EXCEPT ![kk] = DeltaAppend(log[kk], Change(w))] /\ pc'[w] = "plog"
      BY <2>1, <2>3, Zenon DEF LogDelta, Goto
    <3>2. ClockBar' = ClockBar
      <4>1. pc'[w] \notin {"bump", "diff", "insert"} /\ pc[w] \notin {"bump", "diff", "insert"}
        BY <3>1, ZenonT(30)
      <4> QED  BY <2>1, <3>1, <4>1, Zenon DEF SoloBars
    <3>3. (\A k : Pending(w, k) <=> k = kk) /\ \A k : ~Pending(w, k)'
      BY <3>1, ZenonT(30) DEF Pending
    <3>4. Stamped(Change(w)) = Change(w)
      <4>1. Change(w).version # 0
        BY <2>1, <3>1, ZenonT(30) DEF Typed, Change
      <4> QED  BY <4>1, ZenonT(30) DEF Stamped
    <3>5. /\ DeltasBar = [k \in Keys |-> IF k = kk THEN DeltaAppend(log[k], Change(w)) ELSE log[k]]
          /\ DeltasBar' = [k \in Keys |-> log'[k]]
      BY <2>1, <3>3, <3>4, Zenon DEF SoloBars
    <3>6. \A k \in Keys : log'[k] = IF k = kk THEN DeltaAppend(log[k], Change(w)) ELSE log[k]
      BY <2>1, <3>1, Zenon
    <3> QED  BY <3>1, <3>2, <3>5, <3>6, Zenon
  <2> QED  BY <2>2, <2>3, Zenon
<1>ApplyStutters. ASSUME NEW k \in Keys, NEW v \in AllValues, Apply(w, k, v)
                  PROVE  UNCHANGED <<entries, ClockBar, DeltasBar>>
  <2> USE <1>ApplyStutters
  <2>1. SoloBars(w) /\ SoloBars(w)' /\ w \in Writers /\ global_version \in Nat
        /\ pc \in [Writers -> Labels]
    BY <1>SoloBarsHold, Zenon DEF Typed
  <2>2. /\ pc[w] = "idle" /\ pc'[w] = "diff" /\ global_version' = global_version + 1
        /\ UNCHANGED <<entries, log>>
    BY <2>1, ZenonT(30) DEF Apply, Goto
  <2>3. /\ pc[w] \notin {"bump", "diff", "insert"} /\ pc'[w] \in {"diff", "insert"}
        /\ \A l : ~Pending(w, l) /\ ~Pending(w, l)'
    BY <2>2, ZenonT(30) DEF Pending
  <2>4. ClockBar = global_version /\ ClockBar' = global_version' - 1
    BY <2>1, <2>3, Zenon DEF SoloBars
  <2>5. DeltasBar' = DeltasBar
    BY <2>1, <2>2, <2>3, Zenon DEF SoloBars
  <2> QED  BY <2>1, <2>2, <2>4, <2>5, SMTT(30), Z3T(30)
<1> DEFINE Still == UNCHANGED <<entries, ClockBar, DeltasBar>>
<1>t. pc \in [Writers -> Labels] /\ w \in Writers
  BY Zenon DEF Typed
<1>1. CASE Insert(w)
  BY <1>1, <1>InsertRefines, Zenon
<1>2. ASSUME NEW k \in Keys, Delete(w, k)
      PROVE  Abstract!Next \/ Still
  BY <1>2, <1>DeleteRefines, Zenon
<1>3. ASSUME NEW k \in Keys, NEW v \in AllValues, Apply(w, k, v)
      PROVE  Still
  BY <1>3, <1>ApplyStutters, Zenon
<1>4. ASSUME Bump(w) \/ LogDelta(w)
      PROVE  Still
  BY <1>4, <1>TailStutters, Zenon
<1>5. ASSUME Diff(w)
      PROVE  Still
  <2>1. /\ pc[w] = "diff" /\ pc'[w] = "insert" /\ UNCHANGED <<entries, global_version, log>>
    BY <1>t, <1>5, Zenon DEF Diff, Goto, memVars
  <2>2. /\ pc[w] \notin {"bump", "delta"} /\ pc'[w] \notin {"bump", "delta"}
        /\ pc[w] \in {"diff", "insert"} <=> pc'[w] \in {"diff", "insert"}
    BY <2>1, ZenonT(30)
  <2> QED  BY <2>1, <2>2, <1>Unmoved, Zenon
<1>6. ASSUME \/ LogAppend(w) \/ LogAppended(w) \/ SnapshotKey(w)
             \/ Compact(w) \/ Compacted(w) \/ Return(w)
      PROVE  Still
  <2>1. /\ UNCHANGED <<entries, global_version, log>>
        /\ pc[w] \in {"plog", "append", "snap", "compact", "return"}
    BY <1>6, Zenon DEF LogAppend, LogAppended, SnapshotKey, Compact, Compacted, Return, memVars
  <2>2. \/ pc' = pc
        \/ pc'[w] \in {"append", "snap", "compact", "return", "idle"}
    BY <1>t, <1>6, Zenon DEF LogAppend, LogAppended, SnapshotKey, Compact, Compacted, Return, Goto
  <2>3. /\ pc[w] \notin {"bump", "delta"} /\ pc'[w] \notin {"bump", "delta"}
        /\ pc[w] \in {"diff", "insert"} <=> pc'[w] \in {"diff", "insert"}
    BY <2>1, <2>2, ZenonT(30)
  <2> QED  BY <2>1, <2>3, <1>Unmoved, Zenon
<1>7. ASSUME LogOp \/ LogError \/ UNCHANGED vars
      PROVE  Still
  <2>1. UNCHANGED <<entries, global_version, log, pc, call>>
    BY <1>7, Zenon DEF LogOp, LogError, vars, memVars, ctlVars
  <2> QED  BY <2>1, <1>Unmoved, Zenon
<1>8. CASE Crash \/ Recover
  BY <1>8, Zenon DEF Crash, Recover
<1>9. Still => UNCHANGED Abstract!vars
  BY Zenon DEF Abstract!vars
<1> QED  BY <1>1, <1>2, <1>3, <1>4, <1>5, <1>6, <1>7, <1>8, <1>9, Zenon DEF Next, WriterStep

\* With one writer the store implements VersionedStore from one restart to the
\* next (state.rs:74-81): for any set of keys and values, any cap of the delta
\* log, any number of calls, and crashes and I/O errors at any point.
THEOREM RefinementTheorem == Solitary /\ Spec => ImplementsVersionedStore
<1> SUFFICES ASSUME Solitary PROVE Spec => ImplementsVersionedStore
  BY ZenonT(30)
<1>w. PICK w : Writers = {w}
  BY Zenon DEF Solitary
<1>1. Init => IInv /\ SoloInv
  BY <1>w, InitIInv, SoloStart, Zenon
<1>2. IInv /\ SoloInv /\ [Next]_vars => IInv' /\ SoloInv'
  BY <1>w, NextIInv, SoloNext, Zenon
<1>3. IInv /\ SoloInv /\ IInv' /\ [Next]_vars => [up /\ up' => Abstract!Next]_(Abstract!vars)
  BY <1>w, StepRefines, Zenon DEF IInv
<1>4. Init => Abstract!Init
  <2> SUFFICES ASSUME Init PROVE Abstract!Init
    BY Zenon
  <2>1. /\ entries = [k \in Keys |-> Absent] /\ global_version = 0
        /\ log = [k \in Keys |-> <<>>] /\ pc = [u \in Writers |-> "idle"]
    BY Zenon DEF Init
  <2>2. {u \in Writers : pc[u] = "bump"} = {} /\ {u \in Writers : pc[u] \in {"diff", "insert"}} = {}
    BY <2>1, Zenon
  <2>3. \A k : Unlogged(k) = {}
    BY <2>1, ZenonT(30) DEF Unlogged
  <2>c. Cardinality({}) = 0
    BY FS_EmptySet, Zenon
  <2>4. ClockBar = 0
    <3>1. ClockBar = 0 + 0 - 0
      BY <2>1, <2>2, <2>c, Zenon DEF ClockBar
    <3> QED  BY <3>1, SMT, Z3
  <2>5. DeltasBar = [k \in Keys |-> <<>>]
    BY <2>1, <2>3, Zenon DEF DeltasBar
  <2> QED  BY <2>1, <2>4, <2>5, Zenon DEF Abstract!Init
<1> QED  BY <1>1, <1>2, <1>3, <1>4, PTL DEF Spec, ImplementsVersionedStore

-----------------------------------------------------------------------------
(* The files, while no I/O error happens *)

\* What replay_segment returns of a file.
FileRecords(n) == Range(ReplaySegment(disk[n]))

\* Only the record being written can be torn, at the end of the file behind the
\* writer; the writer is on the last file, except while a snapshot is written.
Files ==
    /\ DOMAIN disk \subseteq Nat /\ current_seg \in DOMAIN disk
    /\ \A n \in DOMAIN disk : n <= current_seg
    /\ wseg \in DOMAIN disk /\ (stage # "snapshot" => wseg = current_seg)
    /\ wbuf = IF stage = "flush" THEN <<arg>> ELSE <<>>
    /\ \A n \in DOMAIN disk :
          IF stage = "flush" /\ n = wseg
          THEN /\ WithoutLast(disk[n]) \in Seq(Records)
               /\ disk[n] = Append(WithoutLast(disk[n]), Torn)
          ELSE disk[n] \in Seq(Records)
    /\ stage = "create" => old_segs = DOMAIN disk
    /\ stage = "snapshot" => /\ DOMAIN disk = old_segs \cup {current_seg}
                             /\ \A m \in old_segs : m < current_seg
    /\ stage = "remove" => /\ DOMAIN disk = old_segs \cup {current_seg - 1, current_seg}
                           /\ \A m \in old_segs : m < current_seg - 1

LEMMA ReplayWhole ==
    ASSUME NEW s \in Seq(Records)
    PROVE  ReplaySegment(s) = s
<1>1. Torn \notin Records
  BY StateStoreAssumption, Zenon
<1>2. \A i \in DOMAIN s : s[i] \in Records
  BY SMT, Z3
<1>3. Torn \notin Range(s)
  BY <1>1, <1>2, Zenon DEF Range
<1> QED  BY <1>3, Zenon DEF ReplaySegment

LEMMA ReplayTorn ==
    ASSUME NEW s \in Seq(Records)
    PROVE  ReplaySegment(Append(s, Torn)) = s
<1> DEFINE f == Append(s, Torn)
           S == {i \in DOMAIN f : f[i] = Torn}
<1>1. /\ Len(s) \in Nat /\ DOMAIN f = 1..(Len(s) + 1) /\ f[Len(s) + 1] = Torn
      /\ \A i \in 1..Len(s) : f[i] = s[i] /\ s[i] \in Records
  BY SMT, Z3
<1>2. \A i \in 1..Len(s) : f[i] # Torn
  BY <1>1, StateStoreAssumption, Zenon
<1>3. S = {Len(s) + 1}
  <2>1. Len(s) + 1 \in DOMAIN f /\ \A i \in DOMAIN f : i = Len(s) + 1 \/ i \in 1..Len(s)
    BY <1>1, SMT, Z3
  <2> HIDE DEF f
  <2> QED  BY <1>1, <1>2, <2>1, Zenon
<1>4. Torn \in Range(f)
  <2>1. Len(s) + 1 \in DOMAIN f
    BY <1>1, SMT, Z3
  <2> QED  BY <1>1, <2>1, Zenon DEF Range
<1>5. Min(S) = Len(s) + 1
  <2>1. S \in SUBSET Nat /\ S # {}
    BY <1>1, <1>3, SMT, Z3
  <2>2. Min(S) \in S
    BY <2>1, MinExists, Zenon
  <2> QED  BY <1>3, <2>2, Zenon
<1>6. ReplaySegment(f) = SubSeq(f, 1, Min(S) - 1)
  BY <1>4, Zenon DEF ReplaySegment
<1>7. SubSeq(f, 1, (Len(s) + 1) - 1) = s
  BY SMT, Z3
<1> QED  BY <1>5, <1>6, <1>7, Zenon

\* How a step changes what a restart would read: not at all, ...
NothingNew ==
    /\ DOMAIN disk \subseteq DOMAIN disk'
    /\ \A n \in DOMAIN disk : FileRecords(n)' = FileRecords(n)
    /\ \A n \in DOMAIN disk' : n \in DOMAIN disk \/ FileRecords(n)' = {}
\* ... by one record at the end of the last file, ...
NewRecord(r) ==
    /\ DOMAIN disk' = DOMAIN disk
    /\ \A n \in DOMAIN disk :
          FileRecords(n)' = IF n = current_seg THEN FileRecords(n) \cup {r} ELSE FileRecords(n)
\* ... or by losing the oldest file.
OldestGone(m) ==
    /\ DOMAIN disk' = DOMAIN disk \ {m}
    /\ \A n \in DOMAIN disk' : m < n /\ FileRecords(n)' = FileRecords(n)

\* A step that leaves the files alone, and the writer's buffer empty.
LEMMA FilesKept ==
    ASSUME Files, UNCHANGED <<disk, current_seg, wseg, wbuf>>,
           \/ UNCHANGED <<stage, arg, old_segs>>
           \/ stage # "flush" /\ stage # "snapshot" /\ stage' \in {"none", "rotate", "write", "compacted"}
           \/ stage = "none" /\ stage' = "create" /\ old_segs' = DOMAIN disk
    PROVE  Files' /\ NothingNew
<1>1. NothingNew
  BY Zenon DEF NothingNew, FileRecords
<1>2. CASE UNCHANGED <<stage, arg, old_segs>>
  <2>1. Files'
    BY <1>2, Zenon DEF Files
  <2> QED  BY <1>1, <2>1, Zenon
<1>3. CASE /\ stage # "flush" /\ stage # "snapshot" /\ stage' # "flush"
           /\ stage' \notin {"create", "snapshot", "remove"}
  <2>1. Files'
    BY <1>3, Zenon DEF Files
  <2> QED  BY <1>1, <2>1, Zenon
<1>4. CASE stage = "none" /\ stage' = "create" /\ old_segs' = DOMAIN disk
  <2>1. stage # "flush" /\ stage # "snapshot" /\ stage' # "flush" /\ stage' \notin {"snapshot", "remove"}
    BY <1>4, ZenonT(30)
  <2>2. Files'
    BY <1>4, <2>1, Zenon DEF Files
  <2> QED  BY <1>1, <2>2, Zenon
<1>5. stage' \in {"none", "rotate", "write", "compacted"} =>
         stage' # "flush" /\ stage' \notin {"create", "snapshot", "remove"}
  BY ZenonT(30)
<1> QED  BY <1>2, <1>3, <1>4, <1>5, Zenon

-----------------------------------------------------------------------------
(* What a restart would show *)

\* The record that wins among those of a key.
Best(S) ==
    IF S = {} THEN Absent ELSE CHOOSE r \in S : \A s \in S : s.version <= r.version

Agree(S) ==
    /\ IsFiniteSet(S) /\ Absent \notin S /\ \A r \in S : r.version \in Nat
    /\ \A r, s \in S : r.version = s.version => r.value = s.value

LEMMA BestIs ==
    ASSUME NEW S, Agree(S), S # {}
    PROVE  Best(S) \in S /\ \A s \in S : s.version <= Best(S).version
<1>1. \E r \in S : \A s \in S : s.version <= r.version
  BY HighestExists, Zenon DEF Agree
<1> QED  BY <1>1, Zenon DEF Best

\* The value a restart would give key k.
Shown(k) == ValueOf(Best(RecordsOf(k)))

LEMMA LatestIsBest ==
    ASSUME NEW k
    PROVE  Latest(k) = Best(RecordsOf(k))
BY Zenon DEF Latest, Best

\* What the invariant of any number of writers says of the files.
Readable ==
    /\ \A r \in Replayed : /\ r \in Records /\ r.key \in Keys /\ r.version \in Nat
                           /\ r.value \in AllValues /\ r.version <= global_version
    /\ \A k : Agree(RecordsOf(k))

LEMMA ReadableHolds == IInv /\ SoloInv => Readable
<1> SUFFICES ASSUME IInv, SoloInv PROVE Readable
  BY ZenonT(30)
<1>1. \A r \in Replayed : /\ r \in Records /\ r # Absent /\ r # Torn /\ r.key \in Keys
                          /\ r.version \in Nat /\ r.value \in AllValues
                          /\ r.version <= global_version
  BY ReplayedTypes, Zenon
<1>2. IsFiniteSet(Replayed)
  BY ReplayedFinite, Zenon DEF SoloInv
<1>3. \A r \in Replayed : Fact(r.version, r.key, r.value)
  <2>1. \A n \in DOMAIN disk : disk[n] \in Seq(Records \cup {Torn})
    BY Zenon DEF IInv, Typed, LogTyped
  <2>2. \A r \in Replayed : Logged(r)
    BY <2>1, ReplayIsPrefix, SMTT(30), Z3T(30) DEF Replayed, Range, Logged, InFiles, In
  <2> QED  BY <1>1, <2>2, Zenon DEF Fact, LogFact
<1>4. \A r, s \in Replayed : r.version = s.version => r.value = s.value
  BY <1>1, <1>3, Zenon DEF IInv, OneWrite
<1>5. \A k : RecordsOf(k) \in SUBSET Replayed
  BY Zenon DEF RecordsOf
<1>6. \A k : IsFiniteSet(RecordsOf(k))
  BY <1>2, <1>5, FS_Subset, Zenon
<1>7. \A k : Agree(RecordsOf(k))
  BY <1>1, <1>4, <1>5, <1>6, Zenon DEF Agree
<1> QED  BY <1>1, <1>7, Zenon DEF Readable

LEMMA ReplayedAre ==
    /\ \A r : r \in Replayed <=> \E n \in DOMAIN disk : r \in FileRecords(n)
    /\ \A r : r \in Replayed' <=> \E n \in DOMAIN disk' : r \in FileRecords(n)'
<1>1. \A r : r \in Replayed <=> \E n \in DOMAIN disk : r \in FileRecords(n)
  BY Zenon DEF Replayed, FileRecords
<1>2. \A r : r \in Replayed' <=> \E n \in DOMAIN disk' : r \in FileRecords(n)'
  BY Zenon DEF Replayed, FileRecords
<1> QED  BY <1>1, <1>2, Zenon

\* A step that changes nothing of what can be read changes nothing that is shown ...
LEMMA SameShown ==
    ASSUME NothingNew
    PROVE  Replayed' = Replayed /\ \A k : Shown(k)' = Shown(k)
<1>1. \A r : r \in Replayed' <=> r \in Replayed
  <2>1. ASSUME NEW r, r \in Replayed
        PROVE  r \in Replayed'
    <3>1. PICK n \in DOMAIN disk : r \in FileRecords(n)
      BY <2>1, ReplayedAre, Zenon
    <3>2. n \in DOMAIN disk' /\ r \in FileRecords(n)'
      BY <3>1, Zenon DEF NothingNew
    <3> QED  BY <3>2, ReplayedAre, Zenon
  <2>2. ASSUME NEW r, r \in Replayed'
        PROVE  r \in Replayed
    <3>1. PICK n \in DOMAIN disk' : r \in FileRecords(n)'
      BY <2>2, ReplayedAre, Zenon
    <3>2. n \in DOMAIN disk /\ r \in FileRecords(n)
      BY <3>1, Zenon DEF NothingNew
    <3> QED  BY <3>2, ReplayedAre, Zenon
  <2> QED  BY <2>1, <2>2, Zenon
<1>2. Replayed' = Replayed
  BY <1>1, Zenon
<1>3. \A k : RecordsOf(k)' = RecordsOf(k)
  BY <1>2, Zenon DEF RecordsOf
<1> QED  BY <1>2, <1>3, Zenon DEF Shown

\* The records of a key do not go down from one file to the next.
Ordered ==
    \A m, n \in DOMAIN disk : m < n =>
       \A r \in FileRecords(m) : \A s \in FileRecords(n) : r.key = s.key => r.version <= s.version

-----------------------------------------------------------------------------
(* Durability: what one writer, without I/O errors, can rely on *)

\* The log operation that runs is the one the writer waits for.
Waits(w) ==
    /\ pc[w] = "append" => /\ stage \in {"rotate", "write", "flush", "appended"}
                           /\ arg = LogEntry(call[w].key, call[w].version, <<Change(w)>>,
                                             call[w].value)
    /\ pc[w] = "compact" => stage \in {"create", "snapshot", "remove", "compacted"}
    /\ up /\ pc[w] \notin {"append", "compact"} => stage = "none"

\* The call has changed memory and its record is not yet in the file.
Unwritten(w) ==
    \/ pc[w] \in {"bump", "delta", "plog"}
    \/ pc[w] = "append" /\ stage \in {"rotate", "write", "flush"}

\* No record is newer than the entry in memory, nor as new as the call that
\* has still to write its own.
Newer(w) ==
    /\ up => \A r \in Replayed : entries[r.key] # Absent => r.version <= entries[r.key].version
    /\ pc[w] \in {"diff", "insert"} \/ (pc[w] # "bump" /\ Unwritten(w)) =>
          \A r \in Replayed : r.version < global_version

\* A restart would show what memory holds, but for the key of such a call.
Current(k) ==
    IF entries[k] = Absent THEN Shown(k) \in {Absent, Null} ELSE Shown(k) = entries[k].value
AllCurrent(w) ==
    up => \A k \in Keys : Current(k) \/ (call[w].key = k /\ Unwritten(w))

\* What the call has done to memory.
Effect(w) ==
    pc[w] \notin {"idle", "diff", "insert"} =>
       IF call[w].op = "set"
       THEN /\ entries[call[w].key] # Absent
            /\ entries[call[w].key].value = call[w].value
            /\ entries[call[w].key].version = call[w].version
       ELSE entries[call[w].key] = Absent

\* The snapshot of a compaction: read from memory, and then in the new file.
SnapRecord(k) == LogEntry(k, entries[k].version, <<>>, entries[k].value)
FromEntries(S) == \A r \in S : entries[r.key] # Absent /\ r = SnapRecord(r.key)
Holds(S, k) == entries[k] # Absent => SnapRecord(k) \in S
Gathered(w) ==
    /\ pc[w] # "snap" => snap[w] = {}
    /\ pc[w] = "snap" => FromEntries(snap[w]) /\ \A k \in Keys \ unread[w] : Holds(snap[w], k)
Copied ==
    up => /\ stage \in {"create", "snapshot"} => FromEntries(todo)
          /\ stage = "create" => \A k \in Keys : Holds(todo, k)
          /\ stage = "snapshot" => \A k \in Keys : Holds(todo \cup Range(disk[current_seg]), k)
          /\ stage = "remove" => \A k \in Keys : Holds(Range(disk[current_seg - 1]), k)

\* What a restart may show.
Possible(w) ==
    /\ DOMAIN possible = Keys /\ \A k \in Keys : Shown(k) \in possible[k]
    /\ up => \A k \in Keys : entries[k] = Absent => Absent \in possible[k]
    /\ pc[w] # "idle" => /\ call[w].value \in possible[call[w].key]
                         /\ call[w].op = "delete" => Absent \in possible[call[w].key]

Durable(w) ==
    /\ Files /\ Ordered /\ Waits(w) /\ Copied
    /\ Newer(w) /\ AllCurrent(w) /\ Effect(w) /\ Gathered(w) /\ Possible(w)

LEMMA OrderedKept ==
    ASSUME Ordered, NothingNew
    PROVE  Ordered'
<1> SUFFICES ASSUME NEW m \in DOMAIN disk', NEW n \in DOMAIN disk', m < n,
                    NEW r \in FileRecords(m)', NEW s \in FileRecords(n)', r.key = s.key
             PROVE  r.version <= s.version
  BY Zenon DEF Ordered
<1>1. m \in DOMAIN disk /\ r \in FileRecords(m)
  BY Zenon DEF NothingNew
<1>2. n \in DOMAIN disk /\ s \in FileRecords(n)
  BY Zenon DEF NothingNew
<1> QED  BY <1>1, <1>2, Zenon DEF Ordered

\* The memory side of the invariant, through a step that leaves memory alone
\* and what a restart would show.
LEMMA MemoryKept ==
    ASSUME NEW w, Durable(w), UNCHANGED <<entries, global_version, call, possible, up>>, NothingNew,
           Unwritten(w)' <=> Unwritten(w),
           pc[w] \in {"diff", "insert"} <=> pc'[w] \in {"diff", "insert"},
           pc[w] \in {"idle", "diff", "insert"} <=> pc'[w] \in {"idle", "diff", "insert"},
           pc'[w] = "bump" <=> pc[w] = "bump", pc'[w] = "idle" <=> pc[w] = "idle"
    PROVE  Ordered' /\ Newer(w)' /\ AllCurrent(w)' /\ Effect(w)' /\ Possible(w)'
<1>1. Ordered' /\ Replayed' = Replayed /\ \A l : Shown(l)' = Shown(l)
  BY OrderedKept, SameShown, Zenon DEF Durable
<1>2. Newer(w)'
  BY <1>1, Zenon DEF Newer, Durable
<1>3. AllCurrent(w)'
  BY <1>1, Zenon DEF AllCurrent, Current, Durable
<1>4. Effect(w)'
  BY Zenon DEF Effect, Durable
<1>5. Possible(w)'
  BY <1>1, Zenon DEF Possible, Durable
<1> QED  BY <1>1, <1>2, <1>3, <1>4, <1>5, Zenon

LEMMA LogOpDurable ==
    ASSUME NEW w, Writers = {w}, Typed, SoloInv, Readable, Readable', Durable(w), LogOp
    PROVE  Durable(w)'
\* What a file holds under Files.
<1>FileIs. ASSUME Files, NEW n \in DOMAIN disk
           PROVE  /\ ~(stage = "flush" /\ n = wseg) =>
                        disk[n] \in Seq(Records) /\ FileRecords(n) = Range(disk[n])
                  /\ (stage = "flush" /\ n = wseg) =>
                        /\ WithoutLast(disk[n]) \in Seq(Records)
                        /\ FileRecords(n) = Range(WithoutLast(disk[n]))
  <2> USE <1>FileIs
  <2>1. CASE ~(stage = "flush" /\ n = wseg)
    BY <2>1, ReplayWhole, Zenon DEF Files, FileRecords
  <2>2. CASE stage = "flush" /\ n = wseg
    <3> DEFINE s == WithoutLast(disk[n])
    <3>1. s \in Seq(Records) /\ disk[n] = Append(s, Torn)
      BY <2>2, Zenon DEF Files
    <3> HIDE DEF s
    <3>2. ReplaySegment(disk[n]) = s
      BY <3>1, ReplayTorn, Zenon
    <3> QED  BY <2>2, <3>1, <3>2, Zenon DEF FileRecords, s
  <2> QED  BY <2>1, <2>2, Zenon
<1>SeqFacts. /\ \A s \in Seq(Records) : \A r \in Records :
                   Append(s, r) \in Seq(Records) /\ Range(Append(s, r)) = Range(s) \cup {r}
             /\ \A s \in Seq(Records) : \A r : WithoutLast(Append(s, r)) = s
             /\ \A s \in Seq(Records) : \A r \in Records : s \o <<r>> = Append(s, r)
  <2>1. \A s \in Seq(Records) : \A r \in Records : Append(s, r) \in Seq(Records)
    BY SMT, Z3
  <2>2. \A s \in Seq(Records) : \A r : Range(Append(s, r)) = Range(s) \cup {r}
    <3> SUFFICES ASSUME NEW s \in Seq(Records), NEW r
                 PROVE  Range(Append(s, r)) = Range(s) \cup {r}
      BY Zenon
    <3>1. DOMAIN Append(s, r) = 1..(Len(s) + 1) /\ DOMAIN s = 1..Len(s) /\ Len(s) \in Nat
      BY SMT, Z3
    <3>2. (\A i \in 1..Len(s) : Append(s, r)[i] = s[i]) /\ Append(s, r)[Len(s) + 1] = r
      BY SMT, Z3
    <3>3. 1..(Len(s) + 1) = 1..Len(s) \cup {Len(s) + 1}
      BY <3>1, SMT, Z3
    <3> QED  BY <3>1, <3>2, <3>3, ZenonT(30) DEF Range
  <2>3. \A s \in Seq(Records) : \A r : WithoutLast(Append(s, r)) = s
    BY SMT, Z3 DEF WithoutLast
  <2>4. \A s \in Seq(Records) : \A r \in Records : s \o <<r>> = Append(s, r)
    BY SMT, Z3
  <2> QED  BY <2>1, <2>2, <2>3, <2>4, Zenon
\* Any record of the highest version has the value that is shown.
<1>BestValue. ASSUME NEW S, Agree(S), NEW r \in S, \A s \in S : s.version <= r.version
              PROVE  ValueOf(Best(S)) = r.value
  <2> USE <1>BestValue
  <2> DEFINE b == Best(S)
  <2>1. b \in S /\ \A s \in S : s.version <= b.version
    BY BestIs, Zenon
  <2> HIDE DEF b
  <2>2. b.version <= r.version /\ r.version <= b.version /\ b.version \in Nat /\ r.version \in Nat
    BY <2>1, Zenon DEF Agree
  <2>3. b.version = r.version
    BY <2>2, SMT, Z3
  <2>4. b.value = r.value /\ b # Absent
    BY <2>1, <2>3, Zenon DEF Agree
  <2> QED  BY <2>4, Zenon DEF ValueOf, b
\* ... a record above all others of its key is shown ...
<1>NewShown. ASSUME Files, NEW x, NewRecord(x),
                    \A r \in Replayed : r.key = x.key => r.version <= x.version
             PROVE  /\ Replayed' = Replayed \cup {x}
                    /\ Shown(x.key)' = x.value /\ \A k : k # x.key => Shown(k)' = Shown(k)
  <2> USE <1>NewShown
  <2>1. current_seg \in DOMAIN disk
    BY Zenon DEF Files
  <2>2. \A r : r \in Replayed' <=> r \in Replayed \/ r = x
    BY <2>1, ReplayedAre, ZenonT(30) DEF NewRecord
  <2>3. Replayed' = Replayed \cup {x}
    BY <2>2, Zenon
  <2>4. \A k : k # x.key => RecordsOf(k)' = RecordsOf(k)
    BY <2>2, Zenon DEF RecordsOf
  <2> DEFINE kk == x.key
             S == RecordsOf(kk)'
  <2>5. x \in S
    BY <2>2, Zenon DEF RecordsOf
  <2>6. x.version \in Nat
    BY <2>2, Zenon DEF Readable
  <2>7. x.version <= x.version
    BY <2>6, SMT, Z3
  <2>8. \A s \in S : s.version <= x.version
    BY <2>2, <2>7, Zenon DEF RecordsOf
  <2>9. Agree(S)
    BY Zenon DEF Readable
  <2> HIDE DEF kk
  <2>10. ValueOf(Best(S)) = x.value
    <3> HIDE DEF S
    <3> QED  BY <2>5, <2>8, <2>9, <1>BestValue, Zenon
  <2>11. Shown(kk)' = x.value
    BY <2>10, Zenon DEF Shown
  <2>12. \A k : k # x.key => Shown(k)' = Shown(k)
    BY <2>4, Zenon DEF Shown
  <2> QED  BY <2>3, <2>11, <2>12, Zenon DEF kk
\* A record goes at the end of the last file when it is not older than any
\* other of its key.
<1>OrderedNew. ASSUME Files, Ordered, NEW x, NewRecord(x),
                      \A r \in Replayed : r.key = x.key => r.version <= x.version
               PROVE  Ordered'
  <2> USE <1>OrderedNew
  <2> SUFFICES ASSUME NEW m \in DOMAIN disk', NEW n \in DOMAIN disk', m < n,
                      NEW r \in FileRecords(m)', NEW s \in FileRecords(n)', r.key = s.key
               PROVE  r.version <= s.version
    BY Zenon DEF Ordered
  <2>1. m \in DOMAIN disk /\ n \in DOMAIN disk
    BY Zenon DEF NewRecord
  <2>2. m # current_seg
    <3>1. n <= current_seg /\ n \in Nat /\ m \in Nat /\ current_seg \in Nat
      BY <2>1, Zenon DEF Files
    <3> QED  BY <3>1, SMT, Z3
  <2>3. r \in FileRecords(m)
    BY <2>1, <2>2, Zenon DEF NewRecord
  <2>4. r \in Replayed
    BY <2>1, <2>3, ReplayedAre, Zenon
  <2>5. CASE s = x
    BY <2>4, <2>5, Zenon
  <2>6. CASE s # x
    <3>1. s \in FileRecords(n)
      BY <2>1, <2>6, Zenon DEF NewRecord
    <3> QED  BY <2>1, <2>3, <3>1, Zenon DEF Ordered
  <2> QED  BY <2>5, <2>6, Zenon
\* The record being appended reaches the file.
<1>FlushDurable. ASSUME up, FlushRecord, UNCHANGED <<memVars, ctlVars, histVars>>
                 PROVE  Durable(w)'
  <2> USE <1>FlushDurable
  <2>FlushStep. ASSUME LogTyped, Files
                PROVE  Files' /\ NewRecord(arg)
    <3> USE <2>FlushStep
    <3>1. /\ stage = "flush" /\ stage' = "appended" /\ wseg \in DOMAIN disk /\ wbuf = <<arg>>
          /\ wseg = current_seg /\ arg \in Records
          /\ disk' = [disk EXCEPT ![wseg] = WithoutLast(disk[wseg]) \o wbuf] /\ wbuf' = <<>>
          /\ UNCHANGED <<current_seg, wseg, arg, old_segs>>
      <4>1. stage = "flush"
        BY Zenon DEF FlushRecord
      <4>2. stage # "snapshot" /\ stage \in {"rotate", "write", "flush"}
        BY <4>1, ZenonT(30)
      <4> QED  BY <4>1, <4>2, Zenon DEF FlushRecord, Files, LogTyped
    <3>3. disk = [n \in DOMAIN disk |-> disk[n]]
      BY Zenon DEF LogTyped
    <3> DEFINE s == WithoutLast(disk[wseg])
    <3>4. s \in Seq(Records) /\ FileRecords(wseg) = Range(s)
      BY <3>1, <1>FileIs, Zenon
    <3>5. \A n \in DOMAIN disk : n # wseg => disk[n] \in Seq(Records) /\ FileRecords(n) = Range(disk[n])
      BY <1>FileIs, Zenon
    <3>6. disk' = [disk EXCEPT ![wseg] = s \o wbuf]
      BY <3>1, Zenon
    <3> HIDE DEF s
    <3>7. /\ DOMAIN disk' = DOMAIN disk /\ disk'[wseg] = Append(s, arg)
          /\ \A n \in DOMAIN disk : n # wseg => disk'[n] = disk[n]
      <4>1. s \o <<arg>> = Append(s, arg)
        BY <3>1, <3>4, <1>SeqFacts, Zenon
      <4>2. disk' = [disk EXCEPT ![wseg] = Append(s, arg)]
        BY <3>1, <3>6, <4>1, Zenon
      <4> QED  BY <3>1, <3>3, <4>2, Zenon
    <3>8. disk'[wseg] \in Seq(Records) /\ Range(disk'[wseg]) = Range(s) \cup {arg}
      BY <3>1, <3>4, <3>7, <1>SeqFacts, Zenon
    <3>9. \A n \in DOMAIN disk' : disk'[n] \in Seq(Records) /\ FileRecords(n)' = Range(disk'[n])
      <4>1. \A n \in DOMAIN disk' : disk'[n] \in Seq(Records)
        BY <3>5, <3>7, <3>8, Zenon
      <4> QED  BY <4>1, ReplayWhole, Zenon DEF FileRecords
    <3>10. Files'
      <4>1. (\A n \in DOMAIN disk : n <= current_seg) /\ DOMAIN disk \subseteq Nat
            /\ current_seg \in DOMAIN disk
        BY Zenon DEF Files
      <4>2. stage' \notin {"create", "snapshot", "remove", "flush"}
        BY <3>1, ZenonT(30)
      <4> QED  BY <3>1, <3>7, <3>9, <4>1, <4>2, Zenon DEF Files
    <3>11. NewRecord(arg)
      BY <3>1, <3>4, <3>5, <3>7, <3>8, <3>9, Zenon DEF NewRecord
    <3> QED  BY <3>10, <3>11, Zenon
  <2>k. PICK k : k = call[w].key
    BY Zenon
  <2>1. /\ UNCHANGED <<entries, global_version, call, pc, snap, unread, possible, up>>
        /\ stage = "flush" /\ stage' = "appended" /\ UNCHANGED arg /\ w \in Writers
    BY Zenon DEF FlushRecord, memVars, ctlVars, histVars
  <2>p. /\ pc[w] = "append"
        /\ arg = LogEntry(k, call[w].version, <<Change(w)>>, call[w].value)
    <3>1. /\ pc[w] = "append" \/ pc[w] = "compact"
          /\ pc[w] # "compact"
      BY <2>1, Zenon DEF Durable, Waits
    <3> QED  BY <2>k, <3>1, Zenon DEF Durable, Waits
  <2>q. /\ pc[w] \notin {"idle", "diff", "insert", "bump", "compact"}
        /\ Unwritten(w) /\ ~Unwritten(w)'
        /\ pc[w] \in {"diff", "insert", "delta", "plog", "append"}
        /\ stage' \notin {"create", "snapshot", "remove"}
        /\ stage' \in {"rotate", "write", "flush", "appended"}
    BY <2>1, <2>p, ZenonT(30) DEF Unwritten
  <2>c. /\ k \in Keys /\ call[w].version = global_version /\ global_version \in Nat
        /\ call[w].op \in {"set", "delete"} /\ (call[w].op = "delete" => call[w].value = Null)
        /\ arg.key = k /\ arg.version = call[w].version /\ arg.value = call[w].value
    <3>1. /\ k \in Keys /\ global_version \in Nat
      BY <2>1, <2>k, <2>q, Zenon DEF Typed
    <3>2. /\ call[w].version = global_version
          /\ call[w].op \in {"set", "delete"} /\ (call[w].op = "delete" => call[w].value = Null)
      BY <2>1, <2>q, ZenonT(30) DEF SoloInv, SoloCall
    <3>3. arg.key = k /\ arg.version = call[w].version /\ arg.value = call[w].value
      BY <2>p, ZenonT(30) DEF LogEntry
    <3> QED  BY <3>1, <3>2, <3>3, Zenon
  <2>2. Files' /\ NewRecord(arg)
    BY <2>FlushStep, Zenon DEF Typed, Durable
  <2>3. \A r \in Replayed : r.version < global_version
    <3>1. pc[w] # "bump" /\ Unwritten(w) /\ Newer(w)
      BY <2>p, <2>q, ZenonT(30) DEF Durable
    <3> QED  BY <3>1, Zenon DEF Newer
  <2>4. \A r \in Replayed : r.key = arg.key => r.version <= arg.version
    BY <2>3, <2>c, Zenon DEF Readable
  <2>5. Ordered' /\ Replayed' = Replayed \cup {arg}
        /\ Shown(k)' = call[w].value /\ \A l : l # k => Shown(l)' = Shown(l)
    BY <2>1, <2>2, <2>4, <2>c, <1>OrderedNew, <1>NewShown, Zenon DEF Durable
  <2>6. Newer(w)'
    <3>1. \A r \in Replayed : entries[r.key] # Absent => r.version <= entries[r.key].version
      BY Zenon DEF Newer, Durable
    <3>2. entries[k] # Absent => arg.version <= entries[k].version
      <4>1. entries[k] # Absent => entries[k].version = call[w].version
        BY <2>k, <2>q, Zenon DEF Effect, Durable
      <4> QED  BY <2>c, <4>1, SMTT(30), Z3T(30)
    <3> QED  BY <2>1, <2>5, <2>c, <2>q, <3>1, <3>2, Zenon DEF Newer
  <2>7. AllCurrent(w)'
    <3>1. \A l \in Keys : l # k => Current(l)
      BY <2>k, Zenon DEF AllCurrent, Durable
    <3>2. \A l \in Keys : l # k => Current(l)'
      BY <2>1, <2>5, <3>1, Zenon DEF Current
    <3>3. Current(k)'
      <4>1. IF call[w].op = "set" THEN entries[k] # Absent /\ entries[k].value = call[w].value
            ELSE entries[k] = Absent
        BY <2>k, <2>q, Zenon DEF Effect, Durable
      <4> QED  BY <2>1, <2>5, <2>c, <4>1, Zenon DEF Current
    <3> QED  BY <3>2, <3>3, Zenon DEF AllCurrent
  <2>8. Effect(w)' /\ Gathered(w)'
    BY <2>1, Zenon DEF Effect, Gathered, FromEntries, Holds, SnapRecord, Durable
  <2>9. Possible(w)'
    <3>1. \A l \in Keys : Shown(l)' \in possible[l]
      BY <2>5, <2>k, <2>q, Zenon DEF Possible, Durable
    <3> QED  BY <2>1, <3>1, Zenon DEF Possible, Durable
  <2>10. Waits(w)' /\ Copied'
    <3>1. Change(w)' = Change(w)
      BY <2>1, Zenon DEF Change
    <3>2. Waits(w)'
      BY <2>1, <2>k, <2>p, <2>q, <3>1, Zenon DEF Waits
    <3> QED  BY <2>q, <3>2, ZenonT(30) DEF Copied
  <2> QED  BY <2>2, <2>5, <2>6, <2>7, <2>8, <2>9, <2>10, ZenonT(30) DEF Durable
\* A new file is created, the record's first bytes go out, a compaction ends.
<1>NothingNewDurable. ASSUME up,
                             Rotate \/ WriteRecord \/ CreateSnapshot \/ OpenLive \/ CompactDone,
                             UNCHANGED <<memVars, ctlVars, histVars>>
                      PROVE  Durable(w)'
  <2> USE <1>NothingNewDurable
  <2>WriteStep. ASSUME LogTyped, Files, WriteRecord
                PROVE  Files' /\ NothingNew
    <3> USE <2>WriteStep
    <3>1. /\ stage = "write" /\ stage' = "flush" /\ wseg \in DOMAIN disk /\ wbuf = <<>>
          /\ disk' = [disk EXCEPT ![wseg] = Append(disk[wseg], Torn)] /\ wbuf' = Append(wbuf, arg)
          /\ UNCHANGED <<current_seg, wseg, arg, old_segs>>
      <4>1. stage = "write"
        BY Zenon DEF WriteRecord
      <4>2. stage # "flush"
        BY <4>1, ZenonT(30)
      <4> QED  BY <4>1, <4>2, Zenon DEF WriteRecord, Files
    <3>2. wbuf' = <<arg'>>
      BY <3>1, SMT, Z3
    <3>3. disk = [n \in DOMAIN disk |-> disk[n]]
      BY Zenon DEF LogTyped
    <3> DEFINE s == disk[wseg]
    <3>4. /\ DOMAIN disk' = DOMAIN disk /\ disk'[wseg] = Append(s, Torn)
          /\ \A n \in DOMAIN disk : n # wseg => disk'[n] = disk[n]
      BY <3>1, <3>3, Zenon
    <3>5. \A n \in DOMAIN disk : disk[n] \in Seq(Records) /\ FileRecords(n) = Range(disk[n])
      <4>1. stage # "flush"
        BY <3>1, ZenonT(30)
      <4> QED  BY <4>1, <1>FileIs, Zenon
    <3>6. s \in Seq(Records) /\ FileRecords(wseg) = Range(s)
      BY <3>1, <3>5, Zenon
    <3> HIDE DEF s
    <3>7. WithoutLast(disk'[wseg]) = s /\ ReplaySegment(disk'[wseg]) = s
      BY <3>4, <3>6, <1>SeqFacts, ReplayTorn, Zenon
    <3>8. Files'
      <4>1. \A n \in DOMAIN disk : n <= current_seg
        BY Zenon DEF Files
      <4>2. stage' \notin {"create", "snapshot", "remove"} /\ stage # "snapshot"
        BY <3>1, ZenonT(30)
      <4>3. (\A n \in DOMAIN disk :
                IF stage = "flush" /\ n = wseg
                THEN /\ WithoutLast(disk[n]) \in Seq(Records)
                     /\ disk[n] = Append(WithoutLast(disk[n]), Torn)
                ELSE disk[n] \in Seq(Records))'
        BY <3>1, <3>4, <3>5, <3>6, <3>7, Zenon
      <4>4. DOMAIN disk \subseteq Nat /\ current_seg \in DOMAIN disk /\ wseg = current_seg
        BY <4>2, Zenon DEF Files
      <4> QED  BY <3>1, <3>2, <3>4, <4>1, <4>2, <4>3, <4>4, ZenonT(30) DEF Files
    <3>9. \A n \in DOMAIN disk : FileRecords(n)' = FileRecords(n)
      <4>1. ASSUME NEW n \in DOMAIN disk, n # wseg
            PROVE  FileRecords(n)' = FileRecords(n)
        BY <3>4, <4>1, Zenon DEF FileRecords
      <4>2. ASSUME NEW n, n = wseg
            PROVE  FileRecords(n)' = FileRecords(n)
        BY <3>6, <3>7, <4>2, Zenon DEF FileRecords
      <4> QED  BY <4>1, <4>2, Zenon
    <3> QED  BY <3>4, <3>8, <3>9, Zenon DEF NothingNew
  <2>CreateSteps. ASSUME LogTyped, Files, Rotate \/ CreateSnapshot \/ OpenLive
                  PROVE  Files' /\ NothingNew /\ \A n \in DOMAIN disk : disk'[n] = disk[n]
    <3> USE <2>CreateSteps
    <3>CreateStep. ASSUME stage # "flush", stage' # "flush",
                          disk' = Created(disk, current_seg + 1) \/ disk' = Created(Flushed, current_seg + 1)
                   PROVE  /\ NothingNew /\ DOMAIN disk' = DOMAIN disk \cup {current_seg + 1}
                          /\ current_seg \in Nat /\ \A n \in DOMAIN disk : n \in Nat /\ n < current_seg + 1
                          /\ \A n \in DOMAIN disk : disk'[n] = disk[n]
                          /\ \A n \in DOMAIN disk' : disk'[n] \in Seq(Records)
      <4> USE <3>CreateStep
      <4>1. /\ current_seg \in Nat /\ wseg \in DOMAIN disk /\ wbuf = <<>>
            /\ \A n \in DOMAIN disk : n \in Nat /\ n <= current_seg
        BY Zenon DEF Files
      <4>2. \A n \in DOMAIN disk : disk[n] \in Seq(Records) /\ FileRecords(n) = Range(disk[n])
        BY <1>FileIs, Zenon
      <4>3. disk = [n \in DOMAIN disk |-> disk[n]]
        BY Zenon DEF LogTyped
      <4>4. Flushed = disk
        <5>1. disk[wseg] \o wbuf = disk[wseg]
          BY <4>1, <4>2, SMTT(30), Z3T(30)
        <5>2. Flushed = [disk EXCEPT ![wseg] = disk[wseg] \o wbuf]
          BY Zenon DEF Flushed
        <5>3. Flushed = [disk EXCEPT ![wseg] = disk[wseg]]
          BY <5>1, <5>2, Zenon
        <5> QED  BY <4>3, <5>3, Zenon
      <4>5. disk' = Created(disk, current_seg + 1)
        BY <4>4, Zenon
      <4>6. \A n \in DOMAIN disk : n # current_seg + 1 /\ n < current_seg + 1
        BY <4>1, SMTT(30), Z3T(30)
      <4> DEFINE e == <<>>
      <4>7. e \in Seq(Records) /\ Range(e) = {}
        BY SMT, Z3 DEF Range
      <4> HIDE DEF e
      <4>8. /\ DOMAIN disk' = DOMAIN disk \cup {current_seg + 1}
            /\ \A n \in DOMAIN disk : disk'[n] = disk[n]
            /\ \A n \in DOMAIN disk' : n \in DOMAIN disk \/ disk'[n] = e
        BY <4>5, <4>6, Zenon DEF Created, e
      <4>9. \A n \in DOMAIN disk' : disk'[n] \in Seq(Records) /\ FileRecords(n)' = Range(disk'[n])
        <5>1. \A n \in DOMAIN disk' : disk'[n] \in Seq(Records)
          BY <4>2, <4>7, <4>8, Zenon
        <5> QED  BY <5>1, ReplayWhole, Zenon DEF FileRecords
      <4>10. NothingNew
        BY <4>2, <4>7, <4>8, <4>9, Zenon DEF NothingNew
      <4> QED  BY <4>1, <4>6, <4>8, <4>9, <4>10, Zenon
    <3>1. /\ \/ stage = "rotate" /\ stage' = "write" /\ wseg' = current_seg + 1
             \/ /\ stage = "create" /\ stage' = "snapshot" /\ wseg' = wseg
             \/ stage = "snapshot" /\ stage' = "remove" /\ wseg' = current_seg + 1
          /\ current_seg' = current_seg + 1 /\ UNCHANGED <<arg, old_segs>>
          /\ disk' = Created(disk, current_seg + 1) \/ disk' = Created(Flushed, current_seg + 1)
      BY Zenon DEF Rotate, CreateSnapshot, OpenLive
    <3>2. stage # "flush" /\ stage' # "flush" /\ stage' # "create"
      BY <3>1, ZenonT(30)
    <3>3. /\ NothingNew /\ DOMAIN disk' = DOMAIN disk \cup {current_seg + 1}
          /\ current_seg \in Nat /\ \A n \in DOMAIN disk : n \in Nat /\ n < current_seg + 1
          /\ \A n \in DOMAIN disk : disk'[n] = disk[n]
          /\ \A n \in DOMAIN disk' : disk'[n] \in Seq(Records)
      BY <3>1, <3>2, <3>CreateStep, Zenon
    <3>w. wbuf' = <<>>
      BY <3>2, Zenon DEF Rotate, CreateSnapshot, OpenLive, Files
    <3>4. DOMAIN disk' \subseteq Nat /\ current_seg' \in DOMAIN disk'
          /\ \A n \in DOMAIN disk' : n <= current_seg'
      BY <3>1, <3>3, SMTT(30), Z3T(30)
    <3>5. wseg' \in DOMAIN disk' /\ (stage' # "snapshot" => wseg' = current_seg')
      <4>1. wseg \in DOMAIN disk
        BY Zenon DEF Files
      <4> QED  BY <3>1, <3>3, <4>1, ZenonT(30)
    <3>6. stage' = "snapshot" => /\ DOMAIN disk' = old_segs' \cup {current_seg'}
                                 /\ \A m \in old_segs' : m < current_seg'
      <4>1. stage' = "snapshot" => stage = "create"
        BY <3>1, ZenonT(30)
      <4>2. stage = "create" => old_segs = DOMAIN disk
        BY Zenon DEF Files
      <4> QED  BY <3>1, <3>3, <4>1, <4>2, ZenonT(30)
    <3>7. stage' = "remove" => /\ DOMAIN disk' = old_segs' \cup {current_seg' - 1, current_seg'}
                               /\ \A m \in old_segs' : m < current_seg' - 1
      <4>1. stage' = "remove" => stage = "snapshot"
        BY <3>1, ZenonT(30)
      <4>2. stage = "snapshot" => /\ DOMAIN disk = old_segs \cup {current_seg}
                                  /\ \A m \in old_segs : m < current_seg
        BY Zenon DEF Files
      <4>3. current_seg' - 1 = current_seg
        BY <3>1, <3>3, SMTT(30), Z3T(30)
      <4> QED  BY <3>1, <3>3, <4>1, <4>2, <4>3, ZenonT(30)
    <3>8. Files'
      BY <3>2, <3>3, <3>4, <3>5, <3>6, <3>7, <3>w, ZenonT(30) DEF Files
    <3> QED  BY <3>3, <3>8, Zenon
  <2>1. /\ UNCHANGED <<entries, global_version, call, pc, snap, unread, possible, up>>
        /\ \/ stage = "rotate" /\ stage' = "write"
           \/ stage = "write" /\ stage' = "flush"
           \/ stage = "create" /\ stage' = "snapshot"
           \/ stage = "snapshot" /\ stage' = "remove"
           \/ stage = "remove" /\ stage' = "compacted"
        /\ UNCHANGED arg
    BY ZenonT(30) DEF memVars, ctlVars, histVars, Rotate, WriteRecord, CreateSnapshot, OpenLive, CompactDone
  <2>p. /\ stage \in {"rotate", "write"} /\ stage' \in {"rotate", "write", "flush"} => pc[w] = "append"
        /\ \/ pc[w] = "append" /\ stage \in {"rotate", "write"}
           \/ pc[w] = "compact" /\ stage \in {"create", "snapshot", "remove"}
        /\ Unwritten(w)' <=> Unwritten(w)
    BY <2>1, SMT, Z3 DEF Durable, Waits, Unwritten
  <2>2. Files' /\ NothingNew
    <3>1. LogTyped /\ Files
      BY Zenon DEF Typed, Durable
    <3>2. CASE Rotate \/ CreateSnapshot \/ OpenLive
      BY <3>1, <3>2, <2>CreateSteps, Zenon
    <3>3. CASE WriteRecord
      BY <3>1, <3>3, <2>WriteStep, Zenon
    <3>4. CASE CompactDone
      <4>1. /\ UNCHANGED <<disk, current_seg, wseg, wbuf>> /\ stage = "remove" /\ stage' = "compacted"
        BY <3>4, Zenon DEF CompactDone
      <4>2. stage # "flush" /\ stage # "snapshot" /\ stage' \in {"none", "rotate", "write", "compacted"}
        BY <4>1, SMT, Z3
      <4> QED  BY <3>1, <4>1, <4>2, FilesKept, Zenon
    <3> QED  BY <3>2, <3>3, <3>4, Zenon
  <2>3. Ordered' /\ Newer(w)' /\ AllCurrent(w)' /\ Effect(w)' /\ Possible(w)'
    BY <2>1, <2>2, <2>p, MemoryKept, Zenon
  <2>4. Gathered(w)'
    BY <2>1, Zenon DEF Gathered, FromEntries, Holds, SnapRecord, Durable
  <2>5. Waits(w)'
    <3>1. Change(w)' = Change(w)
      BY <2>1, Zenon DEF Change
    <3> QED  BY <2>1, <2>p, <3>1, Zenon DEF Waits, Durable
  <2>6. Copied'
    <3>s. \A k : SnapRecord(k)' = SnapRecord(k)
      BY <2>1, Zenon DEF SnapRecord
    <3>1. CASE CreateSnapshot
      <4>1. stage = "create" /\ stage' = "snapshot" /\ UNCHANGED todo
        BY <3>1, Zenon DEF CreateSnapshot
      <4>2. /\ stage \in {"create", "snapshot"} /\ stage' # "create" /\ stage' # "remove"
        BY <4>1, SMT, Z3
      <4>3. FromEntries(todo) /\ \A k \in Keys : Holds(todo, k)
        BY <4>1, <4>2, Zenon DEF Copied, Durable
      <4>4. FromEntries(todo)' /\ \A k \in Keys : Holds(todo \cup Range(disk[current_seg]), k)'
        BY <2>1, <3>s, <4>1, <4>3, Zenon DEF FromEntries, Holds
      <4> QED  BY <4>2, <4>4, Zenon DEF Copied
    <3>2. CASE OpenLive
      <4>1. /\ stage = "snapshot" /\ stage' = "remove" /\ todo = {} /\ current_seg' = current_seg + 1
        BY <3>2, Zenon DEF OpenLive
      <4>n. current_seg \in DOMAIN disk /\ current_seg \in Nat
        BY Zenon DEF Durable, Files
      <4>2. /\ stage' # "create" /\ stage' # "snapshot" /\ current_seg' - 1 = current_seg
            /\ current_seg \in DOMAIN disk
        BY <4>1, <4>n, SMTT(30), Z3T(30)
      <4>3. disk'[current_seg] = disk[current_seg]
        BY <3>2, <4>2, <2>CreateSteps, Zenon DEF Typed, Durable
      <4>4. \A k \in Keys : Holds(todo \cup Range(disk[current_seg]), k)
        BY <4>1, Zenon DEF Copied, Durable
      <4>5. \A k \in Keys : Holds(Range(disk[current_seg - 1]), k)'
        BY <2>1, <3>s, <4>1, <4>2, <4>3, <4>4, ZenonT(30) DEF Holds
      <4>6. stage' \notin {"create", "snapshot"}
        BY <4>1, ZenonT(30)
      <4> QED  BY <4>2, <4>5, <4>6, Zenon DEF Copied
    <3>3. CASE Rotate \/ WriteRecord \/ CompactDone
      <4>1. stage' \in {"write", "flush", "compacted"}
        BY <3>3, Zenon DEF Rotate, WriteRecord, CompactDone
      <4> QED  BY <4>1, ZenonT(30) DEF Copied
    <3> QED  BY <3>1, <3>2, <3>3, Zenon
  <2> QED  BY <2>2, <2>3, <2>4, <2>5, <2>6, Zenon DEF Durable
\* A record of the snapshot is one the key shows already.
<1>SnapshotDurable. ASSUME up, WriteSnapshot, UNCHANGED <<memVars, ctlVars, histVars>>
                    PROVE  Durable(w)'
  <2> USE <1>SnapshotDurable
  <2>SnapshotStep. ASSUME LogTyped, Files
                   PROVE  /\ Files' /\ UNCHANGED <<current_seg, stage, arg>> /\ current_seg \in DOMAIN disk
                          /\ \E e \in todo : /\ e \in Records /\ NewRecord(e) /\ todo' = todo \ {e}
                                             /\ Range(disk'[current_seg]) = Range(disk[current_seg]) \cup {e}
    <3> USE <2>SnapshotStep
    <3>1. PICK e \in todo : disk' = [disk EXCEPT ![current_seg] = Append(disk[current_seg], e)]
                            /\ todo' = todo \ {e}
      BY Zenon DEF WriteSnapshot
    <3>2. stage = "snapshot" /\ UNCHANGED <<current_seg, wseg, wbuf, stage, arg, old_segs>>
      BY Zenon DEF WriteSnapshot
    <3>3. /\ stage # "flush" /\ stage # "create" /\ stage # "remove"
          /\ current_seg \in DOMAIN disk /\ e \in Records
      BY <3>2, ZenonT(30) DEF Files, LogTyped
    <3>4. disk = [n \in DOMAIN disk |-> disk[n]]
      BY Zenon DEF LogTyped
    <3> DEFINE s == disk[current_seg]
    <3>5. \A n \in DOMAIN disk : disk[n] \in Seq(Records) /\ FileRecords(n) = Range(disk[n])
      BY <3>3, <1>FileIs, Zenon
    <3>6. s \in Seq(Records) /\ FileRecords(current_seg) = Range(s)
      BY <3>3, <3>5, Zenon
    <3> HIDE DEF s
    <3>7. /\ DOMAIN disk' = DOMAIN disk /\ disk'[current_seg] = Append(s, e)
          /\ \A n \in DOMAIN disk : n # current_seg => disk'[n] = disk[n]
      BY <3>1, <3>3, <3>4, Zenon DEF s
    <3>8. disk'[current_seg] \in Seq(Records) /\ Range(disk'[current_seg]) = Range(s) \cup {e}
      BY <3>3, <3>6, <3>7, <1>SeqFacts, Zenon
    <3>9. \A n \in DOMAIN disk' : disk'[n] \in Seq(Records) /\ FileRecords(n)' = Range(disk'[n])
      <4>1. \A n \in DOMAIN disk' : disk'[n] \in Seq(Records)
        BY <3>5, <3>7, <3>8, Zenon
      <4> QED  BY <4>1, ReplayWhole, Zenon DEF FileRecords
    <3>10. NewRecord(e)
      BY <3>5, <3>6, <3>7, <3>8, <3>9, Zenon DEF NewRecord
    <3>11. Files'
      <4>1. /\ DOMAIN disk \subseteq Nat /\ current_seg \in DOMAIN disk
            /\ \A n \in DOMAIN disk : n <= current_seg
            /\ wseg \in DOMAIN disk /\ wbuf = <<>>
            /\ DOMAIN disk = old_segs \cup {current_seg}
            /\ \A m \in old_segs : m < current_seg
        BY <3>2, <3>3, Zenon DEF Files
      <4> QED  BY <3>2, <3>3, <3>7, <3>9, <4>1, Zenon DEF Files
    <3> QED  BY <3>1, <3>2, <3>3, <3>8, <3>10, <3>11, Zenon DEF s
  <2>1. /\ UNCHANGED <<entries, global_version, call, pc, snap, unread, possible, up, stage, arg, current_seg>>
        /\ stage = "snapshot"
    BY Zenon DEF memVars, ctlVars, histVars, WriteSnapshot
  <2>2. /\ Files'
        /\ \E e \in todo : /\ e \in Records /\ NewRecord(e) /\ todo' = todo \ {e}
                           /\ Range(disk'[current_seg]) = Range(disk[current_seg]) \cup {e}
    BY <2>SnapshotStep, Zenon DEF Typed, Durable
  <2>3. PICK e \in todo : /\ e \in Records /\ NewRecord(e) /\ todo' = todo \ {e}
                          /\ Range(disk'[current_seg]) = Range(disk[current_seg]) \cup {e}
    BY <2>2, ZenonT(30)
  <2>p. /\ pc[w] = "compact" /\ pc[w] \notin {"diff", "insert"} /\ ~Unwritten(w) /\ ~Unwritten(w)'
        /\ stage \in {"create", "snapshot"} /\ stage' # "create" /\ stage' # "remove"
        /\ stage' = "snapshot"
    BY <2>1, ZenonT(30) DEF Durable, Waits, Unwritten
  <2>c. /\ FromEntries(todo) /\ \A k \in Keys : Holds(todo \cup Range(disk[current_seg]), k)
    BY <2>1, <2>p, Zenon DEF Copied, Durable
  <2>4. /\ entries[e.key] # Absent /\ e = SnapRecord(e.key) /\ e.key \in Keys
    BY <2>3, <2>c, Zenon DEF FromEntries, Records
  <2>5. e.version = entries[e.key].version /\ e.value = entries[e.key].value
    BY <2>4, SMT, Z3 DEF SnapRecord, LogEntry
  <2>6. \A r \in Replayed : r.key = e.key => r.version <= e.version
    BY <2>4, <2>5, Zenon DEF Newer, Durable
  <2>7. Ordered' /\ Replayed' = Replayed \cup {e}
        /\ Shown(e.key)' = e.value /\ \A l : l # e.key => Shown(l)' = Shown(l)
    BY <2>3, <2>6, <1>OrderedNew, <1>NewShown, Zenon DEF Durable
  <2>8. \A l \in Keys : Current(l)
    BY <2>p, Zenon DEF AllCurrent, Durable
  <2>9. \A l \in Keys : Shown(l)' = Shown(l)
    <3>1. Shown(e.key) = entries[e.key].value
      BY <2>4, <2>8, Zenon DEF Current
    <3> QED  BY <2>5, <2>7, <3>1, Zenon
  <2>10. Newer(w)'
    <3>1. \A r \in Replayed : entries[r.key] # Absent => r.version <= entries[r.key].version
      BY Zenon DEF Newer, Durable
    <3>2. e.version <= entries[e.key].version
      <4>1. e.version \in Nat
        BY <2>3, Zenon DEF Records
      <4> QED  BY <2>5, <4>1, SMTT(30), Z3T(30)
    <3> QED  BY <2>1, <2>7, <2>p, <3>1, <3>2, ZenonT(30) DEF Newer
  <2>11. AllCurrent(w)'
    BY <2>1, <2>8, <2>9, Zenon DEF AllCurrent, Current
  <2>12. Effect(w)' /\ Gathered(w)'
    BY <2>1, Zenon DEF Effect, Gathered, FromEntries, Holds, SnapRecord, Durable
  <2>13. Possible(w)'
    BY <2>1, <2>9, ZenonT(30) DEF Possible, Durable
  <2>14. Waits(w)'
    BY <2>1, <2>p, ZenonT(30) DEF Waits
  <2>15. Copied'
    <3>s. \A k : SnapRecord(k)' = SnapRecord(k)
      BY <2>1, Zenon DEF SnapRecord
    <3>1. FromEntries(todo)' /\ \A k \in Keys : Holds(todo \cup Range(disk[current_seg]), k)'
      BY <2>1, <2>3, <2>c, <3>s, Zenon DEF FromEntries, Holds
    <3> QED  BY <2>p, <3>1, Zenon DEF Copied
  <2> QED  BY <2>2, <2>7, <2>10, <2>11, <2>12, <2>13, <2>14, <2>15, ZenonT(30) DEF Durable
\* A file goes once the snapshot holds every entry of memory.
<1>RemoveDurable. ASSUME up, RemoveOld, UNCHANGED <<memVars, ctlVars, histVars>>
                  PROVE  Durable(w)'
  <2> USE <1>RemoveDurable
  <2>RemoveStep. ASSUME LogTyped, Files
                 PROVE  /\ Files' /\ OldestGone(Min(old_segs)) /\ UNCHANGED <<current_seg, stage, arg, todo>>
                        /\ Min(old_segs) \in DOMAIN disk
                        /\ current_seg - 1 \in DOMAIN disk' /\ disk'[current_seg - 1] = disk[current_seg - 1]
    <3> USE <2>RemoveStep
    <3> DEFINE m == Min(old_segs)
    <3>1. /\ stage = "remove" /\ old_segs # {} /\ UNCHANGED <<current_seg, wseg, wbuf, stage, arg, todo>>
          /\ disk' = [n \in DOMAIN disk \ {m} |-> disk[n]] /\ old_segs' = old_segs \ {m}
      BY Zenon DEF RemoveOld
    <3>2. stage # "flush" /\ stage # "create" /\ stage # "snapshot"
      BY <3>1, ZenonT(30)
    <3>3. /\ DOMAIN disk \subseteq Nat /\ current_seg \in DOMAIN disk /\ current_seg \in Nat
          /\ \A n \in DOMAIN disk : n <= current_seg
          /\ wseg = current_seg /\ wbuf = <<>>
          /\ DOMAIN disk = old_segs \cup {current_seg - 1, current_seg}
          /\ \A n \in old_segs : n < current_seg - 1
      BY <3>1, <3>2, Zenon DEF Files
    <3>4. old_segs \in SUBSET Nat
      BY <3>3, Zenon
    <3>5. m \in old_segs /\ \A n \in old_segs : m <= n
      BY <3>1, <3>4, MinExists, Zenon
    <3> HIDE DEF m
    <3>6. m < current_seg - 1 /\ m < current_seg /\ m # current_seg - 1 /\ m # current_seg /\ m \in Nat
      BY <3>3, <3>4, <3>5, SMTT(30), Z3T(30)
    <3>7. /\ DOMAIN disk' = DOMAIN disk \ {m} /\ \A n \in DOMAIN disk' : disk'[n] = disk[n]
      BY <3>1, ZenonT(30)
    <3>8. \A n \in DOMAIN disk' : m < n
      BY <3>3, <3>4, <3>5, <3>6, <3>7, SMTT(30), Z3T(30)
    <3>9. \A n \in DOMAIN disk' : FileRecords(n)' = FileRecords(n)
      BY <3>7, Zenon DEF FileRecords
    <3>10. \A n \in DOMAIN disk' : disk'[n] \in Seq(Records)
      <4>1. \A n \in DOMAIN disk : disk[n] \in Seq(Records)
        BY <3>2, <1>FileIs, Zenon
      <4> QED  BY <3>7, <4>1, Zenon
    <3>11. Files'
      <4>1. DOMAIN disk' = old_segs' \cup {current_seg - 1, current_seg}
        BY <3>1, <3>3, <3>6, <3>7, Zenon
      <4> QED  BY <3>1, <3>2, <3>3, <3>6, <3>7, <3>10, <4>1, ZenonT(30) DEF Files
    <3> QED  BY <3>1, <3>3, <3>5, <3>6, <3>7, <3>8, <3>9, <3>11, ZenonT(30) DEF OldestGone, m
  \* ... and a key of which a record is left when the oldest file goes shows what it did.
  <2>GoneShown. ASSUME Files, Ordered, NEW m \in DOMAIN disk, OldestGone(m)
                PROVE  /\ Replayed' \subseteq Replayed
                       /\ \A k : RecordsOf(k)' # {} => Shown(k)' = Shown(k)
                       /\ \A k : RecordsOf(k)' = {} => Shown(k)' = Absent
    <3> USE <2>GoneShown
    <3>1. ASSUME NEW r, r \in Replayed'
          PROVE  r \in Replayed
      <4>1. PICK n \in DOMAIN disk' : r \in FileRecords(n)'
        BY <3>1, ReplayedAre, Zenon
      <4>2. n \in DOMAIN disk /\ r \in FileRecords(n)
        BY <4>1, Zenon DEF OldestGone
      <4> QED  BY <4>2, ReplayedAre, Zenon
    <3>2. ASSUME NEW k, RecordsOf(k)' # {}
          PROVE  Shown(k)' = Shown(k)
      <4> DEFINE S == RecordsOf(k)
                 T == RecordsOf(k)'
                 b == Best(T)
      <4>1. Agree(S) /\ Agree(T)
        BY Zenon DEF Readable
      <4>2. b \in T /\ \A s \in T : s.version <= b.version
        <5> HIDE DEF S, T
        <5> QED  BY <3>2, <4>1, BestIs, Zenon DEF T
      <4>3. T \subseteq S
        BY <3>1, Zenon DEF RecordsOf
      <4> HIDE DEF b
      <4>4. \A s \in S : s \in T \/ s.version <= b.version
        <5> SUFFICES ASSUME NEW s \in S, s \notin T PROVE s.version <= b.version
          BY Zenon
        <5>1. s \in Replayed /\ s.key = k /\ s \notin Replayed' /\ b \in Replayed' /\ b.key = k
          BY <4>2, Zenon DEF RecordsOf
        <5>2. PICK n \in DOMAIN disk' : b \in FileRecords(n)'
          BY <5>1, ReplayedAre, Zenon
        <5>3. n \in DOMAIN disk /\ m < n /\ b \in FileRecords(n)
          BY <5>2, Zenon DEF OldestGone
        <5>4. s \in FileRecords(m)
          <6>1. PICK j \in DOMAIN disk : s \in FileRecords(j)
            BY <5>1, ReplayedAre, Zenon
          <6>2. j \in DOMAIN disk' => s \in FileRecords(j)'
            BY <6>1, Zenon DEF OldestGone
          <6>3. j \notin DOMAIN disk'
            BY <5>1, <6>2, ReplayedAre, Zenon
          <6> QED  BY <6>1, <6>3, Zenon DEF OldestGone
        <5> QED  BY <5>1, <5>3, <5>4, Zenon DEF Ordered
      <4>5. \A s \in S : s.version <= b.version
        BY <4>2, <4>4, Zenon
      <4> HIDE DEF S, T
      <4>6. ValueOf(Best(S)) = b.value /\ ValueOf(Best(T)) = b.value
        BY <4>1, <4>2, <4>3, <4>5, <1>BestValue, Zenon
      <4> QED  BY <4>6, Zenon DEF Shown, S, T
    <3>3. ASSUME NEW k, RecordsOf(k)' = {}
          PROVE  Shown(k)' = Absent
      <4> DEFINE T == RecordsOf(k)'
      <4>1. T = {}
        BY <3>3, Zenon
      <4> HIDE DEF T
      <4>2. ValueOf(Best(T)) = Absent
        BY <4>1, Zenon DEF Best, ValueOf
      <4> QED  BY <4>2, Zenon DEF Shown, T
    <3> QED  BY <3>1, <3>2, <3>3, Zenon
  <2>1. /\ UNCHANGED <<entries, global_version, call, pc, snap, unread, possible, up, stage, arg, todo, current_seg>>
        /\ stage = "remove"
    BY Zenon DEF memVars, ctlVars, histVars, RemoveOld
  <2>m. PICK m : m = Min(old_segs)
    BY Zenon
  <2>2. /\ Files' /\ OldestGone(m) /\ m \in DOMAIN disk
        /\ current_seg - 1 \in DOMAIN disk' /\ disk'[current_seg - 1] = disk[current_seg - 1]
    BY <2>m, <2>RemoveStep, ZenonT(30) DEF Typed, Durable
  <2>p. /\ pc[w] = "compact" /\ pc[w] \notin {"diff", "insert"} /\ ~Unwritten(w) /\ ~Unwritten(w)'
        /\ stage' \notin {"create", "snapshot"} /\ stage' # "create" /\ stage' # "snapshot"
    BY <2>1, Zenon DEF Durable, Waits, Unwritten
  <2>c. \A k \in Keys : Holds(Range(disk[current_seg - 1]), k)
    BY <2>1, Zenon DEF Copied, Durable
  <2>3. Ordered'
    <3> SUFFICES ASSUME NEW i \in DOMAIN disk', NEW j \in DOMAIN disk', i < j,
                        NEW r \in FileRecords(i)', NEW s \in FileRecords(j)', r.key = s.key
                 PROVE  r.version <= s.version
      BY Zenon DEF Ordered
    <3>1. /\ i \in DOMAIN disk /\ r \in FileRecords(i) /\ j \in DOMAIN disk /\ s \in FileRecords(j)
      BY <2>2, Zenon DEF OldestGone
    <3> QED  BY <3>1, Zenon DEF Ordered, Durable
  <2>4. /\ Replayed' \subseteq Replayed
        /\ \A k : RecordsOf(k)' # {} => Shown(k)' = Shown(k)
        /\ \A k : RecordsOf(k)' = {} => Shown(k)' = Absent
    BY <2>2, <2>GoneShown, Zenon DEF Durable
  <2>5. ASSUME NEW k \in Keys, entries[k] # Absent
        PROVE  RecordsOf(k)' # {}
    <3>1. SnapRecord(k) \in Range(disk'[current_seg - 1])
      BY <2>2, <2>c, <2>5, Zenon DEF Holds
    <3>2. disk'[current_seg - 1] \in Seq(Records)
      <4>1. stage' # "flush"
        BY <2>1, ZenonT(30)
      <4> QED  BY <2>2, <4>1, Zenon DEF Files
    <3>3. ReplaySegment(disk'[current_seg - 1]) = disk'[current_seg - 1]
      BY <3>2, ReplayWhole, Zenon
    <3>n. PICK n : n = current_seg - 1
      BY Zenon
    <3>4. SnapRecord(k) \in FileRecords(n)' /\ n \in DOMAIN disk'
      BY <2>2, <3>1, <3>3, <3>n, Zenon DEF FileRecords
    <3>5. SnapRecord(k) \in Replayed'
      BY <3>4, ReplayedAre, Zenon
    <3>6. SnapRecord(k).key = k
      BY ZenonT(30) DEF SnapRecord, LogEntry
    <3> QED  BY <3>5, <3>6, Zenon DEF RecordsOf
  <2>6. \A k \in Keys : Current(k)
    BY <2>p, Zenon DEF AllCurrent, Durable
  <2>7. \A k \in Keys : Current(k)'
    <3>1. ASSUME NEW k \in Keys, entries[k] # Absent
          PROVE  Current(k)'
      BY <2>1, <2>4, <2>5, <2>6, <3>1, Zenon DEF Current
    <3>2. ASSUME NEW k \in Keys, entries[k] = Absent
          PROVE  Current(k)'
      BY <2>1, <2>4, <2>6, <3>2, Zenon DEF Current
    <3> QED  BY <3>1, <3>2, Zenon
  <2>8. AllCurrent(w)'
    BY <2>7, Zenon DEF AllCurrent
  <2>9. Newer(w)'
    <3>1. \A r \in Replayed : entries[r.key] # Absent => r.version <= entries[r.key].version
      BY Zenon DEF Newer, Durable
    <3> QED  BY <2>1, <2>4, <2>p, <3>1, Zenon DEF Newer
  <2>10. Effect(w)' /\ Gathered(w)'
    BY <2>1, Zenon DEF Effect, Gathered, FromEntries, Holds, SnapRecord, Durable
  <2>11. Possible(w)'
    <3>1. ASSUME NEW k \in Keys
          PROVE  Shown(k)' \in possible[k]
      <4>1. CASE RecordsOf(k)' # {}
        BY <2>4, <4>1, Zenon DEF Possible, Durable
      <4>2. CASE RecordsOf(k)' = {}
        <5>1. entries[k] = Absent
          BY <2>5, <4>2, ZenonT(30)
        <5> QED  BY <2>4, <4>2, <5>1, Zenon DEF Possible, Durable
      <4> QED  BY <4>1, <4>2, Zenon
    <3> QED  BY <2>1, <3>1, Zenon DEF Possible, Durable
  <2>12. Waits(w)'
    BY <2>1, <2>p, Zenon DEF Waits
  <2>13. Copied'
    <3>1. \A k \in Keys : Holds(Range(disk[current_seg - 1]), k)'
      BY <2>1, <2>2, <2>c, Zenon DEF Holds, SnapRecord
    <3> QED  BY <2>p, <3>1, Zenon DEF Copied
  <2> QED  BY <2>2, <2>3, <2>8, <2>9, <2>10, <2>11, <2>12, <2>13, ZenonT(30) DEF Durable
<1>1. up /\ LogStep /\ UNCHANGED <<memVars, ctlVars, histVars>>
  BY Zenon DEF LogOp
<1>2. CASE Rotate \/ WriteRecord \/ CreateSnapshot \/ OpenLive \/ CompactDone
  BY <1>1, <1>2, <1>NothingNewDurable, Zenon
<1>3. CASE FlushRecord
  BY <1>1, <1>3, <1>FlushDurable, Zenon
<1>4. CASE WriteSnapshot
  BY <1>1, <1>4, <1>SnapshotDurable, ZenonT(30)
<1>5. CASE RemoveOld
  BY <1>1, <1>5, <1>RemoveDurable, Zenon
<1> QED  BY <1>1, <1>2, <1>3, <1>4, <1>5, Zenon DEF LogStep

LEMMA NextDurable ==
    ASSUME NEW w, Writers = {w}, MaxIoErrors = 0, errors = 0,
           Typed, SoloInv, Readable, Readable', Durable(w), [Next]_vars
    PROVE  Durable(w)'
\* The writer's steps between two operations of the log.
<1>IdleLog. ASSUME UNCHANGED logVars, up, up', pc[w] \notin {"append", "compact"},
                   pc'[w] \notin {"append", "compact"}
            PROVE  /\ Files' /\ Ordered' /\ Waits(w)' /\ Copied'
                   /\ Replayed' = Replayed /\ \A k : Shown(k)' = Shown(k)
                   /\ Unwritten(w) <=> pc[w] \in {"bump", "delta", "plog"}
                   /\ Unwritten(w)' <=> pc'[w] \in {"bump", "delta", "plog"}
  <2> USE <1>IdleLog
  <2>1. stage = "none" /\ UNCHANGED <<disk, current_seg, wseg, wbuf, stage, arg, todo, old_segs>>
    BY Zenon DEF Durable, Waits, logVars
  <2>2. Files' /\ NothingNew
    BY <2>1, FilesKept, Zenon DEF Durable
  <2>3. Ordered' /\ Replayed' = Replayed /\ \A k : Shown(k)' = Shown(k)
    BY <2>2, OrderedKept, SameShown, Zenon DEF Durable
  <2>4. stage' = "none" /\ stage' \notin {"create", "snapshot", "remove"}
    BY <2>1, Zenon
  <2>5. Waits(w)' /\ Copied'
    BY <2>4, Zenon DEF Waits, Copied
  <2>6. /\ Unwritten(w) <=> pc[w] \in {"bump", "delta", "plog"}
        /\ Unwritten(w)' <=> pc'[w] \in {"bump", "delta", "plog"}
    BY <2>1, <2>4, Zenon DEF Unwritten
  <2> QED  BY <2>2, <2>3, <2>5, <2>6, Zenon
<1>ApplyDurable. ASSUME NEW k \in Keys, NEW v \in AllValues, Apply(w, k, v)
                 PROVE  Durable(w)'
  <2> USE <1>ApplyDurable
  <2>1. /\ up /\ pc[w] = "idle" /\ pc'[w] = "diff" /\ UNCHANGED <<logVars, entries, snap, up>>
        /\ global_version' = global_version + 1
        /\ possible' = [possible EXCEPT ![k] = possible[k] \cup {v}]
        /\ call'[w] = [op |-> "set", key |-> k, value |-> v, version |-> global_version + 1,
                       from |-> Absent, alone |-> TRUE]
    BY Zenon DEF Apply, Goto, Began, Typed
  <2>u. up'
    BY <2>1, ZenonT(30)
  <2>p. /\ pc[w] \notin {"append", "compact", "bump", "delta", "plog", "snap"}
        /\ pc'[w] \notin {"append", "compact", "bump", "delta", "plog", "snap"}
        /\ pc'[w] \in {"idle", "diff", "insert"}
    BY <2>1, ZenonT(30)
  <2>2. /\ Files' /\ Ordered' /\ Waits(w)' /\ Copied'
        /\ Replayed' = Replayed /\ \A l : Shown(l)' = Shown(l) /\ ~Unwritten(w) /\ ~Unwritten(w)'
    BY <2>1, <2>u, <2>p, <1>IdleLog, Zenon
  <2>3. Newer(w)'
    <3>1. \A r \in Replayed : r.version < global_version'
      BY <2>1, NextIsGreater, Zenon DEF Typed, Readable
    <3> QED  BY <2>1, <2>2, <3>1, ZenonT(30) DEF Newer, Durable
  <2>4. AllCurrent(w)'
    BY <2>1, <2>2, Zenon DEF AllCurrent, Current, Durable
  <2>5. Effect(w)' /\ Gathered(w)'
    BY <2>1, <2>p, Zenon DEF Effect, Gathered, Durable
  <2>6. Possible(w)'
    <3>1. /\ DOMAIN possible = Keys /\ \A l \in Keys : Shown(l) \in possible[l]
          /\ \A l \in Keys : entries[l] = Absent => Absent \in possible[l]
      BY <2>1, Zenon DEF Possible, Durable
    <3>2. DOMAIN possible' = Keys /\ v \in possible'[k] /\ \A l \in Keys : possible[l] \subseteq possible'[l]
      BY <2>1, <3>1, ZenonT(30)
    <3>3. call'[w].op = "set" /\ call'[w].value = v /\ call'[w].key = k
      <4>1. call'[w] = [op |-> "set", key |-> k, value |-> v, version |-> global_version + 1,
                        from |-> Absent, alone |-> TRUE]
        BY <2>1, Zenon
      <4> QED  BY <4>1, SMT, Z3
    <3>4. call'[w].op # "delete"
      BY <3>3, ZenonT(30)
    <3> QED  BY <2>1, <2>2, <3>1, <3>2, <3>3, <3>4, Zenon DEF Possible
  <2> QED  BY <2>2, <2>3, <2>4, <2>5, <2>6, Zenon DEF Durable
<1>DeleteDurable. ASSUME NEW k \in Keys, Delete(w, k)
                  PROVE  Durable(w)'
  <2> USE <1>DeleteDurable
  <2>1. /\ up /\ pc[w] = "idle" /\ UNCHANGED <<logVars, global_version, snap, up>>
        /\ pc'[w] = IF entries[k] = Absent THEN "return" ELSE "bump"
        /\ entries' = [entries EXCEPT ![k] = Absent]
        /\ possible' = [possible EXCEPT ![k] = possible[k] \cup {Absent, Null}]
        /\ call'[w] = [op |-> "delete", key |-> k, value |-> Null, version |-> 0,
                       from |-> ValueOf(entries[k]), alone |-> TRUE]
    BY ZenonT(30) DEF Delete, Goto, Began, Typed
  <2>u. up' /\ call'[w].key = k /\ call'[w].op = "delete" /\ call'[w].op # "set" /\ call'[w].value = Null
    <3>1. up'
      BY <2>1, ZenonT(30)
    <3>2. call'[w].key = k /\ call'[w].op = "delete" /\ call'[w].value = Null
      <4>1. call'[w] = [op |-> "delete", key |-> k, value |-> Null, version |-> 0,
                        from |-> ValueOf(entries[k]), alone |-> TRUE]
        BY <2>1, ZenonT(30)
      <4> QED  BY <4>1, SMTT(30), Z3T(30)
    <3> QED  BY <3>1, <3>2, DeleteNotSet, Zenon
  <2>p. /\ pc[w] \notin {"append", "compact", "bump", "delta", "plog", "snap"}
        /\ pc'[w] \notin {"append", "compact", "delta", "plog", "snap"}
        /\ pc'[w] \notin {"idle", "diff", "insert"}
        /\ pc'[w] = "bump" <=> entries[k] # Absent
    BY <2>1, Zenon
  <2>2. /\ Files' /\ Ordered' /\ Waits(w)' /\ Copied'
        /\ Replayed' = Replayed /\ \A l : Shown(l)' = Shown(l) /\ ~Unwritten(w)
        /\ Unwritten(w)' <=> pc'[w] = "bump"
    BY <2>1, <2>u, <2>p, <1>IdleLog, Zenon
  <2>e. /\ entries'[k] = Absent /\ \A l \in Keys : l # k => entries'[l] = entries[l]
        /\ \A r \in Replayed : r.key \in Keys
    BY <2>1, Zenon DEF Typed, Readable
  <2>3. Newer(w)'
    <3>1. \A r \in Replayed : entries[r.key] # Absent => r.version <= entries[r.key].version
      BY <2>1, Zenon DEF Newer, Durable
    <3>2. \A r \in Replayed : entries'[r.key] # Absent => r.version <= entries'[r.key].version
      BY <2>e, <3>1, Zenon
    <3> QED  BY <2>2, <2>p, <3>2, Zenon DEF Newer
  <2>4. AllCurrent(w)'
    <3>1. \A l \in Keys : Current(l)
      BY <2>1, <2>2, Zenon DEF AllCurrent, Durable
    <3>2. \A l \in Keys : l # k => Current(l)'
      BY <2>e, <2>2, <3>1, Zenon DEF Current
    <3>3. entries[k] = Absent => Current(k)'
      BY <2>e, <2>2, <3>1, Zenon DEF Current
    <3> QED  BY <2>2, <2>p, <2>u, <3>2, <3>3, Zenon DEF AllCurrent
  <2>5. Effect(w)' /\ Gathered(w)'
    BY <2>1, <2>e, <2>p, <2>u, Zenon DEF Effect, Gathered, Durable
  <2>6. Possible(w)'
    <3>1. /\ DOMAIN possible = Keys /\ \A l \in Keys : Shown(l) \in possible[l]
          /\ \A l \in Keys : entries[l] = Absent => Absent \in possible[l]
      BY <2>1, Zenon DEF Possible, Durable
    <3>2. /\ DOMAIN possible' = Keys /\ Null \in possible'[k] /\ Absent \in possible'[k]
          /\ \A l \in Keys : possible[l] \subseteq possible'[l]
      BY <2>1, <3>1, Zenon
    <3> QED  BY <2>2, <2>e, <2>u, <3>1, <3>2, Zenon DEF Possible
  <2> QED  BY <2>2, <2>3, <2>4, <2>5, <2>6, Zenon DEF Durable
<1>InsertDurable. ASSUME Insert(w)
                  PROVE  Durable(w)'
  <2> USE <1>InsertDurable
  <2> DEFINE k == call[w].key
  <2>1. /\ up /\ pc[w] = "insert" /\ UNCHANGED <<logVars, global_version, snap, up, call, possible>>
        /\ pc'[w] = IF call[w].from = call[w].value THEN "return" ELSE "delta"
        /\ entries' = [entries EXCEPT ![k] = [version |-> call[w].version, value |-> call[w].value]]
    BY Zenon DEF Insert, Goto, histVars, Typed
  <2>u. up'
    BY <2>1, Zenon
  <2>p. /\ pc[w] \notin {"append", "compact", "bump", "delta", "plog", "snap", "idle"}
        /\ pc'[w] \notin {"append", "compact", "bump", "plog", "snap", "idle", "diff", "insert"}
        /\ pc'[w] = "delta" <=> call[w].from # call[w].value
        /\ pc[w] \in {"diff", "insert"}
    BY <2>1, Zenon
  <2>c. /\ k \in Keys /\ call[w].op = "set" /\ call[w].from = ValueOf(entries[k])
        /\ call[w].version = global_version /\ call[w].value \in AllValues /\ w \in Writers
        /\ call[w].version \in Nat
    BY <2>1, Zenon DEF Typed, SoloInv, SoloCall
  <2>2. /\ Files' /\ Ordered' /\ Waits(w)' /\ Copied'
        /\ Replayed' = Replayed /\ \A l : Shown(l)' = Shown(l) /\ ~Unwritten(w)
        /\ Unwritten(w)' <=> pc'[w] = "delta"
    BY <2>1, <2>u, <2>p, <1>IdleLog, Zenon
  <2>e. /\ entries'[k] = [version |-> call[w].version, value |-> call[w].value]
        /\ \A l \in Keys : l # k => entries'[l] = entries[l]
        /\ \A r \in Replayed : r.key \in Keys /\ r.version <= global_version
    BY <2>1, <2>c, Zenon DEF Typed, Readable
  <2>v. /\ entries'[k].version = call[w].version /\ entries'[k].value = call[w].value
        /\ entries'[k] # Absent
    <3>1. entries'[k] \in Entries
      <4>1. [version |-> call[w].version, value |-> call[w].value] \in Entries
        BY <2>c, SMT, Z3 DEF Entries
      <4> QED  BY <2>e, <4>1, ZenonT(30)
    <3>2. Absent \notin Entries
      BY StateStoreAssumption, ZenonT(30)
    <3>3. entries'[k].version = call[w].version /\ entries'[k].value = call[w].value
      BY <2>e, SMT, Z3
    <3> QED  BY <3>1, <3>2, <3>3, Zenon
  <2>k. k' = k
    BY <2>1, Zenon
  <2> HIDE DEF k
  <2>3. Newer(w)'
    <3>1. \A r \in Replayed : entries[r.key] # Absent => r.version <= entries[r.key].version
      BY <2>1, Zenon DEF Newer, Durable
    <3>2. \A r \in Replayed : entries'[r.key] # Absent => r.version <= entries'[r.key].version
      <4>1. ASSUME NEW r \in Replayed, r.key = k
            PROVE  r.version <= entries'[r.key].version
        BY <2>c, <2>e, <2>v, <4>1, Zenon
      <4> QED  BY <2>e, <3>1, <4>1, Zenon
    <3>3. \A r \in Replayed : r.version < global_version
      BY <2>p, Zenon DEF Newer, Durable
    <3> QED  BY <2>1, <2>2, <3>2, <3>3, Zenon DEF Newer
  <2>4. AllCurrent(w)'
    <3>1. \A l \in Keys : Current(l)
      BY <2>1, <2>2, Zenon DEF AllCurrent, Durable
    <3>2. \A l \in Keys : l # k => Current(l)'
      BY <2>e, <2>2, <3>1, Zenon DEF Current
    <3>3. call[w].from = call[w].value => Current(k)'
      <4> SUFFICES ASSUME call[w].from = call[w].value PROVE Current(k)'
        BY Zenon
      <4>1. ValueOf(entries[k]) = call[w].value /\ ValueOf(entries[k]) # Absent
        BY <2>c, StateStoreAssumption, Zenon
      <4>2. entries[k] # Absent /\ entries[k].value = call[w].value
        BY <4>1, Zenon DEF ValueOf
      <4>3. Shown(k) = call[w].value
        BY <2>c, <3>1, <4>2, Zenon DEF Current
      <4> QED  BY <2>2, <2>k, <2>v, <4>3, Zenon DEF Current
    <3> QED  BY <2>1, <2>2, <2>k, <2>p, <3>2, <3>3, ZenonT(30) DEF AllCurrent, k
  <2>5. Effect(w)' /\ Gathered(w)'
    BY <2>1, <2>c, <2>v, <2>p, Zenon DEF Effect, Gathered, Durable, k
  <2>6. Possible(w)'
    BY <2>1, <2>2, <2>e, <2>v, <2>p, Zenon DEF Possible, Durable
  <2> QED  BY <2>2, <2>3, <2>4, <2>5, <2>6, ZenonT(30) DEF Durable
\* The steps that only move the call on.
<1>CallDurable. ASSUME Diff(w) \/ Bump(w) \/ LogDelta(w)
                PROVE  Durable(w)'
  <2> USE <1>CallDurable
  <2>t. call \in [Writers -> Calls] /\ call[w] \in Calls /\ pc \in [Writers -> Labels]
        /\ w \in Writers /\ global_version \in Nat /\ SoloCall(w)
    BY Zenon DEF Typed, SoloInv
  <2>1. /\ up /\ UNCHANGED <<logVars, entries, snap, up, possible>>
        /\ \/ pc[w] = "diff" /\ pc'[w] = "insert" /\ UNCHANGED global_version
           \/ pc[w] = "bump" /\ pc'[w] = "delta" /\ global_version' = global_version + 1
           \/ pc[w] = "delta" /\ pc'[w] = "plog" /\ UNCHANGED global_version
    BY <2>t, ZenonT(30) DEF Diff, Bump, LogDelta, Goto, memVars, histVars
  <2>u. up'
    BY <2>1, ZenonT(30)
  <2>c. /\ call'[w].key = call[w].key /\ call'[w].op = call[w].op /\ call'[w].value = call[w].value
        /\ pc[w] = "bump" \/ call'[w].version = call[w].version
        /\ pc[w] = "bump" => call[w].op = "delete"
    <3>1. CASE Diff(w)
      <4>1. call'[w] = [call[w] EXCEPT !.from = ValueOf(entries[call[w].key])] /\ pc[w] = "diff"
        BY <2>t, <3>1, Zenon DEF Diff
      <4>2. pc[w] # "bump"
        BY <4>1, Zenon
      <4> QED  BY <2>t, <4>1, <4>2, Zenon DEF Calls
    <3>2. CASE Bump(w)
      <4>1. call'[w] = [call[w] EXCEPT !.version = global_version + 1] /\ pc[w] = "bump"
        BY <2>t, <3>2, Zenon DEF Bump
      <4> QED  BY <2>t, <4>1, Zenon DEF Calls, SoloCall
    <3>3. CASE LogDelta(w)
      <4>1. call' = call /\ pc[w] = "delta"
        BY <3>3, Zenon DEF LogDelta
      <4>2. pc[w] # "bump"
        BY <4>1, ZenonT(30)
      <4> QED  BY <4>1, <4>2, Zenon
    <3> QED  BY <3>1, <3>2, <3>3, Zenon
  <2>p. /\ pc[w] \notin {"append", "compact", "snap", "idle"}
        /\ pc'[w] \notin {"append", "compact", "snap", "idle", "bump"}
        /\ pc[w] \in {"bump", "delta", "plog"} <=> pc'[w] \in {"bump", "delta", "plog"}
        /\ pc[w] \in {"idle", "diff", "insert"} <=> pc'[w] \in {"idle", "diff", "insert"}
        /\ pc[w] = "bump" \/ (pc[w] \in {"diff", "insert"} \/ pc[w] \in {"bump", "delta", "plog"})
    BY <2>1, ZenonT(30)
  <2>2. /\ Files' /\ Ordered' /\ Waits(w)' /\ Copied'
        /\ Replayed' = Replayed /\ \A l : Shown(l)' = Shown(l)
        /\ Unwritten(w)' <=> Unwritten(w)
        /\ Unwritten(w) <=> pc[w] \in {"bump", "delta", "plog"}
    BY <2>1, <2>u, <2>p, <1>IdleLog, Zenon
  <2>3. Newer(w)'
    <3>1. \A r \in Replayed : entries[r.key] # Absent => r.version <= entries[r.key].version
      BY <2>1, Zenon DEF Newer, Durable
    <3>2. \A r \in Replayed : r.version < global_version'
      <4>1. CASE pc[w] = "bump"
        <5>1. global_version' = global_version + 1
          BY <2>1, <4>1, Zenon
        <5> QED  BY <2>t, <5>1, SMT, Z3 DEF Readable
      <4>2. CASE pc[w] # "bump"
        <5>1. global_version' = global_version
          BY <2>1, <4>2, Zenon
        <5>2. \A r \in Replayed : r.version < global_version
          BY <2>2, <2>p, <4>2, Zenon DEF Newer, Durable
        <5> QED  BY <5>1, <5>2, Zenon
      <4> QED  BY <4>1, <4>2, Zenon
    <3> QED  BY <2>1, <2>2, <3>1, <3>2, Zenon DEF Newer
  <2>4. AllCurrent(w)'
    BY <2>1, <2>2, <2>c, Zenon DEF AllCurrent, Current, Durable
  <2>5. Effect(w)'
    <3>1. pc[w] = "bump" => call[w].op # "set"
      BY <2>c, ZenonT(30)
    <3> QED  BY <2>1, <2>c, <2>p, <3>1, ZenonT(30) DEF Effect, Durable
  <2>6. Gathered(w)'
    BY <2>1, <2>p, Zenon DEF Gathered, Durable
  <2>7. Possible(w)'
    BY <2>1, <2>2, <2>c, <2>p, Zenon DEF Possible, Durable
  <2> QED  BY <2>2, <2>3, <2>4, <2>5, <2>6, <2>7, ZenonT(30) DEF Durable
\* The call returns: only its own effect may be shown from now on.
<1>ReturnDurable. ASSUME Return(w)
                  PROVE  Durable(w)'
  <2> USE <1>ReturnDurable
  <2> DEFINE k == call[w].key
             after == IF call[w].op = "set" THEN {call[w].value} ELSE {Absent, Null}
  <2>1. /\ up /\ pc[w] = "return" /\ pc'[w] = "idle"
        /\ UNCHANGED <<logVars, entries, global_version, snap, up>>
        /\ possible' = [possible EXCEPT ![k] = IF call[w].alone THEN after ELSE possible[k]]
    BY Zenon DEF Return, Goto, memVars, Typed
  <2>u. up'
    BY <2>1, ZenonT(30)
  <2>p. /\ pc[w] \notin {"append", "compact", "snap", "bump", "delta", "plog", "idle", "diff", "insert"}
        /\ pc'[w] \notin {"append", "compact", "snap", "bump", "delta", "plog", "diff", "insert"}
    BY <2>1, ZenonT(30)
  <2>c. k \in Keys /\ call[w].alone /\ w \in Writers
    BY <2>1, <2>p, Zenon DEF Typed, SoloInv, SoloCall
  <2>2. /\ Files' /\ Ordered' /\ Waits(w)' /\ Copied'
        /\ Replayed' = Replayed /\ \A l : Shown(l)' = Shown(l)
        /\ ~Unwritten(w) /\ ~Unwritten(w)'
    BY <2>1, <2>u, <2>p, <1>IdleLog, Zenon
  <2>3. Newer(w)'
    BY <2>1, <2>2, <2>p, Zenon DEF Newer, Durable
  <2>4. AllCurrent(w)' /\ \A l \in Keys : Current(l)
    BY <2>1, <2>2, Zenon DEF AllCurrent, Current, Durable
  <2>5. Effect(w)' /\ Gathered(w)'
    BY <2>1, <2>p, Zenon DEF Effect, Gathered, Durable
  <2>6. Possible(w)'
    <3>1. /\ DOMAIN possible = Keys /\ \A l \in Keys : Shown(l) \in possible[l]
          /\ \A l \in Keys : entries[l] = Absent => Absent \in possible[l]
      BY <2>1, Zenon DEF Possible, Durable
    <3>2. /\ DOMAIN possible' = Keys /\ possible'[k] = after
          /\ \A l \in Keys : l # k => possible'[l] = possible[l]
      BY <2>1, <2>c, <3>1, Zenon
    <3>3. Shown(k) \in after /\ (entries[k] = Absent => Absent \in after)
      <4>1. Current(k) /\ Effect(w)
        BY <2>4, <2>c, Zenon DEF Durable
      <4>2. CASE call[w].op = "set"
        BY <2>p, <4>1, <4>2, Zenon DEF Current, Effect
      <4>3. CASE call[w].op # "set"
        BY <2>p, <4>1, <4>3, Zenon DEF Current, Effect
      <4> QED  BY <4>2, <4>3, Zenon
    <3> HIDE DEF k, after
    <3>4. \A l \in Keys : Shown(l)' \in possible'[l]
      BY <2>2, <3>1, <3>2, <3>3, Zenon
    <3>5. \A l \in Keys : entries'[l] = Absent => Absent \in possible'[l]
      BY <2>1, <3>1, <3>2, <3>3, Zenon
    <3> QED  BY <2>1, <3>2, <3>4, <3>5, Zenon DEF Possible
  <2> QED  BY <2>2, <2>3, <2>4, <2>5, <2>6, ZenonT(30) DEF Durable
\* compact_plog reads one more entry.
<1>SnapshotKeyDurable. ASSUME SnapshotKey(w)
                       PROVE  Durable(w)'
  <2> USE <1>SnapshotKeyDurable
  <2>1. /\ up /\ pc[w] = "snap" /\ UNCHANGED <<logVars, entries, global_version, pc, call, up, possible>>
        /\ w \in Writers /\ snap \in [Writers -> SUBSET Records] /\ unread \in [Writers -> SUBSET Keys]
    BY Zenon DEF SnapshotKey, memVars, histVars, Typed
  <2>u. up'
    BY <2>1, ZenonT(30)
  <2>p. /\ pc[w] \notin {"append", "compact", "bump", "delta", "plog", "diff", "insert"}
        /\ pc' = pc
    BY <2>1, ZenonT(30)
  <2>2. /\ Files' /\ Ordered' /\ Waits(w)' /\ Copied'
        /\ Replayed' = Replayed /\ \A l : Shown(l)' = Shown(l)
        /\ ~Unwritten(w) /\ ~Unwritten(w)'
    BY <2>1, <2>u, <2>p, <1>IdleLog, Zenon
  <2>3. Newer(w)'
    BY <2>1, <2>2, <2>p, Zenon DEF Newer, Durable
  <2>4. AllCurrent(w)'
    BY <2>1, <2>2, Zenon DEF AllCurrent, Current, Durable
  <2>5. Effect(w)'
    BY <2>1, Zenon DEF Effect, Durable
  <2>6. Possible(w)'
    BY <2>1, <2>2, Zenon DEF Possible, Durable
  <2>7. Gathered(w)'
    <3>1. PICK k \in unread[w] :
             /\ unread'[w] = unread[w] \ {k}
             /\ snap'[w] = snap[w] \cup IF entries[k] = Absent THEN {}
                   ELSE {LogEntry(k, entries[k].version, <<>>, entries[k].value)}
      BY <2>1, Zenon DEF SnapshotKey
    <3>2. /\ FromEntries(snap[w]) /\ \A l \in Keys \ unread[w] : Holds(snap[w], l)
      BY <2>1, ZenonT(30) DEF Gathered, Durable
    <3>3. \A l : SnapRecord(l)' = SnapRecord(l) /\ SnapRecord(l).key = l
      BY <2>1, ZenonT(30) DEF SnapRecord, LogEntry
    <3>4. snap'[w] = snap[w] \cup IF entries[k] = Absent THEN {} ELSE {SnapRecord(k)}
      BY <3>1, Zenon DEF SnapRecord
    <3>5. FromEntries(snap[w])'
      <4> SUFFICES ASSUME NEW r \in snap'[w] PROVE entries'[r.key] # Absent /\ r = SnapRecord(r.key)'
        BY Zenon DEF FromEntries
      <4>1. CASE r \in snap[w]
        BY <2>1, <3>2, <3>3, <4>1, Zenon DEF FromEntries
      <4>2. CASE r \notin snap[w]
        <5>1. r = SnapRecord(k) /\ entries[k] # Absent
          BY <3>4, <4>2, Zenon
        <5>2. r.key = k
          BY <3>3, <5>1, Zenon
        <5> QED  BY <2>1, <3>3, <5>1, <5>2, Zenon
      <4> QED  BY <4>1, <4>2, Zenon
    <3>6. (\A l \in Keys \ unread[w] : Holds(snap[w], l))'
      <4> SUFFICES ASSUME NEW l \in Keys, l \notin unread'[w], entries'[l] # Absent
                   PROVE  SnapRecord(l)' \in snap'[w]
        BY Zenon DEF Holds
      <4>1. CASE l = k
        BY <2>1, <3>3, <3>4, <4>1, Zenon
      <4>2. CASE l # k
        BY <2>1, <3>1, <3>2, <3>3, <3>4, <4>2, ZenonT(30) DEF Holds
      <4> QED  BY <4>1, <4>2, Zenon
    <3> QED  BY <2>1, <3>5, <3>6, Zenon DEF Gathered
  <2> QED  BY <2>2, <2>3, <2>4, <2>5, <2>6, <2>7, Zenon DEF Durable
\* The writer hands its record to the log and comes back.
<1>AppendDurable. ASSUME LogAppend(w) \/ LogAppended(w)
                  PROVE  Durable(w)'
  <2> USE <1>AppendDurable
  <2>t. w \in Writers /\ pc \in [Writers -> Labels] /\ unread \in [Writers -> SUBSET Keys]
    BY Zenon DEF Typed
  <2>1. /\ up /\ UNCHANGED <<disk, current_seg, wseg, wbuf, todo, old_segs>>
        /\ UNCHANGED <<entries, global_version, call, snap, possible, up>>
        /\ \/ /\ pc[w] = "plog" /\ stage = "none" /\ pc'[w] = "append"
              /\ stage' \in {"rotate", "write"}
              /\ arg' = LogEntry(call[w].key, call[w].version, <<Change(w)>>, call[w].value)
           \/ /\ pc[w] = "append" /\ stage = "appended" /\ stage' = "none"
              /\ \/ pc'[w] = "return"
                 \/ pc'[w] = "snap" /\ unread'[w] = Keys
    <3>1. CASE LogAppend(w)
      BY <2>t, <3>1, Zenon DEF LogAppend, AppendStart, Goto, memVars, histVars
    <3>2. CASE LogAppended(w)
      <4>1. CASE NeedsCompact
        BY <2>t, <3>2, <4>1, Zenon DEF LogAppended, Goto, memVars, histVars
      <4>2. CASE ~NeedsCompact
        BY <2>t, <3>2, <4>2, ZenonT(30) DEF LogAppended, Goto, memVars, histVars
      <4> QED  BY <4>1, <4>2, Zenon
    <3> QED  BY <3>1, <3>2, Zenon
  <2>u. up'
    BY <2>1, ZenonT(30)
  <2>p. /\ pc[w] \notin {"idle", "diff", "insert", "bump", "snap", "compact"}
        /\ pc'[w] \notin {"idle", "diff", "insert", "bump", "compact"}
        /\ stage # "flush" /\ stage # "snapshot" /\ stage' \in {"none", "rotate", "write", "compacted"}
        /\ stage' \notin {"create", "snapshot", "remove"}
        /\ Unwritten(w)' <=> Unwritten(w)
    BY <2>1, ZenonT(30) DEF Unwritten
  <2>2. Files' /\ NothingNew
    BY <2>1, <2>p, FilesKept, Zenon DEF Durable
  <2>3. Ordered' /\ Newer(w)' /\ AllCurrent(w)' /\ Effect(w)' /\ Possible(w)'
    BY <2>1, <2>2, <2>p, MemoryKept, ZenonT(30)
  <2>4. Waits(w)'
    <3>1. Change(w)' = Change(w)
      BY <2>1, Zenon DEF Change
    <3> QED  BY <2>1, <3>1, ZenonT(30) DEF Waits
  <2>5. Copied'
    BY <2>p, Zenon DEF Copied
  <2>6. Gathered(w)'
    <3>1. snap'[w] = {}
      BY <2>1, <2>p, ZenonT(30) DEF Gathered, Durable
    <3>2. pc'[w] = "snap" => Keys \ unread'[w] = {}
      BY <2>1, ZenonT(30)
    <3> QED  BY <3>1, <3>2, Zenon DEF Gathered, FromEntries
  <2> QED  BY <2>2, <2>3, <2>4, <2>5, <2>6, ZenonT(30) DEF Durable
<1>CompactDurable. ASSUME Compact(w) \/ Compacted(w)
                   PROVE  Durable(w)'
  <2> USE <1>CompactDurable
  <2>t. w \in Writers /\ pc \in [Writers -> Labels] /\ snap \in [Writers -> SUBSET Records]
    BY Zenon DEF Typed
  <2>1. /\ up /\ UNCHANGED <<disk, current_seg, wseg, wbuf, arg>>
        /\ UNCHANGED <<entries, global_version, call, possible, up>>
        /\ \/ /\ pc[w] = "snap" /\ unread[w] = {} /\ stage = "none" /\ pc'[w] = "compact"
              /\ stage' = "create" /\ todo' = snap[w] /\ snap'[w] = {} /\ old_segs' = DOMAIN disk
           \/ /\ pc[w] = "compact" /\ stage = "compacted" /\ stage' = "none"
              /\ pc'[w] = "return" /\ snap' = snap /\ old_segs' = old_segs
    <3>1. CASE Compact(w)
      BY <2>t, <3>1, Zenon DEF Compact, CompactStart, Goto, memVars, histVars
    <3>2. CASE Compacted(w)
      BY <2>t, <3>2, Zenon DEF Compacted, Goto, memVars, histVars
    <3> QED  BY <3>1, <3>2, Zenon
  <2>u. up'
    BY <2>1, ZenonT(30)
  <2>p. /\ pc[w] \notin {"idle", "diff", "insert", "bump", "append"}
        /\ pc'[w] \notin {"idle", "diff", "insert", "bump", "append", "snap"}
        /\ Unwritten(w)' <=> Unwritten(w)
        /\ stage # "flush" /\ stage # "snapshot" /\ stage' \notin {"snapshot", "remove"}
        /\ \/ stage' \in {"none", "rotate", "write", "compacted"}
           \/ stage = "none" /\ stage' = "create" /\ old_segs' = DOMAIN disk
    BY <2>1, ZenonT(30) DEF Unwritten
  <2>2. Files' /\ NothingNew
    BY <2>1, <2>p, FilesKept, Zenon DEF Durable
  <2>3. Ordered' /\ Newer(w)' /\ AllCurrent(w)' /\ Effect(w)' /\ Possible(w)'
    BY <2>1, <2>2, <2>p, MemoryKept, Zenon
  <2>4. Waits(w)'
    BY <2>1, Zenon DEF Waits
  <2>5. Copied'
    <3>1. CASE stage' = "create"
      <4>1. pc[w] = "snap" /\ unread[w] = {} /\ todo' = snap[w]
        BY <2>1, <3>1, ZenonT(30)
      <4>2. FromEntries(snap[w]) /\ \A k \in Keys \ unread[w] : Holds(snap[w], k)
        BY <4>1, Zenon DEF Gathered, Durable
      <4>3. FromEntries(todo)' /\ \A k \in Keys : Holds(todo, k)'
        BY <2>1, <4>1, <4>2, ZenonT(30) DEF FromEntries, Holds, SnapRecord
      <4> QED  BY <2>p, <3>1, <4>3, ZenonT(30) DEF Copied
    <3>2. CASE stage' # "create"
      BY <2>p, <3>2, ZenonT(30) DEF Copied
    <3> QED  BY <3>1, <3>2, Zenon
  <2>6. Gathered(w)'
    <3>1. snap'[w] = {}
      <4>1. pc[w] = "snap" \/ snap[w] = {}
        BY Zenon DEF Gathered, Durable
      <4>2. pc[w] = "compact" => pc[w] # "snap"
        BY ZenonT(30)
      <4> QED  BY <2>1, <4>1, <4>2, Zenon
    <3> QED  BY <2>p, <3>1, ZenonT(30) DEF Gathered
  <2> QED  BY <2>2, <2>3, <2>4, <2>5, <2>6, Zenon DEF Durable
<1>CrashDurable. ASSUME Crash
                 PROVE  Durable(w)'
  <2> USE <1>CrashDurable
  <2>1. /\ ~up' /\ pc'[w] = "idle" /\ snap'[w] = {} /\ UNCHANGED <<logVars, possible>>
    BY Zenon DEF Crash
  <2>2. UNCHANGED <<disk, current_seg, wseg, wbuf, stage, arg, todo, old_segs>>
    BY <2>1, Zenon DEF logVars
  <2>3. Files' /\ NothingNew
    BY <2>2, FilesKept, Zenon DEF Durable
  <2>4. Ordered' /\ Replayed' = Replayed /\ \A l : Shown(l)' = Shown(l)
    BY <2>3, OrderedKept, SameShown, Zenon DEF Durable
  <2>5. pc'[w] \notin {"append", "compact", "bump", "delta", "plog", "snap", "diff", "insert"}
    BY <2>1, ZenonT(30)
  <2>6. Waits(w)' /\ Copied' /\ Newer(w)' /\ AllCurrent(w)' /\ Effect(w)'
    <3>1. ~Unwritten(w)'
      BY <2>5, Zenon DEF Unwritten
    <3>2. Newer(w)' /\ AllCurrent(w)' /\ Copied'
      BY <2>1, <2>5, <3>1, ZenonT(30) DEF Newer, AllCurrent, Copied
    <3>3. Waits(w)' /\ Effect(w)'
      BY <2>1, Zenon DEF Waits, Effect
    <3> QED  BY <3>2, <3>3, Zenon
  <2>7. Gathered(w)'
    BY <2>1, <2>5, Zenon DEF Gathered
  <2>8. Possible(w)'
    BY <2>1, <2>4, Zenon DEF Possible, Durable
  <2> QED  BY <2>3, <2>4, <2>6, <2>7, <2>8, ZenonT(30) DEF Durable
\* open puts into memory what a restart shows.
<1>RecoverDurable. ASSUME Recover
                   PROVE  Durable(w)'
  <2> USE <1>RecoverDurable
  \* open leaves what can be read as it was.
  <2>OpenStep. ASSUME LogTyped, Files, Open
               PROVE  Files' /\ NothingNew /\ stage' = "none"
    <3> USE <2>OpenStep
    <3>1. DOMAIN disk # {} /\ DOMAIN disk \in SUBSET Nat /\ current_seg \in DOMAIN disk
          /\ current_seg \in Nat /\ \A n \in DOMAIN disk : n <= current_seg
      BY Zenon DEF Files
    <3>2. Max(DOMAIN disk) \in DOMAIN disk /\ \A n \in DOMAIN disk : n <= Max(DOMAIN disk)
      BY <3>1, MaxExists, Zenon
    <3> DEFINE last == Max(DOMAIN disk)
    <3>3. /\ disk' = [n \in DOMAIN disk \cup {last} |->
                         IF n \in DOMAIN disk THEN ReplaySegment(disk[n]) ELSE <<>>]
          /\ current_seg' = last /\ wseg' = last /\ wbuf' = <<>> /\ stage' = "none"
      BY <3>1, Zenon DEF Open
    <3> HIDE DEF last
    <3>4. DOMAIN disk' = DOMAIN disk /\ \A n \in DOMAIN disk : disk'[n] = ReplaySegment(disk[n])
      BY <3>2, <3>3, Zenon DEF last
    <3>5. \A n \in DOMAIN disk : ReplaySegment(disk[n]) \in Seq(Records)
      <4>1. ASSUME NEW n \in DOMAIN disk, stage = "flush" /\ n = wseg
            PROVE  ReplaySegment(disk[n]) \in Seq(Records)
        <5> DEFINE s == WithoutLast(disk[n])
        <5>1. s \in Seq(Records) /\ disk[n] = Append(s, Torn)
          BY <4>1, Zenon DEF Files
        <5> HIDE DEF s
        <5> QED  BY <5>1, ReplayTorn, Zenon
      <4>2. ASSUME NEW n \in DOMAIN disk, ~(stage = "flush" /\ n = wseg)
            PROVE  ReplaySegment(disk[n]) \in Seq(Records)
        <5>1. disk[n] \in Seq(Records)
          BY <4>2, Zenon DEF Files
        <5> QED  BY <5>1, ReplayWhole, Zenon
      <4> QED  BY <4>1, <4>2, Zenon
    <3>6. \A n \in DOMAIN disk : FileRecords(n)' = FileRecords(n)
      BY <3>4, <3>5, ReplayWhole, Zenon DEF FileRecords
    <3>7. Files'
      <4>1. stage' \notin {"flush", "create", "snapshot", "remove"}
        BY <3>3, ZenonT(30)
      <4>2. last \in DOMAIN disk /\ \A n \in DOMAIN disk : n <= last
        BY <3>2, Zenon DEF last
      <4> QED  BY <3>1, <3>3, <3>4, <3>5, <4>1, <4>2, ZenonT(30) DEF Files
    <3> QED  BY <3>3, <3>4, <3>6, <3>7, Zenon DEF NothingNew
  <2>1. /\ ~up /\ up' /\ Open /\ UNCHANGED <<pc, call, snap, unread, possible>>
        /\ entries' = [k \in Keys |->
              IF Latest(k) = Absent THEN Absent
              ELSE [version |-> Latest(k).version, value |-> Latest(k).value]]
    BY Zenon DEF Recover, ctlVars
  <2>2. Files' /\ NothingNew /\ stage' = "none"
    BY <2>1, <2>OpenStep, Zenon DEF Typed, Durable
  <2>3. Ordered' /\ Replayed' = Replayed /\ \A l : Shown(l)' = Shown(l)
    BY <2>2, OrderedKept, SameShown, Zenon DEF Durable
  <2>p. pc[w] = "idle" /\ pc'[w] = "idle"
    BY <2>1, Zenon DEF SoloInv
  <2>q. /\ pc'[w] \notin {"append", "compact", "bump", "delta", "plog", "snap", "diff", "insert"}
        /\ pc[w] # "snap" /\ stage' \notin {"create", "snapshot", "remove"}
    BY <2>2, <2>p, ZenonT(30)
  <2>u. ~Unwritten(w)'
    BY <2>q, Zenon DEF Unwritten
  <2>e. ASSUME NEW k \in Keys
        PROVE  /\ entries'[k] = Absent => Shown(k) = Absent
               /\ entries'[k] # Absent =>
                     /\ Shown(k) = entries'[k].value
                     /\ \A r \in RecordsOf(k) : r.version <= entries'[k].version
    <3> DEFINE S == RecordsOf(k)
               b == Best(S)
    <3>1. Latest(k) = b
      BY LatestIsBest, Zenon
    <3>2. entries'[k] = IF b = Absent THEN Absent ELSE [version |-> b.version, value |-> b.value]
      BY <2>1, <3>1, Zenon
    <3>3. Shown(k) = ValueOf(b)
      BY Zenon DEF Shown
    <3>4. CASE b = Absent
      BY <3>2, <3>3, <3>4, Zenon DEF ValueOf
    <3>5. CASE b # Absent
      <4>1. Agree(S) /\ S # {}
        BY <3>5, Zenon DEF Best, Readable
      <4>2. \A r \in S : r.version <= b.version
        <5> HIDE DEF S
        <5> QED  BY <4>1, BestIs, ZenonT(30)
      <4> HIDE DEF b
      <4>3. entries'[k].version = b.version /\ entries'[k].value = b.value
        BY <3>2, <3>5, SMT, Z3
      <4>4. Shown(k) = b.value
        BY <3>3, <3>5, Zenon DEF ValueOf
      <4>5. entries'[k] # Absent
        <5>1. Best(S) \in S
          <6> HIDE DEF S
          <6> QED  BY <4>1, BestIs, Zenon
        <5>2. b \in Replayed
          BY <5>1, Zenon DEF RecordsOf, b
        <5>3. b.version \in Nat /\ b.value \in AllValues
          BY <5>2, ZenonT(30) DEF Readable
        <5>4. entries'[k] \in Entries
          BY <3>2, <3>5, <5>3, SMTT(30), Z3T(30) DEF Entries
        <5> QED  BY <5>4, StateStoreAssumption, Zenon
      <4> QED  BY <4>2, <4>3, <4>4, <4>5, Zenon
    <3> QED  BY <3>4, <3>5, Zenon
  <2>4. Newer(w)'
    <3>1. \A r \in Replayed : r.key \in Keys /\ r \in RecordsOf(r.key)
      BY Zenon DEF Readable, RecordsOf
    <3>2. \A r \in Replayed : entries'[r.key] # Absent => r.version <= entries'[r.key].version
      BY <2>e, <3>1, Zenon
    <3> QED  BY <2>3, <2>q, <2>u, <3>2, Zenon DEF Newer
  <2>5. AllCurrent(w)'
    BY <2>3, <2>e, ZenonT(30) DEF AllCurrent, Current
  <2>6. Effect(w)' /\ Waits(w)'
    BY <2>2, <2>p, ZenonT(30) DEF Effect, Waits
  <2>7. Copied'
    BY <2>q, Zenon DEF Copied
  <2>8. Gathered(w)'
    BY <2>1, <2>q, Zenon DEF Gathered, Durable
  <2>9. Possible(w)'
    <3>1. DOMAIN possible = Keys /\ \A k \in Keys : Shown(k) \in possible[k]
      BY Zenon DEF Possible, Durable
    <3>2. \A k \in Keys : entries'[k] = Absent => Absent \in possible[k]
      BY <2>e, <3>1, Zenon
    <3> QED  BY <2>1, <2>3, <2>p, <3>1, <3>2, Zenon DEF Possible
  <2> QED  BY <2>2, <2>3, <2>4, <2>5, <2>6, <2>7, <2>8, <2>9, ZenonT(30) DEF Durable
<1>1. CASE WriterStep(w)
  BY <1>1, <1>InsertDurable, <1>CallDurable, <1>ReturnDurable, <1>SnapshotKeyDurable, <1>AppendDurable,
     <1>CompactDurable, Zenon DEF WriterStep
<1>2. ASSUME NEW k \in Keys, Delete(w, k) \/ \E v \in AllValues : Apply(w, k, v)
      PROVE  Durable(w)'
  BY <1>2, <1>ApplyDurable, <1>DeleteDurable, Zenon
<1>3. CASE LogOp \/ Crash \/ Recover
  BY <1>3, LogOpDurable, <1>CrashDurable, <1>RecoverDurable, Zenon
<1>4. ~LogError
  BY SMT, Z3 DEF LogError
<1>5. CASE UNCHANGED vars
  <2>1. /\ UNCHANGED <<disk, current_seg, wseg, wbuf, stage, arg, todo, old_segs>>
        /\ UNCHANGED <<entries, global_version, pc, call, snap, unread, up, possible>>
    BY <1>5, Zenon DEF vars, logVars, memVars, ctlVars, histVars
  <2>2. Files' /\ NothingNew
    BY <2>1, FilesKept, Zenon DEF Durable
  <2>3. /\ Waits(w)' <=> Waits(w)
        /\ Unwritten(w)' <=> Unwritten(w)
        /\ Gathered(w)' <=> Gathered(w)
        /\ Copied' <=> Copied
    BY <2>1, Zenon DEF Waits, Unwritten, Change, Gathered, Copied, FromEntries, Holds, SnapRecord
  <2>4. Ordered' /\ Newer(w)' /\ AllCurrent(w)' /\ Effect(w)' /\ Possible(w)'
    BY <2>1, <2>2, <2>3, MemoryKept, Zenon
  <2> QED  BY <2>2, <2>3, <2>4, Zenon DEF Durable
<1> QED  BY <1>1, <1>2, <1>3, <1>4, <1>5, Zenon DEF Next

LEMMA InitDurable ==
    ASSUME NEW w, Writers = {w}, Init
    PROVE  Durable(w)
<1>1. /\ disk = [n \in {0} |-> <<>>] /\ current_seg = 0 /\ wseg = 0 /\ wbuf = <<>>
      /\ stage = "none" /\ pc[w] = "idle" /\ snap[w] = {} /\ up
      /\ entries = [k \in Keys |-> Absent] /\ possible = [k \in Keys |-> {Absent}]
  BY Zenon DEF Init, LogInit
<1>2. DOMAIN disk = {0} /\ disk[0] = <<>> /\ <<>> \in Seq(Records)
  BY <1>1, SMTT(30), Z3T(30)
<1>3. Files
  BY <1>1, <1>2, SMT, Z3 DEF Files
<1>4. FileRecords(0) = {}
  <2>1. ReplaySegment(<<>>) = <<>>
    BY <1>2, ReplayWhole, Zenon
  <2>2. Range(<<>>) = {}
    BY SMT, Z3 DEF Range
  <2> QED  BY <1>2, <2>1, <2>2, Zenon DEF FileRecords
<1>5. \A r : r \notin Replayed
  BY <1>2, <1>4, ReplayedAre, Zenon
<1>6. Ordered
  BY <1>2, <1>4, Zenon DEF Ordered
<1>7. \A k : Shown(k) = Absent
  <2>1. \A k : RecordsOf(k) = {}
    BY <1>5, Zenon DEF RecordsOf
  <2> QED  BY <2>1, Zenon DEF Shown, Best, ValueOf
<1>8. /\ pc[w] \notin {"append", "compact", "bump", "delta", "plog", "snap", "diff", "insert"}
      /\ stage \notin {"create", "snapshot", "remove"}
  BY <1>1, ZenonT(30)
<1>9. Newer(w) /\ Copied
  BY <1>5, <1>8, Zenon DEF Newer, Copied
<1>10. AllCurrent(w) /\ Possible(w)
  BY <1>1, <1>7, ZenonT(30) DEF AllCurrent, Current, Possible
<1>11. Effect(w) /\ Waits(w)
  BY <1>1, ZenonT(30) DEF Effect, Waits
<1>12. Gathered(w)
  BY <1>1, <1>8, Zenon DEF Gathered
<1> QED  BY <1>3, <1>6, <1>9, <1>10, <1>11, <1>12, ZenonT(30) DEF Durable

LEMMA NoErrors ==
    ASSUME MaxIoErrors = 0, errors = 0, [Next]_vars
    PROVE  errors' = 0
<1>1. ~LogError
  BY SMT, Z3 DEF LogError
<1>2. ASSUME NEW w \in Writers,
             \/ WriterStep(w)
             \/ \E k \in Keys : Delete(w, k) \/ \E v \in AllValues : Apply(w, k, v)
      PROVE  errors' = errors
  <2>1. CASE Diff(w) \/ Insert(w) \/ Bump(w) \/ LogDelta(w) \/ Return(w) \/ SnapshotKey(w)
    BY <2>1, Zenon DEF Diff, Insert, Bump, LogDelta, Return, SnapshotKey, histVars
  <2>2. CASE LogAppend(w) \/ LogAppended(w) \/ Compact(w) \/ Compacted(w)
    BY <2>2, Zenon DEF LogAppend, LogAppended, Compact, Compacted, histVars
  <2>3. CASE \E k \in Keys : Delete(w, k) \/ \E v \in AllValues : Apply(w, k, v)
    BY <2>3, Zenon DEF Delete, Apply
  <2> QED  BY <1>2, <2>1, <2>2, <2>3, Zenon DEF WriterStep
<1>3. CASE LogOp \/ Crash \/ Recover \/ UNCHANGED vars
  BY <1>3, Zenon DEF LogOp, Crash, Recover, vars, histVars
<1> QED  BY <1>1, <1>2, <1>3, Zenon DEF Next

LEMMA DurableTheorem ==
    ASSUME NEW w, Writers = {w}, MaxIoErrors = 0
    PROVE  Spec => []Durable(w)
<1>1. Init => IInv /\ SoloInv /\ Durable(w) /\ errors = 0
  BY InitIInv, SoloStart, InitDurable, Zenon DEF Init
<1>2. IInv /\ SoloInv /\ [Next]_vars => IInv' /\ SoloInv'
  BY NextIInv, SoloNext, Zenon
<1>3. IInv /\ SoloInv /\ Readable /\ Readable' /\ errors = 0 /\ Durable(w) /\ [Next]_vars =>
         Durable(w)' /\ (errors = 0)'
  BY NextDurable, NoErrors, Zenon DEF IInv
<1>4. IInv /\ SoloInv => Readable
  BY ReadableHolds, ZenonT(30)
<1> QED  BY <1>1, <1>2, <1>3, <1>4, PTL DEF Spec

\* With one writer and no I/O error, a write that returned survives a crash at
\* any later moment, in the middle of a rotation or a compaction included
\* (log.rs append, rotate and compact; state.rs open).
THEOREM AckedSurviveTheorem == Solitary /\ MaxIoErrors = 0 /\ Spec => []AckedSurvive
<1> SUFFICES ASSUME Solitary, MaxIoErrors = 0 PROVE Spec => []AckedSurvive
  BY ZenonT(30)
<1>w. PICK w : Writers = {w}
  BY Zenon DEF Solitary
<1>1. Durable(w) => AckedSurvive
  BY LatestIsBest, ZenonT(30) DEF Durable, Possible, AckedSurvive, Shown
<1> QED  BY <1>w, <1>1, DurableTheorem, PTL

\* Between calls a restart would show the values that memory holds, and of a
\* deleted key no record or a null one (state.rs:100-105).
THEOREM MemoryMatchesDiskTheorem == Solitary /\ MaxIoErrors = 0 /\ Spec => []MemoryMatchesDisk
<1> SUFFICES ASSUME Solitary, MaxIoErrors = 0 PROVE Spec => []MemoryMatchesDisk
  BY Zenon
<1>w. PICK w : Writers = {w}
  BY Zenon DEF Solitary
<1>1. Durable(w) => MemoryMatchesDisk
  <2> SUFFICES ASSUME Durable(w), up, pc[w] = "idle", NEW k \in Keys
               PROVE  IF entries[k] = Absent THEN ValueOf(Latest(k)) \in {Absent, Null}
                      ELSE ValueOf(Latest(k)) = entries[k].value
    BY <1>w, Zenon DEF MemoryMatchesDisk, Quiet
  <2>1. ~Unwritten(w)
    BY ZenonT(30) DEF Unwritten
  <2>2. Current(k)
    BY <2>1, Zenon DEF Durable, AllCurrent
  <2> QED  BY <2>2, LatestIsBest, Zenon DEF Current, Shown
<1> QED  BY <1>w, <1>1, DurableTheorem, PTL
=============================================================================
