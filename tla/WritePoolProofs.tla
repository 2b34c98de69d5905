--------------------------- MODULE WritePoolProofs ---------------------------
(***************************************************************************)
(* Proofs about WritePool for any finite sets of senders, workers and      *)
(* handles and any capacity: the type invariant (pending never wraps), the *)
(* exactness of pending, the single in_pool token, that no message is      *)
(* stranded unless a load of pending overtook the store of in_pool, that a *)
(* refused send cancels the session, and that the socket gets the accepted *)
(* messages in their order.                                                *)
(***************************************************************************)
EXTENDS WritePool, SeqFilterProofs, FiniteSetTheorems, TLAPS

\* Where the control of each kind of thread can be, and where a worker can be
\* while its store of in_pool is still buffered.
ControlOK ==
    /\ \A s \in Senders : pc[s] \in {"idle", "try", "undo", "cas", "push"}
    /\ \A w \in Workers : pc[w] \in PCs \ {"try", "undo"}
    /\ \A w \in buf : pc[w] \in {"idle", "check", "cas"}
    /\ \A w \in buf : pc[w] = "check" \/ at[w] \in late

IndInv == TypeOK /\ ControlOK /\ PendingExact /\ SingleDrainer

-----------------------------------------------------------------------------
LEMMA CountedFinite ==
    ASSUME TypeOK, NEW h \in Handles
    PROVE  IsFiniteSet(Counted(h)) /\ Cardinality(Counted(h)) \in Nat
<1>1. IsFiniteSet(Threads)
  BY WritePoolAssumption, FS_Union, Zenon DEF Threads
<1>2. Counted(h) \subseteq Threads
  BY Zenon DEF Counted
<1> QED BY <1>1, <1>2, FS_Subset, FS_CardinalityType, Zenon

\* A thread that has counted its message keeps pending above zero.
LEMMA PendingPositive ==
    ASSUME TypeOK, PendingExact, NEW t \in Threads,
           pc[t] \in {"try", "undo", "sub"}
    PROVE  pending[at[t]] \in Nat \ {0}
<1> DEFINE h == at[t]
<1>1. h \in Handles BY Zenon DEF TypeOK
<1>2. t \in Counted(h) BY Zenon DEF Counted
<1>3. Cardinality(Counted(h)) # 0
  BY <1>1, <1>2, CountedFinite, FS_EmptySet, Zenon
<1>4. Len(q[h]) \in Nat BY <1>1, SMT, Z3 DEF TypeOK
<1>5. pending[h] = Len(q[h]) + Cardinality(Counted(h)) BY <1>1, Zenon DEF PendingExact
<1> HIDE DEF h
<1>6. pending[h] \in Nat \ {0} BY <1>1, <1>3, <1>4, <1>5, CountedFinite, SMT, Z3
<1> QED BY <1>6, Zenon DEF h

\* A pointwise update keeps a function's type.
LEMMA ExceptType ==
    ASSUME NEW S, NEW T, NEW f \in [S -> T], NEW x, NEW e \in T
    PROVE  [f EXCEPT ![x] = e] \in [S -> T]
BY Zenon

LEMMA TypeStep ==
    ASSUME TypeOK, ControlOK, PendingExact, [Next]_vars
    PROVE  TypeOK'
<1>b. /\ q \in [Handles -> Seq(Msgs)] /\ pending \in [Handles -> Nat]
      /\ pc \in [Threads -> PCs] /\ at \in [Threads -> Handles]
      /\ msg \in [Threads -> Msgs] /\ poolq \in Seq(Handles)
  BY Zenon DEF TypeOK
<1>c. Senders \subseteq Threads /\ Workers \subseteq Threads BY Zenon DEF Threads
<1>d. \A t, l : l \in PCs /\ Goto(t, l) => pc' \in [Threads -> PCs]
  BY <1>b, ExceptType, ZenonT(60) DEF Goto
<1>1. ASSUME NEW s \in Senders, NEW h \in Handles, Send(s, h) PROVE TypeOK'
  <2>0. count \in [Senders -> 0..MaxMsgs] BY Zenon DEF TypeOK
  <2>1. count[s] \in 0..MaxMsgs /\ count[s] < MaxMsgs BY <1>1, <2>0, Zenon DEF Send
  <2>2. count[s] + 1 \in 1..MaxMsgs BY <2>1, WritePoolAssumption, SMT, Z3
  <2>3. count[s] + 1 \in 0..MaxMsgs BY <2>1, WritePoolAssumption, SMT, Z3
  <2>4. <<s, count[s] + 1>> \in Msgs BY <2>2, ZenonT(30) DEF Msgs
  <2>5. msg' \in [Threads -> Msgs] /\ at' \in [Threads -> Handles]
    BY <1>1, <1>b, <2>4, ExceptType, Zenon DEF Send
  <2>8. count' \in [Senders -> 0..MaxMsgs]
    BY <1>1, <2>0, <2>3, ExceptType, Zenon DEF Send
  <2>9. pending[h] + 1 \in Nat BY <1>b, SMT, Z3
  <2>6. pending' \in [Handles -> Nat]
    BY <1>1, <1>b, <2>9, ExceptType, Zenon DEF Send
  <2>7. pc' \in [Threads -> PCs] BY <1>1, <1>d, Zenon DEF Send, PCs
  <2> QED BY <1>1, <2>5, <2>6, <2>7, <2>8, Zenon DEF Send, TypeOK
<1>2. ASSUME NEW s \in Senders, TrySend(s) PROVE TypeOK'
  <2>1. sent \in [Handles -> Seq(Msgs)] BY Zenon DEF TypeOK
  <2>2. at[s] \in Handles /\ msg[s] \in Msgs BY <1>b, <1>c, Zenon
  <2>5. /\ Append(q[at[s]], msg[s]) \in Seq(Msgs)
        /\ Append(sent[at[s]], msg[s]) \in Seq(Msgs)
    BY <1>b, <2>1, <2>2, SMT, Z3
  <2>3. q' \in [Handles -> Seq(Msgs)] /\ sent' \in [Handles -> Seq(Msgs)]
    <3>1. \/ UNCHANGED <<q, sent>>
          \/ /\ q' = [q EXCEPT ![at[s]] = Append(q[at[s]], msg[s])]
             /\ sent' = [sent EXCEPT ![at[s]] = Append(sent[at[s]], msg[s])]
      BY <1>2, Zenon DEF TrySend
    <3>2. /\ [q EXCEPT ![at[s]] = Append(q[at[s]], msg[s])]
             \in [Handles -> Seq(Msgs)]
          /\ [sent EXCEPT ![at[s]] = Append(sent[at[s]], msg[s])]
             \in [Handles -> Seq(Msgs)]
      BY <1>b, <2>1, <2>5, ExceptType, Zenon
    <3> QED BY <1>b, <2>1, <3>1, <3>2, Zenon
  <2>4. pc' \in [Threads -> PCs] BY <1>2, <1>d, Zenon DEF TrySend, PCs
  <2> QED BY <1>2, <2>3, <2>4, Zenon DEF TrySend, TypeOK
<1>3. ASSUME NEW s \in Senders, Overflow(s) PROVE TypeOK'
  <2>0. cancelled \in [Handles -> BOOLEAN] BY Zenon DEF TypeOK
  <2>1. pending[at[s]] \in Nat \ {0}
    BY <1>3, <1>c, PendingPositive, Zenon DEF Overflow
  <2>5. pending[at[s]] - 1 \in Nat BY <2>1, SMT, Z3
  <2>2. pending' \in [Handles -> Nat]
    BY <1>3, <1>b, <2>5, ExceptType, Zenon DEF Overflow
  <2>3. cancelled' \in [Handles -> BOOLEAN]
    BY <1>3, <2>0, ExceptType, Zenon DEF Overflow
  <2>4. pc' \in [Threads -> PCs] BY <1>3, <1>d, ZenonT(30) DEF Overflow, PCs
  <2> QED BY <1>3, <2>2, <2>3, <2>4, Zenon DEF Overflow, TypeOK
<1>4. ASSUME NEW t \in Threads, Cas(t) PROVE TypeOK'
  <2>0. in_pool \in [Handles -> BOOLEAN] BY Zenon DEF TypeOK
  <2>1. in_pool' \in [Handles -> BOOLEAN]
    BY <1>4, <2>0, ExceptType, Zenon DEF Cas
  <2>2. pc' \in [Threads -> PCs] BY <1>4, <1>d, ZenonT(30) DEF Cas, PCs
  <2> QED BY <1>4, <2>1, <2>2, Zenon DEF Cas, TypeOK
<1>5. ASSUME NEW t \in Threads, Push(t) PROVE TypeOK'
  <2>1. poolq' \in Seq(Handles) BY <1>5, <1>b, SMT, Z3 DEF Push
  <2>2. pc' \in [Threads -> PCs] BY <1>5, <1>d, Zenon DEF Push, PCs
  <2> QED BY <1>5, <2>1, <2>2, Zenon DEF Push, TypeOK
<1>6. ASSUME NEW w \in Workers, Take(w) PROVE TypeOK'
  <2>1. Head(poolq) \in Handles /\ Tail(poolq) \in Seq(Handles)
    BY <1>6, <1>b, SMT, Z3 DEF Take
  <2>2. at' \in [Threads -> Handles] /\ poolq' \in Seq(Handles)
    BY <1>6, <1>b, <2>1, ExceptType, Zenon DEF Take
  <2>3. pc' \in [Threads -> PCs] BY <1>6, <1>d, Zenon DEF Take, PCs
  <2> QED BY <1>6, <2>2, <2>3, Zenon DEF Take, TypeOK
<1>7. ASSUME NEW w \in Workers, Lock(w) \/ Flush(w) PROVE TypeOK'
  <2>1. pc' \in [Threads -> PCs] BY <1>7, <1>d, ZenonT(30) DEF Lock, Flush, PCs
  <2> QED BY <1>7, <2>1, Zenon DEF Lock, Flush, TypeOK
<1>8. ASSUME NEW w \in Workers, TryRecv(w) PROVE TypeOK'
  <2>1. at[w] \in Handles BY <1>b, <1>c, Zenon
  <2>2. q[at[w]] # <<>> =>
          Head(q[at[w]]) \in Msgs /\ Tail(q[at[w]]) \in Seq(Msgs)
    BY <1>b, <2>1, SMT, Z3
  <2>3. msg' \in [Threads -> Msgs] /\ q' \in [Handles -> Seq(Msgs)]
    <3>1. CASE q[at[w]] = <<>> BY <1>8, <1>b, <3>1, Zenon DEF TryRecv
    <3>2. CASE q[at[w]] # <<>>
      <4>1. /\ msg' = [msg EXCEPT ![w] = Head(q[at[w]])]
            /\ q' = [q EXCEPT ![at[w]] = Tail(q[at[w]])]
        BY <1>8, <3>2, Zenon DEF TryRecv
      <4> QED BY <1>b, <2>2, <3>2, <4>1, ExceptType, Zenon
    <3> QED BY <3>1, <3>2, Zenon
  <2>4. pc' \in [Threads -> PCs] BY <1>8, <1>d, Zenon DEF TryRecv, PCs
  <2> QED BY <1>8, <2>3, <2>4, Zenon DEF TryRecv, TypeOK
<1>9. ASSUME NEW w \in Workers, SubPending(w) PROVE TypeOK'
  <2>1. pending[at[w]] \in Nat \ {0}
    BY <1>9, <1>c, PendingPositive, Zenon DEF SubPending
  <2>4. pending[at[w]] - 1 \in Nat BY <2>1, SMT, Z3
  <2>2. pending' \in [Handles -> Nat]
    BY <1>9, <1>b, <2>4, ExceptType, Zenon DEF SubPending
  <2>3. pc' \in [Threads -> PCs] BY <1>9, <1>d, ZenonT(30) DEF SubPending, PCs
  <2> QED BY <1>9, <2>2, <2>3, Zenon DEF SubPending, TypeOK
<1>10. ASSUME NEW w \in Workers, Feed(w) PROVE TypeOK'
  <2>1. wire \in [Handles -> Seq(Msgs)] BY Zenon DEF TypeOK
  <2>2. at[w] \in Handles /\ msg[w] \in Msgs BY <1>b, <1>c, Zenon
  <2>5. Append(wire[at[w]], msg[w]) \in Seq(Msgs) BY <2>1, <2>2, SMT, Z3
  <2>3. wire' \in [Handles -> Seq(Msgs)]
    BY <1>10, <2>1, <2>5, ExceptType, Zenon DEF Feed
  <2>4. pc' \in [Threads -> PCs] BY <1>10, <1>d, ZenonT(30) DEF Feed, PCs
  <2> QED BY <1>10, <2>3, <2>4, Zenon DEF Feed, TypeOK
<1>12. ASSUME NEW w \in Workers, Clear(w) PROVE TypeOK'
  <2>1. buf' \subseteq Workers BY <1>12, Zenon DEF Clear, TypeOK
  <2>2. pc' \in [Threads -> PCs] BY <1>12, <1>d, ZenonT(30) DEF Clear, PCs
  <2> QED BY <1>12, <2>1, <2>2, Zenon DEF Clear, TypeOK
<1>13. ASSUME NEW w \in Workers, StoreLands(w) PROVE TypeOK'
  <2>1. in_pool \in [Handles -> BOOLEAN] /\ buf \subseteq Workers BY ZenonT(30) DEF TypeOK
  <2>2. in_pool' \in [Handles -> BOOLEAN] /\ buf' \subseteq Workers
    BY <1>13, <2>1, ExceptType, Zenon DEF StoreLands
  <2> QED BY <1>13, <2>2, Zenon DEF StoreLands, TypeOK
<1>14. ASSUME NEW w \in Workers, Check(w) PROVE TypeOK'
  <2>1. late' \subseteq Handles BY <1>14, <1>b, <1>c, ZenonT(30) DEF Check, TypeOK
  <2>2. pc' \in [Threads -> PCs] BY <1>14, <1>d, ZenonT(30) DEF Check, PCs
  <2> QED BY <1>14, <2>1, <2>2, Zenon DEF Check, TypeOK
<1>15. ASSUME NEW h \in Handles, SocketChanges(h) PROVE TypeOK'
  <2>1. sock' \in [Handles -> {"ok", "stuck", "broken"}]
    BY <1>15, ZenonT(30) DEF SocketChanges, TypeOK
  <2> QED BY <1>15, <2>1, Zenon DEF SocketChanges, TypeOK
<1>16. ASSUME UNCHANGED vars PROVE TypeOK'
  BY <1>16, Zenon DEF vars, TypeOK
<1> QED
  BY <1>1, <1>2, <1>3, <1>4, <1>5, <1>6, <1>7, <1>8, <1>9, <1>10,
     <1>12, <1>13, <1>14, <1>15, <1>16, Zenon
  DEF Next, SendStep, DrainStep, WorkerStep, Threads

-----------------------------------------------------------------------------
(* What one step of one thread does to the sets the invariants are about *)

\* A thread goes to label l, and has no store in its buffer.
LEMMA ControlMove ==
    ASSUME TypeOK, ControlOK, NEW t \in Threads, NEW l, Goto(t, l),
           UNCHANGED buf, late \subseteq late', t \notin buf,
           \A u \in Threads \ {t} : at'[u] = at[u],
           t \in Senders => l \in {"idle", "try", "undo", "cas", "push"},
           t \in Workers => l \in PCs \ {"try", "undo"}
    PROVE  ControlOK'
<1>1. \A u \in Threads : pc'[u] = IF u = t THEN l ELSE pc[u]
  BY Zenon DEF Goto, TypeOK
<1>2. Senders \subseteq Threads /\ Workers \subseteq Threads /\ buf \subseteq Threads
  BY Zenon DEF TypeOK, Threads
<1>3. \A s \in Senders : pc'[s] \in {"idle", "try", "undo", "cas", "push"}
  BY <1>1, <1>2, Zenon DEF ControlOK
<1>4. \A w \in Workers : pc'[w] \in PCs \ {"try", "undo"}
  BY <1>1, <1>2, ZenonT(30) DEF ControlOK
<1>5. \A w \in buf : pc'[w] = pc[w] /\ at'[w] = at[w]
  BY <1>1, <1>2, Zenon
<1>6. \A w \in buf' : /\ pc'[w] \in {"idle", "check", "cas"}
                      /\ pc'[w] = "check" \/ at'[w] \in late'
  BY <1>5, Zenon DEF ControlOK
<1> QED BY <1>3, <1>4, <1>6, Zenon DEF ControlOK

Counting == {"try", "undo", "sub"}
Holding == {"push", "lock", "recv", "sub", "feed", "flush", "clear"}
Resting == {"idle", "try", "undo"}

\* A step between two labels that count no message leaves every Counted alone.
LEMMA CountedSame ==
    ASSUME TypeOK, NEW t \in Threads, NEW l, Goto(t, l), pc[t] \notin Counting,
           l \notin Counting, \A u \in Threads \ {t} : at'[u] = at[u]
    PROVE  \A h \in Handles : Counted(h)' = Counted(h)
<1>1. \A u \in Threads : pc'[u] = IF u = t THEN l ELSE pc[u]
  BY Zenon DEF Goto, TypeOK
<1> QED BY <1>1, Zenon DEF Counted, Counting

\* A step between two labels that both hold the token, or neither, leaves every
\* Holders alone.
LEMMA HoldersSame ==
    ASSUME TypeOK, NEW t \in Threads, NEW l, Goto(t, l), UNCHANGED buf,
           \/ at' = at /\ (pc[t] \in Holding <=> l \in Holding)
           \/ /\ \A u \in Threads \ {t} : at'[u] = at[u]
              /\ pc[t] \notin Holding /\ l \notin Holding /\ t \notin buf
    PROVE  \A h \in Handles : Holders(h)' = Holders(h)
<1>1. \A u \in Threads : pc'[u] = IF u = t THEN l ELSE pc[u]
  BY Zenon DEF Goto, TypeOK
<1>2. \A u \in Threads, h \in Handles : Holds(u, h)' <=> Holds(u, h)
  BY <1>1, ZenonT(30) DEF Holds, Holding
<1> QED BY <1>2, Zenon DEF Holders

LEMMA ControlStep ==
    ASSUME TypeOK, ControlOK, [Next]_vars
    PROVE  ControlOK'
<1>0. /\ Senders \cap Workers = {} /\ buf \subseteq Workers
      /\ at \in [Threads -> Handles]
  BY WritePoolAssumption, Zenon DEF TypeOK
<1>a. /\ \A s \in Senders : s \in Threads /\ s \notin Workers /\ s \notin buf
      /\ \A w \in Workers : w \in Threads /\ w \notin Senders
      /\ \A t \in Threads : t \in Senders \/ t \in Workers
  BY <1>0, Zenon DEF Threads
<1>1. ASSUME NEW s \in Senders, NEW h \in Handles, Send(s, h) PROVE ControlOK'
  BY <1>0, <1>a, <1>1, ControlMove, Zenon DEF Send
<1>2. ASSUME NEW s \in Senders, TrySend(s) PROVE ControlOK'
  <2>1. PICK l \in {"cas", "undo"} : Goto(s, l) BY <1>2, Zenon DEF TrySend
  <2>2. UNCHANGED <<at, buf, late>> BY <1>2, Zenon DEF TrySend
  <2> QED BY <1>a, <2>1, <2>2, ControlMove, Zenon
<1>3. ASSUME NEW s \in Senders, Overflow(s) PROVE ControlOK'
  BY <1>a, <1>3, ControlMove, Zenon DEF Overflow
<1>4. ASSUME NEW t \in Threads, Cas(t) PROVE ControlOK'
  <2>1. PICK l \in {"idle", "push"} : Goto(t, l) BY <1>4, Zenon DEF Cas
  <2>2. UNCHANGED <<at, buf, late>> /\ t \notin buf BY <1>4, Zenon DEF Cas
  <2> QED BY <1>a, <2>1, <2>2, ControlMove, Zenon DEF PCs
<1>5. ASSUME NEW t \in Threads, Push(t) PROVE ControlOK'
  <2>1. t \notin buf BY <1>5, Zenon DEF Push, ControlOK
  <2> QED BY <1>a, <1>5, <2>1, ControlMove, Zenon DEF Push, PCs
<1>6. ASSUME NEW w \in Workers, Take(w) PROVE ControlOK'
  <2>1. \A u \in Threads \ {w} : at'[u] = at[u] BY <1>0, <1>6, ZenonT(30) DEF Take
  <2> QED BY <1>a, <1>6, <2>1, ControlMove, Zenon DEF Take, PCs
<1>7. ASSUME NEW w \in Workers, DrainStep(w) PROVE ControlOK'
  <2>1. pc[w] \in {"lock", "recv", "sub", "feed", "flush"}
    BY <1>7, Zenon DEF DrainStep, Lock, TryRecv, SubPending, Feed, Flush
  <2>2. w \notin buf BY <2>1, Zenon DEF ControlOK
  <2>3. PICK l \in {"recv", "sub", "feed", "flush", "clear"} : Goto(w, l)
    BY <1>7, ZenonT(30) DEF DrainStep, Lock, TryRecv, SubPending, Feed, Flush
  <2>4. UNCHANGED <<at, buf, late>>
    BY <1>7, Zenon DEF DrainStep, Lock, TryRecv, SubPending, Feed, Flush
  <2> QED BY <1>a, <2>2, <2>3, <2>4, ControlMove, ZenonT(60) DEF PCs
<1>8. ASSUME NEW w \in Workers, Clear(w) PROVE ControlOK'
  BY <1>0, <1>8, SMT, Z3 DEF Clear, Goto, TypeOK, ControlOK, PCs, Threads
<1>9. ASSUME NEW w \in Workers, StoreLands(w) PROVE ControlOK'
  BY <1>9, Zenon DEF StoreLands, ControlOK
<1>10. ASSUME NEW w \in Workers, Check(w) PROVE ControlOK'
  BY <1>0, <1>10, ZenonT(30) DEF Check, Goto, TypeOK, ControlOK, PCs, Threads
<1>11. ASSUME NEW h \in Handles, SocketChanges(h) PROVE ControlOK'
  BY <1>11, Zenon DEF SocketChanges, ControlOK
<1>12. ASSUME UNCHANGED vars PROVE ControlOK'
  BY <1>12, Zenon DEF vars, ControlOK
<1> QED
  BY <1>1, <1>2, <1>3, <1>4, <1>5, <1>6, <1>7, <1>8, <1>9, <1>10, <1>11, <1>12,
     Zenon
  DEF Next, SendStep, WorkerStep, Threads

-----------------------------------------------------------------------------
(* pending is exact *)

\* A step that neither counts nor uncounts a message, and leaves the channels
\* alone, leaves PendingExact alone.
LEMMA PendingFrame ==
    ASSUME PendingExact, UNCHANGED <<pending, q>>,
           \A h \in Handles : Counted(h)' = Counted(h)
    PROVE  PendingExact'
BY Zenon DEF PendingExact

\* Thread t enters (d = 1) or leaves (d = -1) Counted(at'[t]), and pending or
\* the channel of that handle moves with it.
LEMMA PendingMove ==
    ASSUME TypeOK, TypeOK', PendingExact, NEW h \in Handles, NEW t \in Threads,
           \A g \in Handles \ {h} :
               /\ Counted(g)' = Counted(g)
               /\ pending'[g] = pending[g] /\ q'[g] = q[g],
           \/ /\ t \notin Counted(h) /\ Counted(h)' = Counted(h) \cup {t}
              /\ pending'[h] - Len(q'[h]) = (pending[h] - Len(q[h])) + 1
           \/ /\ t \in Counted(h) /\ Counted(h)' = Counted(h) \ {t}
              /\ pending'[h] - Len(q'[h]) = (pending[h] - Len(q[h])) - 1
    PROVE  PendingExact'
<1>1. IsFiniteSet(Counted(h)) /\ Cardinality(Counted(h)) \in Nat
  BY CountedFinite, Zenon
<1>2. /\ pending[h] \in Nat /\ pending'[h] \in Nat
      /\ Len(q[h]) \in Nat /\ Len(q'[h]) \in Nat
  <2>1. q \in [Handles -> Seq(Msgs)] /\ pending \in [Handles -> Nat]
    BY Zenon DEF TypeOK
  <2>2. q' \in [Handles -> Seq(Msgs)] /\ pending' \in [Handles -> Nat]
    BY Zenon DEF TypeOK
  <2> QED BY <2>1, <2>2, SMT, Z3
<1>3. pending[h] = Len(q[h]) + Cardinality(Counted(h)) BY Zenon DEF PendingExact
<1>4. pending'[h] = Len(q'[h]) + Cardinality(Counted(h)')
  <2>1. CASE /\ t \notin Counted(h) /\ Counted(h)' = Counted(h) \cup {t}
             /\ pending'[h] - Len(q'[h]) = (pending[h] - Len(q[h])) + 1
    <3>1. Cardinality(Counted(h) \cup {t}) = Cardinality(Counted(h)) + 1
      BY <1>1, <2>1, FS_AddElement, Zenon
    <3> QED BY <1>1, <1>2, <1>3, <2>1, <3>1, SMTT(30), Z3T(30)
  <2>2. CASE /\ t \in Counted(h) /\ Counted(h)' = Counted(h) \ {t}
             /\ pending'[h] - Len(q'[h]) = (pending[h] - Len(q[h])) - 1
    <3>1. Cardinality(Counted(h) \ {t}) = Cardinality(Counted(h)) - 1
      BY <1>1, <2>2, FS_RemoveElement, Zenon
    <3> QED BY <1>1, <1>2, <1>3, <2>2, <3>1, SMTT(30), Z3T(30)
  <2> QED BY <2>1, <2>2, Zenon
<1>5. \A g \in Handles \ {h} : pending'[g] = Len(q'[g]) + Cardinality(Counted(g)')
  BY Zenon DEF PendingExact
<1> QED BY <1>4, <1>5, Zenon DEF PendingExact

LEMMA PendingStep ==
    ASSUME TypeOK, TypeOK', ControlOK, PendingExact, [Next]_vars
    PROVE  PendingExact'
<1>b. /\ pending \in [Handles -> Nat] /\ q \in [Handles -> Seq(Msgs)]
      /\ pc \in [Threads -> PCs] /\ at \in [Threads -> Handles]
  BY Zenon DEF TypeOK
<1>c. Senders \subseteq Threads /\ Workers \subseteq Threads BY Zenon DEF Threads
<1>1. ASSUME NEW s \in Senders, NEW h \in Handles, Send(s, h)
      PROVE PendingExact'
  <2>1. s \notin Counted(h) /\ Counted(h)' = Counted(h) \cup {s}
    BY <1>1, <1>b, <1>c, Zenon DEF Send, Counted, Goto
  <2>3. pending[h] \in Nat /\ Len(q[h]) \in Nat BY <1>b, SMT, Z3
  <2>4. pending'[h] = pending[h] + 1 /\ q' = q BY <1>1, Zenon DEF Send, TypeOK
  <2>5. pending'[h] - Len(q'[h]) = (pending[h] - Len(q[h])) + 1 BY <2>3, <2>4, SMT, Z3
  <2>2. \A g \in Handles \ {h} : /\ Counted(g)' = Counted(g)
                                 /\ pending'[g] = pending[g] /\ q'[g] = q[g]
    BY <1>1, <1>b, <1>c, ZenonT(30) DEF Send, Counted, Goto
  <2> QED BY <1>c, <2>1, <2>2, <2>5, PendingMove, ZenonT(30)
<1>2. ASSUME NEW s \in Senders, TrySend(s) PROVE PendingExact'
  <2>0. PICK h \in Handles : h = at[s] BY <1>b, <1>c, ZenonT(30)
  <2>1. CASE Len(q[h]) < Capacity
    <3>1. /\ s \in Counted(h) /\ Counted(h)' = Counted(h) \ {s}
          /\ \A g \in Handles \ {h} : /\ Counted(g)' = Counted(g)
                                 /\ pending'[g] = pending[g] /\ q'[g] = q[g]
      BY <1>b, <1>c, <2>0, <1>2, <2>1, Zenon DEF TrySend, Counted, Goto
    <3>2. /\ q'[h] = Append(q[h], msg[s])
          /\ pending'[h] = pending[h]
      BY <1>b, <1>c, <2>0, <1>2, <2>1, ZenonT(30) DEF TrySend, Counted, Goto
    <3>3. pending[h] \in Nat /\ q[h] \in Seq(Msgs)
      BY <1>b, Zenon
    <3>4. Len(q'[h]) = Len(q[h]) + 1 /\ Len(q[h]) \in Nat
      BY <3>2, <3>3, SMT, Z3
    <3>5. pending'[h] - Len(q'[h]) = (pending[h] - Len(q[h])) - 1
      BY <3>2, <3>3, <3>4, SMTT(30), Z3T(30)
    <3> QED BY <3>1, <3>3, <3>5, PendingMove, <1>c, Zenon
  <2>2. CASE ~(Len(q[h]) < Capacity)
    BY <1>b, <1>c, <2>0, <1>2, <2>2, PendingFrame, ZenonT(30) DEF TrySend, Counted, Goto
  <2> QED BY <2>1, <2>2, Zenon
<1>3. ASSUME NEW s \in Senders, Overflow(s) PROVE PendingExact'
  <2>0. PICK h \in Handles : h = at[s] BY <1>b, <1>c, Zenon
  <2>1. /\ s \in Counted(h) /\ Counted(h)' = Counted(h) \ {s}
        /\ \A g \in Handles \ {h} : /\ Counted(g)' = Counted(g)
                                 /\ pending'[g] = pending[g] /\ q'[g] = q[g]
    BY <1>b, <1>c, <2>0, <1>3, ZenonT(30) DEF Overflow, Counted, Goto
  <2>2. q' = q /\ pending'[h] = pending[h] - 1
    BY <1>b, <1>c, <2>0, <1>3, ZenonT(30) DEF Overflow, TypeOK
  <2>3. pending[h] \in Nat /\ Len(q[h]) \in Nat
    BY <1>b, SMT, Z3
  <2>4. pending'[h] - Len(q'[h]) = (pending[h] - Len(q[h])) - 1
    BY <2>2, <2>3, SMT, Z3
  <2> QED BY <2>1, <2>3, <2>4, PendingMove, <1>c, ZenonT(30)
<1>4. ASSUME NEW t \in Threads, Cas(t) \/ Push(t) PROVE PendingExact'
  <2>1. UNCHANGED <<pending, q, at>> /\ pc[t] \in {"cas", "push"}
    BY <1>4, Zenon DEF Cas, Push
  <2>2. PICK l \in {"idle", "push"} : Goto(t, l) BY <1>4, ZenonT(30) DEF Cas, Push
  <2> QED BY <2>1, <2>2, CountedSame, PendingFrame, ZenonT(60) DEF Counting
<1>5. ASSUME NEW w \in Workers, Take(w) \/ Lock(w) \/ Feed(w) \/ Flush(w)
      PROVE PendingExact'
  <2>1. /\ UNCHANGED <<pending, q>>
        /\ pc[w] \in {"idle", "lock", "feed", "flush"}
    BY <1>5, ZenonT(30) DEF Take, Lock, Feed, Flush
  <2>2. \A u \in Threads \ {w} : at'[u] = at[u]
    BY <1>5, <1>b, Zenon DEF Take, Lock, Feed, Flush
  <2>3. PICK l \in {"lock", "recv", "flush", "clear"} : Goto(w, l)
    BY <1>5, Zenon DEF Take, Lock, Feed, Flush
  <2> QED BY <2>1, <2>2, <2>3, CountedSame, PendingFrame, ZenonT(60)
          DEF Counting, Threads
<1>6. ASSUME NEW w \in Workers, TryRecv(w) PROVE PendingExact'
  <2>0. PICK h \in Handles : h = at[w] BY <1>b, <1>c, ZenonT(30)
  <2>1. CASE q[h] = <<>>
    BY <1>b, <1>c, <2>0, <1>6, <2>1, PendingFrame, Zenon
    DEF TryRecv, Counted, Goto
  <2>2. CASE q[h] # <<>>
    <3>1. /\ w \notin Counted(h) /\ Counted(h)' = Counted(h) \cup {w}
          /\ \A g \in Handles \ {h} : /\ Counted(g)' = Counted(g)
                                 /\ pending'[g] = pending[g] /\ q'[g] = q[g]
      BY <1>b, <1>c, <2>0, <1>6, <2>2, SMTT(30), Z3T(30) DEF TryRecv, Counted, Goto
    <3>2. q'[h] = Tail(q[h]) /\ pending'[h] = pending[h]
      BY <1>b, <1>c, <2>0, <1>6, <2>2, Zenon DEF TryRecv, Counted, Goto
    <3>3. pending[h] \in Nat /\ q[h] \in Seq(Msgs)
      BY <1>b, Zenon
    <3>4. Len(q'[h]) = Len(q[h]) - 1 /\ Len(q[h]) \in Nat
      BY <2>2, <3>2, <3>3, SMT, Z3
    <3>5. pending'[h] - Len(q'[h]) = (pending[h] - Len(q[h])) + 1
      BY <3>2, <3>3, <3>4, SMT, Z3
    <3> QED BY <3>1, <3>3, <3>5, PendingMove, <1>c, Zenon
  <2> QED BY <2>1, <2>2, Zenon
<1>7. ASSUME NEW w \in Workers, SubPending(w) PROVE PendingExact'
  <2>0. PICK h \in Handles : h = at[w] BY <1>b, <1>c, Zenon
  <2>1. /\ w \in Counted(h) /\ Counted(h)' = Counted(h) \ {w}
        /\ \A g \in Handles \ {h} : /\ Counted(g)' = Counted(g)
                                 /\ pending'[g] = pending[g] /\ q'[g] = q[g]
    BY <1>b, <1>c, <2>0, <1>7, Zenon DEF SubPending, Counted, Goto
  <2>2. q' = q /\ pending'[h] = pending[h] - 1
    BY <1>b, <1>c, <2>0, <1>7, ZenonT(30) DEF SubPending, TypeOK
  <2>3. pending[h] \in Nat /\ Len(q[h]) \in Nat
    BY <1>b, SMT, Z3
  <2>4. pending'[h] - Len(q'[h]) = (pending[h] - Len(q[h])) - 1
    BY <2>2, <2>3, SMT, Z3
  <2> QED BY <2>1, <2>3, <2>4, PendingMove, <1>c, Zenon
<1>8. ASSUME NEW w \in Workers, Clear(w) \/ StoreLands(w) \/ Check(w)
      PROVE PendingExact'
  <2>1. CASE StoreLands(w)
    BY <2>1, PendingFrame, ZenonT(30) DEF StoreLands, Counted
  <2>2. CASE Clear(w) \/ Check(w)
    <3>1. UNCHANGED <<pending, q, at>> /\ pc[w] \in {"clear", "check"}
      BY <2>2, Zenon DEF Clear, Check
    <3>2. PICK l \in {"idle", "cas", "check"} : Goto(w, l)
      BY <2>2, Zenon DEF Clear, Check
    <3> QED BY <3>1, <3>2, CountedSame, PendingFrame, ZenonT(60)
            DEF Counting, Threads
  <2> QED BY <1>8, <2>1, <2>2, ZenonT(30)
<1>9. ASSUME NEW h \in Handles, SocketChanges(h) PROVE PendingExact'
  BY <1>9, PendingFrame, Zenon DEF SocketChanges, TypeOK, Counted
<1>10. ASSUME UNCHANGED vars PROVE PendingExact'
  BY <1>10, PendingFrame, Zenon DEF vars, TypeOK, Counted
<1> QED
  BY <1>1, <1>2, <1>3, <1>4, <1>5, <1>6, <1>7, <1>8, <1>9, <1>10, ZenonT(60)
  DEF Next, SendStep, DrainStep, WorkerStep, Threads

-----------------------------------------------------------------------------
(* The in_pool token *)

\* SingleDrainer for one handle.
Token(h) ==
    /\ \A t, u \in Holders(h) : t = u
    /\ \A i, j \in Queued(h) : i = j
    /\ Holders(h) = {} \/ Queued(h) = {}
    /\ in_pool[h] <=> (Holders(h) # {} \/ Queued(h) # {})

LEMMA SingleDrainerToken == SingleDrainer <=> \A h \in Handles : Token(h)
BY Zenon DEF SingleDrainer, Token

LEMMA TokenFrame ==
    ASSUME NEW h \in Handles, Token(h), Holders(h)' = Holders(h),
           Queued(h)' = Queued(h), in_pool'[h] = in_pool[h]
    PROVE  Token(h)'
BY Zenon DEF Token

\* A step that moves no thread into or out of Holders, and touches neither the
\* pool's queue nor in_pool, keeps the token where it is.
LEMMA TokenUnmoved ==
    ASSUME SingleDrainer, UNCHANGED <<poolq, in_pool>>,
           \A h \in Handles : Holders(h)' = Holders(h)
    PROVE  SingleDrainer'
<1>1. \A h \in Handles : Queued(h)' = Queued(h) BY Zenon DEF Queued
<1> QED BY <1>1, SMT, Z3 DEF SingleDrainer

LEMMA TokenStep ==
    ASSUME TypeOK, ControlOK, SingleDrainer, [Next]_vars
    PROVE  SingleDrainer'
<1>0. Senders \cap Workers = {} /\ buf \subseteq Workers
  BY WritePoolAssumption, Zenon DEF TypeOK
<1>b. /\ pc \in [Threads -> PCs] /\ at \in [Threads -> Handles]
      /\ in_pool \in [Handles -> BOOLEAN] /\ poolq \in Seq(Handles)
  BY Zenon DEF TypeOK
<1>c. Senders \subseteq Threads /\ Workers \subseteq Threads BY Zenon DEF Threads
<1>1. ASSUME NEW s \in Senders, NEW h \in Handles, Send(s, h)
      PROVE SingleDrainer'
  <2>1. \A u \in Threads \ {s} : at'[u] = at[u] BY <1>1, <1>b, ZenonT(30) DEF Send
  <2>2. /\ UNCHANGED <<poolq, in_pool, buf>> /\ pc[s] = "idle" /\ Goto(s, "try")
        /\ s \notin buf
    BY <1>0, <1>1, Zenon DEF Send
  <2> QED BY <1>c, <2>1, <2>2, HoldersSame, TokenUnmoved, Zenon DEF Holding
<1>2. ASSUME NEW s \in Senders, TrySend(s) \/ Overflow(s) PROVE SingleDrainer'
  <2>1. /\ UNCHANGED <<poolq, in_pool, buf, at>> /\ pc[s] \in {"try", "undo"}
        /\ s \notin buf
    BY <1>0, <1>2, ZenonT(60) DEF TrySend, Overflow
  <2>2. PICK l \in {"idle", "cas", "undo"} : Goto(s, l)
    BY <1>2, Zenon DEF TrySend, Overflow
  <2> QED BY <1>c, <2>1, <2>2, HoldersSame, TokenUnmoved, Zenon DEF Holding
<1>3. ASSUME NEW t \in Threads, Cas(t) PROVE SingleDrainer'
  <2>0. PICK h \in Handles : h = at[t] BY <1>b, Zenon
  <2>1. CASE in_pool[h]
    <3>1. in_pool' = in_pool BY <1>b, <1>c, <1>3, <2>0, <2>1, ZenonT(30) DEF Cas
    <3>2. \A g \in Handles : Holders(g)' = Holders(g)
      BY <1>b, <1>c, <1>3, <2>0, <2>1, ZenonT(60) DEF Cas, Holders, Holds, Goto
    <3> QED BY <1>3, <3>1, <3>2, TokenUnmoved, ZenonT(30) DEF Cas
  <2>2. CASE ~in_pool[h]
    <3>1. Holders(h) = {} /\ Queued(h) = {} BY <2>2, ZenonT(30) DEF SingleDrainer
    <3>2. Holders(h)' = {t}
      BY <1>b, <1>c, <1>3, <2>0, <2>2, <3>1, ZenonT(60)
      DEF Cas, Holders, Holds, Goto
    <3>3. Queued(h)' = {} BY <1>3, <3>1, Zenon DEF Cas, Queued
    <3>4. in_pool'[h] = TRUE BY <1>b, <1>c, <1>3, <2>0, ZenonT(30) DEF Cas
    <3>5. Token(h)' BY <3>2, <3>3, <3>4, Zenon DEF Token
    <3>6. ASSUME NEW g \in Handles \ {h} PROVE Token(g)'
      <4>1. Holders(g)' = Holders(g)
        BY <1>b, <1>c, <1>3, <2>0, <3>6, ZenonT(30) DEF Cas, Holders, Holds, Goto
      <4>2. Queued(g)' = Queued(g) BY <1>3, ZenonT(30) DEF Cas, Queued
      <4>3. in_pool'[g] = in_pool[g]
        BY <1>b, <1>c, <1>3, <2>0, <3>6, Zenon DEF Cas
      <4> QED BY <3>6, <4>1, <4>2, <4>3, SingleDrainerToken, TokenFrame, ZenonT(30)
    <3> QED BY <3>5, <3>6, Zenon DEF SingleDrainer, Token
  <2> QED BY <2>1, <2>2, ZenonT(30)
<1>4. ASSUME NEW t \in Threads, Push(t) PROVE SingleDrainer'
  <2>0. PICK h \in Handles : h = at[t] BY <1>b, Zenon
  <2>1. t \notin buf BY <1>4, Zenon DEF Push, ControlOK
  <2>2. t \in Holders(h) BY <1>4, <2>0, ZenonT(30) DEF Push, Holders, Holds
  <2>3. Holders(h) = {t} /\ Queued(h) = {} /\ in_pool[h]
    BY <2>2, SMT, Z3 DEF SingleDrainer
  <2>4. Holders(h)' = {}
    BY <1>b, <1>c, <1>4, <2>0, <2>1, <2>3, ZenonT(30) DEF Push, Holders, Holds, Goto
  <2>5. poolq \in Seq(Handles) /\ poolq' = Append(poolq, h)
    BY <1>b, <1>c, <1>4, <2>0, Zenon DEF Push
  <2>6. Queued(h)' = {Len(poolq) + 1} BY <2>3, <2>5, SMT, Z3 DEF Queued
  <2>7. Token(h)' BY <1>4, <2>3, <2>4, <2>6, ZenonT(60) DEF Token, Push
  <2>8. ASSUME NEW g \in Handles \ {h} PROVE Token(g)'
    <3>1. Holders(g)' = Holders(g)
      BY <1>b, <1>c, <1>4, <2>0, <2>8, ZenonT(60) DEF Push, Holders, Holds, Goto
    <3>2. Queued(g)' = Queued(g) BY <2>5, <2>8, SMT, Z3 DEF Queued
    <3>3. in_pool'[g] = in_pool[g] BY <1>4, ZenonT(60) DEF Push
    <3> QED BY <2>8, <3>1, <3>2, <3>3, SingleDrainerToken, TokenFrame, Zenon
  <2> QED BY <2>7, <2>8, Zenon DEF SingleDrainer, Token
<1>5. ASSUME NEW w \in Workers, Take(w) PROVE SingleDrainer'
  <2>0. PICK h \in Handles : h = Head(poolq) BY <1>5, <1>b, SMT, Z3 DEF Take
  <2>1. poolq \in Seq(Handles) /\ poolq # <<>> /\ poolq' = Tail(poolq)
    BY <1>b, <1>c, <1>5, Zenon DEF Take
  <2>2. 1 \in Queued(h) BY <2>0, <2>1, SMT, Z3 DEF Queued
  <2>3. Queued(h) = {1} /\ Holders(h) = {} /\ in_pool[h]
    BY <2>2, SMT, Z3 DEF SingleDrainer
  <2>4. Holders(h)' = {w}
    BY <1>b, <1>c, <1>5, <2>0, <2>3, Zenon DEF Take, Holders, Holds, Goto
  <2>5. \A i \in 1..Len(poolq') : i + 1 \in 1..Len(poolq) /\ poolq'[i] = poolq[i + 1]
    BY <2>1, SMT, Z3
  <2>6. Queued(h)' = {} BY <2>1, <2>3, <2>5, SMT, Z3 DEF Queued
  <2>7. Token(h)' BY <1>5, <2>3, <2>4, <2>6, Zenon DEF Token, Take
  <2>8. ASSUME NEW g \in Handles \ {h} PROVE Token(g)'
    <3>1. Holders(g)' = Holders(g)
      BY <1>b, <1>c, <1>5, <2>0, <2>8, ZenonT(30) DEF Take, Holders, Holds, Goto
    <3>2. \A i : i \in Queued(g)' => i \in Nat /\ i + 1 \in Queued(g)
      BY <2>1, <2>5, SMT, Z3 DEF Queued
    <3>3. \A i \in Queued(g) : i - 1 \in Queued(g)'
      BY <2>0, <2>1, <2>8, SMT, Z3 DEF Queued
    <3>4. in_pool' = in_pool BY <1>5, ZenonT(30) DEF Take
    <3>5. \A i, j \in Queued(g)' : i = j
      <4>1. TAKE i, j \in Queued(g)'
      <4>2. i \in Nat /\ j \in Nat /\ i + 1 = j + 1
        BY <2>8, <3>2, <4>1, ZenonT(30) DEF SingleDrainer
      <4> QED BY <4>2, SMT, Z3
    <3>6. Queued(g)' = {} <=> Queued(g) = {} BY <3>2, <3>3, ZenonT(30)
    <3>7. Token(g) BY <2>8, SingleDrainerToken, Zenon
    <3> QED BY <3>1, <3>4, <3>5, <3>6, <3>7, ZenonT(60) DEF Token
  <2> QED BY <2>7, <2>8, ZenonT(60) DEF SingleDrainer, Token
<1>6. ASSUME NEW w \in Workers, DrainStep(w) \/ Check(w) PROVE SingleDrainer'
  <2>2. CASE DrainStep(w)
    <3>1. /\ UNCHANGED <<poolq, in_pool, buf, at>>
          /\ pc[w] \in {"lock", "recv", "sub", "feed", "flush"}
      BY <2>2, Zenon DEF DrainStep, Lock, TryRecv, SubPending, Feed, Flush
    <3>2. PICK l \in {"recv", "sub", "feed", "flush", "clear"} : Goto(w, l)
      BY <2>2, Zenon DEF DrainStep, Lock, TryRecv, SubPending, Feed, Flush
    <3> QED BY <1>c, <3>1, <3>2, HoldersSame, TokenUnmoved, Zenon DEF Holding
  <2>3. CASE Check(w)
    <3>1. UNCHANGED <<poolq, in_pool, buf, at>> /\ pc[w] = "check"
      BY <2>3, Zenon DEF Check
    <3>2. PICK l \in {"cas", "idle"} : Goto(w, l) BY <2>3, ZenonT(30) DEF Check
    <3> QED BY <1>c, <3>1, <3>2, HoldersSame, TokenUnmoved, ZenonT(60) DEF Holding
  <2> QED BY <1>6, <2>2, <2>3, ZenonT(30)
<1>7. ASSUME NEW w \in Workers, Clear(w) \/ StoreLands(w) PROVE SingleDrainer'
  <2>1. CASE Clear(w)
    BY <1>b, <1>c, <2>1, TokenUnmoved, ZenonT(30) DEF Clear, Holders, Holds, Goto
  <2>2. CASE StoreLands(w)
    <3>0. PICK h \in Handles : h = at[w] BY <1>b, <1>c, ZenonT(30)
    <3>1. w \in Holders(h) BY <1>c, <2>2, <3>0, ZenonT(30) DEF StoreLands, Holders, Holds
    <3>2. Holders(h) = {w} /\ Queued(h) = {} BY <3>1, SMT, Z3 DEF SingleDrainer
    <3>3. Holders(h)' = {}
      BY <1>b, <1>c, <2>2, <3>0, <3>2, Zenon
      DEF StoreLands, ControlOK, Holders, Holds
    <3>4. Queued(h)' = {} BY <2>2, <3>2, ZenonT(30) DEF StoreLands, Queued
    <3>5. in_pool'[h] = FALSE BY <1>b, <1>c, <2>2, <3>0, ZenonT(30) DEF StoreLands
    <3>6. Token(h)' BY <3>3, <3>4, <3>5, ZenonT(30) DEF Token
    <3>7. ASSUME NEW g \in Handles \ {h} PROVE Token(g)'
      <4>1. Holders(g)' = Holders(g)
        BY <1>b, <1>c, <2>2, <3>0, <3>7, ZenonT(30)
        DEF StoreLands, ControlOK, Holders, Holds
      <4>2. Queued(g)' = Queued(g) BY <2>2, ZenonT(30) DEF StoreLands, Queued
      <4>3. in_pool'[g] = in_pool[g]
        BY <1>b, <1>c, <2>2, <3>0, <3>7, Zenon DEF StoreLands
      <4> QED BY <3>7, <4>1, <4>2, <4>3, SingleDrainerToken, TokenFrame, Zenon
    <3> QED BY <3>6, <3>7, ZenonT(60) DEF SingleDrainer, Token
  <2> QED BY <1>7, <2>1, <2>2, Zenon
<1>8. ASSUME NEW h \in Handles, SocketChanges(h) PROVE SingleDrainer'
  BY <1>8, TokenUnmoved, ZenonT(30) DEF SocketChanges, Holders, Holds
<1>9. ASSUME UNCHANGED vars PROVE SingleDrainer'
  BY <1>9, TokenUnmoved, ZenonT(30) DEF vars, Holders, Holds
<1> QED
  BY <1>1, <1>2, <1>3, <1>4, <1>5, <1>6, <1>7, <1>8, <1>9, ZenonT(60)
  DEF Next, SendStep, WorkerStep, Threads

-----------------------------------------------------------------------------
(* No message is stranded *)

\* A CAS that fails leaves the handle attended: the token it lost to is in the
\* queue or with another thread.
LEMMA LostCasAttended ==
    ASSUME TypeOK, ControlOK, SingleDrainer, NEW h \in Handles \ late,
           in_pool[h]
    PROVE  \/ Queued(h) # {}
           \/ \E t \in Threads : /\ at[t] = h
                                 /\ pc[t] \notin {"idle", "try", "undo", "cas"}
<1>1. Holders(h) # {} \/ Queued(h) # {} BY Zenon DEF SingleDrainer
<1> QED BY <1>1, SMT, Z3 DEF Holders, Holds, ControlOK

\* A step that leaves the pool's queue alone, and no attending thread idle,
\* leaves an attended handle attended.
LEMMA AttendedFrame ==
    ASSUME NEW h \in Handles, Attended(h), poolq' = poolq,
           \A t \in Threads :
               at[t] = h /\ pc[t] \notin {"idle", "try", "undo"} =>
               at'[t] = h /\ pc'[t] \notin {"idle", "try", "undo"}
    PROVE  Attended(h)'
BY Zenon DEF Attended, Queued

\* The same for a step of one thread, on whatever handle.
LEMMA AttendedMove ==
    ASSUME TypeOK, NEW h \in Handles, Attended(h), UNCHANGED poolq,
           NEW t \in Threads, NEW l, Goto(t, l),
           \A u \in Threads \ {t} : at'[u] = at[u],
           pc[t] \in Resting \/ (at' = at /\ l \notin Resting)
    PROVE  Attended(h)'
<1>1. \A u \in Threads : pc'[u] = IF u = t THEN l ELSE pc[u]
  BY ZenonT(30) DEF Goto, TypeOK
<1> QED BY <1>1, AttendedFrame, Zenon DEF Resting

LEMMA StrandedStep ==
    ASSUME IndInv, IndInv', NoStranded, [Next]_vars
    PROVE  NoStranded'
<1>a. TypeOK /\ ControlOK /\ PendingExact /\ SingleDrainer BY Zenon DEF IndInv
<1>b. /\ q \in [Handles -> Seq(Msgs)] /\ poolq \in Seq(Handles)
      /\ pc \in [Threads -> PCs] /\ at \in [Threads -> Handles]
  BY <1>a, ZenonT(30) DEF TypeOK
<1>c. Senders \subseteq Threads /\ Workers \subseteq Threads BY ZenonT(30) DEF Threads
<1>0. late \subseteq late'
  <2>1. ASSUME NEW s \in Senders, SendStep(s) \/ \E h \in Handles : Send(s, h)
        PROVE  UNCHANGED late
    BY <2>1, Zenon DEF SendStep, Send, TrySend, Overflow, Cas, Push
  <2>2. ASSUME NEW w \in Workers, DrainStep(w) PROVE UNCHANGED late
    BY <2>2, Zenon DEF DrainStep, Lock, TryRecv, SubPending, Feed, Flush
  <2>3. ASSUME NEW w \in Workers, Check(w) PROVE late \subseteq late'
    BY <2>3, ZenonT(60) DEF Check
  <2>4. ASSUME NEW w \in Workers, WorkerStep(w), ~DrainStep(w), ~Check(w)
        PROVE  UNCHANGED late
    BY <2>4, ZenonT(30) DEF WorkerStep, Take, Clear, StoreLands, Cas, Push
  <2>5. ASSUME NEW h \in Handles, SocketChanges(h) PROVE UNCHANGED late
    BY <2>5, Zenon DEF SocketChanges
  <2> QED BY <2>1, <2>2, <2>3, <2>4, <2>5, Zenon DEF Next, vars
<1>1. SUFFICES ASSUME NEW h \in Handles \ late, q'[h] # <<>> PROVE Attended(h)'
  BY <1>0, ZenonT(30) DEF NoStranded
<1>3. ASSUME NEW s \in Senders, NEW g \in Handles, Send(s, g) PROVE Attended(h)'
  <2>1. Attended(h) BY <1>1, <1>3, ZenonT(30) DEF Send, NoStranded
  <2>2. \A u \in Threads \ {s} : at'[u] = at[u] BY <1>b, <1>3, ZenonT(60) DEF Send
  <2>3. Goto(s, "try") /\ pc[s] = "idle" /\ UNCHANGED poolq BY <1>3, ZenonT(60) DEF Send
  <2> QED BY <1>a, <1>c, <2>1, <2>2, <2>3, AttendedMove, ZenonT(60) DEF Resting
<1>4. ASSUME NEW s \in Senders, TrySend(s) PROVE Attended(h)'
  <2>1. CASE at[s] = h /\ Len(q[h]) < Capacity
    <3>1. Goto(s, "cas") /\ at' = at BY <1>4, <2>1, ZenonT(30) DEF TrySend
    <3>2. pc'[s] = "cas" BY <1>b, <1>c, <3>1, Zenon DEF Goto
    <3> QED BY <1>c, <2>1, <3>1, <3>2, ZenonT(60) DEF Attended
  <2>2. CASE at[s] # h \/ ~(Len(q[h]) < Capacity)
    <3>1. q'[h] = q[h] BY <1>b, <1>4, <2>2, ZenonT(30) DEF TrySend
    <3>2. Attended(h) BY <1>1, <3>1, Zenon DEF NoStranded
    <3>3. PICK l \in {"cas", "undo"} : Goto(s, l) BY <1>4, Zenon DEF TrySend
    <3>4. UNCHANGED <<poolq, at>> /\ pc[s] = "try" BY <1>4, Zenon DEF TrySend
    <3> QED BY <1>a, <1>c, <3>2, <3>3, <3>4, AttendedMove, ZenonT(60) DEF Resting
  <2> QED BY <2>1, <2>2, ZenonT(30)
<1>5. ASSUME NEW s \in Senders, Overflow(s) PROVE Attended(h)'
  <2>1. Attended(h) BY <1>1, <1>5, Zenon DEF Overflow, NoStranded
  <2>2. Goto(s, "idle") /\ pc[s] = "undo" /\ UNCHANGED <<poolq, at>>
    BY <1>5, ZenonT(30) DEF Overflow
  <2> QED BY <1>a, <1>c, <2>1, <2>2, AttendedMove, Zenon DEF Resting
<1>6. ASSUME NEW t \in Threads, Cas(t) PROVE Attended(h)'
  <2>0. Attended(h) BY <1>1, <1>6, ZenonT(30) DEF Cas, NoStranded
  <2>1. CASE at[t] = h /\ in_pool[h]
    <3>1. \/ Queued(h) # {}
          \/ \E u \in Threads : /\ at[u] = h
                                /\ pc[u] \notin {"idle", "try", "undo", "cas"}
      BY <1>a, <2>1, LostCasAttended, Zenon
    <3> QED BY <1>b, <1>6, <3>1, ZenonT(30) DEF Cas, Attended, Queued, Goto
  <2>2. CASE at[t] = h /\ ~in_pool[h]
    BY <1>b, <1>6, <2>2, ZenonT(30) DEF Cas, Attended, Goto
  <2>3. CASE at[t] # h
    BY <1>b, <1>6, <2>0, <2>3, Zenon DEF Cas, Attended, Queued, Goto
  <2> QED BY <2>1, <2>2, <2>3, Zenon
<1>7. ASSUME NEW t \in Threads, Push(t) PROVE Attended(h)'
  <2>0. Attended(h) BY <1>1, <1>7, ZenonT(30) DEF Push, NoStranded
  <2>1. poolq \in Seq(Handles) /\ poolq' = Append(poolq, at[t]) /\ at' = at
    BY <1>b, <1>7, Zenon DEF Push
  <2>2. Queued(h) # {} => Queued(h)' # {} BY <2>1, SMT, Z3 DEF Queued
  <2>3. at[t] = h => Len(poolq) + 1 \in Queued(h)' BY <2>1, SMT, Z3 DEF Queued
  <2>4. \A u \in Threads \ {t} : pc'[u] = pc[u] BY <1>b, <1>7, ZenonT(30) DEF Push, Goto
  <2> QED BY <2>0, <2>1, <2>2, <2>3, <2>4, Zenon DEF Attended
<1>8. ASSUME NEW w \in Workers, Take(w) PROVE Attended(h)'
  <2>0. Attended(h) BY <1>1, <1>8, Zenon DEF Take, NoStranded
  <2>1. poolq \in Seq(Handles) /\ poolq # <<>> /\ poolq' = Tail(poolq)
    BY <1>b, <1>8, ZenonT(30) DEF Take
  <2>2. CASE h = Head(poolq)
    BY <1>b, <1>c, <1>8, <2>2, Zenon DEF Take, Attended, Goto
  <2>3. CASE h # Head(poolq)
    <3>1. \A i \in Queued(h) : i - 1 \in Queued(h)'
      BY <2>1, <2>3, SMT, Z3 DEF Queued
    <3> QED BY <1>b, <1>c, <1>8, <2>0, <3>1, Zenon DEF Take, Attended, Goto
  <2> QED BY <2>2, <2>3, Zenon
<1>9. ASSUME NEW w \in Workers, Lock(w) \/ Feed(w) \/ Flush(w) \/ SubPending(w)
      PROVE Attended(h)'
  <2>0. q' = q BY <1>9, ZenonT(40) DEF Lock, Feed, Flush, SubPending
  <2>1. Attended(h) BY <1>1, <2>0, Zenon DEF NoStranded
  <2>2. PICK l \in {"recv", "feed", "flush", "clear"} : Goto(w, l)
    BY <1>9, Zenon DEF Lock, Feed, Flush, SubPending
  <2>3. UNCHANGED <<poolq, at>> BY <1>9, Zenon DEF Lock, Feed, Flush, SubPending
  <2> QED BY <1>a, <1>c, <2>1, <2>2, <2>3, AttendedMove, Zenon DEF Resting
<1>10. ASSUME NEW w \in Workers, TryRecv(w) PROVE Attended(h)'
  <2>1. CASE at[w] = h
    BY <1>b, <1>c, <1>10, <2>1, Zenon DEF TryRecv, Attended, Goto
  <2>2. CASE at[w] # h
    <3>1. q'[h] = q[h] BY <1>b, <1>10, <2>2, ZenonT(60) DEF TryRecv
    <3>2. Attended(h) BY <1>1, <3>1, Zenon DEF NoStranded
    <3>3. PICK l \in {"flush", "sub"} : Goto(w, l)
      BY <1>10, ZenonT(60) DEF TryRecv
    <3>4. UNCHANGED <<poolq, at>> BY <1>10, ZenonT(30) DEF TryRecv
    <3> QED BY <1>a, <1>c, <3>2, <3>3, <3>4, AttendedMove, Zenon DEF Resting
  <2> QED BY <2>1, <2>2, Zenon
<1>11. ASSUME NEW w \in Workers, Clear(w) PROVE Attended(h)'
  <2>1. Attended(h) BY <1>1, <1>11, Zenon DEF Clear, NoStranded
  <2>2. Goto(w, "check") /\ UNCHANGED <<poolq, at>> BY <1>11, ZenonT(30) DEF Clear
  <2> QED BY <1>a, <1>c, <2>1, <2>2, AttendedMove, ZenonT(60) DEF Resting
<1>12. ASSUME NEW w \in Workers, StoreLands(w) PROVE Attended(h)'
  <2>1. Attended(h) BY <1>1, <1>12, Zenon DEF StoreLands, NoStranded
  <2> QED BY <2>1, <1>12, AttendedFrame, Zenon DEF StoreLands
<1>13. ASSUME NEW w \in Workers, Check(w) PROVE Attended(h)'
  <2>0. Attended(h) /\ q[h] # <<>>
    BY <1>1, <1>13, Zenon DEF Check, NoStranded
  <2>1. CASE at[w] = h
    <3>1. q[h] \in Seq(Msgs) BY <1>b, Zenon
    <3>2. Len(q[h]) \in Nat \ {0} BY <2>0, <3>1, SMT, Z3
    <3>3. pending[h] = Len(q[h]) + Cardinality(Counted(h))
      BY <1>a, Zenon DEF PendingExact
    <3>4. pending[h] > 0 BY <1>a, <3>2, <3>3, CountedFinite, SMT, Z3
    <3> QED BY <1>b, <1>c, <1>13, <2>1, <3>4, Zenon DEF Check, Attended, Goto
  <2>2. CASE at[w] # h
    BY <1>b, <1>c, <1>13, <2>0, <2>2, Zenon DEF Check, Attended, Queued, Goto
  <2> QED BY <2>1, <2>2, Zenon
<1>14. ASSUME NEW g \in Handles, SocketChanges(g) PROVE Attended(h)'
  BY <1>1, <1>14, ZenonT(60) DEF SocketChanges, NoStranded, Attended, Queued
<1>15. ASSUME UNCHANGED vars PROVE Attended(h)'
  BY <1>1, <1>15, ZenonT(30) DEF vars, NoStranded, Attended, Queued
<1> QED
  BY <1>3, <1>4, <1>5, <1>6, <1>7, <1>8, <1>9, <1>10, <1>11, <1>12, <1>13,
     <1>14, <1>15, ZenonT(60)
  DEF Next, SendStep, DrainStep, WorkerStep, Threads

-----------------------------------------------------------------------------
(* What is refused cancels, what is accepted arrives in order *)

\* The channel of at[s] has accepted the message of sender s.
Accepted(s) == \E i \in 1..Len(sent[at[s]]) : sent[at[s]][i] = msg[s]

\* Between try_send and its return a sender's message is in the channel's
\* history; this is what makes BackpressureEvicts inductive.
EvictInv ==
    /\ BackpressureEvicts
    /\ \A s \in Senders : pc[s] \in {"cas", "push"} => Accepted(s)

\* What EvictInv asks of one sender after a step: it is inside try_send, its
\* message has just been accepted, its session has just been cancelled, or it
\* only moved on towards its return.
EvictsOne(s) ==
    \/ pc'[s] \in {"try", "undo"}
    \/ pc'[s] = "cas" /\ Accepted(s)'
    \/ pc'[s] = "idle" /\ cancelled'[at'[s]]
    \/ /\ at'[s] = at[s] /\ msg'[s] = msg[s] /\ count'[s] = count[s]
       /\ pc'[s] = pc[s] \/ (pc[s] \in {"cas", "push"} /\ pc'[s] \in {"push", "idle"})

LEMMA EvictFrame ==
    ASSUME EvictInv, \A h \in Handles : Len(q'[h]) <= Capacity,
           \A s \in Senders : EvictsOne(s),
           \A s \in Senders :
              /\ at[s] \in Handles
              /\ at'[s] = at[s] /\ msg'[s] = msg[s] /\ Accepted(s) => Accepted(s)',
           \A h \in Handles : cancelled[h] => cancelled'[h]
    PROVE  EvictInv'
<1>2. \A s \in Senders : pc[s] \in {"cas", "push"} => Accepted(s)
  BY Zenon DEF EvictInv
<1>3. \A s \in Senders : pc[s] = "idle" /\ count[s] > 0 => cancelled[at[s]] \/ Accepted(s)
  BY Zenon DEF EvictInv, BackpressureEvicts, Accepted
<1>4. \A s \in Senders : pc'[s] \in {"cas", "push"} => Accepted(s)'
  BY <1>2, Zenon DEF EvictsOne
<1>5. \A s \in Senders : pc'[s] = "idle" /\ count'[s] > 0 => cancelled'[at'[s]] \/ Accepted(s)'
  BY <1>2, <1>3, ZenonT(30) DEF EvictsOne
<1> QED BY <1>4, <1>5, Zenon DEF EvictInv, BackpressureEvicts, Accepted

LEMMA EvictStep ==
    ASSUME TypeOK, ControlOK, EvictInv, [Next]_vars
    PROVE  EvictInv'
<1>b. /\ q \in [Handles -> Seq(Msgs)] /\ sent \in [Handles -> Seq(Msgs)]
      /\ pc \in [Threads -> PCs] /\ at \in [Threads -> Handles]
      /\ msg \in [Threads -> Msgs] /\ count \in [Senders -> 0..MaxMsgs]
      /\ cancelled \in [Handles -> BOOLEAN]
  BY Zenon DEF TypeOK
<1>c. /\ Senders \subseteq Threads /\ Workers \subseteq Threads
      /\ \A s \in Senders : s \notin Workers
  BY WritePoolAssumption, Zenon DEF Threads
<1>d. \A s \in Senders : at[s] \in Handles BY <1>b, <1>c, Zenon
<1>e. \A h \in Handles : Len(q[h]) <= Capacity BY ZenonT(30) DEF EvictInv, BackpressureEvicts
<1>f. ASSUME UNCHANGED sent, NEW s \in Senders, at'[s] = at[s], msg'[s] = msg[s], Accepted(s)
      PROVE Accepted(s)'
  BY <1>f, Zenon DEF Accepted
<1>1. ASSUME NEW s \in Senders, NEW h \in Handles, Send(s, h) PROVE EvictInv'
  <2>1. UNCHANGED <<q, sent, cancelled>> BY <1>1, Zenon DEF Send
  <2>2. ASSUME NEW u \in Senders PROVE EvictsOne(u)
    <3>1. CASE u = s BY <1>1, <1>b, <1>c, <3>1, Zenon DEF Send, Goto, EvictsOne
    <3>2. CASE u # s BY <1>1, <1>b, <1>c, <3>2, ZenonT(30) DEF Send, Goto, EvictsOne
    <3> QED BY <3>1, <3>2, Zenon
  <2> QED BY <1>d, <1>e, <1>f, <2>1, <2>2, EvictFrame, Zenon
<1>2. ASSUME NEW s \in Senders, TrySend(s) PROVE EvictInv'
  <2>1. UNCHANGED <<at, msg, count, cancelled>> BY <1>2, ZenonT(30) DEF TrySend
  <2>2. CASE Len(q[at[s]]) < Capacity
    <3>0. at[s] \in Handles /\ msg[s] \in Msgs BY <1>b, <1>c, ZenonT(30)
    <3>1. /\ q' = [q EXCEPT ![at[s]] = Append(q[at[s]], msg[s])]
          /\ sent' = [sent EXCEPT ![at[s]] = Append(sent[at[s]], msg[s])]
          /\ Goto(s, "cas")
      BY <1>2, <2>2, Zenon DEF TrySend
    <3>2. \A h \in Handles : Len(q'[h]) <= Capacity
      <4> TAKE h \in Handles
      <4>1. CASE h = at[s]
        <5>1. q'[h] = Append(q[h], msg[s]) BY <1>b, <3>1, <4>1, Zenon
        <5>2. q[h] \in Seq(Msgs) BY <1>b, ZenonT(30)
        <5> QED BY <2>2, <3>0, <4>1, <5>1, <5>2, WritePoolAssumption, SMT, Z3
      <4>2. CASE h # at[s] BY <1>b, <1>e, <3>1, <4>2, Zenon
      <4> QED BY <4>1, <4>2, Zenon
    <3>3. \A h \in Handles : \A i \in 1..Len(sent[h]) :
             i \in 1..Len(sent'[h]) /\ sent'[h][i] = sent[h][i]
      <4> TAKE h \in Handles
      <4>1. sent[h] \in Seq(Msgs) BY <1>b, ZenonT(30)
      <4>2. sent'[h] = sent[h] \/ sent'[h] = Append(sent[h], msg[s]) BY <1>b, <3>1, Zenon
      <4> QED BY <3>0, <4>1, <4>2, SMTT(30), Z3T(30)
    <3>4. \A u \in Senders : Accepted(u) => Accepted(u)'
      BY <1>d, <2>1, <3>3, Zenon DEF Accepted
    <3>5. Accepted(s)'
      <4>1. sent'[at[s]] = Append(sent[at[s]], msg[s]) BY <1>b, <3>0, <3>1, Zenon
      <4>2. sent[at[s]] \in Seq(Msgs) BY <1>b, <3>0, Zenon
      <4>3. /\ Len(sent[at[s]]) + 1 \in 1..Len(sent'[at[s]])
            /\ sent'[at[s]][Len(sent[at[s]]) + 1] = msg[s]
        BY <3>0, <4>1, <4>2, SMT, Z3
      <4> QED BY <2>1, <4>3, Zenon DEF Accepted
    <3>6. ASSUME NEW u \in Senders PROVE EvictsOne(u)
      BY <1>b, <1>c, <2>1, <3>1, <3>5, Zenon DEF EvictsOne, Goto
    <3> QED BY <1>d, <2>1, <3>2, <3>4, <3>6, EvictFrame, Zenon
  <2>3. CASE ~(Len(q[at[s]]) < Capacity)
    <3>1. UNCHANGED <<q, sent>> /\ Goto(s, "undo") BY <1>2, <2>3, Zenon DEF TrySend
    <3>2. ASSUME NEW u \in Senders PROVE EvictsOne(u)
      BY <1>b, <1>c, <2>1, <3>1, ZenonT(30) DEF EvictsOne, Goto
    <3> QED BY <1>d, <1>e, <1>f, <2>1, <3>1, <3>2, EvictFrame, Zenon
  <2> QED BY <2>2, <2>3, Zenon
<1>3. ASSUME NEW s \in Senders, Overflow(s) PROVE EvictInv'
  <2>1. UNCHANGED <<q, sent, at, msg, count>> /\ Goto(s, "idle")
        /\ cancelled' = [cancelled EXCEPT ![at[s]] = TRUE]
    BY <1>3, Zenon DEF Overflow
  <2>2. ASSUME NEW u \in Senders PROVE EvictsOne(u)
    BY <1>b, <1>c, <1>d, <2>1, Zenon DEF EvictsOne, Goto
  <2>3. \A h \in Handles : cancelled[h] => cancelled'[h] BY <1>b, <2>1, ZenonT(30)
  <2> QED BY <1>d, <1>e, <1>f, <2>1, <2>2, <2>3, EvictFrame, Zenon
<1>4. ASSUME NEW t \in Threads, Cas(t) \/ Push(t) PROVE EvictInv'
  <2>1. UNCHANGED <<q, sent, at, msg, count, cancelled>>
    BY <1>4, Zenon DEF Cas, Push
  <2>2. PICK l \in {"idle", "push"} : Goto(t, l) /\ pc[t] \in {"cas", "push"}
    BY <1>4, Zenon DEF Cas, Push
  <2>3. ASSUME NEW u \in Senders PROVE EvictsOne(u)
    BY <1>b, <1>c, <2>1, <2>2, ZenonT(30) DEF EvictsOne, Goto
  <2> QED BY <1>d, <1>e, <1>f, <2>1, <2>3, EvictFrame, Zenon
<1>5. ASSUME NEW w \in Workers, WorkerStep(w), ~Cas(w), ~Push(w) PROVE EvictInv'
  <2>1. UNCHANGED <<sent, count, cancelled>>
    BY <1>5, Zenon DEF WorkerStep, DrainStep, Take, Lock, TryRecv, SubPending, Feed, Flush,
       Clear, StoreLands, Check
  <2>2. ASSUME NEW u \in Senders PROVE pc'[u] = pc[u] /\ at'[u] = at[u] /\ msg'[u] = msg[u]
    <3>1. u # w /\ u \in Threads BY <1>c, ZenonT(30)
    <3>2. pc' = pc \/ \E l : Goto(w, l)
      BY <1>5, Zenon DEF WorkerStep, DrainStep, Take, Lock, TryRecv, SubPending, Feed,
         Flush, Clear, StoreLands, Check
    <3>3. at' = at \/ \E l : at' = [at EXCEPT ![w] = l]
      BY <1>5, Zenon DEF WorkerStep, DrainStep, Take, Lock, TryRecv, SubPending, Feed,
         Flush, Clear, StoreLands, Check
    <3>4. msg' = msg \/ \E l : msg' = [msg EXCEPT ![w] = l]
      BY <1>5, Zenon DEF WorkerStep, DrainStep, Take, Lock, TryRecv, SubPending, Feed,
         Flush, Clear, StoreLands, Check
    <3> QED BY <1>b, <3>1, <3>2, <3>3, <3>4, Zenon DEF Goto
  <2>3. \A u \in Senders : EvictsOne(u) BY <2>1, <2>2, Zenon DEF EvictsOne
  <2>4. ASSUME NEW h \in Handles PROVE Len(q'[h]) <= Capacity
    <3>1. q' = q \/ (q[at[w]] # <<>> /\ q' = [q EXCEPT ![at[w]] = Tail(q[at[w]])])
      BY <1>5, Zenon DEF WorkerStep, DrainStep, Take, Lock, TryRecv, SubPending, Feed,
         Flush, Clear, StoreLands, Check
    <3>2. q'[h] = q[h] \/ (q[h] # <<>> /\ q'[h] = Tail(q[h])) BY <1>b, <3>1, Zenon
    <3>3. q[h] \in Seq(Msgs) /\ Len(q[h]) <= Capacity BY <1>b, <1>e, Zenon
    <3>4. q[h] # <<>> => Len(Tail(q[h])) = Len(q[h]) - 1 BY <3>3, SMT, Z3
    <3>5. Len(q[h]) \in Nat BY <3>3, SMT, Z3
    <3>6. Len(q'[h]) = Len(q[h]) \/ Len(q'[h]) = Len(q[h]) - 1 BY <3>2, <3>4, Zenon
    <3> QED BY <3>3, <3>5, <3>6, WritePoolAssumption, SMT, Z3
  <2> QED BY <1>d, <1>f, <2>1, <2>2, <2>3, <2>4, EvictFrame, Zenon
<1>6. ASSUME (\E h \in Handles : SocketChanges(h)) \/ UNCHANGED vars PROVE EvictInv'
  <2>1. UNCHANGED <<q, sent, at, msg, count, cancelled, pc>>
    BY <1>6, Zenon DEF SocketChanges, vars
  <2>2. \A u \in Senders : EvictsOne(u) BY <2>1, Zenon DEF EvictsOne
  <2> QED BY <1>d, <1>e, <1>f, <2>1, <2>2, EvictFrame, Zenon
<1> QED
  BY <1>1, <1>2, <1>3, <1>4, <1>5, <1>6, <1>c, Zenon DEF Next, SendStep, Threads

\* How the encodable part of "in hand, then channel" changes when a message is
\* accepted, when one that cannot be encoded is dropped, and when one is fed.
LEMMA ConcatAppend ==
    ASSUME NEW y \in Seq(Msgs), NEW b \in Seq(Msgs), NEW m \in Msgs
    PROVE  y \o Append(b, m) = Append(y \o b, m)
BY SMT, Z3

LEMMA OmitAccepted ==
    ASSUME NEW e \in Seq(Msgs), NEW m \in Msgs
    PROVE  Omit(Append(e, m), Unencodable) =
             IF m \in Unencodable THEN Omit(e, Unencodable)
             ELSE Append(Omit(e, Unencodable), m)
BY OmitAppend, ZenonT(60)

LEMMA OmitOne ==
    ASSUME NEW z \in Seq(Msgs), NEW m \in Msgs, NEW D
    PROVE  Omit(<<m>> \o z, D) = (IF m \in D THEN <<>> ELSE <<m>>) \o Omit(z, D)
<1> DEFINE s == <<m>> \o z
<1>1. s \in Seq(Msgs) /\ s # <<>> /\ Head(s) = m /\ Tail(s) = z BY SMT, Z3
<1> HIDE DEF s
<1>2. Omit(s, D) = (IF Head(s) \in D THEN <<>> ELSE <<Head(s)>>) \o Omit(Tail(s), D)
  BY <1>1, OmitHead, Zenon
<1> QED BY <1>1, <1>2, Zenon DEF s

LEMMA OrderSkip ==
    ASSUME NEW z \in Seq(Msgs), NEW m \in Msgs, NEW D, m \in D
    PROVE  Omit(<<m>> \o z, D) = Omit(<<>> \o z, D)
<1>1. Omit(z, D) \in Seq(Msgs) BY OmitRange, Zenon
<1>2. <<>> \o z = z /\ <<>> \o Omit(z, D) = Omit(z, D) BY <1>1, SMT, Z3
<1> QED BY <1>2, OmitOne, Zenon

LEMMA OrderFeed ==
    ASSUME NEW y \in Seq(Msgs), NEW z \in Seq(Msgs), NEW m \in Msgs, NEW D, m \notin D
    PROVE  y \o Omit(<<m>> \o z, D) = Append(y, m) \o Omit(<<>> \o z, D)
<1>1. Omit(z, D) \in Seq(Msgs) BY OmitRange, Zenon
<1>2. <<>> \o z = z BY SMT, Z3
<1>3. y \o (<<m>> \o Omit(z, D)) = Append(y, m) \o Omit(z, D) BY <1>1, SMTT(30), Z3T(30)
<1>4. Omit(<<m>> \o z, D) = <<m>> \o Omit(z, D) BY OmitOne, ZenonT(60)
<1> QED BY <1>2, <1>3, <1>4, Zenon

\* What DeliveredInOrder says of one handle.
InOrder(h) ==
    sock[h] # "broken" =>
        Omit(sent[h], Unencodable) = wire[h] \o Omit(InHand(h) \o q[h], Unencodable)

\* A message at ws.feed passed to_ws_msg; with it DeliveredInOrder is
\* inductive.
Encoded == \A w \in Workers : pc[w] = "feed" => msg[w] \notin Unencodable

LEMMA HandType ==
    ASSUME TypeOK, NEW h \in Handles
    PROVE  InHand(h) \in Seq(Msgs)
<1>1. \A w \in Feeding(h) : msg[w] \in Msgs BY Zenon DEF Feeding, TypeOK, Threads
<1>2. \A m \in Msgs : <<m>> \in Seq(Msgs) BY SMT, Z3
<1>3. <<>> \in Seq(Msgs) BY SMT, Z3
<1>4. Feeding(h) # {} => (CHOOSE w \in Feeding(h) : TRUE) \in Feeding(h) BY Zenon
<1> QED BY <1>1, <1>2, <1>3, <1>4, Zenon DEF InHand

\* A message the channel accepts goes to the end of both sides.
LEMMA OrderAccept ==
    ASSUME TypeOK, NEW h \in Handles, NEW m \in Msgs,
           Omit(sent[h], Unencodable) = wire[h] \o Omit(InHand(h) \o q[h], Unencodable)
    PROVE  Omit(Append(sent[h], m), Unencodable)
           = wire[h] \o Omit(InHand(h) \o Append(q[h], m), Unencodable)
<1> DEFINE a == Omit(sent[h], Unencodable)
           b == Omit(InHand(h) \o q[h], Unencodable)
           c == Omit(InHand(h) \o Append(q[h], m), Unencodable)
           d == Omit(Append(sent[h], m), Unencodable)
<1>0. q[h] \in Seq(Msgs) /\ sent[h] \in Seq(Msgs) /\ wire[h] \in Seq(Msgs)
  BY Zenon DEF TypeOK
<1>i. InHand(h) \in Seq(Msgs) BY HandType, ZenonT(60)
<1>j. InHand(h) \o q[h] \in Seq(Msgs) BY <1>0, <1>i, SMT, Z3
<1>1. b \in Seq(Msgs) BY <1>j, OmitRange, Zenon
<1>2. c = IF m \in Unencodable THEN b ELSE Append(b, m)
  <2> DEFINE e == InHand(h) \o q[h]
  <2>0. q[h] \in Seq(Msgs) BY <1>0, Zenon
  <2>1. InHand(h) \o Append(q[h], m) = Append(e, m) BY <1>i, <2>0, ConcatAppend, Zenon
  <2>2. e \in Seq(Msgs) BY <1>j, ZenonT(30)
  <2> HIDE DEF e
  <2>3. Omit(Append(e, m), Unencodable) =
          IF m \in Unencodable THEN Omit(e, Unencodable) ELSE Append(Omit(e, Unencodable), m)
    BY <2>2, OmitAccepted, Zenon
  <2>4. c = Omit(Append(e, m), Unencodable) /\ b = Omit(e, Unencodable)
    BY <2>1, Zenon DEF e
  <2> HIDE DEF b, c
  <2> QED BY <2>3, <2>4, Zenon
<1>3. d = IF m \in Unencodable THEN a ELSE Append(a, m)
  <2> DEFINE e == sent[h]
  <2>1. e \in Seq(Msgs) BY <1>0, Zenon
  <2>2. d = Omit(Append(e, m), Unencodable) /\ a = Omit(e, Unencodable) BY Zenon
  <2> HIDE DEF a, d, e
  <2>3. Omit(Append(e, m), Unencodable) =
          IF m \in Unencodable THEN Omit(e, Unencodable) ELSE Append(Omit(e, Unencodable), m)
    BY <2>1, OmitAccepted, Zenon
  <2> QED BY <2>2, <2>3, Zenon
<1>4. wire[h] \o Append(b, m) = Append(wire[h] \o b, m)
  BY <1>0, <1>1, ConcatAppend, Zenon
<1>5. a = wire[h] \o b BY ZenonT(30)
<1>6. d = wire[h] \o c
  <2> HIDE DEF a, b, c, d
  <2>1. CASE m \in Unencodable BY <1>2, <1>3, <1>5, <2>1, Zenon
  <2>2. CASE m \notin Unencodable BY <1>2, <1>3, <1>4, <1>5, <2>2, Zenon
  <2> QED BY <2>1, <2>2, Zenon
<1> QED BY <1>6, Zenon

\* A step that touches neither the channel, the socket's history nor the
\* message in hand keeps a handle in order.
LEMMA OrderFrame ==
    ASSUME NEW h \in Handles, InOrder(h), sock'[h] # "broken" => sock[h] # "broken",
           sent'[h] = sent[h], wire'[h] = wire[h], q'[h] = q[h],
           Feeding(h)' = Feeding(h), \A w \in Feeding(h) : msg'[w] = msg[w]
    PROVE  InOrder(h)'
<1>1. Feeding(h) # {} => (CHOOSE w \in Feeding(h) : TRUE) \in Feeding(h) BY Zenon
<1> DEFINE F == Feeding(h)
           c == CHOOSE w \in F : TRUE
<1>2. InHand(h) = IF F = {} THEN <<>> ELSE <<msg[c]>> BY Zenon DEF InHand
<1>3. InHand(h)' = IF Feeding(h)' = {} THEN <<>>
                   ELSE <<msg'[CHOOSE w \in Feeding(h)' : TRUE]>>
  BY Zenon DEF InHand
<1>4. InHand(h)' = IF F = {} THEN <<>> ELSE <<msg'[c]>> BY <1>3, Zenon
<1>5. F # {} => msg'[c] = msg[c] BY <1>1, Zenon
<1>6. InHand(h)' = InHand(h)
  <2> HIDE DEF F, c
  <2>1. CASE F = {} BY <1>2, <1>4, <2>1, Zenon
  <2>2. CASE F # {}
    <3>1. InHand(h) = <<msg[c]>> BY <1>2, <2>2, Zenon
    <3>2. InHand(h)' = <<msg'[c]>> BY <1>4, <2>2, Zenon
    <3>3. msg'[c] = msg[c] BY <1>5, <2>2, Zenon
    <3> QED BY <3>1, <3>2, <3>3, Zenon
  <2> QED BY <2>1, <2>2, Zenon
<1> QED BY <1>6, Zenon DEF InOrder

\* The message in hand, when some worker holds the handle's token.
LEMMA HandFull ==
    ASSUME SingleDrainer, NEW h \in Handles, NEW w \in Workers, at[w] = h,
           pc[w] \in {"sub", "feed"}
    PROVE  Feeding(h) = {w} /\ InHand(h) = <<msg[w]>>
<1>1. Feeding(h) \subseteq Holders(h)
  BY Zenon DEF Feeding, Holders, Holds, Threads
<1>2. w \in Feeding(h) BY Zenon DEF Feeding
<1>5. \A v, u \in Holders(h) : v = u BY Zenon DEF SingleDrainer
<1>3. Feeding(h) = {w} BY <1>1, <1>2, <1>5, Zenon
<1>4. (CHOOSE v \in {w} : TRUE) = w BY Zenon
<1> QED BY <1>3, <1>4, Zenon DEF InHand

LEMMA HandEmpty ==
    ASSUME SingleDrainer, NEW h \in Handles, NEW w \in Workers, at[w] = h, pc[w] = "recv"
    PROVE  Feeding(h) = {} /\ InHand(h) = <<>>
<1>1. Feeding(h) \subseteq Holders(h)
  BY Zenon DEF Feeding, Holders, Holds, Threads
<1>2. w \in Holders(h) /\ w \notin Feeding(h) BY Zenon DEF Feeding, Holders, Holds, Threads
<1>5. \A v, u \in Holders(h) : v = u BY Zenon DEF SingleDrainer
<1>3. Feeding(h) = {} BY <1>1, <1>2, <1>5, Zenon
<1> QED BY <1>3, Zenon DEF InHand

\* A step of one thread leaves the message in hand of a handle alone when it
\* is at another handle, before and after, or goes neither to nor from a
\* label between try_recv and ws.feed.
LEMMA FeedingSame ==
    ASSUME TypeOK, NEW t \in Threads, NEW l, Goto(t, l), NEW h \in Handles,
           \A u \in Threads \ {t} : at'[u] = at[u],
           \/ at[t] # h /\ at'[t] # h
           \/ pc[t] \notin {"sub", "feed"} /\ l \notin {"sub", "feed"}
           \/ at'[t] = at[t] /\ pc[t] \in {"sub", "feed"} /\ l \in {"sub", "feed"}
    PROVE  Feeding(h)' = Feeding(h)
<1>1. \A u \in Threads : pc'[u] = IF u = t THEN l ELSE pc[u]
  BY Zenon DEF Goto, TypeOK
<1>2. Workers \subseteq Threads BY Zenon DEF Threads
<1>3. \A u \in Workers : u \in Feeding(h)' <=> u \in Feeding(h)
  BY <1>1, <1>2, ZenonT(30) DEF Feeding
<1> QED BY <1>3, Zenon DEF Feeding

LEMMA OrderStep ==
    ASSUME IndInv, IndInv', Encoded, NEW h \in Handles, InOrder(h), [Next]_vars
    PROVE  InOrder(h)'
<1>a. TypeOK /\ ControlOK /\ SingleDrainer BY Zenon DEF IndInv
<1>b. /\ q \in [Handles -> Seq(Msgs)] /\ sent \in [Handles -> Seq(Msgs)]
      /\ wire \in [Handles -> Seq(Msgs)]
      /\ pc \in [Threads -> PCs] /\ at \in [Threads -> Handles]
      /\ msg \in [Threads -> Msgs] /\ sock \in [Handles -> {"ok", "stuck", "broken"}]
  BY <1>a, Zenon DEF TypeOK
<1>c. /\ Senders \subseteq Threads /\ Workers \subseteq Threads
      /\ \A s \in Senders : s \notin Workers
  BY WritePoolAssumption, Zenon DEF Threads
<1>d. Feeding(h) \subseteq Workers BY ZenonT(30) DEF Feeding
<1>1. ASSUME NEW s \in Senders, NEW g \in Handles, Send(s, g) PROVE InOrder(h)'
  <2>1. UNCHANGED <<q, sent, wire, sock>> BY <1>1, Zenon DEF Send
  <2>2. \A u \in Threads \ {s} : at'[u] = at[u] /\ msg'[u] = msg[u]
    BY <1>1, <1>b, ZenonT(60) DEF Send
  <2>3. Feeding(h)' = Feeding(h)
    BY <1>1, <1>a, <1>c, <2>2, FeedingSame, SMT, Z3 DEF Send
  <2> QED BY <1>c, <1>d, <2>1, <2>2, <2>3, OrderFrame, ZenonT(60)
<1>2. ASSUME NEW s \in Senders, TrySend(s) PROVE InOrder(h)'
  <2>1. UNCHANGED <<at, msg, wire, sock>> BY <1>2, Zenon DEF TrySend
  <2>2. PICK l \in {"cas", "undo"} : Goto(s, l) BY <1>2, Zenon DEF TrySend
  <2>3. pc[s] = "try" BY <1>2, Zenon DEF TrySend
  <2>4. Feeding(h)' = Feeding(h)
    BY <1>a, <1>c, <2>1, <2>2, <2>3, FeedingSame, Zenon
  <2>5. InHand(h)' = InHand(h)
    <3>1. InHand(h)' = IF Feeding(h)' = {} THEN <<>>
                       ELSE <<msg'[CHOOSE w \in Feeding(h)' : TRUE]>>
      BY Zenon DEF InHand
    <3>2. InHand(h)' = IF Feeding(h) = {} THEN <<>>
                       ELSE <<msg[CHOOSE w \in Feeding(h) : TRUE]>>
      BY <2>1, <2>4, <3>1, Zenon
    <3> QED BY <3>2, Zenon DEF InHand
  <2>6. CASE Len(q[h]) < Capacity /\ h = at[s]
    <3>1. /\ q'[h] = Append(q[h], msg[s]) /\ sent'[h] = Append(sent[h], msg[s])
      BY <1>2, <1>b, <2>6, Zenon DEF TrySend
    <3>2. msg[s] \in Msgs /\ q[h] \in Seq(Msgs) /\ sent[h] \in Seq(Msgs)
          /\ wire[h] \in Seq(Msgs)
      BY <1>b, <1>c, ZenonT(30)
    <3>4. ASSUME Omit(sent[h], Unencodable)
                 = wire[h] \o Omit(InHand(h) \o q[h], Unencodable)
          PROVE  Omit(Append(sent[h], msg[s]), Unencodable)
                 = wire[h] \o Omit(InHand(h) \o Append(q[h], msg[s]), Unencodable)
      BY <1>a, <3>2, <3>4, OrderAccept, Zenon
    <3> QED BY <2>1, <2>5, <3>1, <3>4, Zenon DEF InOrder
  <2>7. CASE ~(Len(q[h]) < Capacity /\ h = at[s])
    <3>1. q'[h] = q[h] /\ sent'[h] = sent[h] BY <1>2, <1>b, <2>7, Zenon DEF TrySend
    <3> QED BY <2>1, <2>4, <3>1, OrderFrame, Zenon
  <2> QED BY <2>6, <2>7, Zenon
<1>3. ASSUME NEW t \in Threads, (t \in Senders /\ Overflow(t)) \/ Cas(t) \/ Push(t)
      PROVE InOrder(h)'
  <2>1. UNCHANGED <<q, sent, wire, sock, at, msg>> BY <1>3, Zenon DEF Overflow, Cas, Push
  <2>2. PICK l \in {"idle", "push"} : Goto(t, l) /\ pc[t] \in {"undo", "cas", "push"}
    BY <1>3, Zenon DEF Overflow, Cas, Push
  <2>3. Feeding(h)' = Feeding(h) BY <1>a, <2>1, <2>2, FeedingSame, ZenonT(30)
  <2> QED BY <2>1, <2>3, OrderFrame, Zenon
<1>4. ASSUME NEW w \in Workers, Take(w) PROVE InOrder(h)'
  <2>1. UNCHANGED <<q, sent, wire, sock, msg>> BY <1>4, ZenonT(30) DEF Take
  <2>2. \A u \in Threads \ {w} : at'[u] = at[u] BY <1>4, <1>b, ZenonT(60) DEF Take
  <2>3. Feeding(h)' = Feeding(h)
    BY <1>4, <1>a, <1>c, <2>2, FeedingSame, SMT, Z3 DEF Take
  <2> QED BY <2>1, <2>3, OrderFrame, Zenon
<1>5. ASSUME NEW w \in Workers, Lock(w) \/ Flush(w) \/ Clear(w) \/ Check(w)
      PROVE InOrder(h)'
  <2>1. UNCHANGED <<q, sent, wire, sock, at, msg>>
    BY <1>5, Zenon DEF Lock, Flush, Clear, Check
  <2>2. PICK l \in {"recv", "clear", "check", "cas", "idle"} :
           Goto(w, l) /\ pc[w] \in {"lock", "flush", "clear", "check"}
    BY <1>5, Zenon DEF Lock, Flush, Clear, Check
  <2>3. Feeding(h)' = Feeding(h) BY <1>a, <1>c, <2>1, <2>2, FeedingSame, ZenonT(30)
  <2> QED BY <2>1, <2>3, OrderFrame, Zenon
<1>6. ASSUME NEW w \in Workers, StoreLands(w) PROVE InOrder(h)'
  BY <1>6, OrderFrame, Zenon DEF StoreLands, Feeding
<1>7. ASSUME NEW w \in Workers, TryRecv(w) PROVE InOrder(h)'
  <2>1. UNCHANGED <<at, sent, wire, sock>> /\ pc[w] = "recv" BY <1>7, ZenonT(30) DEF TryRecv
  <2>2. PICK l \in {"flush", "sub"} : Goto(w, l) BY <1>7, Zenon DEF TryRecv
  <2>3. CASE at[w] # h
    <3>1. q'[h] = q[h] /\ \A u \in Threads \ {w} : msg'[u] = msg[u]
      BY <1>7, <1>b, <2>3, ZenonT(60) DEF TryRecv
    <3>2. Feeding(h)' = Feeding(h) /\ w \notin Feeding(h)
      BY <1>a, <1>c, <2>1, <2>2, <2>3, FeedingSame, SMT, Z3 DEF Feeding
    <3> QED BY <1>c, <1>d, <2>1, <3>1, <3>2, OrderFrame, Zenon
  <2>4. CASE at[w] = h /\ q[h] = <<>>
    <3>1. UNCHANGED <<q, msg>> /\ Goto(w, "flush") BY <1>7, <2>4, Zenon DEF TryRecv
    <3>2. Feeding(h)' = Feeding(h)
      BY <1>a, <1>c, <2>1, <3>1, FeedingSame, SMTT(30), Z3T(30)
    <3> QED BY <2>1, <3>1, <3>2, OrderFrame, Zenon
  <2>5. CASE at[w] = h /\ q[h] # <<>>
    <3>1. /\ msg' = [msg EXCEPT ![w] = Head(q[h])]
          /\ q' = [q EXCEPT ![h] = Tail(q[h])] /\ Goto(w, "sub")
      BY <1>7, <2>5, Zenon DEF TryRecv
    <3>2. msg'[w] = Head(q[h]) /\ q'[h] = Tail(q[h]) /\ pc'[w] = "sub" /\ at'[w] = h
      BY <1>b, <1>c, <2>1, <2>5, <3>1, Zenon DEF Goto
    <3>3. InHand(h) = <<>> BY <1>a, <2>1, <2>5, HandEmpty, Zenon
    <3>4. Feeding(h) = {} BY <1>a, <2>1, <2>5, HandEmpty, Zenon
    <3>5. Feeding(h)' = {w}
      <4>1. \A u \in Workers \ {w} : u \notin Feeding(h)'
        BY <1>b, <1>c, <2>1, <3>1, <3>4, ZenonT(30) DEF Feeding, Goto
      <4>2. w \in Feeding(h)' BY <3>2, ZenonT(30) DEF Feeding
      <4> QED BY <4>1, <4>2, Zenon DEF Feeding
    <3>6. InHand(h)' = <<Head(q[h])>>
      <4>1. (CHOOSE v \in {w} : TRUE) = w BY Zenon
      <4> QED BY <3>2, <3>5, <4>1, Zenon DEF InHand
    <3>7. <<Head(q[h])>> \o Tail(q[h]) = <<>> \o q[h]
      <4>1. q[h] \in Seq(Msgs) BY <1>b, ZenonT(30)
      <4> QED BY <2>5, <4>1, SMT, Z3
    <3> QED BY <2>1, <3>2, <3>3, <3>6, <3>7, Zenon DEF InOrder
  <2> QED BY <2>3, <2>4, <2>5, ZenonT(60)
<1>8. ASSUME NEW w \in Workers, SubPending(w) PROVE InOrder(h)'
  <2>1. UNCHANGED <<at, msg, q, sent, wire, sock>> /\ pc[w] = "sub"
    BY <1>8, Zenon DEF SubPending
  <2>2. Goto(w, IF msg[w] \in Unencodable THEN "recv" ELSE "feed")
    BY <1>8, Zenon DEF SubPending
  <2>3. CASE at[w] # h
    <3>1. Feeding(h)' = Feeding(h) BY <1>a, <1>c, <2>1, <2>2, <2>3, FeedingSame, Zenon
    <3> QED BY <2>1, <3>1, OrderFrame, Zenon
  <2>4. CASE msg[w] \notin Unencodable
    <3>0. Goto(w, "feed") BY <2>2, <2>4, Zenon
    <3>1. Feeding(h)' = Feeding(h) BY <1>a, <1>c, <2>1, <3>0, FeedingSame, ZenonT(30)
    <3> QED BY <2>1, <3>1, OrderFrame, Zenon
  <2>5. CASE at[w] = h /\ msg[w] \in Unencodable
    <3>0. Goto(w, "recv") BY <2>2, <2>5, Zenon
    <3>1. InHand(h) = <<msg[w]>> /\ Feeding(h) = {w}
      BY <1>a, <2>1, <2>5, HandFull, ZenonT(30)
    <3>2. InHand(h)' = <<>>
      <4>1. Feeding(h)' = {} BY <1>b, <1>c, <2>1, <3>0, <3>1, ZenonT(30) DEF Feeding, Goto
      <4> QED BY <4>1, Zenon DEF InHand
    <3>3. msg[w] \in Msgs /\ q[h] \in Seq(Msgs) BY <1>b, <1>c, ZenonT(30)
    <3> QED BY <2>1, <2>5, <3>1, <3>2, <3>3, OrderSkip, Zenon DEF InOrder
  <2> QED BY <2>3, <2>4, <2>5, Zenon
<1>9. ASSUME NEW w \in Workers, Feed(w) PROVE InOrder(h)'
  <2>1. UNCHANGED <<at, msg, q, sent, sock>> /\ pc[w] = "feed" BY <1>9, Zenon DEF Feed
  <2>2. PICK l \in {"flush", "recv"} : Goto(w, l) BY <1>9, Zenon DEF Feed
  <2>3. CASE at[w] # h
    <3>1. Feeding(h)' = Feeding(h) BY <1>a, <1>c, <2>1, <2>2, <2>3, FeedingSame, Zenon
    <3>2. wire'[h] = wire[h] BY <1>9, <1>b, <2>3, Zenon DEF Feed
    <3> QED BY <2>1, <3>1, <3>2, OrderFrame, Zenon
  <2>4. CASE at[w] = h /\ sock[h] = "broken" BY <2>1, <2>4, Zenon DEF InOrder
  <2>5. CASE at[w] = h /\ sock[h] # "broken"
    <3>1. wire' = [wire EXCEPT ![h] = Append(wire[h], msg[w])] /\ Goto(w, "recv")
      BY <1>9, <2>5, Zenon DEF Feed
    <3>2. wire'[h] = Append(wire[h], msg[w]) BY <1>b, <3>1, ZenonT(60)
    <3>3. InHand(h) = <<msg[w]>> /\ Feeding(h) = {w}
      BY <1>a, <2>1, <2>5, HandFull, ZenonT(30)
    <3>4. InHand(h)' = <<>>
      <4>1. Feeding(h)' = {} BY <1>b, <1>c, <2>1, <3>1, <3>3, ZenonT(30) DEF Feeding, Goto
      <4> QED BY <4>1, ZenonT(60) DEF InHand
    <3>5. msg[w] \in Msgs /\ q[h] \in Seq(Msgs) /\ wire[h] \in Seq(Msgs) BY <1>b, <1>c, ZenonT(30)
    <3>6. msg[w] \notin Unencodable BY <2>1, Zenon DEF Encoded
    <3>7. wire[h] \o Omit(<<msg[w]>> \o q[h], Unencodable)
          = Append(wire[h], msg[w]) \o Omit(<<>> \o q[h], Unencodable)
      BY <3>5, <3>6, OrderFeed, ZenonT(60)
    <3> QED BY <2>1, <2>5, <3>2, <3>3, <3>4, <3>7, Zenon DEF InOrder
  <2> QED BY <2>3, <2>4, <2>5, Zenon
<1>10. ASSUME (\E g \in Handles : SocketChanges(g)) \/ UNCHANGED vars PROVE InOrder(h)'
  <2>1. UNCHANGED <<q, sent, wire, at, msg, pc>>
    BY <1>10, Zenon DEF SocketChanges, vars
  <2>2. sock'[h] # "broken" => sock[h] # "broken"
    BY <1>10, <1>b, Zenon DEF SocketChanges, vars
  <2>3. Feeding(h)' = Feeding(h) BY <2>1, ZenonT(30) DEF Feeding
  <2> QED BY <2>1, <2>2, <2>3, OrderFrame, Zenon
<1> QED
  BY <1>1, <1>2, <1>3, <1>4, <1>5, <1>6, <1>7, <1>8, <1>9, <1>10, <1>c, ZenonT(60)
  DEF Next, SendStep, WorkerStep, DrainStep, Threads

LEMMA EncodedStep ==
    ASSUME TypeOK, ControlOK, Encoded, [Next]_vars
    PROVE  Encoded'
<1>b. pc \in [Threads -> PCs] /\ msg \in [Threads -> Msgs] BY ZenonT(30) DEF TypeOK
<1>c. /\ Senders \subseteq Threads /\ Workers \subseteq Threads
      /\ \A s \in Senders : s \notin Workers
  BY WritePoolAssumption, Zenon DEF Threads
<1>1. ASSUME NEW t \in Threads, NEW l, Goto(t, l), l # "feed",
             \A u \in Threads \ {t} : msg'[u] = msg[u]
      PROVE  Encoded'
  <2>1. \A u \in Threads : pc'[u] = IF u = t THEN l ELSE pc[u] BY <1>b, <1>1, Zenon DEF Goto
  <2> QED BY <1>1, <1>c, <2>1, Zenon DEF Encoded
<1>2. ASSUME NEW s \in Senders, NEW h \in Handles, Send(s, h) PROVE Encoded'
  <2>1. \A u \in Threads \ {s} : msg'[u] = msg[u] BY <1>2, <1>b, ZenonT(60) DEF Send
  <2> QED BY <1>1, <1>2, <1>c, <2>1, ZenonT(30) DEF Send
<1>3. ASSUME NEW t \in Threads,
             (t \in Senders /\ (TrySend(t) \/ Overflow(t))) \/ Cas(t) \/ Push(t)
      PROVE Encoded'
  <2>1. UNCHANGED msg BY <1>3, Zenon DEF TrySend, Overflow, Cas, Push
  <2>2. PICK l \in {"cas", "undo", "idle", "push"} : Goto(t, l)
    BY <1>3, Zenon DEF TrySend, Overflow, Cas, Push
  <2> QED BY <1>1, <2>1, <2>2, ZenonT(30)
<1>4. ASSUME NEW w \in Workers,
             Take(w) \/ Lock(w) \/ Feed(w) \/ Flush(w) \/ Clear(w) \/ Check(w)
      PROVE Encoded'
  <2>1. UNCHANGED msg BY <1>4, Zenon DEF Take, Lock, Feed, Flush, Clear, Check
  <2>2. PICK l \in {"lock", "recv", "flush", "clear", "check", "cas", "idle"} : Goto(w, l)
    BY <1>4, Zenon DEF Take, Lock, Feed, Flush, Clear, Check
  <2> QED BY <1>1, <1>c, <2>1, <2>2, ZenonT(30)
<1>5. ASSUME NEW w \in Workers, TryRecv(w) PROVE Encoded'
  <2>1. \A u \in Threads \ {w} : msg'[u] = msg[u] BY <1>5, <1>b, ZenonT(60) DEF TryRecv
  <2>2. PICK l \in {"flush", "sub"} : Goto(w, l) BY <1>5, Zenon DEF TryRecv
  <2> QED BY <1>1, <1>c, <2>1, <2>2, ZenonT(30)
<1>6. ASSUME NEW w \in Workers, SubPending(w) PROVE Encoded'
  BY <1>6, <1>b, <1>c, Zenon DEF SubPending, Goto, Encoded
<1>7. ASSUME NEW w \in Workers, StoreLands(w) PROVE Encoded'
  BY <1>7, Zenon DEF StoreLands, Encoded
<1>8. ASSUME (\E g \in Handles : SocketChanges(g)) \/ UNCHANGED vars PROVE Encoded'
  BY <1>8, ZenonT(60) DEF SocketChanges, vars, Encoded
<1> QED
  BY <1>2, <1>3, <1>4, <1>5, <1>6, <1>7, <1>8, <1>c, ZenonT(60)
  DEF Next, SendStep, WorkerStep, DrainStep, Threads

-----------------------------------------------------------------------------
(* The theorems *)

LEMMA InitInv == Init => IndInv /\ NoStranded
<1> SUFFICES ASSUME Init PROVE IndInv /\ NoStranded
  BY Zenon
<1> USE DEF Init, Threads
<1>1. TypeOK BY WritePoolAssumption, SMTT(30), Z3T(30) DEF TypeOK, PCs
<1>2. ControlOK BY Zenon DEF ControlOK, PCs
<1>3. PendingExact
  <2> SUFFICES ASSUME NEW h \in Handles
               PROVE  pending[h] = Len(q[h]) + Cardinality(Counted(h))
    BY Zenon DEF PendingExact
  <2>1. Counted(h) = {} BY Zenon DEF Counted
  <2>2. Cardinality(Counted(h)) = 0 BY <2>1, FS_EmptySet, ZenonT(60)
  <2> QED BY <2>2, SMT, Z3
<1>4. SingleDrainer
  BY SMT, Z3 DEF SingleDrainer, Holders, Holds, Queued
<1>5. NoStranded BY Zenon DEF NoStranded
<1> QED BY <1>1, <1>2, <1>3, <1>4, <1>5, Zenon DEF IndInv

LEMMA IndInvariant == Spec => []IndInv
<1>1. Init => IndInv BY InitInv, Zenon
<1>2. IndInv /\ [Next]_vars => IndInv'
  BY TypeStep, ControlStep, PendingStep, TokenStep, Zenon DEF IndInv
<1> QED BY <1>1, <1>2, PTL DEF Spec

\* The type invariant of the write path holds for every pool: in particular
\* pending, which both send and pool_drain decrement without a test, never
\* goes below zero (write_pool.rs:68, :178).
THEOREM TypeCorrect == Spec => []TypeOK
<1>1. IndInv => TypeOK BY Zenon DEF IndInv
<1> QED BY <1>1, IndInvariant, PTL

\* pending is always the number of messages in the channel plus those in
\* transit, so the re-check after a drain cannot miss one (write_pool.rs:191).
THEOREM PendingIsExact == Spec => []PendingExact
<1>1. IndInv => PendingExact BY Zenon DEF IndInv
<1> QED BY <1>1, IndInvariant, PTL

\* compare_exchange on in_pool gives one queue entry and one drainer per
\* handle, whether or not the store that clears it is delayed
\* (write_pool.rs:78-86, :190).
THEOREM OneDrainer == Spec => []SingleDrainer
<1>1. IndInv => SingleDrainer BY Zenon DEF IndInv
<1> QED BY <1>1, IndInvariant, PTL

\* A queued message always has a worker, or a thread about to queue its
\* handle: storing false before loading pending (write_pool.rs:190-193) closes
\* the window, unless the load overtakes the store.  That exception is needed:
\* a sender then sees in_pool still TRUE and the worker sees pending still 0.
THEOREM NothingStranded == Spec => []NoStranded
<1>1. Init => NoStranded BY InitInv, Zenon
<1>2. IndInv /\ IndInv' /\ NoStranded /\ [Next]_vars => NoStranded'
  BY StrandedStep, Zenon
<1> QED BY <1>1, <1>2, IndInvariant, PTL DEF Spec

LEMMA InitOrder == Init => EvictInv /\ Encoded /\ \A h \in Handles : InOrder(h)
<1> SUFFICES ASSUME Init PROVE EvictInv /\ Encoded /\ \A h \in Handles : InOrder(h)
  BY Zenon
<1>1. EvictInv
  BY WritePoolAssumption, SMT, Z3 DEF Init, EvictInv, BackpressureEvicts, Threads
<1>2. Encoded BY Zenon DEF Init, Encoded, Threads
<1>3. ASSUME NEW h \in Handles PROVE InOrder(h)
  <2>1. sent[h] = <<>> /\ wire[h] = <<>> /\ q[h] = <<>> BY Zenon DEF Init
  <2>2. Feeding(h) = {} BY Zenon DEF Init, Feeding, Threads
  <2>3. InHand(h) = <<>> BY <2>2, Zenon DEF InHand
  <2>4. <<>> \o <<>> = <<>> BY SMT, Z3
  <2> QED BY <2>1, <2>3, <2>4, OmitEmpty, Zenon DEF InOrder
<1> QED BY <1>1, <1>2, <1>3, Zenon

\* A session's channel never holds more than the backpressure limit, and a send
\* that was refused for it has cancelled the session by the time it returns
\* (write_pool.rs:64-76), for every limit and number of senders.
THEOREM BackpressureTheorem == Spec => []BackpressureEvicts
<1>1. Init => EvictInv BY InitOrder, Zenon
<1>2. IndInv /\ EvictInv /\ [Next]_vars => EvictInv'
  BY EvictStep, Zenon DEF IndInv
<1>3. EvictInv => BackpressureEvicts BY ZenonT(30) DEF EvictInv
<1> QED BY <1>1, <1>2, <1>3, IndInvariant, PTL DEF Spec

\* Until its connection fails a socket is fed exactly the encodable messages its
\* channel accepted, in that order, whichever workers drain it
\* (write_pool.rs:160-195): the single token keeps two workers from
\* interleaving what they received.
THEOREM InOrderTheorem == Spec => []DeliveredInOrder
<1> DEFINE AllInOrder == \A h \in Handles : InOrder(h)
<1>1. Init => Encoded /\ AllInOrder BY InitOrder, Zenon
<1>2. IndInv /\ IndInv' /\ Encoded /\ AllInOrder /\ [Next]_vars => Encoded' /\ AllInOrder'
  <2> SUFFICES ASSUME IndInv, IndInv', Encoded, AllInOrder, [Next]_vars
               PROVE  Encoded' /\ AllInOrder'
    BY Zenon
  <2>1. Encoded' BY EncodedStep, Zenon DEF IndInv
  <2>2. ASSUME NEW h \in Handles PROVE InOrder(h)' BY OrderStep, Zenon
  <2> QED BY <2>1, <2>2, Zenon
<1>3. AllInOrder => DeliveredInOrder BY Zenon DEF InOrder, DeliveredInOrder
<1> HIDE DEF AllInOrder
<1> QED BY <1>1, <1>2, <1>3, IndInvariant, PTL DEF Spec
=============================================================================
