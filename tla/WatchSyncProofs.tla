--------------------------- MODULE WatchSyncProofs ---------------------------
(***************************************************************************)
(* Proofs about WatchSync, for all sessions, keys, clients, requests and   *)
(* bounds: no subscription outlives its session, no subscriber misses an   *)
(* update, and the DELTA of a call is sent before its RESULT.  They follow *)
(* every version from the change that made it to the sessions that have to *)
(* hear of it.                                                             *)
(***************************************************************************)
EXTENDS WatchSyncSteps

-----------------------------------------------------------------------------
(* The change, and its record in the log *)

\* One session's task moves inside its fan-out; the tables only shrink.
LEMMA FanStep ==
    ASSUME Inv, NEW s \in Sessions, NEW pc, NEW tg, NEW sl,
           Becomes(s, pc, Key(s), at[s].stream, at[s].version, at[s].todo, tg, sl),
           at[s].pc \in Fanning, pc \notin Waiting \cup {"init"}, Grows, Shrinks,
           UNCHANGED <<watches, next_stream, changes, phase>>,
           \A z \in sl : z \in at[s].slow \/ cancelled'[z],
           \A x \in Range(subscriptions'[Key(s)]), v \in changes[Key(s)] :
              (OnItsWay(s, Key(s), v, x) /\ ~cancelled'[x.session]) =>
                 OnItsWay(s, Key(s), v, x)' \/ Knows(x.session, x.stream, v)'
    PROVE  Registered' /\ AllTold'
<1>1. TypeOK /\ Registered /\ AllTold
  BY Zenon DEF Inv
<1>2. \A u \in Sessions : at[u].slow \subseteq Sessions
  BY <1>1, Zenon DEF TypeOK, AtType, HandlerState
<1>3. /\ \A u \in Sessions : u # s => at'[u] = at[u]
      /\ at'[s].pc = pc /\ Key(s)' = Key(s) /\ at'[s].slow = sl
  BY Zenon DEF Becomes
<1>4. at[s].pc \notin Waiting
  BY ZenonT(30) DEF Fanning, Waiting
<1>5. ASSUME NEW u \in Sessions
      PROVE  SameStream(u)
  <2>1. CASE u # s
    BY <1>3, <2>1, Zenon DEF SameStream, SameTask, Key
  <2>2. CASE u = s
    BY <1>3, <1>4, <2>2, Zenon DEF SameStream, SameTask
  <2> QED  BY <2>1, <2>2, Zenon
<1>6. \A u \in Sessions : \A z \in at'[u].slow : z \in at[u].slow \/ cancelled'[z]
  BY <1>3, Zenon
<1>7. ASSUME NEW u \in Sessions, NEW k \in Keys, NEW x \in Range(subscriptions'[k]),
             NEW v \in changes[k], OnItsWay(u, k, v, x), ~cancelled'[x.session]
      PROVE  OnItsWay(u, k, v, x)' \/ Knows(x.session, x.stream, v)'
  <2>1. CASE u # s
    BY <1>3, <1>7, <2>1, Zenon DEF OnItsWay, Key, Cleaning
  <2>2. CASE u = s
    <3>1. k = Key(s)
      BY <1>7, <2>2, Zenon DEF OnItsWay
    <3>2. /\ x \in Range(subscriptions'[Key(s)]) /\ v \in changes[Key(s)]
          /\ OnItsWay(s, Key(s), v, x) /\ ~cancelled'[x.session]
      BY <1>7, <2>2, <3>1, Zenon
    <3>3. OnItsWay(s, Key(s), v, x)' \/ Knows(x.session, x.stream, v)'
      BY <3>2, Zenon
    <3> QED  BY <1>3, <2>2, <3>1, <3>3, Zenon
  <2> QED  BY <2>1, <2>2, Zenon
<1>8. Registered'
  BY <1>1, <1>2, <1>5, <1>6, RegisteredStep, Zenon DEF SameStream
<1>9. AllTold'
  BY <1>1, <1>5, <1>7, AllToldStep, Zenon
<1> QED  BY <1>8, <1>9, Zenon

LEMMA FanAnswers ==
    ASSUME NEW s \in Sessions, NEW pc, NEW tg, NEW sl,
           Becomes(s, pc, Key(s), at[s].stream, at[s].version, at[s].todo, tg, sl),
           at[s].pc \in Fanning, pc \in Fanning \cup {"next"}, Grows, NoResult,
           UNCHANGED <<global_version, changes, watches>>
    PROVE  Answers => Answers'
<1>1. at[s].pc \notin Waiting
  BY ZenonT(30) DEF Fanning, Waiting
<1>2. pc \notin {"diff", "insert"} /\ pc # "result"
  BY ZenonT(30) DEF Fanning
<1>3. ASSUME Answers
      PROVE  Answers'
  BY <1>1, <1>2, <1>3, TaskAnswers, Zenon
<1> QED  BY <1>3, Zenon

\* A new version of a key is on its way to all its subscribers.
LEMMA ChangeStep ==
    ASSUME Inv, NEW s \in Sessions, NEW v, Key(s) \in Keys,
           Becomes(s, "log", Key(s), at[s].stream, v, at[s].todo, at[s].targets, at[s].slow),
           at[s].pc \notin Fanning, at[s].pc \notin Waiting,
           changes' = [changes EXCEPT ![Key(s)] = @ \cup {v}],
           UNCHANGED <<subscriptions, watches, next_stream, phase, known, cancelled>>
    PROVE  Registered' /\ AllTold'
<1>1. TypeOK /\ Registered /\ AllTold
  BY Zenon DEF Inv
<1>2. \A u \in Sessions : at[u].slow \subseteq Sessions
  BY <1>1, Zenon DEF TypeOK, AtType, HandlerState
<1>3. /\ \A u \in Sessions : u # s => at'[u] = at[u]
      /\ at'[s].pc = "log" /\ Key(s)' = Key(s) /\ at'[s].slow = at[s].slow
      /\ at'[s].version = v
  BY Zenon DEF Becomes
<1>4. at'[s].pc \notin Waiting \cup {"init"}
  BY <1>3, ZenonT(30) DEF Waiting
<1>5. ASSUME NEW u \in Sessions
      PROVE  SameStream(u)
  <2>1. CASE u # s
    BY <1>3, <2>1, Zenon DEF SameStream, SameTask, Key
  <2>2. CASE u = s
    BY <1>4, <2>2, Zenon DEF SameStream, SameTask
  <2> QED  BY <2>1, <2>2, Zenon
<1>6. \A u \in Sessions : \A z \in at'[u].slow : z \in at[u].slow \/ cancelled'[z]
  BY <1>3, Zenon
<1>7. Shrinks
  BY <1>1, SameTables, Zenon
<1>8. Registered'
  BY <1>1, <1>2, <1>5, <1>6, <1>7, GrowsSame, RegisteredStep, Zenon DEF SameStream
<1>9. AllTold'
  <2> SUFFICES ASSUME NEW k \in Keys, NEW x \in Range(subscriptions'[k]),
                      ~cancelled'[x.session], Live(x.session, x.stream)',
                      NEW w \in changes'[k]
               PROVE  \/ Knows(x.session, x.stream, w)'
                      \/ \E u \in Sessions : OnItsWay(u, k, w, x)'
    BY Zenon DEF AllTold, Told
  <2>1. x \in Range(subscriptions[k]) /\ x.session \in Sessions
    BY <1>7, Zenon DEF Shrinks
  <2>2. CASE w \in changes[k]
    <3>1. Live(x.session, x.stream)
      BY <1>5, <2>1, ZenonT(30) DEF Live, SameStream, SameTask, Waiting
    <3>2. Knows(x.session, x.stream, w) \/ \E u \in Sessions : OnItsWay(u, k, w, x)
      BY <1>1, <2>1, <2>2, <3>1, Zenon DEF AllTold, Told
    <3>3. ASSUME NEW u \in Sessions, OnItsWay(u, k, w, x)
          PROVE  OnItsWay(u, k, w, x)'
      <4>1. at[u].pc \in Fanning
        BY <3>3, ZenonT(30) DEF OnItsWay, Fanning
      <4>2. at'[u] = at[u]
        BY <1>3, <4>1, Zenon
      <4> QED  BY <3>3, <4>2, Zenon DEF OnItsWay, Key, Cleaning
    <3> QED  BY <1>1, <3>2, <3>3, Zenon DEF Knows
  <2>3. CASE w \notin changes[k]
    <3>1. k = Key(s) /\ w = v
      BY <1>1, <2>3, Zenon DEF TypeOK, StoreType
    <3>2. OnItsWay(s, k, w, x)'
      BY <1>3, <3>1, ZenonT(30) DEF OnItsWay
    <3> QED  BY <3>2, Zenon
  <2> QED  BY <2>2, <2>3, Zenon
<1> QED  BY <1>8, <1>9, Zenon

\* The version of the change is new to every key, and no other task holds it.
LEMMA ChangeAnswers ==
    ASSUME Inv, Answers, NEW s \in Sessions, NEW n, Key(s) \in Keys,
           at'[s].pc = "log", at'[s].version = n, Key(s)' = Key(s),
           \A u \in Sessions : u # s => at'[u] = at[u],
           at[s].pc \notin Waiting, global_version' \in Nat, global_version <= global_version',
           n \in 1..global_version', ~Issued(n),
           \A u \in Sessions : u # s /\ Holds(u) => at[u].version # n,
           changes' = [changes EXCEPT ![Key(s)] = @ \cup {n}],
           UNCHANGED <<watches, known, cancelled, out>>
    PROVE  Answers'
<1>1. TypeOK /\ VersionsOK /\ Answered
  BY Zenon DEF Inv, Answers
<1>2. global_version \in Nat /\ changes \in [Keys -> SUBSET Nat]
  BY <1>1, Zenon DEF TypeOK, StoreType
<1>3. /\ changes'[Key(s)] = changes[Key(s)] \cup {n}
      /\ \A k \in Keys : k # Key(s) => changes'[k] = changes[k]
  BY <1>2, Zenon
<1>4. \A u \in Sessions : Holds(u)' => u # s /\ Holds(u) /\ at'[u].version = at[u].version
  BY ZenonT(30) DEF Holds
<1>5. \A v : Issued(v) => Issued(v)'
  BY <1>2, <1>4, SMT, Z3 DEF Issued
<1>6. n > 0 /\ Issued(n)'
  BY <1>4, SMT, Z3 DEF Issued
<1>7. \A k \in Keys : n \notin changes[k]
  BY <1>1, Zenon DEF VersionsOK
<1>8. ASSUME NEW k \in Keys, NEW v \in changes'[k]
      PROVE  v > 0 /\ Issued(v)'
  <2>1. v \in changes[k] \/ v = n
    BY <1>3, <1>8, Zenon
  <2>2. CASE v \in changes[k]
    BY <1>1, <1>5, <2>2, Zenon DEF VersionsOK
  <2>3. CASE v = n
    BY <1>6, <2>3, Zenon
  <2> QED  BY <2>1, <2>2, <2>3, Zenon
<1>9. \A k, l \in Keys : k # l => changes'[k] \cap changes'[l] = {}
  <2>1. ASSUME NEW k \in Keys, NEW l \in Keys, NEW v \in changes'[k], v \in changes'[l]
        PROVE  k = l
    <3>1. v \in changes[k] /\ v \in changes[l] => k = l
      BY <1>1, Zenon DEF VersionsOK
    <3>2. v \in changes[k] \/ (k = Key(s) /\ v = n)
      BY <1>3, <2>1, Zenon
    <3>3. v \in changes[l] \/ (l = Key(s) /\ v = n)
      BY <1>3, <2>1, Zenon
    <3> QED  BY <1>7, <3>1, <3>2, <3>3, Zenon
  <2> QED  BY <2>1, Zenon
<1>10. \A u \in Sessions : Holds(u)' => at'[u].version > 0 /\ at'[u].version <= global_version'
  <2>1. \A u \in Sessions : at[u].version \in Nat
    BY <1>1, Zenon DEF TypeOK, AtType, HandlerState
  <2>2. ASSUME NEW u \in Sessions, Holds(u)'
        PROVE  at'[u].version > 0 /\ at'[u].version <= global_version'
    <3>1. at'[u].version = at[u].version /\ at[u].version > 0 /\ at[u].version <= global_version
      BY <1>1, <1>4, <2>2, Zenon DEF VersionsOK
    <3> QED  BY <1>2, <2>1, <3>1, SMTT(30), Z3T(30)
  <2> QED  BY <2>2, Zenon
<1>11. \A u, w \in Sessions : (Holds(u)' /\ Holds(w)' /\ at'[u].version = at'[w].version) => u = w
  BY <1>1, <1>4, Zenon DEF VersionsOK
<1>12. \A u \in Sessions : at'[u].pc \in {"log", "snapshot", "send", "direct"} =>
          at'[u].version \in changes'[Key(u)']
  <2>1. ASSUME NEW u \in Sessions, u # s, at'[u].pc \in {"log", "snapshot", "send", "direct"}
        PROVE  at'[u].version \in changes'[Key(u)']
    <3>1. at'[u] = at[u] /\ Key(u)' = Key(u) /\ at[u].version \in changes[Key(u)]
      BY <1>1, <2>1, Zenon DEF VersionsOK, Key
    <3>2. Key(u) \in Keys
      BY <2>1, <3>1, ZenonT(30) DEF Inv, HandlerOK, HandlerPCs, WritePCs
    <3> QED  BY <1>3, <3>1, <3>2, Zenon
  <2>2. at'[s].version \in changes'[Key(s)']
    BY <1>3, Zenon
  <2> QED  BY <2>1, <2>2, Zenon
<1>13. VersionsOK'
  BY <1>8, <1>9, <1>10, <1>11, <1>12, Zenon DEF VersionsOK
<1>14. \A u \in Sessions : at[u].pc \in Waiting =>
          at'[u].pc \in Waiting /\ at'[u].stream = at[u].stream
  BY Zenon
<1>15. \A u \in Sessions : watches'[u] \subseteq watches[u]
  BY Zenon
<1>16. \A v : Issued(v) => \A k \in Keys : v \in changes'[k] => v \in changes[k]
  BY <1>3, Zenon
<1>17. \A u \in Sessions : \A v : (Issued(v) /\ Heard(u, v)) => Heard(u, v)'
  BY <1>14, <1>15, <1>16, GrowsSame, HeardStep, Zenon DEF StaysWaiting
<1>18. \A u \in Sessions : at'[u].pc = "result" =>
          at[u].pc = "result" /\ at'[u].version = at[u].version
  BY ZenonT(30)
<1>19. Answered'
  BY <1>1, <1>5, <1>17, <1>18, AnsweredStep, Zenon DEF ResultsHeard, OwnResults, HeardStays
<1> QED  BY <1>13, <1>19, Zenon DEF Answers

LEMMA Changes ==
    ASSUME Inv, NEW s \in Sessions, ServerStep,
           Insert(s) \/ RemoveEntry(s) \/ Bump(s) \/ LogDelta(s)
    PROVE  Inv0' /\ Kept
<1> /\ Inv0 /\ TypeOK /\ HandlerOK(s) /\ Registered /\ AllTold
    /\ \A u \in Sessions : HandlerOK(u)
  BY Zenon DEF Inv, Inv0
<1>Insert. ASSUME Insert(s)
           PROVE  Inv0' /\ Kept
  <2> USE <1>Insert
  <2>At. ASSUME AtType
         PROVE  Becomes(s, (IF at[s].ops # NoOps THEN "log"
                    ELSE IF Cleaning(s) THEN "next" ELSE "result"), Key(s), at[s].stream, at[s].version, at[s].todo, at[s].targets, at[s].slow)
    <3> USE <2>At
    <3> DEFINE h == [at[s] EXCEPT !.pc = (IF at[s].ops # NoOps THEN "log"
                   ELSE IF Cleaning(s) THEN "next" ELSE "result")]
    <3>1. at[s] \in HandlerState
      BY ZenonT(30) DEF AtType
    <3>t. (IF at[s].ops # NoOps THEN "log"
                   ELSE IF Cleaning(s) THEN "next" ELSE "result") \in PCs
      BY ZenonT(30) DEF PCs, HandlerPCs, WritePCs, Todo
    <3>2. h \in HandlerState
      BY <3>t, <3>1, ZenonT(30) DEF HandlerState
    <3>3. at' = [at EXCEPT ![s] = h]
      BY ZenonT(30) DEF Insert, AtType, Goto
    <3>4. /\ h.pc = (IF at[s].ops # NoOps THEN "log"
                   ELSE IF Cleaning(s) THEN "next" ELSE "result") /\ h.req = at[s].req /\ h.stream = at[s].stream /\ h.version = at[s].version
          /\ h.todo = at[s].todo /\ h.targets = at[s].targets /\ h.slow = at[s].slow
      BY <3>1, ZenonT(30) DEF HandlerState
    <3> HIDE DEF h
    <3> QED  BY <3>2, <3>3, <3>4, BecomesRule, Zenon DEF Key
  <2>Inv0. Inv0'
    <3>2. at[s].pc = "insert" /\ at[s].pc \in HandlerPCs
      BY ZenonT(30) DEF Insert, At, HandlerPCs, WritePCs
    <3>3. Key(s) \in Keys
      BY <3>2, Zenon DEF HandlerOK
    <3>5. Becomes(s, (IF at[s].ops # NoOps THEN "log" ELSE IF Cleaning(s) THEN "next" ELSE "result"), Key(s), at[s].stream, at[s].version, at[s].todo, at[s].targets, at[s].slow)
      BY <3>3, <2>At, Zenon DEF TypeOK
    <3>6. /\ UNCHANGED <<subscriptions, watches, presence, next_stream, phase>>
          /\ UNCHANGED <<inbox, out, cancelled, peer_gone, writer, known, raced>>
      BY ZenonT(30) DEF Insert, storeVars, channelVars, history
    <3>7. StoreType'
      <4>1. at[s].version \in Nat /\ at[s].req \in Running
        BY SMT, Z3 DEF TypeOK, AtType, HandlerState
      <4>2. at[s].req.put \in Value
        BY <4>1, ZenonT(30) DEF Running
      <4>3. [version |-> at[s].version, value |-> at[s].req.put] \in Entry
        BY <4>1, <4>2, ZenonT(30) DEF Entry
      <4>4. entries \in [Keys -> Entry] /\ changes \in [Keys -> SUBSET Nat]
        BY Zenon DEF TypeOK, StoreType
      <4>5. entries' \in [Keys -> Entry]
        BY <4>3, <4>4, Zenon DEF Insert
      <4>6. changes' \in [Keys -> SUBSET Nat]
        BY <4>1, <4>4, Zenon DEF Insert
      <4>7. UNCHANGED <<global_version, log>>
        BY ZenonT(30) DEF Insert
      <4>8. Members(at[s].req.put) \in SUBSET Fields
        BY <4>2, ObjectShape, ZenonT(30) DEF Members, Value
      <4>9. Unregistered(s) \in SUBSET Fields
        BY <4>8, Zenon DEF Unregistered
      <4>10. loose' \in [Keys -> SUBSET Fields]
        BY <4>9, Update, Zenon DEF Insert, TypeOK, StoreType
      <4> QED  BY <4>5, <4>6, <4>7, <4>10, ZenonT(30) DEF TypeOK, StoreType
    <3>8. TableType'
      BY <3>6, TableFrame, Zenon DEF TypeOK
    <3>9. ChannelType'
      BY <3>6, ChannelFrame, Zenon DEF TypeOK
    <3>10. TypeOK'
      BY <3>5, <3>7, <3>8, <3>9, ClientFrame, ZenonT(30) DEF TypeOK, Becomes
    <3> DEFINE p == (IF at[s].ops # NoOps THEN "log" ELSE IF Cleaning(s) THEN "next" ELSE "result")
    <3>11. /\ p \in HandlerPCs \cup {"next"} /\ p \notin {"read", "replay", "remove"}
           /\ p = "next" => Cleaning(s)
      BY ZenonT(30) DEF HandlerPCs, WritePCs
    <3>12. Cleaning(s) => p \in WritePCs \cup {"next"} /\ at[s].todo \in Seq(Path)
      BY <3>2, SMT, Z3 DEF HandlerOK, Cleaning, WritePCs
    <3>13. Becomes(s, p, Key(s), at[s].stream, at[s].version, at[s].todo, at[s].targets, at[s].slow)
      BY <3>5, Zenon
    <3> HIDE DEF p
    <3>14. \A u \in Sessions : HandlerOK(u)'
      BY <3>2, <3>6, <3>11, <3>12, <3>13, HandlerKeeps, Zenon
    <3> QED  BY <3>10, <3>14, Zenon DEF Inv0
  <2>Told. Registered' /\ AllTold'
    <3> DEFINE p == IF at[s].ops # NoOps THEN "log" ELSE IF Cleaning(s) THEN "next" ELSE "result"
    <3>2. at[s].pc = "insert" /\ at[s].pc \notin Fanning /\ at[s].pc \notin Waiting
      BY ZenonT(30) DEF Insert, At, Fanning, Waiting
    <3>3. Key(s) \in Keys
      BY <3>2, Zenon DEF HandlerOK, HandlerPCs, WritePCs
    <3>4. Becomes(s, p, Key(s), at[s].stream, at[s].version, at[s].todo, at[s].targets, at[s].slow)
      BY <2>At, Zenon DEF TypeOK
    <3>5. UNCHANGED <<subscriptions, watches, next_stream, phase, known, cancelled>>
      BY ZenonT(30) DEF Insert, channelVars
    <3>6. CASE at[s].ops # NoOps
      <4>1. p = "log" /\ changes' = [changes EXCEPT ![Key(s)] = @ \cup {at[s].version}]
        BY <3>6, Zenon DEF Insert
      <4> HIDE DEF p
      <4> QED  BY <3>2, <3>3, <3>4, <3>5, <4>1, ChangeStep, Zenon
    <3>7. CASE at[s].ops = NoOps
      <4>1. p \notin Waiting \cup {"init"}
        BY <3>7, ZenonT(30) DEF Waiting
      <4>2. changes' = changes
        BY <3>7, Zenon DEF Insert
      <4> HIDE DEF p
      <4> QED  BY <3>2, <3>4, <3>5, <4>1, <4>2, GrowsSame, TaskStep, Zenon
    <3> QED  BY <3>6, <3>7, Zenon
  \* A write that changes nothing is answered with a version that no key has.
  <2>Answers. ASSUME Answers
              PROVE  Answers'
    <3> USE <2>Answers
    <3> DEFINE p == IF at[s].ops # NoOps THEN "log" ELSE IF Cleaning(s) THEN "next" ELSE "result"
    <3>0. PICK n : n = at[s].version
      BY Zenon
    <3>1. TypeOK /\ HandlerOK(s) /\ VersionsOK /\ Answered
      BY Zenon DEF Inv, Answers
    <3>2. at[s].pc = "insert" /\ at[s].pc \notin Waiting /\ Holds(s)
      BY ZenonT(30) DEF Insert, At, Waiting, Holds
    <3>3. Key(s) \in Keys
      BY <3>1, <3>2, Zenon DEF HandlerOK, HandlerPCs, WritePCs
    <3>4. global_version \in Nat /\ n \in Nat
      BY <3>0, <3>1, Zenon DEF TypeOK, StoreType, AtType, HandlerState
    <3>5. Becomes(s, p, Key(s), at[s].stream, n, at[s].todo, at[s].targets, at[s].slow)
      BY <3>0, <3>1, <2>At, Zenon DEF TypeOK
    <3>6. UNCHANGED <<watches, known, cancelled, out, global_version>>
      BY ZenonT(30) DEF Insert, channelVars
    <3>7. \A u \in Sessions : u # s /\ Holds(u) => at[u].version # n
      BY <3>0, <3>1, <3>2, Zenon DEF VersionsOK
    <3>8. ~Issued(n)
      BY <3>0, <3>2, Zenon DEF Issued
    <3>9. n \in 1..global_version /\ global_version <= global_version
      <4>1. n > 0 /\ n <= global_version
        BY <3>0, <3>1, <3>2, Zenon DEF VersionsOK
      <4> QED  BY <3>4, <4>1, SMT, Z3
    <3>10. /\ at'[s].pc = p /\ at'[s].version = n /\ Key(s)' = Key(s)
           /\ \A u \in Sessions : u # s => at'[u] = at[u]
      BY <3>5, Zenon DEF Becomes
    <3>11. CASE at[s].ops # NoOps
      <4>1. p = "log" /\ changes' = [changes EXCEPT ![Key(s)] = @ \cup {n}]
        BY <3>0, <3>11, Zenon DEF Insert
      <4> HIDE DEF p
      <4>2. /\ at'[s].pc = "log" /\ global_version' \in Nat /\ global_version <= global_version'
            /\ n \in 1..global_version'
        BY <3>4, <3>6, <3>9, <3>10, <4>1, ZenonT(30)
      <4> QED  BY <3>2, <3>3, <3>6, <3>7, <3>8, <3>10, <4>1, <4>2, ChangeAnswers, ZenonT(30)
    <3>12. CASE at[s].ops = NoOps
      <4>1. changes' = changes /\ at'[s].pc \in {"next", "result"}
        BY <3>10, <3>12, Zenon DEF Insert
      <4> HIDE DEF p
      <4>2. \A u \in Sessions : Holds(u)' => u # s /\ Holds(u) /\ at'[u].version = at[u].version
        BY <3>10, <4>1, ZenonT(30) DEF Holds
      <4>3. Issued(n)'
        BY <3>4, <3>6, <3>7, <3>9, <4>2, SMTT(30), Z3T(30) DEF Issued
      <4>4. \A k \in Keys : n \notin changes'[k]
        BY <3>1, <3>8, <4>1, Zenon DEF VersionsOK
      <4>5. (Issued(at[s].version) /\ Heard(s, at[s].version))'
        <5>1. Heard(s, at[s].version)'
          BY <3>10, <4>4, Zenon DEF Heard
        <5>2. Issued(at[s].version)'
          BY <3>10, <4>3, Zenon DEF Issued
        <5> QED  BY <5>1, <5>2, Zenon
      <4>6. \A u \in Sessions : at[u].pc \in Waiting =>
               at'[u].pc \in Waiting /\ at'[u].stream = at[u].stream
        BY <3>2, <3>10, Zenon
      <4>7. \A u \in Sessions : watches'[u] \subseteq watches[u]
        BY <3>6, Zenon
      <4>8. \A u \in Sessions : at'[u].pc \in Fanning =>
               at[u].pc \in Fanning /\ at'[u].version = at[u].version /\ Key(u)' = Key(u)
        BY <3>10, <4>1, ZenonT(30) DEF Fanning, Key
      <4>9. \A u \in Sessions : at'[u].pc = "result" =>
               \/ at[u].pc = "result" /\ at'[u].version = at[u].version
               \/ (Issued(at[u].version) /\ Heard(u, at[u].version))'
        BY <3>10, <4>5, Zenon
      <4> QED  BY <3>6, <4>1, <4>2, <4>6, <4>7, <4>8, <4>9, GrowsSame, AnswersStep, ZenonT(30) DEF StaysWaiting, StaysHeld, StaysFanning, ResultsHeard, OwnResults
    <3> QED  BY <3>11, <3>12, Zenon
  <2> QED  BY <2>Inv0, <2>Told, <2>Answers, Zenon DEF Kept
<1>RemoveEntry. ASSUME RemoveEntry(s)
                PROVE  Inv0' /\ Kept
  <2> USE <1>RemoveEntry
  <2>At. ASSUME AtType
         PROVE  Becomes(s, (IF entries[Key(s)] = Absent THEN "result" ELSE "bump"), Key(s), at[s].stream, at[s].version, at[s].todo, at[s].targets, at[s].slow)
    <3> USE <2>At
    <3> DEFINE h == [at[s] EXCEPT !.pc = (IF entries[Key(s)] = Absent THEN "result" ELSE "bump")]
    <3>1. at[s] \in HandlerState
      BY ZenonT(30) DEF AtType
    <3>t. (IF entries[Key(s)] = Absent THEN "result" ELSE "bump") \in PCs
      BY ZenonT(30) DEF PCs, HandlerPCs, WritePCs, Todo
    <3>2. h \in HandlerState
      BY <3>t, <3>1, ZenonT(30) DEF HandlerState
    <3>3. at' = [at EXCEPT ![s] = h]
      BY ZenonT(30) DEF RemoveEntry, AtType, Goto
    <3>4. /\ h.pc = (IF entries[Key(s)] = Absent THEN "result" ELSE "bump") /\ h.req = at[s].req /\ h.stream = at[s].stream /\ h.version = at[s].version
          /\ h.todo = at[s].todo /\ h.targets = at[s].targets /\ h.slow = at[s].slow
      BY <3>1, ZenonT(30) DEF HandlerState
    <3> HIDE DEF h
    <3> QED  BY <3>2, <3>3, <3>4, BecomesRule, Zenon DEF Key
  <2>Inv0. Inv0'
    <3>2. at[s].pc = "remove" /\ at[s].pc \in HandlerPCs
      BY ZenonT(30) DEF RemoveEntry, At, HandlerPCs, WritePCs
    <3>3. Key(s) \in Keys
      BY <3>2, Zenon DEF HandlerOK
    <3>5. Becomes(s, (IF entries[Key(s)] = Absent THEN "result" ELSE "bump"), Key(s), at[s].stream, at[s].version, at[s].todo, at[s].targets, at[s].slow)
      BY <3>3, <2>At, Zenon DEF TypeOK
    <3>6. /\ UNCHANGED <<subscriptions, watches, presence, next_stream, phase>>
          /\ UNCHANGED <<inbox, out, cancelled, peer_gone, writer, known, raced>>
      BY ZenonT(30) DEF RemoveEntry, storeVars, channelVars, history
    <3>7. StoreType'
      <4>1. Absent \in Entry
        BY ZenonT(30) DEF Absent, Entry, Value
      <4>2. entries \in [Keys -> Entry]
        BY Zenon DEF TypeOK, StoreType
      <4>3. entries' \in [Keys -> Entry]
        BY <4>1, <4>2, Zenon DEF RemoveEntry
      <4>4. UNCHANGED <<global_version, log, changes>>
        BY ZenonT(30) DEF RemoveEntry
      <4>5. loose' \in [Keys -> SUBSET Fields]
        BY Update, Zenon DEF RemoveEntry, TypeOK, StoreType
      <4> QED  BY <4>3, <4>4, <4>5, ZenonT(30) DEF TypeOK, StoreType
    <3>8. TableType'
      BY <3>6, TableFrame, Zenon DEF TypeOK
    <3>9. ChannelType'
      BY <3>6, ChannelFrame, Zenon DEF TypeOK
    <3>10. TypeOK'
      BY <3>5, <3>7, <3>8, <3>9, ClientFrame, Zenon DEF TypeOK, Becomes
    <3> DEFINE p == (IF entries[Key(s)] = Absent THEN "result" ELSE "bump")
    <3>11. /\ p \in HandlerPCs \cup {"next"} /\ p \notin {"read", "replay", "remove"}
           /\ p = "next" => Cleaning(s)
      BY ZenonT(30) DEF HandlerPCs, WritePCs
    <3>12. Cleaning(s) => p \in WritePCs \cup {"next"} /\ at[s].todo \in Seq(Path)
      BY <3>2, ZenonT(30) DEF HandlerOK, Cleaning, WritePCs
    <3>13. Becomes(s, p, Key(s), at[s].stream, at[s].version, at[s].todo, at[s].targets, at[s].slow)
      BY <3>5, Zenon
    <3> HIDE DEF p
    <3>14. \A u \in Sessions : HandlerOK(u)'
      BY <3>2, <3>6, <3>11, <3>12, <3>13, HandlerKeeps, ZenonT(30)
    <3> QED  BY <3>10, <3>14, Zenon DEF Inv0
  <2>Told. Registered' /\ AllTold'
    <3> DEFINE p == IF entries[Key(s)] = Absent THEN "result" ELSE "bump"
    <3>2. at[s].pc = "remove" /\ at[s].pc \notin Fanning
      BY ZenonT(30) DEF RemoveEntry, At, Fanning
    <3>3. Becomes(s, p, Key(s), at[s].stream, at[s].version, at[s].todo, at[s].targets, at[s].slow)
      BY <2>At, Zenon DEF TypeOK
    <3>4. UNCHANGED <<subscriptions, watches, next_stream, changes, phase, known, cancelled>>
      BY ZenonT(30) DEF RemoveEntry, channelVars, history
    <3>5. at[s].pc \notin Waiting /\ p \notin Waiting \cup {"init"}
      BY <3>2, ZenonT(30) DEF Waiting
    <3> HIDE DEF p
    <3> QED  BY <3>2, <3>3, <3>4, <3>5, GrowsSame, TaskStep, ZenonT(30)
  \* The delete of an absent key is answered with version 0, which changed nothing.
  <2>Answers. ASSUME Answers
              PROVE  Answers'
    <3> USE <2>Answers
    <3> DEFINE p == IF entries[Key(s)] = Absent THEN "result" ELSE "bump"
    <3>1. TypeOK /\ VersionsOK /\ HandlerOK(s)
      BY Zenon DEF Inv, Answers
    <3>2. global_version \in Nat /\ at[s].pc = "remove"
      BY <3>1, Zenon DEF TypeOK, StoreType, RemoveEntry, At
    <3>3. at[s].version = 0
      BY <3>1, <3>2, Zenon DEF HandlerOK
    <3>4. Becomes(s, p, Key(s), at[s].stream, at[s].version, at[s].todo, at[s].targets, at[s].slow)
      BY <3>1, <2>At, Zenon DEF TypeOK
    <3>5. /\ \A u \in Sessions : u # s => at'[u] = at[u]
          /\ at'[s].pc \in {"result", "bump"} /\ at'[s].version = 0
      BY <3>3, <3>4, Zenon DEF Becomes
    <3>6. UNCHANGED <<global_version, watches, changes, known, cancelled, out>>
      BY ZenonT(30) DEF RemoveEntry, channelVars, history
    <3>7. \A u \in Sessions : at[u].pc \in Waiting =>
             at'[u].pc \in Waiting /\ at'[u].stream = at[u].stream
      BY <3>2, <3>5, ZenonT(30) DEF Waiting
    <3>8. \A u \in Sessions : watches'[u] \subseteq watches[u]
      BY <3>6, Zenon
    <3>9. \A u \in Sessions : Holds(u)' => Holds(u) /\ at'[u].version = at[u].version
      BY <3>5, ZenonT(30) DEF Holds
    <3>10. \A u \in Sessions : at'[u].pc \in Fanning =>
              at[u].pc \in Fanning /\ at'[u].version = at[u].version /\ Key(u)' = Key(u)
      BY <3>5, Zenon DEF Fanning, Key
    <3>11. \A k \in Keys : 0 \notin changes'[k]
      BY <3>1, <3>6, SMT, Z3 DEF VersionsOK
    <3>12. Heard(s, at[s].version)'
      BY <3>5, <3>11, ZenonT(30) DEF Heard
    <3>13. Issued(at[s].version)'
      BY <3>1, <3>2, <3>5, <3>6, <3>9, SMTT(30), Z3T(30) DEF Issued, VersionsOK
    <3>14. \A u \in Sessions : at'[u].pc = "result" =>
              \/ at[u].pc = "result" /\ at'[u].version = at[u].version
              \/ (Issued(at[u].version) /\ Heard(u, at[u].version))'
      BY <3>5, <3>12, <3>13, Zenon
    <3> QED  BY <3>6, <3>7, <3>8, <3>9, <3>10, <3>14, GrowsSame, AnswersStep, ZenonT(30) DEF StaysWaiting, StaysHeld, StaysFanning, ResultsHeard, OwnResults
  <2> QED  BY <2>Inv0, <2>Told, <2>Answers, Zenon DEF Kept
<1>Bump. ASSUME Bump(s)
         PROVE  Inv0' /\ Kept
  <2> USE <1>Bump
  <2>At. ASSUME AtType, Bump(s),
                global_version \in Nat
         PROVE  Becomes(s, "log", Key(s), at[s].stream, global_version + 1, at[s].todo, at[s].targets, at[s].slow)
    <3> USE <2>At
    <3> DEFINE h == [at[s] EXCEPT !.version = global_version + 1, !.ops = RemoveOps, !.pc = "log"]
    <3>1. at[s] \in HandlerState
      BY ZenonT(30) DEF AtType
    <3>0. RemoveOps \in Ops
      BY OpsTypes, Zenon
    <3>t. "log" \in PCs /\ global_version + 1 \in Nat
      BY SMT, Z3 DEF PCs, HandlerPCs, WritePCs, Todo
    <3>2. h \in HandlerState
      BY <3>t, <3>0, <3>1, Zenon DEF HandlerState
    <3>3. at' = [at EXCEPT ![s] = h]
      BY Zenon DEF Bump, AtType, Goto
    <3>4. /\ h.pc = "log" /\ h.req = at[s].req /\ h.stream = at[s].stream /\ h.version = global_version + 1
          /\ h.todo = at[s].todo /\ h.targets = at[s].targets /\ h.slow = at[s].slow
      BY <3>1, ZenonT(30) DEF HandlerState
    <3> HIDE DEF h
    <3> QED  BY <3>2, <3>3, <3>4, BecomesRule, ZenonT(30) DEF Key
  <2>Inv0. Inv0'
    <3>2. at[s].pc = "bump" /\ at[s].pc \in HandlerPCs
      BY ZenonT(30) DEF Bump, At, HandlerPCs, WritePCs
    <3>3. Key(s) \in Keys
      BY <3>2, Zenon DEF HandlerOK
    <3>4. global_version \in Nat
      BY Zenon DEF TypeOK, StoreType
    <3>5. Becomes(s, "log", Key(s), at[s].stream, global_version + 1, at[s].todo, at[s].targets, at[s].slow)
      BY <3>3, <3>4, <2>At, Zenon DEF TypeOK
    <3>6. /\ UNCHANGED <<subscriptions, watches, presence, next_stream, phase>>
          /\ UNCHANGED <<inbox, out, cancelled, peer_gone, writer, known, raced>>
      BY ZenonT(30) DEF Bump, storeVars, channelVars, history
    <3>7. StoreType'
      <4>1. changes \in [Keys -> SUBSET Nat]
        BY Zenon DEF TypeOK, StoreType
      <4>4. changes' = [changes EXCEPT ![Key(s)] = changes[Key(s)] \cup {global_version + 1}]
        BY ZenonT(30) DEF Bump
      <4>5. changes[Key(s)] \cup {global_version + 1} \in SUBSET Nat
        BY <3>3, <3>4, <4>1, SMTT(30), Z3T(30)
      <4>2. changes' \in [Keys -> SUBSET Nat]
        BY <3>3, <4>1, <4>4, <4>5, Update, ZenonT(30)
      <4>3. global_version' \in Nat /\ UNCHANGED <<entries, log, loose>>
        BY <3>4, SMT, Z3 DEF Bump
      <4> QED  BY <4>2, <4>3, ZenonT(30) DEF TypeOK, StoreType
    <3>8. TableType'
      BY <3>6, TableFrame, Zenon DEF TypeOK
    <3>9. ChannelType'
      BY <3>6, ChannelFrame, Zenon DEF TypeOK
    <3>10. TypeOK'
      BY <3>5, <3>7, <3>8, <3>9, ClientFrame, ZenonT(30) DEF TypeOK, Becomes
    <3> DEFINE p == "log"
    <3>11. /\ p \in HandlerPCs \cup {"next"} /\ p \notin {"read", "replay", "remove"}
           /\ p = "next" => Cleaning(s)
      BY ZenonT(30) DEF HandlerPCs, WritePCs
    <3>12. Cleaning(s) => p \in WritePCs \cup {"next"} /\ at[s].todo \in Seq(Path)
      BY <3>2, ZenonT(30) DEF HandlerOK, Cleaning, WritePCs
    <3>13. Becomes(s, p, Key(s), at[s].stream, global_version + 1, at[s].todo, at[s].targets, at[s].slow)
      BY <3>5, Zenon
    <3> HIDE DEF p
    <3>14. \A u \in Sessions : HandlerOK(u)'
      BY <3>2, <3>6, <3>11, <3>12, <3>13, HandlerKeeps, ZenonT(30)
    <3> QED  BY <3>10, <3>14, Zenon DEF Inv0
  <2>Told. Registered' /\ AllTold'
    <3>2. at[s].pc = "bump" /\ at[s].pc \notin Fanning /\ at[s].pc \notin Waiting
      BY ZenonT(30) DEF Bump, At, Fanning, Waiting
    <3>3. Key(s) \in Keys
      BY <3>2, Zenon DEF HandlerOK, HandlerPCs
    <3>4. global_version \in Nat
      BY Zenon DEF TypeOK, StoreType
    <3>5. Becomes(s, "log", Key(s), at[s].stream, global_version + 1, at[s].todo, at[s].targets,
                  at[s].slow)
      BY <3>4, <2>At, Zenon DEF TypeOK
    <3>6. /\ UNCHANGED <<subscriptions, watches, next_stream, phase, known, cancelled>>
          /\ changes' = [changes EXCEPT ![Key(s)] = @ \cup {global_version + 1}]
      BY ZenonT(30) DEF Bump, channelVars
    <3> QED  BY <3>2, <3>3, <3>5, <3>6, ChangeStep, ZenonT(30)
  <2>Answers. ASSUME Answers
              PROVE  Answers'
    <3> USE <2>Answers
    <3> DEFINE n == global_version + 1
    <3>1. TypeOK /\ HandlerOK(s) /\ VersionsOK
      BY Zenon DEF Inv, Answers
    <3>2. at[s].pc = "bump" /\ at[s].pc \notin Waiting
      BY ZenonT(30) DEF Bump, At, Waiting
    <3>3. Key(s) \in Keys
      BY <3>1, <3>2, Zenon DEF HandlerOK, HandlerPCs
    <3>4. global_version \in Nat
      BY <3>1, Zenon DEF TypeOK, StoreType
    <3>5. Becomes(s, "log", Key(s), at[s].stream, n, at[s].todo, at[s].targets, at[s].slow)
      BY <3>1, <3>4, <2>At, Zenon DEF TypeOK
    <3>6. /\ UNCHANGED <<watches, known, cancelled, out>> /\ global_version' = n
          /\ changes' = [changes EXCEPT ![Key(s)] = @ \cup {n}]
      BY Zenon DEF Bump, channelVars
    <3>7. \A u \in Sessions : Holds(u) => at[u].version # n
      BY <3>1, <3>4, SMTT(30), Z3T(30) DEF VersionsOK
    <3>8. ~Issued(n) /\ n \in Nat /\ global_version <= n /\ n \in 1..n
      BY <3>4, SMT, Z3 DEF Issued
    <3> HIDE DEF n
    <3>9. /\ at'[s].pc = "log" /\ at'[s].version = n /\ Key(s)' = Key(s)
          /\ \A u \in Sessions : u # s => at'[u] = at[u]
      BY <3>5, Zenon DEF Becomes
    <3>10. global_version' \in Nat /\ global_version <= global_version' /\ n \in 1..global_version'
      BY <3>6, <3>8, Zenon
    <3> QED  BY <3>2, <3>3, <3>6, <3>7, <3>8, <3>9, <3>10, ChangeAnswers, ZenonT(30)
  <2> QED  BY <2>Inv0, <2>Told, <2>Answers, Zenon DEF Kept
<1>LogDelta. ASSUME LogDelta(s)
             PROVE  Inv0' /\ Kept
  <2> USE <1>LogDelta
  <2>At. ASSUME AtType
         PROVE  Becomes(s, "snapshot", Key(s), at[s].stream, at[s].version, at[s].todo, at[s].targets, at[s].slow)
    <3> USE <2>At
    <3> DEFINE h == [at[s] EXCEPT !.pc = "snapshot"]
    <3>1. at[s] \in HandlerState
      BY ZenonT(30) DEF AtType
    <3>t. "snapshot" \in PCs
      BY ZenonT(30) DEF PCs, HandlerPCs, WritePCs, Todo
    <3>2. h \in HandlerState
      BY <3>t, <3>1, Zenon DEF HandlerState
    <3>3. at' = [at EXCEPT ![s] = h]
      BY ZenonT(30) DEF LogDelta, AtType, Goto
    <3>4. /\ h.pc = "snapshot" /\ h.req = at[s].req /\ h.stream = at[s].stream /\ h.version = at[s].version
          /\ h.todo = at[s].todo /\ h.targets = at[s].targets /\ h.slow = at[s].slow
      BY <3>1, ZenonT(30) DEF HandlerState
    <3> HIDE DEF h
    <3> QED  BY <3>2, <3>3, <3>4, BecomesRule, ZenonT(30) DEF Key
  <2>Inv0. Inv0'
    <3>2. at[s].pc = "log" /\ at[s].pc \in HandlerPCs
      BY ZenonT(30) DEF LogDelta, At, HandlerPCs, WritePCs
    <3>3. Key(s) \in Keys
      BY <3>2, Zenon DEF HandlerOK
    <3>5. Becomes(s, "snapshot", Key(s), at[s].stream, at[s].version, at[s].todo, at[s].targets, at[s].slow)
      BY <3>3, <2>At, ZenonT(30) DEF TypeOK
    <3>6. /\ UNCHANGED <<subscriptions, watches, presence, next_stream, phase>>
          /\ UNCHANGED <<inbox, out, cancelled, peer_gone, writer, known, raced>>
      BY ZenonT(30) DEF LogDelta, storeVars, channelVars, history
    <3>7. StoreType'
      <4>1. TheDelta(s) \in Delta
        BY ZenonT(30) DEF TypeOK, AtType, HandlerState, TheDelta, Delta
      <4>2. log \in [Keys -> Seq(Delta)]
        BY Zenon DEF TypeOK, StoreType
      <4>3. log[Key(s)] \in Seq(Delta)
        BY <3>3, <4>2, Zenon
      <4>4. Append(log[Key(s)], TheDelta(s)) \in Seq(Delta)
            /\ Append(log[Key(s)], TheDelta(s)) # <<>>
        BY <4>1, <4>3, SMTT(30), Z3T(30)
      <4>5. Logged(log[Key(s)], TheDelta(s)) \in Seq(Delta)
        BY <4>4, HeadTail, Zenon DEF Logged
      <4>6. log' = [log EXCEPT ![Key(s)] = Logged(log[Key(s)], TheDelta(s))]
        BY ZenonT(30) DEF LogDelta
      <4>7. log' \in [Keys -> Seq(Delta)]
        BY <4>2, <4>5, <4>6, ZenonT(30)
      <4>8. UNCHANGED <<global_version, entries, changes, loose>>
        BY ZenonT(30) DEF LogDelta, history
      <4> QED  BY <4>7, <4>8, Zenon DEF TypeOK, StoreType
    <3>8. TableType'
      BY <3>6, TableFrame, Zenon DEF TypeOK
    <3>9. ChannelType'
      BY <3>6, ChannelFrame, Zenon DEF TypeOK
    <3>10. TypeOK'
      BY <3>5, <3>7, <3>8, <3>9, ClientFrame, ZenonT(30) DEF TypeOK, Becomes
    <3> DEFINE p == "snapshot"
    <3>11. /\ p \in HandlerPCs \cup {"next"} /\ p \notin {"read", "replay", "remove"}
           /\ p = "next" => Cleaning(s)
      BY Zenon DEF HandlerPCs, WritePCs
    <3>12. Cleaning(s) => p \in WritePCs \cup {"next"} /\ at[s].todo \in Seq(Path)
      BY <3>2, ZenonT(30) DEF HandlerOK, Cleaning, WritePCs
    <3>13. Becomes(s, p, Key(s), at[s].stream, at[s].version, at[s].todo, at[s].targets, at[s].slow)
      BY <3>5, Zenon
    <3> HIDE DEF p
    <3>14. \A u \in Sessions : HandlerOK(u)'
      BY <3>2, <3>6, <3>11, <3>12, <3>13, HandlerKeeps, ZenonT(30)
    <3> QED  BY <3>10, <3>14, ZenonT(30) DEF Inv0
  <2>Told. Kept
    <3>2. /\ at[s].pc = "log" /\ at[s].pc \in Fanning /\ "snapshot" \notin Waiting \cup {"init"}
          /\ "snapshot" \in Fanning \cup {"next"}
      BY ZenonT(30) DEF LogDelta, At, Fanning, Waiting
    <3>3. Becomes(s, "snapshot", Key(s), at[s].stream, at[s].version, at[s].todo, at[s].targets,
                  at[s].slow)
      BY <2>At, Zenon DEF TypeOK
    <3>4. UNCHANGED <<subscriptions, watches, next_stream, changes, phase, known, cancelled,
                    global_version, out>>
      BY Zenon DEF LogDelta, channelVars, history
    <3>5. ASSUME NEW x, NEW v, OnItsWay(s, Key(s), v, x)
          PROVE  OnItsWay(s, Key(s), v, x)'
      BY <3>3, <3>5, ZenonT(30) DEF OnItsWay, Becomes
    <3>6. Shrinks
      BY <3>4, SameTables, Zenon
    <3>7. Registered' /\ AllTold'
      BY <3>2, <3>3, <3>4, <3>5, <3>6, GrowsSame, FanStep, ZenonT(30)
    <3>8. Answers => Answers'
      BY <3>2, <3>3, <3>4, GrowsSame, OutSame, FanAnswers, ZenonT(30)
    <3> QED  BY <3>7, <3>8, ZenonT(30) DEF Kept
  <2> QED  BY <2>Inv0, <2>Told, ZenonT(30)
<1> QED  BY <1>Insert, <1>RemoveEntry, <1>Bump, <1>LogDelta, Zenon

-----------------------------------------------------------------------------
(* The fan-out of a write, and the end of a handler *)

LEMMA FanOut ==
    ASSUME Inv, NEW s \in Sessions, ServerStep,
           Snapshot(s) \/ SendDelta(s) \/ Evict(s) \/ Direct(s) \/ Result(s)
           \/ CleanupNext(s) \/ RemoveSession(s)
    PROVE  Inv0' /\ Kept
<1> /\ Inv0 /\ TypeOK /\ HandlerOK(s) /\ Registered /\ AllTold
    /\ \A u \in Sessions : HandlerOK(u)
  BY Zenon DEF Inv, Inv0
<1>Snapshot. ASSUME Snapshot(s)
             PROVE  Inv0' /\ Kept
  <2> USE <1>Snapshot
  <2>At. ASSUME AtType, Snapshot(s), subscriptions[Key(s)] \in Seq(Subscriber)
         PROVE  Becomes(s, "send", Key(s), at[s].stream, at[s].version, at[s].todo,
                        IF Cleaning(s) THEN subscriptions[Key(s)]
                        ELSE OfOthers(subscriptions[Key(s)], s), {})
    <3> USE <2>At
    <3> DEFINE tg == IF Cleaning(s) THEN subscriptions[Key(s)]
                     ELSE OfOthers(subscriptions[Key(s)], s)
               h == [at[s] EXCEPT !.targets = tg, !.slow = {}, !.pc = "send"]
    <3>1. at[s] \in HandlerState
      BY ZenonT(30) DEF AtType
    <3>2. tg \in Seq(Subscriber)
      BY OfOthersType, Zenon
    <3>3. at' = [at EXCEPT ![s] = h]
      BY Zenon DEF Snapshot, AtType
    <3> HIDE DEF tg
    <3>t. "send" \in PCs
      BY ZenonT(30) DEF PCs, HandlerPCs, WritePCs, Todo
    <3>4. h \in HandlerState
      BY <3>t, <3>1, <3>2, Zenon DEF HandlerState
    <3>5. /\ h.pc = "send" /\ h.req = at[s].req /\ h.stream = at[s].stream /\ h.version = at[s].version
          /\ h.todo = at[s].todo /\ h.targets = tg /\ h.slow = {}
      BY <3>1, ZenonT(30) DEF HandlerState
    <3> HIDE DEF h
    <3>6. Becomes(s, "send", Key(s), at[s].stream, at[s].version, at[s].todo, tg, {})
      BY <3>3, <3>4, <3>5, BecomesRule, ZenonT(30) DEF Key
    <3> QED  BY <3>6, Zenon DEF tg
  <2>Inv0. Inv0'
    <3>2. at[s].pc = "snapshot" /\ at[s].pc \in HandlerPCs
      BY ZenonT(30) DEF Snapshot, At, HandlerPCs, WritePCs
    <3>3. Key(s) \in Keys
      BY <3>2, Zenon DEF HandlerOK
    <3>4. subscriptions[Key(s)] \in Seq(Subscriber)
      BY <3>3, Zenon DEF TypeOK, TableType
    <3>5. Becomes(s, "send", Key(s), at[s].stream, at[s].version, at[s].todo, IF Cleaning(s) THEN subscriptions[Key(s)] ELSE OfOthers(subscriptions[Key(s)], s), {})
      BY <3>3, <3>4, <2>At, ZenonT(30) DEF TypeOK
    <3>6. /\ UNCHANGED <<global_version, entries, log, changes, loose>>
          /\ UNCHANGED <<subscriptions, watches, presence, next_stream, phase>>
          /\ UNCHANGED <<inbox, out, cancelled, peer_gone, writer, known, raced>>
      BY ZenonT(30) DEF Snapshot, storeVars, channelVars, history
    <3>7. StoreType'
      BY <3>6, StoreFrame, Zenon DEF TypeOK
    <3>8. TableType'
      BY <3>6, TableFrame, Zenon DEF TypeOK
    <3>9. ChannelType'
      BY <3>6, ChannelFrame, Zenon DEF TypeOK
    <3>10. TypeOK'
      BY <3>5, <3>7, <3>8, <3>9, ClientFrame, ZenonT(30) DEF TypeOK, Becomes
    <3> DEFINE p == "send"
    <3>11. /\ p \in HandlerPCs \cup {"next"} /\ p \notin {"read", "replay", "remove"}
           /\ p = "next" => Cleaning(s)
      BY ZenonT(30) DEF HandlerPCs, WritePCs
    <3>12. Cleaning(s) => p \in WritePCs \cup {"next"} /\ at[s].todo \in Seq(Path)
      BY <3>2, ZenonT(30) DEF HandlerOK, Cleaning, WritePCs
    <3>13. Becomes(s, p, Key(s), at[s].stream, at[s].version, at[s].todo, IF Cleaning(s) THEN subscriptions[Key(s)] ELSE OfOthers(subscriptions[Key(s)], s), {})
      BY <3>5, Zenon
    <3> HIDE DEF p
    <3>14. \A u \in Sessions : HandlerOK(u)'
      BY <3>2, <3>6, <3>11, <3>12, <3>13, HandlerKeeps, ZenonT(30)
    <3> QED  BY <3>10, <3>14, Zenon DEF Inv0
  <2>Told. Kept
    <3> DEFINE subs == subscriptions[Key(s)]
               tg == IF Cleaning(s) THEN subs ELSE OfOthers(subs, s)
               none == {}
    <3>2. /\ at[s].pc = "snapshot" /\ at[s].pc \in Fanning /\ "send" \notin Waiting \cup {"init"}
          /\ "send" \in Fanning \cup {"next"}
      BY ZenonT(30) DEF Snapshot, At, Fanning, Waiting
    <3>3. Key(s) \in Keys
      BY <3>2, Zenon DEF HandlerOK, HandlerPCs, WritePCs
    <3>4. subs \in Seq(Subscriber)
      BY <3>3, Zenon DEF TypeOK, TableType
    <3>5. Becomes(s, "send", Key(s), at[s].stream, at[s].version, at[s].todo, tg, none)
      BY <3>4, <2>At, Zenon DEF TypeOK
    <3>6. UNCHANGED <<subscriptions, watches, next_stream, changes, phase, known, cancelled,
                    global_version, out>>
      BY ZenonT(30) DEF Snapshot, storeVars, channelVars, history
    <3>7. \A x \in Range(subs) : x \in Range(tg) \/ (x.session = s /\ ~Cleaning(s))
      <4>1. Range(OfOthers(subs, s)) = {x \in Range(subs) : x.session # s}
        BY <3>4, OfOthersType, Zenon
      <4> QED  BY <4>1, Zenon
    <3>t. \A z \in none : z \in at[s].slow
      BY Zenon
    <3> HIDE DEF tg, none
    <3>8. ASSUME NEW x \in Range(subscriptions'[Key(s)]), NEW v, OnItsWay(s, Key(s), v, x)
          PROVE  OnItsWay(s, Key(s), v, x)'
      <4>1. x \in Range(tg) \/ (x.session = s /\ ~Cleaning(s)')
        BY <3>6, <3>7, Zenon DEF Cleaning
      <4>2. at'[s].pc = "send" /\ Key(s)' = Key(s) /\ at'[s].version = v /\ at'[s].targets = tg
        BY <3>5, <3>8, Zenon DEF OnItsWay, Becomes
      <4> QED  BY <4>1, <4>2, Zenon DEF OnItsWay
    <3>9. Shrinks
      BY <3>6, SameTables, Zenon
    <3>10. Registered' /\ AllTold'
      BY <3>2, <3>5, <3>6, <3>8, <3>9, <3>t, GrowsSame, FanStep, ZenonT(30)
    <3>11. Answers => Answers'
      BY <3>2, <3>5, <3>6, GrowsSame, OutSame, FanAnswers, ZenonT(30)
    <3> QED  BY <3>10, <3>11, Zenon DEF Kept
  <2> QED  BY <2>Inv0, <2>Told, Zenon
<1>SendDelta. ASSUME SendDelta(s)
              PROVE  Inv0' /\ Kept
  <2> USE <1>SendDelta
  <2>At. ASSUME AtType
         PROVE  LET x == Head(at[s].targets)
                IN /\ x \in Subscriber
                   /\ Becomes(s, "send", Key(s), at[s].stream, at[s].version, at[s].todo,
                              Tail(at[s].targets),
                              IF Room(x.session) THEN at[s].slow ELSE at[s].slow \cup {x.session})
    <3> USE <2>At
    <3> DEFINE x == Head(at[s].targets)
               slow == IF Room(x.session) THEN at[s].slow ELSE at[s].slow \cup {x.session}
               h == [at[s] EXCEPT !.targets = Tail(at[s].targets), !.slow = slow]
    <3>1. at[s] \in HandlerState
      BY ZenonT(30) DEF AtType
    <3>2. /\ at[s].targets \in Seq(Subscriber) /\ at[s].slow \in SUBSET Sessions
      BY <3>1, ZenonT(30) DEF HandlerState
    <3>3. at[s].targets # <<>> /\ at[s].pc = "send"
      BY Zenon DEF SendDelta, At
    <3>4. x \in Subscriber /\ Tail(at[s].targets) \in Seq(Subscriber)
      BY <3>2, <3>3, HeadTail, ZenonT(30)
    <3>5. x.session \in Sessions
      BY <3>4, ZenonT(30) DEF Subscriber
    <3>6. slow \in SUBSET Sessions
      BY <3>2, <3>5, Zenon
    <3>7. at' = [at EXCEPT ![s] = h]
      BY Zenon DEF SendDelta, AtType
    <3> HIDE DEF slow
    <3>8. h \in HandlerState
      BY <3>1, <3>4, <3>6, Zenon DEF HandlerState
    <3>9. /\ h.pc = at[s].pc /\ h.req = at[s].req /\ h.stream = at[s].stream /\ h.version = at[s].version
          /\ h.todo = at[s].todo /\ h.targets = Tail(at[s].targets) /\ h.slow = slow
      BY <3>1, ZenonT(30) DEF HandlerState
    <3> HIDE DEF h
    <3>10. Becomes(s, "send", Key(s), at[s].stream, at[s].version, at[s].todo,
                   Tail(at[s].targets), slow)
      BY <3>3, <3>7, <3>8, <3>9, BecomesRule, ZenonT(30) DEF Key
    <3> QED  BY <3>4, <3>10, Zenon DEF slow
  <2>Inv0. Inv0'
    <3> DEFINE x == Head(at[s].targets)
               sl == IF Room(x.session) THEN at[s].slow ELSE at[s].slow \cup {x.session}
    <3>2. at[s].pc = "send" /\ Key(s) \in Keys /\ at[s].pc \in HandlerPCs
      BY Zenon DEF SendDelta, At, HandlerOK, HandlerPCs, WritePCs
    <3>3. /\ UNCHANGED <<global_version, entries, log, changes, loose>>
          /\ UNCHANGED <<subscriptions, watches, presence, next_stream, phase>>
          /\ UNCHANGED <<inbox, peer_gone, writer>>
      BY Zenon DEF SendDelta, storeVars
    <3>4. /\ x \in Subscriber
          /\ Becomes(s, "send", Key(s), at[s].stream, at[s].version, at[s].todo,
                     Tail(at[s].targets), sl)
      BY <2>At, Zenon DEF TypeOK
    <3> HIDE DEF sl
    <3>5. ChannelType'
      <4>1. /\ Send(x.session, DeltaFrame(x.stream, TheDelta(s)))
            /\ known' = Tells(x.session, {<<x.stream, at[s].version>>})
            /\ raced' = IF At(x.session, "init") /\ at[x.session].stream = x.stream
                        THEN [raced EXCEPT ![x.session] = raced[x.session] \cup {x.stream}]
                        ELSE raced
        BY Zenon DEF SendDelta
      <4>2. x.session \in Sessions /\ x.stream \in Nat
        BY <3>4, ZenonT(30) DEF Subscriber
      <4> HIDE DEF x
      <4>3. at[s] \in HandlerState
        BY Zenon DEF TypeOK, AtType
      <4>4. at[s].version \in Nat /\ at[s].ops \in Ops
        BY <4>3, Zenon DEF HandlerState
      <4>5. TheDelta(s) \in Delta
        BY <4>4, ZenonT(30) DEF TheDelta, Delta
      <4>6. {<<x.stream, at[s].version>>} \in SUBSET (Nat \X Nat)
        BY <4>2, <4>4, SMTT(30), Z3T(30)
      <4>7. Sent(x.session, DeltaFrame(x.stream, TheDelta(s)))
        BY <4>1, <4>2, <4>5, FrameTypes, SendSent, ZenonT(30) DEF TypeOK
      <4>8. known' \in [Sessions -> SUBSET (Nat \X Nat)]
        BY <4>1, <4>2, <4>6, TellsType, ZenonT(30) DEF TypeOK
      <4>9. raced \in [Sessions -> SUBSET Nat] /\ raced[x.session] \cup {x.stream} \in SUBSET Nat
        BY <4>2, ZenonT(30) DEF TypeOK, ChannelType
      <4>10. raced' \in [Sessions -> SUBSET Nat]
        BY <4>1, <4>2, <4>9, Update, ZenonT(30)
      <4> QED  BY <3>3, <4>2, <4>7, <4>8, <4>10, SentChannelType, ZenonT(30) DEF TypeOK
    <3>6. TypeOK'
      BY <3>3, <3>4, <3>5, StoreFrame, TableFrame, ClientFrame, ZenonT(30) DEF TypeOK, Becomes
    <3>7. "send" \in HandlerPCs \cup {"next"} /\ "send" \notin {"read", "replay", "remove", "next"}
      BY ZenonT(30) DEF HandlerPCs, WritePCs
    <3>8. Cleaning(s) => "send" \in WritePCs \cup {"next"} /\ at[s].todo \in Seq(Path)
      BY ZenonT(30) DEF HandlerOK, Cleaning, WritePCs
    <3>9. \A u \in Sessions : HandlerOK(u)'
      BY <3>2, <3>3, <3>4, <3>7, <3>8, HandlerKeeps, ZenonT(30)
    <3> QED  BY <3>6, <3>9, Zenon DEF Inv0
  <2>Told. Kept
    <3> DEFINE x == Head(at[s].targets)
               sl == IF Room(x.session) THEN at[s].slow ELSE at[s].slow \cup {x.session}
    <3>2. /\ at[s].pc = "send" /\ at[s].targets # <<>>
          /\ at[s].pc \in Fanning /\ "send" \notin Waiting \cup {"init"}
          /\ "send" \in Fanning \cup {"next"}
      BY Zenon DEF SendDelta, At, Fanning, Waiting
    <3>3. /\ x \in Subscriber
          /\ Becomes(s, "send", Key(s), at[s].stream, at[s].version, at[s].todo,
                     Tail(at[s].targets), sl)
      BY <2>At, Zenon DEF TypeOK
    <3>4. /\ at[s].targets \in Seq(Subscriber) /\ at[s].version \in Nat /\ at[s].ops \in Ops
          /\ at[s].slow \subseteq Sessions
      BY Zenon DEF TypeOK, AtType, HandlerState
    <3>5. Range(at[s].targets) = {x} \cup Range(Tail(at[s].targets))
      BY <3>2, <3>4, HeadTail, ZenonT(30)
    <3>6. /\ UNCHANGED <<subscriptions, watches, next_stream, changes, phase, global_version>>
          /\ Send(x.session, DeltaFrame(x.stream, TheDelta(s)))
          /\ known' = Tells(x.session, {<<x.stream, at[s].version>>})
      BY Zenon DEF SendDelta, storeVars
    <3> HIDE DEF x
    <3>7. x.session \in Sessions /\ x.stream \in Nat /\ TheDelta(s) \in Delta
      BY <3>3, <3>4, ZenonT(30) DEF Subscriber, TheDelta, Delta
    <3>8. {<<x.stream, at[s].version>>} \in SUBSET (Nat \X Nat)
      BY <3>4, <3>7, SMTT(30), Z3T(30)
    <3>9. /\ \A u \in Sessions : known[u] \subseteq known'[u]
          /\ Room(x.session) => {<<x.stream, at[s].version>>} \subseteq known'[x.session]
      BY <3>6, <3>7, <3>8, TellsType, ZenonT(30) DEF TypeOK
    <3>10. Sent(x.session, DeltaFrame(x.stream, TheDelta(s)))
      BY <3>6, <3>7, FrameTypes, SendSent, ZenonT(30) DEF TypeOK
    <3>11. Grows
      BY <3>7, <3>9, <3>10, SentGrows, ZenonT(30) DEF TypeOK
    <3>12. ~Room(x.session) => cancelled'[x.session]
      BY <3>10, Zenon DEF Sent
    <3>13. \A z \in sl : z \in at[s].slow \/ cancelled'[z]
      BY <3>12, Zenon
    <3> HIDE DEF sl
    <3>14. ASSUME NEW y \in Range(subscriptions'[Key(s)]), NEW v, OnItsWay(s, Key(s), v, y),
                  ~cancelled'[y.session]
           PROVE  OnItsWay(s, Key(s), v, y)' \/ Knows(y.session, y.stream, v)'
      <4>1. /\ at'[s].pc = "send" /\ Key(s)' = Key(s) /\ at'[s].version = v
            /\ at'[s].targets = Tail(at[s].targets) /\ at[s].version = v
            /\ Cleaning(s)' = Cleaning(s)
        BY <3>3, <3>6, <3>14, ZenonT(30) DEF OnItsWay, Becomes, Cleaning
      <4>2. y \in Range(at[s].targets) \/ (y.session = s /\ ~Cleaning(s))
        BY <3>2, <3>14, ZenonT(30) DEF OnItsWay
      <4>3. CASE y = x
        BY <3>9, <3>12, <3>14, <4>1, <4>3, ZenonT(30) DEF Knows
      <4>4. CASE y # x
        <5>1. y \in Range(Tail(at[s].targets)) \/ (y.session = s /\ ~Cleaning(s))
          BY <3>5, <4>2, <4>4, Zenon
        <5> QED  BY <4>1, <5>1, Zenon DEF OnItsWay
      <4> QED  BY <4>3, <4>4, Zenon
    <3>15. Shrinks
      BY <3>6, SameTables, Zenon
    <3>16. Registered' /\ AllTold'
      BY <3>2, <3>3, <3>6, <3>11, <3>13, <3>14, <3>15, FanStep, ZenonT(30)
    <3>t. DeltaFrame(x.stream, TheDelta(s)).type # "RESULT"
      BY FrameKinds, Zenon
    <3>17. NoResult
      BY <3>7, <3>10, <3>t, SentNoResult, Zenon
    <3>18. Answers => Answers'
      BY <3>2, <3>3, <3>6, <3>11, <3>17, FanAnswers, ZenonT(30)
    <3> QED  BY <3>16, <3>18, ZenonT(30) DEF Kept
  <2> QED  BY <2>Inv0, <2>Told, Zenon
<1>Evict. ASSUME Evict(s)
          PROVE  Inv0' /\ Kept
  <2> USE <1>Evict
  <2>At. ASSUME AtType
         PROVE  Becomes(s, (IF Cleaning(s) THEN "next" ELSE "direct"), Key(s), at[s].stream, at[s].version, at[s].todo, at[s].targets, at[s].slow)
    <3> USE <2>At
    <3> DEFINE h == [at[s] EXCEPT !.pc = (IF Cleaning(s) THEN "next" ELSE "direct")]
    <3>1. at[s] \in HandlerState
      BY ZenonT(30) DEF AtType
    <3>t. (IF Cleaning(s) THEN "next" ELSE "direct") \in PCs
      BY ZenonT(30) DEF PCs, HandlerPCs, WritePCs, Todo
    <3>2. h \in HandlerState
      BY <3>t, <3>1, Zenon DEF HandlerState
    <3>3. at' = [at EXCEPT ![s] = h]
      BY ZenonT(30) DEF Evict, AtType, Goto
    <3>4. /\ h.pc = (IF Cleaning(s) THEN "next" ELSE "direct") /\ h.req = at[s].req /\ h.stream = at[s].stream /\ h.version = at[s].version
          /\ h.todo = at[s].todo /\ h.targets = at[s].targets /\ h.slow = at[s].slow
      BY <3>1, Zenon DEF HandlerState
    <3> HIDE DEF h
    <3> QED  BY <3>2, <3>3, <3>4, BecomesRule, ZenonT(30) DEF Key
  <2>Inv0. Inv0'
    <3>2. at[s].pc = "send" /\ at[s].pc \in HandlerPCs
      BY ZenonT(30) DEF Evict, At, HandlerPCs, WritePCs
    <3>3. Key(s) \in Keys
      BY <3>2, Zenon DEF HandlerOK
    <3>5. Becomes(s, (IF Cleaning(s) THEN "next" ELSE "direct"), Key(s), at[s].stream, at[s].version, at[s].todo, at[s].targets, at[s].slow)
      BY <3>3, <2>At, ZenonT(30) DEF TypeOK
    <3>6. /\ UNCHANGED <<global_version, entries, log, changes, loose>>
          /\ phase' = phase
          /\ UNCHANGED <<inbox, out, cancelled, peer_gone, writer, known, raced>>
      BY ZenonT(30) DEF Evict, storeVars, channelVars, history
    <3>7. StoreType'
      BY <3>6, StoreFrame, Zenon DEF TypeOK
    <3>8. TableType'
      <4> DEFINE subs == subscriptions[Key(s)]
                 D == {x \in Range(subs) : x.session \in at[s].slow}
      <4>1. subscriptions \in [Keys -> Seq(Subscriber)] /\ subs \in Seq(Subscriber)
        BY <3>3, ZenonT(30) DEF TypeOK, TableType
      <4>2. subscriptions' = [subscriptions EXCEPT ![Key(s)] = Omit(subs, D)]
        BY ZenonT(30) DEF Evict
      <4> HIDE DEF subs, D
      <4>3. Omit(subs, D) \in Seq(Subscriber)
        BY <4>1, OmitRange, Zenon
      <4>4. subscriptions' \in [Keys -> Seq(Subscriber)]
        BY <4>1, <4>2, <4>3, ZenonT(30)
      <4>5. UNCHANGED <<watches, presence, next_stream, phase>>
        BY ZenonT(30) DEF Evict
      <4> QED  BY <4>4, <4>5, Zenon DEF TypeOK, TableType
    <3>9. ChannelType'
      BY <3>6, ChannelFrame, Zenon DEF TypeOK
    <3>10. TypeOK'
      BY <3>5, <3>7, <3>8, <3>9, ClientFrame, Zenon DEF TypeOK, Becomes
    <3> DEFINE p == (IF Cleaning(s) THEN "next" ELSE "direct")
    <3>11. /\ p \in HandlerPCs \cup {"next"} /\ p \notin {"read", "replay", "remove"}
           /\ p = "next" => Cleaning(s)
      BY Zenon DEF HandlerPCs, WritePCs
    <3>12. Cleaning(s) => p \in WritePCs \cup {"next"} /\ at[s].todo \in Seq(Path)
      BY <3>2, ZenonT(30) DEF HandlerOK, Cleaning, WritePCs
    <3>13. Becomes(s, p, Key(s), at[s].stream, at[s].version, at[s].todo, at[s].targets, at[s].slow)
      BY <3>5, Zenon
    <3> HIDE DEF p
    <3>14. \A u \in Sessions : HandlerOK(u)'
      BY <3>2, <3>6, <3>11, <3>12, <3>13, HandlerKeeps, ZenonT(30)
    <3> QED  BY <3>10, <3>14, ZenonT(30) DEF Inv0
  <2>Told. Kept
    <3> DEFINE subs == subscriptions[Key(s)]
               D == {x \in Range(subs) : x.session \in at[s].slow}
               p == IF Cleaning(s) THEN "next" ELSE "direct"
    <3>2. /\ at[s].pc = "send" /\ at[s].targets = <<>> /\ at[s].pc \in Fanning
          /\ p \notin Waiting \cup {"init"} /\ p \in Fanning \cup {"next"}
      BY ZenonT(30) DEF Evict, At, Fanning, Waiting
    <3>3. Key(s) \in Keys
      BY <3>2, Zenon DEF HandlerOK, HandlerPCs, WritePCs
    <3>4. subscriptions \in [Keys -> Seq(Subscriber)] /\ subs \in Seq(Subscriber)
      BY <3>3, Zenon DEF TypeOK, TableType
    <3>5. Becomes(s, p, Key(s), at[s].stream, at[s].version, at[s].todo, at[s].targets, at[s].slow)
      BY <2>At, ZenonT(30) DEF TypeOK
    <3>6. /\ UNCHANGED <<watches, next_stream, changes, phase, known, cancelled,
                    global_version, out>>
          /\ subscriptions' = [subscriptions EXCEPT ![Key(s)] = Omit(subs, D)]
      BY SMT, Z3 DEF Evict, storeVars, channelVars, history
    <3>7. (p = "direct" /\ ~Cleaning(s)) \/ Cleaning(s)
      BY Zenon
    <3> HIDE DEF D, p
    <3>t. Omit(subs, D) \in Seq(Subscriber) /\ Range(Omit(subs, D)) = Range(subs) \ D
      BY <3>4, OmitRange, Zenon
    <3>8. Omit(subs, D) \in Seq(Subscriber) /\ Range(Omit(subs, D)) \subseteq Range(subs)
      BY <3>t, Zenon
    <3>9. \A k \in Keys : Range(subscriptions'[k]) \subseteq Range(subscriptions[k])
      BY <3>3, <3>4, <3>6, <3>8, ZenonT(30)
    <3>10. Shrinks
      BY <3>6, <3>9, SubsetTables, Zenon
    <3>11. ASSUME NEW x, NEW v, OnItsWay(s, Key(s), v, x)
           PROVE  OnItsWay(s, Key(s), v, x)'
      <4>1. Range(at[s].targets) = {}
        BY <3>2, EmptyRange, Zenon
      <4>2. x.session = s /\ ~Cleaning(s) /\ at[s].version = v
        BY <3>2, <3>11, <4>1, Zenon DEF OnItsWay
      <4>3. at'[s].pc = "direct" /\ Key(s)' = Key(s) /\ at'[s].version = v
        BY <3>5, <3>7, <4>2, Zenon DEF Becomes
      <4> QED  BY <4>2, <4>3, Zenon DEF OnItsWay
    <3>12. Registered' /\ AllTold'
      BY <3>2, <3>5, <3>6, <3>10, <3>11, GrowsSame, FanStep, ZenonT(30)
    <3>13. Answers => Answers'
      BY <3>2, <3>5, <3>6, GrowsSame, OutSame, FanAnswers, ZenonT(30)
    <3> QED  BY <3>12, <3>13, ZenonT(30) DEF Kept
  <2> QED  BY <2>Inv0, <2>Told, Zenon
<1>Direct. ASSUME Direct(s)
           PROVE  Inv0' /\ Kept
  <2> USE <1>Direct
  <2>At. ASSUME AtType
         PROVE  Becomes(s, "result", Key(s), at[s].stream, at[s].version, at[s].todo, at[s].targets, at[s].slow)
    <3> USE <2>At
    <3> DEFINE h == [at[s] EXCEPT !.pc = "result"]
    <3>1. at[s] \in HandlerState
      BY SMT, Z3 DEF AtType
    <3>t. "result" \in PCs
      BY ZenonT(30) DEF PCs, HandlerPCs, WritePCs, Todo
    <3>2. h \in HandlerState
      BY <3>t, <3>1, Zenon DEF HandlerState
    <3>3. at' = [at EXCEPT ![s] = h]
      BY ZenonT(30) DEF Direct, AtType, Goto
    <3>4. /\ h.pc = "result" /\ h.req = at[s].req /\ h.stream = at[s].stream /\ h.version = at[s].version
          /\ h.todo = at[s].todo /\ h.targets = at[s].targets /\ h.slow = at[s].slow
      BY <3>1, ZenonT(30) DEF HandlerState
    <3> HIDE DEF h
    <3> QED  BY <3>2, <3>3, <3>4, BecomesRule, ZenonT(30) DEF Key
  <2>Inv0. Inv0'
    <3>2. at[s].pc = "direct" /\ Key(s) \in Keys /\ at[s].pc \in HandlerPCs
      BY Zenon DEF Direct, At, HandlerOK, HandlerPCs, WritePCs
    <3>3. /\ UNCHANGED <<global_version, entries, log, changes, loose>>
          /\ UNCHANGED <<subscriptions, watches, presence, next_stream, phase>>
          /\ UNCHANGED <<inbox, peer_gone, writer, raced>>
      BY Zenon DEF Direct, storeVars
    <3>4. Becomes(s, "result", Key(s), at[s].stream, at[s].version, at[s].todo, at[s].targets, at[s].slow)
      BY <2>At, Zenon DEF TypeOK
    <3>5. ChannelType'
      <4>1. CASE StreamsOf(s, Key(s)) = {}
        <5>1. UNCHANGED <<out, cancelled, known>>
          BY <4>1, Zenon DEF Direct, channelVars
        <5> QED  BY <3>3, <5>1, ChannelFrame, Zenon DEF TypeOK
      <4>2. CASE StreamsOf(s, Key(s)) # {}
        <5>1. PICK st \in StreamsOf(s, Key(s)) :
                 /\ Send(s, DeltaFrame(st, TheDelta(s)))
                 /\ known' = Tells(s, {<<st, at[s].version>>, <<0, at[s].version>>})
          BY <4>2, Zenon DEF Direct
        <5> DEFINE pairs == {<<st, at[s].version>>, <<0, at[s].version>>}
        <5>2. watches[s] \in SUBSET (Nat \X Keys)
          BY Zenon DEF TypeOK, TableType
        <5>3. StreamsOf(s, Key(s)) \in SUBSET Nat
          BY <5>2, SMT, Z3 DEF StreamsOf
        <5>4. at[s] \in HandlerState
          BY Zenon DEF TypeOK, AtType
        <5>5. at[s].version \in Nat /\ at[s].ops \in Ops
          BY <5>4, Zenon DEF HandlerState
        <5>6. TheDelta(s) \in Delta
          BY <5>5, Zenon DEF TheDelta, Delta
        <5>7. pairs \in SUBSET (Nat \X Nat) /\ known' = Tells(s, pairs)
          <6>1. known' = Tells(s, pairs)
            BY <5>1, Zenon
          <6>2. pairs \in SUBSET (Nat \X Nat)
            BY <5>3, <5>5, SMT, Z3
          <6> QED  BY <6>1, <6>2, Zenon
        <5> HIDE DEF pairs
        <5>8. DeltaFrame(st, TheDelta(s)) \in OutFrame
          BY <5>3, <5>6, FrameTypes, Zenon
        <5>9. Sent(s, DeltaFrame(st, TheDelta(s)))
          BY <5>1, <5>8, SendSent, Zenon DEF TypeOK
        <5>10. known' \in [Sessions -> SUBSET (Nat \X Nat)]
          BY <5>7, TellsType, Zenon DEF TypeOK
        <5> QED  BY <3>3, <5>9, <5>10, SentChannelType, ZenonT(30) DEF TypeOK, ChannelType
      <4> QED  BY <4>1, <4>2, Zenon
    <3>6. TypeOK'
      BY <3>3, <3>4, <3>5, StoreFrame, TableFrame, ClientFrame, ZenonT(30) DEF TypeOK, Becomes
    <3>7. "result" \in HandlerPCs \cup {"next"} /\ "result" \notin {"read", "replay", "remove", "next"}
      BY ZenonT(30) DEF HandlerPCs, WritePCs
    <3>8. Cleaning(s) => "result" \in WritePCs \cup {"next"} /\ at[s].todo \in Seq(Path)
      BY <3>2, ZenonT(30) DEF HandlerOK, Cleaning, WritePCs
    <3>9. \A u \in Sessions : HandlerOK(u)'
      BY <3>2, <3>3, <3>4, <3>7, <3>8, HandlerKeeps, ZenonT(30)
    <3> QED  BY <3>6, <3>9, Zenon DEF Inv0
  <2>Told. Registered' /\ AllTold'
    <3> DEFINE sts == StreamsOf(s, Key(s))
               pairs(st) == {<<st, at[s].version>>, <<0, at[s].version>>}
    <3>2. at[s].pc = "direct" /\ at[s].pc \in Fanning /\ "result" \notin Waiting \cup {"init"}
      BY Zenon DEF Direct, At, Fanning, Waiting
    <3>3. Key(s) \in Keys
      BY <3>2, Zenon DEF HandlerOK, HandlerPCs
    <3>4. Becomes(s, "result", Key(s), at[s].stream, at[s].version, at[s].todo, at[s].targets,
                  at[s].slow)
      BY <2>At, Zenon DEF TypeOK
    <3>5. UNCHANGED <<subscriptions, watches, next_stream, changes, phase>>
      BY Zenon DEF Direct
    <3>6. at[s].version \in Nat /\ at[s].ops \in Ops
      BY Zenon DEF TypeOK, AtType, HandlerState
    <3>7. TheDelta(s) \in Delta
      BY <3>6, ZenonT(30) DEF TheDelta, Delta
    <3>8. \A w \in sts : w \in Nat
      BY SMT, Z3 DEF TypeOK, TableType, StreamsOf
    <3>9. \/ sts = {} /\ UNCHANGED <<cancelled, known>>
          \/ \E st \in sts : Send(s, DeltaFrame(st, TheDelta(s))) /\ known' = Tells(s, pairs(st))
      BY Zenon DEF Direct, channelVars
    <3>10. ASSUME NEW x \in Range(subscriptions'[Key(s)]), NEW v, OnItsWay(s, Key(s), v, x)
           PROVE  x.stream \in sts /\ x.session = s /\ v = at[s].version
      <4>1. x.session = s /\ v = at[s].version
        BY <3>2, <3>10, Zenon DEF OnItsWay
      <4>2. <<x.stream, Key(s)>> \in watches[s]
        BY <3>3, <3>5, <4>1, Zenon DEF Registered
      <4>3. x.stream \in sts
        <5>1. <<x.stream, Key(s)>>[1] = x.stream /\ <<x.stream, Key(s)>>[2] = Key(s)
          BY ZenonT(30)
        <5> QED  BY <4>2, <5>1, ZenonT(30) DEF StreamsOf
      <4> QED  BY <4>1, <4>3, Zenon
    <3>11. Shrinks
      BY <3>5, SameTables, Zenon
    <3> HIDE DEF sts
    <3>12. CASE sts = {} /\ UNCHANGED <<cancelled, known>>
      BY <3>2, <3>4, <3>5, <3>10, <3>11, <3>12, GrowsSame, FanStep, ZenonT(30)
    <3>13. ASSUME NEW st \in sts, Send(s, DeltaFrame(st, TheDelta(s))), known' = Tells(s, pairs(st))
           PROVE  Registered' /\ AllTold'
      <4>1. pairs(st) \in SUBSET (Nat \X Nat)
        BY <3>6, <3>8, SMT, Z3
      <4>2. <<0, at[s].version>> \in pairs(st)
        BY Zenon
      <4> HIDE DEF pairs
      <4>3. \A u \in Sessions : known[u] \subseteq known'[u]
        BY <3>13, <4>1, TellsType, Zenon DEF TypeOK
      <4>4. Room(s) => pairs(st) \subseteq known'[s]
        BY <3>13, <4>1, TellsType, Zenon DEF TypeOK
      <4>5. Sent(s, DeltaFrame(st, TheDelta(s)))
        BY <3>7, <3>8, <3>13, FrameTypes, SendSent, ZenonT(30) DEF TypeOK
      <4>6. Grows
        BY <4>3, <4>5, SentGrows, Zenon DEF TypeOK
      <4>7. ~Room(s) => cancelled'[s]
        BY <4>5, Zenon DEF Sent
      <4>8. ASSUME NEW x \in Range(subscriptions'[Key(s)]), NEW v, OnItsWay(s, Key(s), v, x),
                   ~cancelled'[x.session]
            PROVE  Knows(x.session, x.stream, v)'
        <5>2. x.session = s
          BY <3>10, <4>8, ZenonT(30)
        <5>3. v = at[s].version
          BY <3>10, <4>8, SMTT(30), Z3T(30)
        <5>4. <<0, at[s].version>> \in known'[s]
          BY <4>2, <4>4, <4>7, <4>8, <5>2, ZenonT(30)
        <5> QED  BY <5>2, <5>3, <5>4, ZenonT(30) DEF Knows
      <4> QED  BY <3>2, <3>4, <3>5, <3>11, <4>6, <4>8, FanStep, ZenonT(30)
    <3> QED  BY <3>9, <3>12, <3>13, Zenon
  \* The caller's own copy goes to its channel before its task can answer.
  <2>Answers. ASSUME Answers
              PROVE  Answers'
    <3> USE <2>Answers
    <3> DEFINE sts == StreamsOf(s, Key(s))
               pairs(st) == {<<st, at[s].version>>, <<0, at[s].version>>}
    <3>1. TypeOK /\ HandlerOK(s) /\ VersionsOK
      BY ZenonT(30) DEF Inv, Answers
    <3>2. at[s].pc = "direct" /\ at[s].pc \in Fanning
      BY Zenon DEF Direct, At, Fanning
    <3>3. Key(s) \in Keys
      BY <3>1, <3>2, Zenon DEF HandlerOK, HandlerPCs
    <3>4. Becomes(s, "result", Key(s), at[s].stream, at[s].version, at[s].todo, at[s].targets,
                  at[s].slow)
      BY <3>1, <2>At, Zenon DEF TypeOK
    <3>5. /\ at'[s].pc = "result" /\ at'[s].version = at[s].version
          /\ \A u \in Sessions : u # s => at'[u] = at[u]
      BY <3>4, ZenonT(30) DEF Becomes
    <3>6. UNCHANGED <<watches, changes, global_version>>
      BY Zenon DEF Direct, storeVars
    <3>7. at[s].version \in Nat /\ at[s].ops \in Ops
      BY <3>1, ZenonT(30) DEF TypeOK, AtType, HandlerState
    <3>8. TheDelta(s) \in Delta /\ \A w \in sts : w \in Nat
      BY <3>1, <3>7, SMTT(30), Z3T(30) DEF TheDelta, Delta, TypeOK, TableType, StreamsOf
    <3>9. \/ sts = {} /\ UNCHANGED <<cancelled, known, out>>
          \/ \E st \in sts : Send(s, DeltaFrame(st, TheDelta(s))) /\ known' = Tells(s, pairs(st))
      BY Zenon DEF Direct, channelVars
    <3>10. at[s].version \in changes[Key(s)]
      BY <3>1, <3>2, Zenon DEF VersionsOK
    <3>11. \A k \in Keys : at[s].version \in changes[k] => k = Key(s)
      BY <3>1, <3>3, <3>10, ZenonT(30) DEF VersionsOK
    <3>12. \A u \in Sessions : Holds(u)' => Holds(u) /\ at'[u].version = at[u].version
      BY <3>5, ZenonT(30) DEF Holds
    <3>13. Issued(at[s].version)
      BY <3>1, <3>3, <3>10, ZenonT(30) DEF VersionsOK
    <3>14. Issued(at[s].version)'
      BY <3>5, <3>6, <3>12, <3>13, ZenonT(30) DEF Issued
    <3>15. StreamsOf(s, Key(s))' = sts
      BY <3>4, <3>6, Zenon DEF StreamsOf, Becomes
    <3> HIDE DEF sts
    <3>16. /\ Grows /\ NoResult
           /\ ~cancelled'[s] /\ sts # {} => <<0, at[s].version>> \in known'[s]
      <4>1. CASE sts = {} /\ UNCHANGED <<cancelled, known, out>>
        BY <4>1, GrowsSame, OutSame, ZenonT(30)
      <4>2. ASSUME NEW st \in sts, Send(s, DeltaFrame(st, TheDelta(s))), known' = Tells(s, pairs(st))
            PROVE  /\ Grows /\ NoResult
                   /\ ~cancelled'[s] => <<0, at[s].version>> \in known'[s]
        <5>1. pairs(st) \in SUBSET (Nat \X Nat)
          BY <3>7, <3>8, SMT, Z3
        <5>2. <<0, at[s].version>> \in pairs(st)
          BY Zenon
        <5> HIDE DEF pairs
        <5>3. \A u \in Sessions : known[u] \subseteq known'[u]
          BY <3>1, <4>2, <5>1, TellsType, ZenonT(30) DEF TypeOK
        <5>4. Room(s) => pairs(st) \subseteq known'[s]
          BY <3>1, <4>2, <5>1, TellsType, ZenonT(30) DEF TypeOK
        <5>5. Sent(s, DeltaFrame(st, TheDelta(s)))
          BY <3>1, <3>8, <4>2, FrameTypes, SendSent, ZenonT(30) DEF TypeOK
        <5>6. Grows
          BY <3>1, <5>3, <5>5, SentGrows, ZenonT(30) DEF TypeOK
        <5>7. DeltaFrame(st, TheDelta(s)).type # "RESULT"
          BY FrameKinds, Zenon
        <5>8. NoResult
          BY <5>5, <5>7, SentNoResult, ZenonT(30)
        <5>9. ~cancelled'[s] => Room(s)
          BY <5>5, Zenon DEF Sent
        <5> QED  BY <5>2, <5>4, <5>6, <5>8, <5>9, ZenonT(30)
      <4> QED  BY <3>9, <4>1, <4>2, ZenonT(30)
    <3>17. Heard(s, at[s].version)'
      <4>1. ASSUME NEW k \in Keys, at[s].version \in changes'[k], ~cancelled'[s],
                   NEW st \in StreamsOf(s, k)'
            PROVE  <<0, at[s].version>> \in known'[s]
        <5>1. k = Key(s)
          BY <3>6, <3>11, <4>1, ZenonT(30)
        <5>2. Key(s)' = Key(s)
          BY <3>4, Zenon DEF Becomes
        <5>3. st \in sts
          BY <3>15, <4>1, <5>1, <5>2, ZenonT(30)
        <5> QED  BY <3>16, <4>1, <5>3, ZenonT(30)
      <4> QED  BY <3>5, <4>1, Zenon DEF Heard, Knows
    <3>18. \A u \in Sessions : at[u].pc \in Waiting =>
              at'[u].pc \in Waiting /\ at'[u].stream = at[u].stream
      BY <3>2, <3>5, Zenon DEF Waiting
    <3>19. \A u \in Sessions : watches'[u] \subseteq watches[u]
      BY <3>6, Zenon
    <3>20. \A u \in Sessions : at'[u].pc \in Fanning =>
              at[u].pc \in Fanning /\ at'[u].version = at[u].version /\ Key(u)' = Key(u)
      BY <3>5, Zenon DEF Fanning, Key
    <3>21. \A u \in Sessions : at'[u].pc = "result" =>
              \/ at[u].pc = "result" /\ at'[u].version = at[u].version
              \/ (Issued(at[u].version) /\ Heard(u, at[u].version))'
      BY <3>5, <3>14, <3>17, ZenonT(30)
    <3> QED  BY <3>6, <3>12, <3>16, <3>18, <3>19, <3>20, <3>21, AnswersStep, ZenonT(30) DEF NoResult, StaysWaiting, StaysHeld, StaysFanning, ResultsHeard, OwnResults
  <2> QED  BY <2>Inv0, <2>Told, <2>Answers, Zenon DEF Kept
<1>Result. ASSUME Result(s)
           PROVE  Inv0' /\ Kept
  <2> USE <1>Result
  <2>Inv0. Inv0'
    <3>2. at[s].pc = "result" /\ Key(s) \in Keys
      BY Zenon DEF Result, At, HandlerOK, HandlerPCs
    <3>3. /\ UNCHANGED <<global_version, entries, log, changes, loose>>
          /\ UNCHANGED <<subscriptions, watches, next_stream, phase>>
          /\ UNCHANGED <<inbox, peer_gone, writer, known, raced>>
          /\ at' = [at EXCEPT ![s] = Idle]
      BY Zenon DEF Result, storeVars
    <3>4. at[s] \in HandlerState
      BY Zenon DEF TypeOK, AtType
    <3>5. at[s].version \in Nat /\ at[s].req.field \in Fields \cup {Null}
      BY <3>4, Zenon DEF HandlerState, Running
    <3>6. ChannelType'
      <4>1. Sent(s, ResultFrame(at[s].version))
        BY <3>5, FrameTypes, SendSent, ZenonT(30) DEF TypeOK, Result
      <4> QED  BY <3>3, <4>1, SentChannelType, ZenonT(30) DEF TypeOK, ChannelType
    <3>7. TableType'
      <4> DEFINE own == <<Key(s), at[s].req.field>>
      <4>1. presence \in [Sessions -> Seq(Path)] /\ own \in Path
        BY <3>2, <3>5, Zenon DEF TypeOK, TableType, Path
      <4>2. presence' = IF at[s].req.type = "presence" /\ own \notin Range(presence[s])
                        THEN [presence EXCEPT ![s] = Append(presence[s], own)] ELSE presence
        BY Zenon DEF Result
      <4> HIDE DEF own
      <4>3. presence[s] \in Seq(Path)
        BY <4>1, Zenon
      <4>4. Append(presence[s], own) \in Seq(Path)
        BY <4>1, <4>3, SMTT(30), Z3T(30)
      <4>5. presence' \in [Sessions -> Seq(Path)]
        BY <4>1, <4>2, <4>4, Update, ZenonT(30)
      <4> QED  BY <3>3, <4>5, Zenon DEF TypeOK, TableType
    <3>8. Becomes(s, "idle", Null, 0, 0, <<>>, <<>>, {})
      BY <3>3, IdleAt, Zenon DEF TypeOK
    <3>9. TypeOK'
      BY <3>3, <3>6, <3>7, <3>8, StoreFrame, ClientFrame, ZenonT(30) DEF TypeOK, Becomes
    <3>10. phase'[s] # "cleanup"
      BY <3>2, <3>3, Zenon DEF HandlerOK, WritePCs
    <3> QED  BY <3>3, <3>8, <3>9, <3>10, HandlerIdle, ZenonT(30) DEF Inv0
  \* The same, with a handler that starts or ends.
  <2>FreshTask. ASSUME NEW pc, NEW key, NEW todo, Becomes(s, pc, key, 0, 0, todo, <<>>, {}),
                       at[s].pc \notin Fanning,
                       pc \notin Waiting \cup {"init"},
                       at[s].pc \notin Waiting, Grows,
                       UNCHANGED <<subscriptions, watches, next_stream, changes, phase>>
                PROVE  Registered' /\ AllTold'
    <3> USE <2>FreshTask
    <3> DEFINE none == {}
               no == <<>>
    <3>1. Becomes(s, pc, key, 0, 0, todo, no, none) /\ none \subseteq at[s].slow
      BY Zenon
    <3> HIDE DEF none, no
    <3> QED  BY <3>1, TaskStep, ZenonT(30)
  \* An answer ends with an idle task.
  <2>AnswerTold. ASSUME NEW f \in OutFrame, Send(s, f), at[s].pc \notin Fanning,
                        at[s].pc \notin Waiting, at' = [at EXCEPT ![s] = Idle],
                        UNCHANGED <<subscriptions, watches, next_stream, changes, phase, known>>
                 PROVE  Registered' /\ AllTold'
    <3> USE <2>AnswerTold
    <3>2. Sent(s, f)
      BY SendSent, Zenon DEF TypeOK
    <3>3. Grows
      BY <3>2, SentGrows, Zenon DEF TypeOK
    <3>4. Becomes(s, "idle", Null, 0, 0, <<>>, <<>>, {})
      BY IdleAt, Zenon DEF TypeOK
    <3>5. "idle" \notin Waiting \cup {"init"}
      BY ZenonT(30) DEF Waiting
    <3> QED  BY <3>3, <3>4, <3>5, <2>FreshTask, ZenonT(30)
  <2>Told. Registered' /\ AllTold'
    <3>2. at[s].pc = "result" /\ at[s].pc \notin Fanning /\ at[s].pc \notin Waiting
      BY Zenon DEF Result, At, Fanning, Waiting
    <3>3. at[s].version \in Nat
      BY Zenon DEF TypeOK, AtType, HandlerState
    <3>4. ResultFrame(at[s].version) \in OutFrame
      BY <3>3, FrameTypes, Zenon
    <3>5. /\ UNCHANGED <<subscriptions, watches, next_stream, changes, phase, known>>
          /\ Send(s, ResultFrame(at[s].version)) /\ at' = [at EXCEPT ![s] = Idle]
      BY Zenon DEF Result, history
    <3> QED  BY <3>2, <3>4, <3>5, <2>AnswerTold, ZenonT(30)
  \* RESULT carries the version the task holds.
  <2>Answers. ASSUME Answers
              PROVE  Answers'
    <3> USE <2>Answers
    <3> DEFINE f == ResultFrame(at[s].version)
    <3>2. /\ UNCHANGED <<global_version, watches, changes, known>>
          /\ Send(s, f) /\ at' = [at EXCEPT ![s] = Idle] /\ at[s].pc = "result"
      BY Zenon DEF Result, At, storeVars
    <3>3. at[s].version \in Nat
      BY Zenon DEF TypeOK, AtType, HandlerState
    <3>4. f \in OutFrame /\ f.version = at[s].version
      BY <3>3, FrameTypes, Zenon DEF ResultFrame
    <3> HIDE DEF f
    <3>5. Sent(s, f)
      BY <3>2, <3>4, SendSent, Zenon DEF TypeOK
    <3>6. Grows
      BY <3>2, <3>5, SentGrows, Zenon DEF TypeOK
    <3>7. Becomes(s, "idle", Null, 0, 0, <<>>, <<>>, {})
      BY <3>2, IdleAt, Zenon DEF TypeOK
    <3>8. at'[s].pc = "idle" /\ \A u \in Sessions : u # s => at'[u] = at[u]
      BY <3>7, Zenon DEF Becomes
    <3>9. \A u \in Sessions : \A g \in Range(out'[u]) : g.type = "RESULT" =>
             g \in Range(out[u]) \/ (at[u].pc = "result" /\ g.version = at[u].version)
      BY <3>2, <3>4, <3>5, Zenon DEF Sent
    <3>10. \A u \in Sessions : at[u].pc \in Waiting =>
              at'[u].pc \in Waiting /\ at'[u].stream = at[u].stream
      BY <3>2, <3>8, Zenon DEF Waiting
    <3>11. \A u \in Sessions : watches'[u] \subseteq watches[u]
      BY <3>2, Zenon
    <3>12. \A u \in Sessions : Holds(u)' => Holds(u) /\ at'[u].version = at[u].version
      BY <3>8, ZenonT(30) DEF Holds
    <3>13. \A u \in Sessions : at'[u].pc \in Fanning =>
              at[u].pc \in Fanning /\ at'[u].version = at[u].version /\ Key(u)' = Key(u)
      BY <3>8, Zenon DEF Fanning, Key
    <3>14. \A u \in Sessions : at'[u].pc = "result" =>
              at[u].pc = "result" /\ at'[u].version = at[u].version
      BY <3>8, Zenon
    <3> QED  BY <3>2, <3>6, <3>9, <3>10, <3>11, <3>12, <3>13, <3>14, AnswersStep, ZenonT(30) DEF StaysWaiting, StaysHeld, StaysFanning, ResultsHeard, OwnResults
  <2> QED  BY <2>Inv0, <2>Told, <2>Answers, ZenonT(30) DEF Kept
<1>CleanupNext. ASSUME CleanupNext(s)
                PROVE  Inv0' /\ Kept
  <2> USE <1>CleanupNext
  <2>At. ASSUME AtType, StoreType, at[s].todo \in Seq(Path)
         PROVE  LET k == Head(at[s].todo)[1]
                IN /\ k \in Keys /\ Tail(at[s].todo) \in Seq(Path)
                   /\ Becomes(s, IF entries[k] = Absent THEN "next" ELSE "version", k, at[s].stream,
                              at[s].version, Tail(at[s].todo), at[s].targets, at[s].slow)
    <3> USE <2>At
    <3> DEFINE k == Head(at[s].todo)[1]
               f == Head(at[s].todo)[2]
               put == Without(entries[k].value, {f})
               req == [Idle.req EXCEPT !.type = "cleanup", !.key = k, !.put = put]
               pc == IF entries[k] = Absent THEN "next" ELSE "version"
               h == [at[s] EXCEPT !.todo = Tail(at[s].todo), !.req = req, !.pc = pc]
    <3>1. at[s] \in HandlerState
      BY ZenonT(30) DEF AtType
    <3>2. at[s].todo # <<>> /\ at[s].pc = "next"
      BY Zenon DEF CleanupNext, At
    <3>3. Head(at[s].todo) \in Path /\ Tail(at[s].todo) \in Seq(Path)
      BY <3>2, HeadTail, Zenon
    <3>4. k \in Keys
      BY <3>3, ZenonT(30) DEF Path
    <3>5. entries[k] \in Entry
      BY <3>4, Zenon DEF StoreType
    <3>6. entries[k].value \in Value
      BY <3>5, Zenon DEF Entry
    <3>7. put \in Value
      BY <3>6, WithoutType, Zenon
    <3>8. at' = [at EXCEPT ![s] = h]
      BY Zenon DEF CleanupNext, AtType
    <3>9. Idle.req \in Running
      BY IdleType, Zenon
    <3>10. pc \in PCs /\ Tail(at[s].todo) \in Todo
      BY <3>3, Zenon DEF PCs, HandlerPCs, WritePCs, Todo
    <3> HIDE DEF k, f, put, pc
    <3>11. req \in Running /\ req.key = k
      BY <3>4, <3>7, <3>9, ZenonT(30) DEF Running
    <3> HIDE DEF req
    <3>12. h \in HandlerState
      BY <3>1, <3>10, <3>11, ZenonT(30) DEF HandlerState
    <3>13. /\ h.pc = pc /\ h.req = req /\ h.stream = at[s].stream /\ h.version = at[s].version
           /\ h.todo = Tail(at[s].todo) /\ h.targets = at[s].targets /\ h.slow = at[s].slow
      BY <3>1, Zenon DEF HandlerState
    <3> HIDE DEF h
    <3>14. Becomes(s, pc, k, at[s].stream, at[s].version, Tail(at[s].todo), at[s].targets,
                   at[s].slow)
      BY <3>8, <3>11, <3>12, <3>13, BecomesRule, ZenonT(30)
    <3> QED  BY <3>3, <3>4, <3>14, ZenonT(30) DEF pc, k
  <2>Inv0. Inv0'
    <3> DEFINE k == Head(at[s].todo)[1]
               pc == IF entries[k] = Absent THEN "next" ELSE "version"
    <3>2. at[s].pc = "next" /\ phase[s] \in {"none", "open", "cleanup", "closed"}
      BY Zenon DEF CleanupNext, At, TypeOK, TableType
    <3>3. phase[s] = "cleanup" /\ at[s].todo \in Seq(Path)
      BY <3>2, Zenon DEF HandlerOK
    <3>4. /\ k \in Keys /\ Tail(at[s].todo) \in Seq(Path)
          /\ Becomes(s, pc, k, at[s].stream, at[s].version, Tail(at[s].todo), at[s].targets,
                     at[s].slow)
      BY <3>3, <2>At, Zenon DEF TypeOK
    <3>5. pc \in {"next", "version"}
      BY ZenonT(30)
    <3> HIDE DEF k, pc
    <3>6. /\ UNCHANGED <<global_version, entries, log, changes, loose>>
          /\ UNCHANGED <<subscriptions, watches, presence, next_stream, phase>>
          /\ UNCHANGED <<inbox, out, cancelled, peer_gone, writer, known, raced>>
      BY ZenonT(30) DEF CleanupNext, storeVars, channelVars, history
    <3>7. TypeOK'
      BY <3>4, <3>6, StoreFrame, TableFrame, ChannelFrame, ClientFrame, ZenonT(30) DEF TypeOK, Becomes
    <3>8. /\ at'[s].pc = pc /\ Key(s)' = k /\ at'[s].todo = Tail(at[s].todo) /\ phase'[s] = "cleanup"
          /\ \A u \in Sessions : u # s => at'[u] = at[u] /\ phase'[u] = phase[u]
      BY <3>3, <3>4, <3>6, ZenonT(30) DEF Becomes
    <3>9. HandlerOK(s)'
      BY <3>4, <3>5, <3>8, ZenonT(30) DEF HandlerOK, WritePCs
    <3> QED  BY <3>7, <3>8, <3>9, HandlerOthers, ZenonT(30) DEF Inv0
  <2>Told. Kept
    <3> DEFINE k == Head(at[s].todo)[1]
               p == IF entries[k] = Absent THEN "next" ELSE "version"
    <3>2. at[s].pc = "next" /\ at[s].pc \notin Fanning
      BY ZenonT(30) DEF CleanupNext, At, Fanning
    <3>3. at[s].todo \in Seq(Path)
      BY <3>2, Zenon DEF HandlerOK, TypeOK, TableType
    <3>4. Becomes(s, p, k, at[s].stream, at[s].version, Tail(at[s].todo), at[s].targets, at[s].slow)
      BY <3>3, <2>At, Zenon DEF TypeOK
    <3>5. UNCHANGED <<subscriptions, watches, next_stream, changes, phase, known, cancelled,
                    global_version, out>>
      BY Zenon DEF CleanupNext, storeVars, channelVars, history
    <3>6. /\ at[s].pc \notin Waiting /\ p \notin Waiting \cup {"init"}
          /\ p \notin Fanning \cup {"diff", "insert", "result"}
      BY <3>2, Zenon DEF Waiting, Fanning
    <3> HIDE DEF p, k
    <3> QED  BY <3>2, <3>4, <3>5, <3>6, GrowsSame, OutSame, PlainStep, ZenonT(30)
  <2> QED  BY <2>Inv0, <2>Told, Zenon
<1>RemoveSession. ASSUME RemoveSession(s)
                  PROVE  Inv0' /\ Kept
  <2> USE <1>RemoveSession
  <2>Inv0. Inv0'
    <3>2. /\ UNCHANGED <<global_version, entries, log, changes, loose>>
          /\ UNCHANGED <<watches, presence, next_stream>>
          /\ UNCHANGED <<inbox, out, cancelled, peer_gone, writer, known, raced>>
          /\ subscriptions' = [k \in Keys |-> OfOthers(subscriptions[k], s)]
          /\ phase' = [phase EXCEPT ![s] = "closed"]
          /\ at' = [at EXCEPT ![s] = Idle]
      BY Zenon DEF RemoveSession, storeVars, channelVars, history
    <3>3. /\ subscriptions \in [Keys -> Seq(Subscriber)]
          /\ phase \in [Sessions -> {"none", "open", "cleanup", "closed"}]
      BY Zenon DEF TypeOK, TableType
    <3>4. \A k \in Keys : OfOthers(subscriptions[k], s) \in Seq(Subscriber)
      BY <3>3, OfOthersType, Zenon
    <3>5. subscriptions' \in [Keys -> Seq(Subscriber)]
      BY <3>2, <3>4, Zenon
    <3>6. "closed" \in {"none", "open", "cleanup", "closed"} /\ "closed" # "cleanup"
      BY ZenonT(30)
    <3>7. /\ phase' \in [Sessions -> {"none", "open", "cleanup", "closed"}]
          /\ phase'[s] = "closed" /\ \A u \in Sessions : u # s => phase'[u] = phase[u]
      BY <3>2, <3>3, <3>6, Update, ZenonT(30)
    <3>8. TableType'
      BY <3>2, <3>5, <3>7, ZenonT(30) DEF TypeOK, TableType
    <3>9. Becomes(s, "idle", Null, 0, 0, <<>>, <<>>, {})
      BY <3>2, IdleAt, Zenon DEF TypeOK
    <3>10. TypeOK'
      BY <3>2, <3>8, <3>9, StoreFrame, ChannelFrame, ClientFrame, ZenonT(30) DEF TypeOK, Becomes
    <3>11. \A u \in Sessions : HandlerOK(u)'
      BY <3>6, <3>7, <3>9, HandlerIdle, ZenonT(30)
    <3> QED  BY <3>10, <3>11, ZenonT(30) DEF Inv0
  \* remove_session takes the session out of every list.
  <2>Told. Kept
    <3>2. /\ UNCHANGED <<watches, next_stream, changes, known, cancelled, global_version, out>>
          /\ subscriptions' = [k \in Keys |-> OfOthers(subscriptions[k], s)]
          /\ phase' = [phase EXCEPT ![s] = "closed"]
          /\ at' = [at EXCEPT ![s] = Idle]
          /\ at[s].pc = "next" /\ at[s].pc \notin Fanning /\ at[s].pc \notin Waiting
      BY Zenon DEF RemoveSession, At, Fanning, Waiting, storeVars, channelVars, history
    <3>3. /\ subscriptions \in [Keys -> Seq(Subscriber)]
          /\ phase \in [Sessions -> {"none", "open", "cleanup", "closed"}]
      BY Zenon DEF TypeOK, TableType
    <3>4. \A u \in Sessions : u # s => phase'[u] = phase[u]
      BY <3>2, <3>3, Zenon
    <3>5. ASSUME NEW k \in Keys, NEW x \in Range(subscriptions'[k])
          PROVE  x \in Range(subscriptions[k]) /\ x.session # s
      <4>1. Range(OfOthers(subscriptions[k], s)) = {y \in Range(subscriptions[k]) : y.session # s}
        BY <3>3, OfOthersType, ZenonT(30)
      <4> QED  BY <3>2, <3>5, <4>1, ZenonT(30)
    <3>6. Shrinks
      <4> SUFFICES ASSUME NEW k \in Keys, NEW x \in Range(subscriptions'[k])
                   PROVE  /\ x \in Range(subscriptions[k]) /\ x.session \in Sessions
                          /\ phase'[x.session] \in {"open", "cleanup"}
        BY Zenon DEF Shrinks
      <4>1. x \in Range(subscriptions[k]) /\ x.session # s
        BY <3>5, Zenon
      <4>2. x.session \in Sessions /\ phase[x.session] \in {"open", "cleanup"}
        BY <4>1, SubscriberSession, Zenon DEF Registered
      <4> QED  BY <3>4, <4>1, <4>2, ZenonT(30)
    <3>7. Becomes(s, "idle", Null, 0, 0, <<>>, <<>>, {})
      BY <3>2, IdleAt, Zenon DEF TypeOK
    <3>8. /\ \A u \in Sessions : u # s => at'[u] = at[u] /\ phase'[u] = phase[u]
          /\ at'[s].pc = "idle" /\ at'[s].slow = {}
      BY <3>4, <3>7, Zenon DEF Becomes
    <3> QED  BY <3>2, <3>4, <3>6, <3>8, GrowsSame, OutSame, TaskEnds, ZenonT(30)
  <2> QED  BY <2>Inv0, <2>Told, ZenonT(30)
<1> QED  BY <1>Snapshot, <1>SendDelta, <1>Evict, <1>Direct, <1>Result, <1>CleanupNext,
     <1>RemoveSession, Zenon

-----------------------------------------------------------------------------
(* The end of a session, and a request that is refused *)

LEMMA Ends ==
    ASSUME Inv, NEW s \in Sessions, ServerStep,
           Exit(s) \/ StopWriter(s) \/ Reject(s)
    PROVE  Inv0' /\ Kept
<1> /\ Inv0 /\ TypeOK /\ HandlerOK(s) /\ Registered /\ AllTold
    /\ \A u \in Sessions : HandlerOK(u)
  BY Zenon DEF Inv, Inv0
<1>Exit. ASSUME Exit(s)
         PROVE  Inv0' /\ Kept
  <2> USE <1>Exit
  <2>Inv0. Inv0'
    <3>1. ClientType /\ ChannelType
      BY Zenon DEF Inv0, TypeOK
    <3> QED  BY <3>1, ClientFrame, ExpireSends, LeaveInv0, ZenonT(30) DEF Exit
  <2>Told. Kept
    <3>1. ChannelType
      BY Zenon DEF Inv, TypeOK
    <3>2. Leave(s) /\ UNCHANGED <<cancelled, out>>
      BY ZenonT(30) DEF Exit, channelVars
    <3> QED  BY <3>1, <3>2, OutSame, LeaveTold, ZenonT(30)
  <2> QED  BY <2>Inv0, <2>Told, Zenon
<1>StopWriter. ASSUME StopWriter(s)
               PROVE  Inv0' /\ Kept
  <2> USE <1>StopWriter
  <2>Inv0. Inv0'
    <3>2. /\ UNCHANGED <<global_version, entries, log, changes, loose>>
          /\ UNCHANGED <<subscriptions, watches, presence, next_stream, phase>>
          /\ UNCHANGED <<inbox, cancelled, peer_gone, known, raced, at>>
          /\ writer' = [writer EXCEPT ![s] = "stopped"] /\ out' = [out EXCEPT ![s] = <<>>]
      BY Zenon DEF StopWriter, storeVars, sessionVars, history
    <3>3. ChannelType'
      BY <3>2, SMT, Z3 DEF TypeOK, ChannelType
    <3>4. AtType'
      BY <3>2, Zenon DEF TypeOK, AtType
    <3>5. TypeOK'
      BY <3>2, <3>3, <3>4, StoreFrame, TableFrame, ClientFrame, ZenonT(30) DEF TypeOK
    <3> QED  BY <3>2, <3>5, HandlerStays, Zenon DEF Inv0
  <2>Told. Kept
    <3>1. UNCHANGED <<at, subscriptions, watches, next_stream, changes, phase, known, cancelled,
                    global_version>>
      BY Zenon DEF StopWriter, storeVars, sessionVars, history
    <3>2. /\ \A u \in Sessions : u # s => out'[u] = out[u]
          /\ out'[s] = <<>>
      BY Zenon DEF StopWriter, Inv, TypeOK, ChannelType
    <3>3. Range(out'[s]) = {}
      BY <3>2, SMTT(30), Z3T(30) DEF Range
    <3>4. NoResult
      BY <3>2, <3>3, Zenon DEF NoResult
    <3> QED  BY <3>1, <3>4, GrowsSame, StillStep, ZenonT(30)
  <2> QED  BY <2>Inv0, <2>Told, Zenon
<1>Reject. ASSUME Reject(s)
           PROVE  Inv0' /\ Kept
  <2> USE <1>Reject
  <2>Inv0. Inv0'
    <3>2. /\ UNCHANGED <<global_version, entries, log, changes, loose>>
          /\ UNCHANGED <<subscriptions, watches, presence, next_stream, phase>>
          /\ UNCHANGED <<peer_gone, writer, known, raced, at>>
          /\ inbox[s] # <<>> /\ inbox' = [inbox EXCEPT ![s] = Tail(@)]
          /\ Send(s, ErrorFrame)
      BY ZenonT(30) DEF Reject, storeVars, history
    <3>3. inbox' \in [Sessions -> Seq(Frame)]
      BY <3>2, InboxTail, Zenon DEF TypeOK
    <3>4. Sent(s, ErrorFrame)
      BY <3>2, FrameTypes, SendSent, ZenonT(30) DEF TypeOK
    <3>5. ChannelType'
      BY <3>2, <3>3, <3>4, ZenonT(30) DEF TypeOK, ChannelType, Sent
    <3>6. AtType'
      BY <3>2, Zenon DEF TypeOK, AtType
    <3>7. TypeOK'
      BY <3>2, <3>5, <3>6, StoreFrame, TableFrame, ClientFrame, ZenonT(30) DEF TypeOK
    <3> QED  BY <3>2, <3>7, HandlerStays, ZenonT(30) DEF Inv0
  <2>Told. Kept
    <3>1. ChannelType
      BY Zenon DEF Inv, TypeOK
    <3>2. /\ UNCHANGED <<at, subscriptions, watches, next_stream, changes, phase, known,
                       global_version>>
          /\ Send(s, ErrorFrame)
      BY ZenonT(30) DEF Reject, storeVars, history
    <3>3. Sent(s, ErrorFrame)
      BY <3>1, <3>2, FrameTypes, SendSent, ZenonT(30)
    <3>4. Grows /\ NoResult
      BY <3>1, <3>2, <3>3, FrameKinds, SentGrows, SentNoResult, ZenonT(30)
    <3> QED  BY <3>2, <3>4, StillStep, Zenon
  <2> QED  BY <2>Inv0, <2>Told, ZenonT(30)
<1> QED  BY <1>Exit, <1>StopWriter, <1>Reject, Zenon

-----------------------------------------------------------------------------
(* The types and the handlers, along every behaviour *)

\* What happens inside the server: the steps of session s that change no client.
ServerAction(s) ==
    \/ Handler(s) \/ Exit(s) \/ StopWriter(s) \/ Reject(s)

LEMMA NextSteps ==
    ASSUME Next
    PROVE  \/ \E s \in Sessions : ServerAction(s) /\ ServerStep
           \/ \E s \in Sessions : Timeout(s)
           \/ \E c \in Clients : Connect(c) \/ Lose(c) \/ OnClose(c) \/ Deliver(c) \/ Call(c)
           \/ \E c \in Clients, k \in Keys :
                 Watch(c, k) \/ WatchMany(c, k) \/ Unsubscribe(c, k) \/ ClientUnwatch(c, k)
<1>1. CASE \E s \in Sessions : SessionTask(s) \/ WriteTask(s) \/ Refuse(s) \/ Timeout(s)
  BY <1>1, Zenon DEF SessionTask, WriteTask, Refuse, ServerAction, ServerStep
<1>2. CASE \E c \in Clients : ClientStep(c)
  <2>1. \A c \in Clients : Watchable[c] \subseteq Keys
    BY WatchSyncAssumption, Zenon
  <2> QED  BY <1>2, <2>1, Zenon DEF ClientStep
<1> QED  BY <1>1, <1>2, Zenon DEF Next

LEMMA InitInv0 ==
    ASSUME Init
    PROVE  Inv0
<1>1. Absent \in Entry
  BY Zenon DEF Absent, Entry, Value
<1>2. StoreType
  BY <1>1, SMTT(30), Z3T(30) DEF Init, ServerInit, StoreType
<1>3. TableType
  BY SMTT(30), Z3T(30) DEF Init, ServerInit, TableType
<1>4. ChannelType
  BY SMT, Z3 DEF Init, ServerInit, ChannelType
<1>5. ClientType
  BY ZenonT(30) DEF Init, ClientType
<1>6. at = [s \in Sessions |-> Idle]
  BY Zenon DEF Init, ServerInit
<1>7. AtType
  BY <1>6, IdleType, Zenon DEF AtType
<1>8. \A s \in Sessions : at[s].pc = "idle" /\ phase[s] = "none"
  BY <1>6, IdleType, ZenonT(30) DEF Init, ServerInit
<1>9. \A s \in Sessions : HandlerOK(s)
  BY <1>8, ZenonT(30) DEF HandlerOK, HandlerPCs, WritePCs
<1> QED  BY <1>2, <1>3, <1>4, <1>5, <1>7, <1>9, ZenonT(30) DEF Inv0, TypeOK

LEMMA UnchangedInv0 ==
    ASSUME Inv0, UNCHANGED vars
    PROVE  Inv0'
BY Zenon DEF Inv0, TypeOK, StoreType, TableType, ChannelType, ClientType, AtType, HandlerOK, Key,
       vars, serverVars, storeVars, sessionVars, channelVars, history, clientVars, bounds

-----------------------------------------------------------------------------
(* No subscription leaks, and no update is missed *)

LEMMA InitInv ==
    ASSUME Init
    PROVE  Inv
<1>1. Inv0
  BY InitInv0, Zenon
<1>2. /\ subscriptions = [k \in Keys |-> <<>>] /\ watches = [s \in Sessions |-> {}]
      /\ at = [s \in Sessions |-> Idle]
  BY Zenon DEF Init, ServerInit
<1>3. \A k \in Keys : Range(subscriptions[k]) = {}
  BY <1>2, SMTT(30), Z3T(30) DEF Range
<1>4. \A s \in Sessions : watches[s] = {} /\ at[s].pc = "idle" /\ at[s].slow = {}
  BY <1>2, IdleType, Zenon
<1>5. Registered
  BY <1>3, <1>4, Zenon DEF Registered
<1>6. AllTold
  BY <1>3, Zenon DEF AllTold
<1> QED  BY <1>1, <1>5, <1>6, ZenonT(30) DEF Inv, Inv0

LEMMA ServerKept ==
    ASSUME Inv, NEW s \in Sessions, ServerAction(s), ServerStep
    PROVE  Inv0' /\ Kept
BY Readers, Drafts, Changes, FanOut, Ends, ZenonT(30) DEF ServerAction, Handler

LEMMA NextKept ==
    ASSUME Inv, [Next]_vars
    PROVE  Inv0' /\ Kept
<1> Inv0
  BY Zenon DEF Inv, Inv0
<1>1. CASE UNCHANGED vars
  <2>1. UNCHANGED <<at, subscriptions, watches, next_stream, changes, phase, known, cancelled,
                    global_version, out>>
    BY <1>1, ZenonT(30) DEF vars, serverVars, storeVars, sessionVars, channelVars, history
  <2> QED  BY <1>1, <2>1, UnchangedInv0, GrowsSame, OutSame, StillStep, ZenonT(30)
<1>2. CASE \E s \in Sessions : ServerAction(s) /\ ServerStep
  BY <1>2, ServerKept, Zenon
<1>3. CASE \E s \in Sessions : Timeout(s)
  BY <1>3, TimeoutInv0, TimeoutTold, Zenon
<1>4. CASE \E c \in Clients : Connect(c) \/ Lose(c) \/ OnClose(c) \/ Deliver(c) \/ Call(c)
  BY <1>4, ClientInv0, ConnectTold, ClientStepTold, ZenonT(30)
<1>5. CASE \E c \in Clients, k \in Keys :
              Watch(c, k) \/ WatchMany(c, k) \/ Unsubscribe(c, k) \/ ClientUnwatch(c, k)
  BY <1>5, ClientInv0, WatchTold, Zenon
<1> QED  BY <1>1, <1>2, <1>3, <1>4, <1>5, NextSteps, ZenonT(30)

LEMMA NextInv ==
    ASSUME Inv, [Next]_vars
    PROVE  Inv'
BY NextKept, Zenon DEF Inv, Inv0, Kept

LEMMA InitAnswers ==
    ASSUME Init
    PROVE  Answers
<1>1. /\ at = [s \in Sessions |-> Idle] /\ changes = [k \in Keys |-> {}]
      /\ out = [s \in Sessions |-> <<>>]
  BY Zenon DEF Init, ServerInit
<1>2. \A s \in Sessions : at[s].pc = "idle"
  BY <1>1, IdleType, Zenon
<1>3. \A k \in Keys : changes[k] = {}
  BY <1>1, Zenon
<1>4. \A s \in Sessions : Range(out[s]) = {}
  BY <1>1, EmptyRange, Zenon
<1>5. VersionsOK
  BY <1>2, <1>3, Zenon DEF VersionsOK, Holds
<1>6. Answered
  BY <1>2, <1>4, Zenon DEF Answered
<1> QED  BY <1>5, <1>6, Zenon DEF Answers

\* The invariant of the server and its clients: types, tasks, subscriptions and
\* fan-outs, along every behaviour.
THEOREM Invariance == Spec => []Inv
<1>1. Init => Inv
  BY InitInv, Zenon
<1>2. Inv /\ [Next]_vars => Inv'
  BY NextInv, Zenon
<1> QED  BY <1>1, <1>2, PTL DEF Spec

\* The variables of the server and of the clients keep their types.
THEOREM TypeCorrect == Spec => []TypeOK
<1>1. Inv => TypeOK
  BY ZenonT(30) DEF Inv
<1> QED  BY <1>1, Invariance, PTL

\* No subscription outlives its session, whatever broadcasts still hold it.
THEOREM NoLeakTheorem == Spec => []NoLeak
<1>1. Inv => NoLeak
  BY Zenon DEF Inv, Registered, NoLeak
<1> QED  BY <1>1, Invariance, PTL

\* A session is told of every change of a key it is subscribed to, by the value
\* it read, by a DELTA in its channel or by a fan-out that still runs.
THEOREM NoMissedUpdateTheorem == Spec => []NoMissedUpdate
<1>1. ASSUME Inv
      PROVE  NoMissedUpdate
  <2>1. \A u \in Sessions, k \in Keys : \A x, v : OnItsWay(u, k, v, x) =>
           /\ Key(u) = k /\ at[u].version = v
           /\ at[u].pc \in {"log", "snapshot", "send", "direct"}
    BY ZenonT(30) DEF OnItsWay
  <2>2. ASSUME NEW k \in Keys, NEW x, NEW v, NEW u \in Sessions, OnItsWay(u, k, v, x)
        PROVE  InFlight(k, v)
    BY <2>1, <2>2, Zenon DEF InFlight
  <2>3. AllTold
    BY <1>1, Zenon DEF Inv
  <2> QED  BY <2>2, <2>3, ZenonT(30) DEF AllTold, Told, NoMissedUpdate
<1> QED  BY <1>1, Invariance, PTL

\* Every version belongs to one change of one key, and a session that is
\* answered has been told of the change its call made.
THEOREM AnswersInvariance == Spec => [](Inv /\ Answers)
<1>1. Init => Inv /\ Answers
  BY InitInv, InitAnswers, Zenon
<1>2. Inv /\ Answers /\ [Next]_vars => (Inv /\ Answers)'
  BY NextInv, NextKept, Zenon DEF Kept
<1> QED  BY <1>1, <1>2, PTL DEF Spec

\* A session that calls and watches the key has the DELTA of its change, on one
\* of its streams for the key, in its channel or past it when the RESULT of the
\* call is there.
THEOREM DeltaBeforeResultTheorem == Spec => []DeltaBeforeResult
<1>1. ASSUME Answers
      PROVE  DeltaBeforeResult
  <2> SUFFICES ASSUME NEW s \in Sessions, NEW k \in Keys, ~cancelled[s],
                      NEW i \in DOMAIN out[s], out[s][i].type = "RESULT",
                      out[s][i].version \in changes[k],
                      NEW st \in StreamsOf(s, k), Live(s, st)
               PROVE  Knows(s, st, out[s][i].version)
    BY Zenon DEF DeltaBeforeResult
  <2>1. out[s][i] \in Range(out[s])
    BY ZenonT(30) DEF Range
  <2>2. Heard(s, out[s][i].version)
    BY <1>1, <2>1, Zenon DEF Answers, Answered
  <2> QED  BY <2>2, Zenon DEF Heard
<1> QED  BY <1>1, AnswersInvariance, PTL
==============================================================================
