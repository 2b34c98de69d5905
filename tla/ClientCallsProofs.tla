------------------------- MODULE ClientCallsProofs -------------------------
(***************************************************************************)
(* Proofs about ClientCalls, for any calls and connections and for the     *)
(* three clients: a call is performed at most once and a RESULT is true,   *)
(* a call reported as lost is not sent on a later connection, and a call   *)
(* reported as refused is one the server refused.                          *)
(*                                                                         *)
(* The first two follow from where the frame of a call can be (IndInv).    *)
(* It is in one place at a time: the callers' hands, the queue, the       *)
(* outbox, one wire, or the list of what the server performed; and every   *)
(* step moves it or drops it.  The third follows from the order of the     *)
(* frames (InTurn): until an ERROR or a timeout breaks it, the calls       *)
(* handled, on the wire, in the outbox and in the queue follow one another *)
(* in the order they were made, so the next answer is of the oldest        *)
(* pending call.                                                           *)
(***************************************************************************)
EXTENDS ClientCalls, SeqFilterProofs, TLAPS

Frame == Calls \cup {AUTH}
Reply == {HELLO, AUTH_OK, ERROR} \cup {RESULT(c) : c \in Calls}
Outcome == {"none", "pending", "ok", "refused", "timeout", "lost"}

Types ==
    /\ kind \in {"ts", "py", "java"}
    /\ conn \in Conns \cup {0} /\ (link # "down" => conn \in Conns)
    /\ callers \in SUBSET [call : Calls, authenticated : BOOLEAN]
    /\ queue \in Seq(Calls) /\ outbox \in Seq(Frame)
    /\ wire \in [Conns -> Seq(Frame)] /\ back \in [Conns -> Seq(Reply)]
    /\ handled \in [Conns -> Seq(Calls)] /\ performed \in Seq(Calls)
    /\ outcome \in [Calls -> Outcome] /\ lostIn \in [Calls -> Conns \cup {0}]

\* No call is twice in q.
Once(q) == \A i, j \in DOMAIN q : (q[i] \in Calls /\ q[i] = q[j]) => i = j

\* No call is in both.
Apart(p, q) == \A c \in Calls : ~(c \in Range(p) /\ c \in Range(q))

\* The calls between their test and their enqueue are in none of the places.
InHand(q) == \A x \in callers : x.call \notin Range(q)

OnePlace ==
    /\ Once(queue) /\ Once(outbox) /\ Once(performed)
    /\ InHand(queue) /\ InHand(outbox) /\ InHand(performed)
    /\ \A x, y \in callers : x.call = y.call => x = y
    /\ Apart(queue, outbox) /\ Apart(queue, performed) /\ Apart(outbox, performed)
    /\ \A g \in Conns :
          /\ Once(wire[g]) /\ InHand(wire[g])
          /\ Apart(wire[g], queue) /\ Apart(wire[g], outbox)
          /\ Apart(wire[g], performed)
          /\ \A h \in Conns : h # g => Apart(wire[g], wire[h])

Somewhere(c) ==
    \/ (\E x \in callers : c = x.call) \/ c \in Range(queue) \/ c \in Range(outbox)
    \/ c \in Range(performed) \/ \E g \in Conns : c \in Range(wire[g])

\* A call nobody made is nowhere.
Unmade == \A c \in Calls : outcome[c] = "none" => ~Somewhere(c)

\* A RESULT, on its way or received, is of a call that was performed.
Answered ==
    /\ \A g \in Conns, c \in Calls :
          RESULT(c) \in Range(back[g]) => c \in Range(performed)
    /\ \A c \in Calls : outcome[c] = "ok" => c \in Range(performed)

\* Nothing was sent on a connection that is yet to be opened.  The TypeScript
\* client keeps frames in its queue only, Java never reports a call as lost.
Future ==
    /\ \A g \in Conns : g > conn => wire[g] = <<>> /\ handled[g] = <<>>
    /\ kind = "ts" => outbox = <<>> /\ callers = {}
    /\ kind = "java" => \A c \in Calls : outcome[c] # "lost"
    /\ kind # "java" => ~flushing

\* A call that is lost cannot reach a wire any more.
Gone ==
    kind # "py" => \A c \in Calls : outcome[c] = "lost" =>
        /\ c \notin Range(queue) /\ lostIn[c] <= conn
        /\ \A g \in Conns : g > lostIn[c] =>
              c \notin Range(wire[g]) /\ c \notin Range(handled[g])

IndInv == Types /\ OnePlace /\ Unmade /\ Answered /\ Future /\ Gone

-----------------------------------------------------------------------------
(* Sequences *)

\* Every call in p is in q, and none is twice in p unless it is in q.
Within(p, q) ==
    /\ \A c \in Calls : c \in Range(p) => c \in Range(q)
    /\ Once(q) => Once(p)

\* Append adds one element; it repeats no call that is new.
LEMMA AppendFacts ==
    ASSUME NEW S, NEW q \in Seq(S), NEW x \in S
    PROVE  /\ Append(q, x) \in Seq(S) /\ Range(Append(q, x)) = Range(q) \cup {x}
           /\ (Once(q) /\ (x \in Calls => x \notin Range(q))) => Once(Append(q, x))
<1>1. Append(q, x) \in Seq(S)
      BY SMT, Z3
<1>2. Range(Append(q, x)) = Range(q) \cup {x}
  <2>1. ASSUME NEW y \in Range(Append(q, x)) PROVE y \in Range(q) \cup {x}
        BY <2>1, SMT, Z3 DEF Range
  <2>2. ASSUME NEW y \in Range(q) PROVE y \in Range(Append(q, x))
    <3>1. PICK i \in DOMAIN q : y = q[i]
          BY <2>2, Zenon DEF Range
    <3>2. i \in DOMAIN Append(q, x) /\ Append(q, x)[i] = y
          BY <3>1, SMT, Z3
    <3> QED BY <3>2, Zenon DEF Range
  <2>3. x \in Range(Append(q, x))
    <3>1. Len(q) + 1 \in DOMAIN Append(q, x) /\ Append(q, x)[Len(q) + 1] = x
          BY SMT, Z3
    <3> QED BY <3>1, Zenon DEF Range
  <2> QED BY <2>1, <2>2, <2>3, Zenon
<1>3. ASSUME Once(q), x \in Calls => x \notin Range(q) PROVE Once(Append(q, x))
      BY <1>3, SMT, Z3 DEF Once, Range
<1> QED BY <1>1, <1>2, <1>3, Zenon

\* So does a concatenation of two sequences that share no call.
LEMMA ConcatFacts ==
    ASSUME NEW S, NEW p \in Seq(S), NEW q \in Seq(S)
    PROVE  /\ p \o q \in Seq(S) /\ Range(p \o q) = Range(p) \cup Range(q)
           /\ (Once(p) /\ Once(q) /\ Apart(p, q)) => Once(p \o q)
<1>1. p \o q \in Seq(S)
      BY SMT, Z3
<1>2. Range(p \o q) = Range(p) \cup Range(q)
  <2>1. ASSUME NEW y \in Range(p \o q) PROVE y \in Range(p) \cup Range(q)
        BY <2>1, SMT, Z3 DEF Range
  <2>2. ASSUME NEW y \in Range(p) PROVE y \in Range(p \o q)
    <3>1. PICK i \in DOMAIN p : y = p[i]
          BY <2>2, Zenon DEF Range
    <3>2. i \in DOMAIN (p \o q) /\ (p \o q)[i] = y
          BY <3>1, SMT, Z3
    <3> QED BY <3>2, Zenon DEF Range
  <2>3. ASSUME NEW y \in Range(q) PROVE y \in Range(p \o q)
    <3>1. PICK i \in DOMAIN q : y = q[i]
          BY <2>3, Zenon DEF Range
    <3>2. Len(p) + i \in DOMAIN (p \o q) /\ (p \o q)[Len(p) + i] = y
          BY <3>1, SMT, Z3
    <3> QED BY <3>2, Zenon DEF Range
  <2> QED BY <2>1, <2>2, <2>3, Zenon
<1>3. ASSUME Once(p), Once(q), Apart(p, q) PROVE Once(p \o q)
  <2> SUFFICES ASSUME NEW i \in DOMAIN (p \o q), NEW j \in DOMAIN (p \o q),
                      (p \o q)[i] \in Calls, (p \o q)[i] = (p \o q)[j]
               PROVE  i = j
      BY Zenon DEF Once
  <2>1. CASE i <= Len(p) /\ j <= Len(p)
        BY <1>3, <2>1, SMT, Z3 DEF Once
  <2>2. CASE i <= Len(p) /\ j > Len(p)
    <3>1. (p \o q)[i] \in Range(p) /\ (p \o q)[j] \in Range(q)
          BY <2>2, SMT, Z3 DEF Range
    <3> QED BY <1>3, <3>1, Zenon DEF Apart
  <2>3. CASE i > Len(p) /\ j <= Len(p)
    <3>1. (p \o q)[i] \in Range(q) /\ (p \o q)[j] \in Range(p)
          BY <2>3, SMT, Z3 DEF Range
    <3> QED BY <1>3, <3>1, Zenon DEF Apart
  <2>4. CASE i > Len(p) /\ j > Len(p)
    <3>1. /\ i - Len(p) \in DOMAIN q /\ j - Len(p) \in DOMAIN q
          /\ (p \o q)[i] = q[i - Len(p)] /\ (p \o q)[j] = q[j - Len(p)]
          BY <2>4, SMT, Z3
    <3>2. i - Len(p) = j - Len(p)
          BY <1>3, <3>1, Zenon DEF Once
    <3> QED BY <3>2, SMT, Z3
  <2> QED BY <2>1, <2>2, <2>3, <2>4, SMT, Z3
<1> QED BY <1>1, <1>2, <1>3, Zenon

\* Taking the head leaves the rest; a call taken is not in the rest.
LEMMA TailFacts ==
    ASSUME NEW S, NEW q \in Seq(S), q # <<>>
    PROVE  /\ Tail(q) \in Seq(S) /\ Head(q) \in S /\ Head(q) \in Range(q)
           /\ Range(Tail(q)) \subseteq Range(q)
           /\ Once(q) => Once(Tail(q))
           /\ (Once(q) /\ Head(q) \in Calls) => Head(q) \notin Range(Tail(q))
<1>1. Tail(q) \in Seq(S) /\ Head(q) \in S /\ Len(q) > 0 /\ Head(q) = q[1]
      BY SMT, Z3
<1>2. \A i \in DOMAIN Tail(q) : i + 1 \in DOMAIN q /\ Tail(q)[i] = q[i + 1]
      BY <1>1, SMT, Z3
<1>3. Head(q) \in Range(q) /\ Range(Tail(q)) \subseteq Range(q)
      BY <1>1, <1>2, SMT, Z3 DEF Range
<1>4. Once(q) => Once(Tail(q))
  <2> SUFFICES ASSUME Once(q), NEW i \in DOMAIN Tail(q), NEW j \in DOMAIN Tail(q),
                      Tail(q)[i] \in Calls, Tail(q)[i] = Tail(q)[j]
               PROVE  i = j
      BY Zenon DEF Once
  <2>1. i + 1 = j + 1
        BY <1>2, Zenon DEF Once
  <2>2. i \in Nat /\ j \in Nat
        BY <1>1, SMT, Z3
  <2> QED BY <2>1, <2>2, SMT, Z3
<1>5. (Once(q) /\ Head(q) \in Calls) => Head(q) \notin Range(Tail(q))
  <2> SUFFICES ASSUME Once(q), Head(q) \in Calls, NEW i \in DOMAIN Tail(q),
                      Head(q) = Tail(q)[i]
               PROVE  FALSE
      BY Zenon DEF Range
  <2>1. 1 \in DOMAIN q /\ 1 = i + 1
        BY <1>1, <1>2, SMT, Z3 DEF Once
  <2>2. i \in Nat /\ i > 0
        BY <1>1, SMT, Z3
  <2> QED BY <2>1, <2>2, SMT, Z3
<1> QED BY <1>1, <1>3, <1>4, <1>5, Zenon

\* A prefix holds no more than the whole.
LEMMA PrefixFacts ==
    ASSUME NEW S, NEW q \in Seq(S), NEW n \in 0..Len(q)
    PROVE  /\ SubSeq(q, 1, n) \in Seq(S) /\ Range(SubSeq(q, 1, n)) \subseteq Range(q)
           /\ Within(SubSeq(q, 1, n), q)
<1>1. /\ SubSeq(q, 1, n) \in Seq(S)
      /\ \A i \in DOMAIN SubSeq(q, 1, n) :
            i \in DOMAIN q /\ SubSeq(q, 1, n)[i] = q[i]
      BY SMT, Z3
<1> QED BY <1>1, Zenon DEF Range, Within, Once

\* The empty sequence holds nothing.
LEMMA EmptyFacts == Range(<<>>) = {} /\ Once(<<>>) /\ <<>> \in Seq(Calls)
<1>1. <<>> \in Seq(Calls)
      BY SMT, Z3
<1>2. Range(<<>>) = {} /\ Once(<<>>)
      BY SMT, Z3 DEF Range, Once
<1> QED BY <1>1, <1>2, Zenon

LEMMA SingleFacts ==
    ASSUME NEW S, NEW x \in S
    PROVE  <<x>> \in Seq(S) /\ Range(<<x>>) = {x} /\ Once(<<x>>)
BY SMT, Z3 DEF Range, Once

-----------------------------------------------------------------------------
(* What a step may do to the places *)

\* Dropping frames keeps the rest apart, and so does sending AUTH.
LEMMA Dropped ==
    ASSUME OnePlace, callers' = callers,
           Within(queue', queue), Within(outbox', outbox), performed' = performed,
           \A g \in Conns : Within(wire'[g], wire[g]),
           \A x \in callers : x.call \in Calls
    PROVE  OnePlace'
BY Zenon DEF OnePlace, Within, Apart, InHand

\* Frames of calls that are nowhere else may go to the outbox ...
LEMMA ToOutbox ==
    ASSUME OnePlace, NEW fs, Once(outbox'), Range(outbox') = Range(outbox) \cup Range(fs),
           \A x \in callers : x.call \in Calls,
           Within(queue', queue), performed' = performed, wire' = wire,
           Apart(fs, queue'), Apart(fs, performed), \A g \in Conns : Apart(fs, wire[g]),
           callers' = callers, InHand(fs)
    PROVE  OnePlace'
BY Zenon DEF OnePlace, Within, Apart, InHand

\* ... or to one wire, when what is left in the outbox is not among them.
LEMMA ToWire ==
    ASSUME OnePlace, NEW fs,
           \A g \in Conns : /\ Once(wire'[g])
                            /\ g # conn => wire'[g] = wire[g]
                            /\ Range(wire'[g]) \subseteq Range(wire[g]) \cup Range(fs),
           \A x \in callers : x.call \in Calls,
           Within(queue', queue), Within(outbox', outbox), performed' = performed,
           Apart(fs, queue'), Apart(fs, outbox'), Apart(fs, performed),
           \A g \in Conns : Apart(fs, wire[g]),
           callers' = callers, InHand(fs)
    PROVE  OnePlace'
<1>1. \A g \in Conns : Apart(wire'[g], queue') /\ Apart(wire'[g], outbox')
                       /\ Apart(wire'[g], performed')
      BY Zenon DEF OnePlace, Within, Apart
<1>2. \A g \in Conns, h \in Conns : h # g => Apart(wire'[g], wire'[h])
  <2> SUFFICES ASSUME NEW g \in Conns, NEW h \in Conns, h # g
               PROVE  Apart(wire'[g], wire'[h])
      BY Zenon
  <2>1. CASE g # conn /\ h # conn
        BY <2>1, Zenon DEF OnePlace
  <2>2. CASE g = conn
        BY <2>2, Zenon DEF OnePlace, Apart
  <2>3. CASE h = conn
        BY <2>3, Zenon DEF OnePlace, Apart
  <2> QED BY <2>1, <2>2, <2>3, Zenon
<1>3. /\ InHand(queue)' /\ InHand(outbox)' /\ InHand(performed)'
      /\ \A g \in Conns : InHand(wire[g])'
      BY Zenon DEF OnePlace, Within, InHand
<1>4. /\ Once(queue') /\ Once(outbox') /\ Once(performed')
      /\ Apart(queue', outbox') /\ Apart(queue', performed')
      /\ Apart(outbox', performed')
      BY Zenon DEF OnePlace, Within, Apart
<1> QED BY <1>1, <1>2, <1>3, <1>4, Zenon DEF OnePlace

\* Wired appends to the wire of the current connection, or nothing.
LEMMA WiredFacts ==
    ASSUME Types, NEW fs \in Seq(Frame)
    PROVE  /\ Wired(fs) \in [Conns -> Seq(Frame)]
           /\ \A g \in Conns :
                 /\ g # conn => Wired(fs)[g] = wire[g]
                 /\ Range(Wired(fs)[g]) \subseteq Range(wire[g]) \cup Range(fs)
                 /\ (Once(wire[g]) /\ Once(fs) /\ Apart(wire[g], fs))
                       => Once(Wired(fs)[g])
<1>1. CASE link = "down" \/ broken
      BY <1>1, Zenon DEF Types, Wired
<1>2. CASE ~(link = "down" \/ broken)
  <2>1. conn \in Conns /\ wire[conn] \in Seq(Frame)
        BY <1>2, Zenon DEF Types
  <2>2. Wired(fs) = [wire EXCEPT ![conn] = wire[conn] \o fs]
        BY <1>2, Zenon DEF Wired
  <2>3. /\ wire[conn] \o fs \in Seq(Frame)
        /\ Range(wire[conn] \o fs) = Range(wire[conn]) \cup Range(fs)
        /\ (Once(wire[conn]) /\ Once(fs) /\ Apart(wire[conn], fs))
              => Once(wire[conn] \o fs)
        BY <2>1, ConcatFacts, SMT, Z3
  <2>4. Wired(fs) \in [Conns -> Seq(Frame)] /\ Wired(fs)[conn] = wire[conn] \o fs
        BY <2>1, <2>2, <2>3, Zenon DEF Types
  <2>5. \A g \in Conns : g # conn => Wired(fs)[g] = wire[g]
        BY <2>2, Zenon DEF Types
  <2> QED BY <2>3, <2>4, <2>5, Zenon
<1> QED BY <1>1, <1>2, Zenon

\* What a caller is told changes no other outcome, and none to "none".
LEMMA ToldFacts ==
    ASSUME Types, NEW cs, NEW what \in Outcome
    PROVE  /\ Told(cs, what) \in [Calls -> Outcome]
           /\ \A c \in Calls : Told(cs, what)[c] = IF c \in cs THEN what ELSE outcome[c]
BY Zenon DEF Told, Types

LEMMA FrameFacts ==
    /\ AUTH \in Frame /\ AUTH \notin Calls /\ Calls \subseteq Frame
    /\ 0 \notin Calls /\ 0 \notin Conns
    /\ Conns \subseteq Nat /\ Seq(Calls) \subseteq Seq(Frame)
<1>1. AUTH \in Frame /\ AUTH \notin Calls /\ Calls \subseteq Frame
      /\ 0 \notin Calls /\ 0 \notin Conns
      /\ Conns \subseteq Nat
      BY ClientAssumption, Zenon DEF AUTH, Frame
<1>2. Seq(Calls) \subseteq Seq(Frame)
      BY <1>1, SMT, Z3
<1> QED BY <1>1, <1>2, Zenon

LEMMA NumberFacts ==
    ASSUME Types
    PROVE  /\ conn \in Nat /\ \A g \in Conns : g \in Nat
           /\ \A c \in Calls : lostIn[c] \in Nat
<1>1. \A x \in Conns \cup {0} : x \in Nat
      BY FrameFacts, SMT, Z3
<1>2. conn \in Conns \cup {0} /\ \A c \in Calls : lostIn[c] \in Conns \cup {0}
      BY Zenon DEF Types
<1> QED BY <1>1, <1>2, Zenon

LEMMA CallerFacts ==
    ASSUME Types
    PROVE  \A x \in callers : x.call \in Calls
BY Zenon DEF Types

-----------------------------------------------------------------------------
(* The steps *)

places == <<callers, queue, outbox, wire, performed>>

\* Steps that move no frame of a call: what is left to show is about outcomes.
LEMMA QuietStep ==
    ASSUME IndInv, UNCHANGED <<places, kind, conn, handled, lostIn>>, Types',
           kind = "java" \/ UNCHANGED flushing,
           \A g \in Conns, c \in Calls :
              RESULT(c) \in Range(back'[g]) => RESULT(c) \in Range(back[g]),
           \A c \in Calls : \/ outcome'[c] = outcome[c]
                            \/ outcome'[c] \in {"refused", "timeout"}
                            \/ outcome'[c] = "ok" /\ c \in Range(performed)
    PROVE  IndInv'
<1>1. OnePlace'
      BY Zenon DEF IndInv, OnePlace, InHand, places
<1>2. Unmade'
      BY Zenon DEF IndInv, Unmade, Somewhere, places
<1>3. Answered'
      BY Zenon DEF IndInv, Answered, places
<1>4. Future'
      BY SMT, Z3 DEF IndInv, Future, places
<1>5. Gone'
      BY Zenon DEF IndInv, Gone, places
<1> QED BY <1>1, <1>2, <1>3, <1>4, <1>5, Zenon DEF IndInv

LEMMA TimeoutStep ==
    ASSUME IndInv, NEW c \in Calls, Timeout(c)
    PROVE  IndInv'
<1>1. /\ outcome' \in [Calls -> Outcome]
      /\ \A d \in Calls : outcome'[d] = IF d \in {c} THEN "timeout" ELSE outcome[d]
  <2>1. Types /\ outcome' = Told({c}, "timeout") /\ "timeout" \in Outcome
        BY Zenon DEF IndInv, Timeout, Outcome
  <2> QED BY <2>1, ToldFacts, SMT, Z3
<1>2. UNCHANGED <<places, kind, link, conn, handled, lostIn, back, flushing>>
      BY Zenon DEF Timeout, places, serverVars
<1>3. Types'
      BY <1>1, <1>2, Zenon DEF IndInv, Types, places
<1> QED BY <1>1, <1>2, <1>3, QuietStep, Zenon

LEMMA CloseStep ==
    ASSUME IndInv, Close
    PROVE  IndInv'
<1>1. UNCHANGED <<places, kind, link, conn, handled, lostIn, back, outcome, flushing>>
      BY Zenon DEF Close, places, serverVars
<1>2. Types'
      BY <1>1, Zenon DEF IndInv, Types, places
<1> QED BY <1>1, <1>2, QuietStep, Zenon

LEMMA WatchRefusedStep ==
    ASSUME IndInv, WatchRefused
    PROVE  IndInv'
<1>1. UNCHANGED <<places, kind, link, conn, handled, lostIn, outcome, flushing>>
      BY Zenon DEF WatchRefused, places, serverVars, clientVars
<1>2. conn \in Conns /\ back' = [back EXCEPT ![conn] = Append(back[conn], ERROR)]
      BY Zenon DEF WatchRefused, Answer, IndInv, Types
<1>3. /\ Append(back[conn], ERROR) \in Seq(Reply)
      /\ Range(Append(back[conn], ERROR)) = Range(back[conn]) \cup {ERROR}
  <2>1. ERROR \in Reply /\ back[conn] \in Seq(Reply)
        BY <1>2, Zenon DEF IndInv, Types, Reply
  <2> QED BY <2>1, AppendFacts, SMT, Z3
<1>4. Types'
      BY <1>1, <1>2, <1>3, Zenon DEF IndInv, Types, places
<1>5. \A g \in Conns, c \in Calls :
         RESULT(c) \in Range(back'[g]) => RESULT(c) \in Range(back[g])
      BY <1>2, <1>3, Zenon DEF IndInv, Types, RESULT, ERROR
<1> QED BY <1>1, <1>4, <1>5, QuietStep, Zenon

LEMMA OpenStep ==
    ASSUME IndInv, Open
    PROVE  IndInv'
<1>1. UNCHANGED <<places, kind, handled, lostIn, outcome, flushing>>
      BY Zenon DEF Open, places
<1>2. /\ conn' = conn + 1 /\ conn + 1 \in Conns /\ conn \in Nat
      /\ back' = [back EXCEPT ![conn + 1] = <<HELLO>>]
      BY NumberFacts, Zenon DEF Open, IndInv
<1>3. <<HELLO>> \in Seq(Reply) /\ Range(<<HELLO>>) = {HELLO}
      BY SingleFacts, Zenon DEF Reply
<1>4. Types'
      BY <1>1, <1>2, <1>3, Zenon DEF IndInv, Types, places
<1>5. OnePlace' /\ Unmade'
  <2>1. OnePlace'
        BY <1>1, Zenon DEF IndInv, OnePlace, InHand, places
  <2>2. Unmade'
        BY <1>1, Zenon DEF IndInv, Unmade, Somewhere, places
  <2> QED BY <2>1, <2>2, Zenon
<1>6. Answered'
  <2>1. \A g \in Conns, c \in Calls :
           RESULT(c) \in Range(back'[g]) => RESULT(c) \in Range(back[g])
        BY <1>2, <1>3, Zenon DEF IndInv, Types, RESULT, HELLO
  <2> QED BY <1>1, <2>1, Zenon DEF IndInv, Answered, places
<1>7. Future'
  <2>1. \A g \in Conns : g > conn' => g > conn
        BY <1>2, NumberFacts, SMT, Z3 DEF IndInv
  <2> QED BY <1>1, <2>1, Zenon DEF IndInv, Future, places
<1>8. Gone'
  <2>1. \A c \in Calls : lostIn[c] <= conn => lostIn[c] <= conn'
        BY <1>2, NumberFacts, SMT, Z3 DEF IndInv
  <2> QED BY <1>1, <2>1, Zenon DEF IndInv, Gone, places
<1> QED BY <1>4, <1>5, <1>6, <1>7, <1>8, Zenon DEF IndInv

LEMMA LoseStep ==
    ASSUME IndInv, Lose
    PROVE  IndInv'
<1>1. /\ UNCHANGED <<callers, queue, outbox, performed, kind, conn, link, handled,
                     lostIn, outcome, back, flushing>>
      /\ conn \in Conns
      BY Zenon DEF Lose, serverVars, IndInv, Types
<1>2. PICK n \in 0..Len(wire[conn]) :
         wire' = [wire EXCEPT ![conn] = SubSeq(wire[conn], 1, n)]
      BY Zenon DEF Lose
<1>3. /\ SubSeq(wire[conn], 1, n) \in Seq(Frame)
      /\ Range(SubSeq(wire[conn], 1, n)) \subseteq Range(wire[conn])
      /\ Within(SubSeq(wire[conn], 1, n), wire[conn])
      BY <1>1, PrefixFacts, Zenon DEF IndInv, Types
<1>4. Types'
      BY <1>1, <1>2, <1>3, Zenon DEF IndInv, Types
<1>5. \A g \in Conns : /\ Range(wire'[g]) \subseteq Range(wire[g])
                       /\ Within(wire'[g], wire[g])
                       /\ g # conn => wire'[g] = wire[g]
  <2> SUFFICES ASSUME NEW g \in Conns
               PROVE  /\ Range(wire'[g]) \subseteq Range(wire[g])
                      /\ Within(wire'[g], wire[g])
                      /\ g # conn => wire'[g] = wire[g]
      BY Zenon
  <2>1. CASE g = conn
        BY <2>1, <1>1, <1>2, <1>3, ZenonT(30) DEF IndInv, Types
  <2>2. CASE g # conn
    <3>1. wire'[g] = wire[g]
          BY <2>2, <1>2, Zenon DEF IndInv, Types
    <3> QED BY <3>1, Zenon DEF Within
  <2> QED BY <2>1, <2>2, Zenon
<1>6. OnePlace'
  <2>1. Within(queue', queue) /\ Within(outbox', outbox)
        BY <1>1, Zenon DEF Within
  <2> QED BY <1>1, <1>5, <2>1, CallerFacts, Dropped, ZenonT(30) DEF IndInv
<1>7. Unmade'
      BY <1>1, <1>5, Zenon DEF IndInv, Unmade, Somewhere
<1>8. Answered'
      BY <1>1, Zenon DEF IndInv, Answered
<1>9. Future'
      BY <1>1, <1>5, FrameFacts, SMT, Z3 DEF IndInv, Future
<1>10. Gone'
      BY <1>1, <1>5, Zenon DEF IndInv, Gone
<1> QED BY <1>4, <1>6, <1>7, <1>8, <1>9, <1>10, ZenonT(30) DEF IndInv

\* What GiveUp reports as lost is in no queue and on no later connection.
LEMMA GiveUpStep ==
    ASSUME IndInv, kind # "java", GiveUp, link' \in {link, "down"},
           UNCHANGED <<callers, outbox, wire, performed, kind, conn, handled, back,
                       flushing>>
    PROVE  IndInv'
<1> DEFINE cs == Range(pending)
<1>1. /\ queue' = <<>>
      /\ outcome' \in [Calls -> Outcome]
      /\ \A c \in Calls : outcome'[c] = IF c \in cs THEN "lost" ELSE outcome[c]
  <2>1. Types /\ "lost" \in Outcome /\ outcome' = Told(cs, "lost") /\ queue' = <<>>
        BY Zenon DEF IndInv, GiveUp, Outcome
  <2> QED BY <2>1, ToldFacts, SMT, Z3
<1>2. /\ lostIn' = [c \in Calls |-> IF c \in cs THEN conn ELSE lostIn[c]]
      /\ Range(<<>>) = {} /\ Once(<<>>)
      BY EmptyFacts, Zenon DEF GiveUp
<1> HIDE DEF cs
<1>3. Types'
      BY <1>1, <1>2, SMT, Z3 DEF IndInv, Types
<1>4. OnePlace'
  <2>1. /\ Within(queue', queue) /\ Within(outbox', outbox)
        /\ \A g \in Conns : Within(wire'[g], wire[g])
        BY <1>1, <1>2, Zenon DEF Within
  <2> QED BY <2>1, CallerFacts, Dropped, Zenon DEF IndInv
<1>5. Unmade'
      BY <1>1, <1>2, Zenon DEF IndInv, Unmade, Somewhere
<1>6. Answered'
      BY <1>1, Zenon DEF IndInv, Answered
<1>7. Future'
      BY <1>1, Zenon DEF IndInv, Future
<1>8. Gone'
  <2> SUFFICES ASSUME kind # "py", NEW c \in Calls, outcome'[c] = "lost"
               PROVE  /\ c \notin Range(queue') /\ lostIn'[c] <= conn'
                      /\ \A g \in Conns : g > lostIn'[c] =>
                            c \notin Range(wire'[g]) /\ c \notin Range(handled'[g])
      BY Zenon DEF Gone
  <2>1. c \notin Range(queue')
        BY <1>1, <1>2, Zenon
  <2>2. CASE c \in cs
    <3>1. lostIn'[c] = conn /\ conn \in Nat
          BY <2>2, <1>2, NumberFacts, Zenon DEF IndInv
    <3>2. \A g \in Conns : g > conn => wire[g] = <<>> /\ handled[g] = <<>>
          BY Zenon DEF IndInv, Future
    <3> QED BY <2>1, <3>1, <3>2, <1>2, SMT, Z3
  <2>3. CASE c \notin cs
    <3>1. lostIn'[c] = lostIn[c] /\ outcome[c] = "lost"
          BY <2>3, <1>1, <1>2, Zenon
    <3> QED BY <2>1, <3>1, Zenon DEF IndInv, Gone
  <2> QED BY <2>2, <2>3, Zenon
<1> QED BY <1>3, <1>4, <1>5, <1>6, <1>7, <1>8, ZenonT(30) DEF IndInv

LEMMA OpenFailsStep ==
    ASSUME IndInv, OpenFails
    PROVE  IndInv'
BY GiveUpStep, Zenon DEF OpenFails, serverVars

LEMMA OnDisconnectStep ==
    ASSUME IndInv, OnDisconnect
    PROVE  IndInv'
<1>1. /\ UNCHANGED <<callers, outbox, wire, performed, kind, conn, handled, back,
                     flushing>>
      /\ link' = "down"
      BY Zenon DEF OnDisconnect, serverVars
<1>2. CASE kind = "java"
  <2>1. UNCHANGED <<queue, outcome, lostIn>>
        BY <1>2, Zenon DEF OnDisconnect
  <2>2. Types'
        BY <1>1, <2>1, Zenon DEF IndInv, Types
  <2> QED BY <1>1, <2>1, <2>2, QuietStep, ZenonT(30) DEF places
<1>3. CASE kind # "java"
  <2>1. GiveUp
        BY <1>3, Zenon DEF OnDisconnect
  <2> QED BY <1>1, <1>3, <2>1, GiveUpStep, ZenonT(30)
<1> QED BY <1>2, <1>3, Zenon

\* New frames on the wire of the current connection.
LEMMA WireFacts ==
    ASSUME IndInv, NEW fs \in Seq(Frame), wire' = Wired(fs),
           Once(fs), InHand(fs), Apart(fs, queue'), Apart(fs, outbox'),
           Apart(fs, performed), \A g \in Conns : Apart(fs, wire[g]),
           Within(queue', queue), Within(outbox', outbox),
           UNCHANGED <<performed, callers>>
    PROVE  /\ wire' \in [Conns -> Seq(Frame)] /\ OnePlace'
           /\ \A g \in Conns : /\ g # conn => wire'[g] = wire[g]
                               /\ Range(wire'[g]) \subseteq Range(wire[g]) \cup Range(fs)
<1>1. Types /\ OnePlace
      BY Zenon DEF IndInv
<1>2. /\ wire' \in [Conns -> Seq(Frame)]
      /\ \A g \in Conns :
            /\ g # conn => wire'[g] = wire[g]
            /\ Range(wire'[g]) \subseteq Range(wire[g]) \cup Range(fs)
            /\ (Once(wire[g]) /\ Once(fs) /\ Apart(wire[g], fs)) => Once(wire'[g])
      BY <1>1, WiredFacts, ZenonT(30)
<1>3. \A g \in Conns : Once(wire'[g])
  <2>1. \A g \in Conns : Once(wire[g]) /\ Apart(wire[g], fs)
        BY <1>1, Zenon DEF OnePlace, Apart
  <2> QED BY <1>2, <2>1, ZenonT(30)
<1>4. OnePlace'
      BY <1>1, <1>2, <1>3, CallerFacts, ToWire, ZenonT(30)
<1> QED BY <1>2, <1>4, ZenonT(30)

\* Sent puts the frames on the wire (TypeScript) or in the outbox.
LEMMA SentFacts ==
    ASSUME IndInv, NEW fs \in Seq(Frame), Sent(fs),
           Once(fs), InHand(fs), Apart(fs, queue'), Apart(fs, outbox),
           Apart(fs, performed), \A g \in Conns : Apart(fs, wire[g]),
           Within(queue', queue), UNCHANGED <<performed, callers>>
    PROVE  /\ wire' \in [Conns -> Seq(Frame)] /\ outbox' \in Seq(Frame) /\ OnePlace'
           /\ Range(outbox') \subseteq Range(outbox) \cup Range(fs)
           /\ kind = "ts" => outbox' = outbox
           /\ \A g \in Conns : /\ g # conn => wire'[g] = wire[g]
                               /\ Range(wire'[g]) \subseteq Range(wire[g]) \cup Range(fs)
<1>1. Types /\ OnePlace /\ outbox \in Seq(Frame) /\ wire \in [Conns -> Seq(Frame)]
      BY Zenon DEF IndInv, Types
<1>2. CASE kind = "ts"
  <2>1. wire' = Wired(fs) /\ outbox' = outbox
        BY <1>2, Zenon DEF Sent
  <2>2. Within(outbox', outbox)
        BY <2>1, Zenon DEF Within
  <2> QED BY <1>1, <2>1, <2>2, WireFacts, ZenonT(30)
<1>3. CASE kind # "ts"
  <2>1. outbox' = outbox \o fs /\ wire' = wire
        BY <1>3, Zenon DEF Sent
  <2>2. /\ outbox' \in Seq(Frame) /\ Range(outbox') = Range(outbox) \cup Range(fs)
        /\ (Once(outbox) /\ Once(fs) /\ Apart(outbox, fs)) => Once(outbox')
        BY <1>1, <2>1, ConcatFacts, SMT, Z3
  <2>3. Once(outbox')
        BY <1>1, <2>2, Zenon DEF OnePlace, Apart
  <2>4. OnePlace'
        BY <1>1, <2>1, <2>2, <2>3, CallerFacts, ToOutbox, Zenon
  <2> QED BY <1>1, <1>3, <2>1, <2>2, <2>4, ZenonT(30)
<1> QED BY <1>2, <1>3, ZenonT(30)

\* AUTH is the frame of no call.
LEMMA AuthFacts ==
    ASSUME Types
    PROVE  /\ <<AUTH>> \in Seq(Frame) /\ Once(<<AUTH>>) /\ Range(<<AUTH>>) = {AUTH}
           /\ InHand(<<AUTH>>) /\ \A q : Apart(<<AUTH>>, q)
<1>1. /\ AUTH \in Frame /\ AUTH \notin Calls
      /\ <<AUTH>> \in Seq(Frame) /\ Once(<<AUTH>>) /\ Range(<<AUTH>>) = {AUTH}
      BY FrameFacts, SingleFacts, ZenonT(30)
<1>2. InHand(<<AUTH>>)
      BY <1>1, CallerFacts, ZenonT(30) DEF InHand
<1>3. \A q : Apart(<<AUTH>>, q)
      BY <1>1, ZenonT(30) DEF Apart
<1> QED BY <1>1, <1>2, <1>3, ZenonT(30)

\* Frames sent that are of no lost call and of calls that were made.
LEMMA SendingStep ==
    ASSUME IndInv, NEW fs \in Seq(Frame), Types', OnePlace',
           UNCHANGED <<performed, callers, kind, conn, handled, lostIn>>,
           kind = "java" \/ UNCHANGED flushing,
           \A g \in Conns, c \in Calls :
              RESULT(c) \in Range(back'[g]) => RESULT(c) \in Range(back[g]),
           \A c \in Calls : outcome'[c] \in {outcome[c], "pending"},
           \A c \in Calls : c \in Range(queue') => c \in Range(queue),
           kind = "ts" => outbox' = outbox,
           \A c \in Calls : c \in Range(outbox') => c \in Range(outbox) \cup Range(fs),
           \A g \in Conns : /\ g # conn => wire'[g] = wire[g]
                            /\ Range(wire'[g]) \subseteq Range(wire[g]) \cup Range(fs),
           \A c \in Calls : c \in Range(fs) =>
              /\ outcome'[c] # "none"
              /\ (kind = "ts" => outcome'[c] # "lost")
    PROVE  IndInv'
<1>1. Unmade'
      BY Zenon DEF IndInv, Unmade, Somewhere
<1>2. Answered'
      BY Zenon DEF IndInv, Answered
<1>3. Future'
  <2>1. \A g \in Conns : g > conn => g # conn
        BY NumberFacts, SMTT(30), Z3T(30) DEF IndInv
  <2> QED BY <2>1, SMTT(30), Z3T(30) DEF IndInv, Future
<1>4. Gone'
  <2> SUFFICES ASSUME kind # "py", NEW c \in Calls, outcome'[c] = "lost"
               PROVE  /\ c \notin Range(queue') /\ lostIn'[c] <= conn'
                      /\ \A g \in Conns : g > lostIn'[c] =>
                            c \notin Range(wire'[g]) /\ c \notin Range(handled'[g])
      BY Zenon DEF Gone
  <2>1. outcome[c] = "lost"
        BY Zenon
  <2>2. kind = "ts"
        BY <2>1, ZenonT(30) DEF IndInv, Types, Future
  <2>3. c \notin Range(fs)
        BY <2>2, ZenonT(30)
  <2> QED BY <2>1, <2>3, ZenonT(30) DEF IndInv, Gone
<1> QED BY <1>1, <1>2, <1>3, <1>4, ZenonT(30) DEF IndInv

LEMMA TokenArrivesStep ==
    ASSUME IndInv, TokenArrives
    PROVE  IndInv'
<1>1. /\ UNCHANGED <<callers, queue, outbox, performed, kind, conn, link, handled,
                     lostIn, outcome, back, flushing>>
      /\ wire' = Wired(<<AUTH>>)
      BY Zenon DEF TokenArrives, serverVars
<1>2. /\ <<AUTH>> \in Seq(Frame) /\ Once(<<AUTH>>) /\ Range(<<AUTH>>) = {AUTH}
      /\ InHand(<<AUTH>>) /\ \A q : Apart(<<AUTH>>, q)
      BY AuthFacts, Zenon DEF IndInv
<1>3. Within(queue', queue) /\ Within(outbox', outbox)
      BY <1>1, ZenonT(30) DEF Within
<1>4. /\ wire' \in [Conns -> Seq(Frame)] /\ OnePlace'
      /\ \A g \in Conns : /\ g # conn => wire'[g] = wire[g]
                          /\ Range(wire'[g]) \subseteq Range(wire[g]) \cup Range(<<AUTH>>)
      BY <1>1, <1>2, <1>3, WireFacts, Zenon
<1>5. Types'
      BY <1>1, <1>4, Zenon DEF IndInv, Types
<1>6. \A c \in Calls : c \notin Range(<<AUTH>>)
      BY <1>2, FrameFacts, ZenonT(30)
<1> QED BY <1>1, <1>2, <1>4, <1>5, <1>6, SendingStep, Zenon

LEMMA SenderStep ==
    ASSUME IndInv, Sender
    PROVE  IndInv'
<1>1. /\ UNCHANGED <<callers, queue, performed, kind, conn, link, handled, lostIn,
                     outcome, back, flushing>>
      /\ outbox # <<>> /\ outbox' = Tail(outbox) /\ wire' = Wired(<<Head(outbox)>>)
      BY Zenon DEF Sender, serverVars
<1>2. PICK x : x = Head(outbox)
      BY Zenon
<1>3. /\ outbox' \in Seq(Frame) /\ x \in Frame /\ x \in Range(outbox)
      /\ Range(outbox') \subseteq Range(outbox) /\ Once(outbox')
      /\ x \in Calls => x \notin Range(outbox')
  <2>1. outbox \in Seq(Frame) /\ Once(outbox)
        BY Zenon DEF IndInv, Types, OnePlace
  <2> QED BY <1>1, <1>2, <2>1, TailFacts, ZenonT(30)
<1>4. <<x>> \in Seq(Frame) /\ Range(<<x>>) = {x} /\ Once(<<x>>)
      BY <1>3, SingleFacts, ZenonT(30)
<1>5. /\ InHand(<<x>>) /\ Apart(<<x>>, queue') /\ Apart(<<x>>, outbox')
      /\ Apart(<<x>>, performed) /\ \A g \in Conns : Apart(<<x>>, wire[g])
      /\ Within(queue', queue) /\ Within(outbox', outbox)
      BY <1>1, <1>3, <1>4, ZenonT(60) DEF IndInv, OnePlace, InHand, Apart, Within
<1>6. /\ wire' \in [Conns -> Seq(Frame)] /\ OnePlace'
      /\ \A g \in Conns : /\ g # conn => wire'[g] = wire[g]
                          /\ Range(wire'[g]) \subseteq Range(wire[g]) \cup Range(<<x>>)
      BY <1>1, <1>2, <1>4, <1>5, WireFacts, Zenon
<1>7. Types'
      BY <1>1, <1>3, <1>6, Zenon DEF IndInv, Types
<1>8. kind # "ts"
      BY <1>1, ZenonT(30) DEF IndInv, Future
<1>9. \A c \in Calls : c \in Range(<<x>>) => outcome'[c] # "none"
      BY <1>1, <1>3, <1>4, ZenonT(60) DEF IndInv, Unmade, Somewhere
<1> QED BY <1>1, <1>3, <1>4, <1>6, <1>7, <1>8, <1>9, SendingStep, Zenon

LEMMA FlushStep ==
    ASSUME IndInv, Flush
    PROVE  IndInv'
<1>1. /\ UNCHANGED <<callers, wire, performed, kind, conn, link, handled, lostIn,
                     outcome, back>>
      /\ outbox' = outbox \o queue /\ queue' = <<>>
      BY Zenon DEF Flush, serverVars
<1>2. PICK fs : fs = queue
      BY Zenon
<1>3. /\ fs \in Seq(Frame) /\ outbox \in Seq(Frame)
      BY <1>2, FrameFacts, Zenon DEF IndInv, Types
<1>4. /\ outbox' \in Seq(Frame) /\ Range(outbox') = Range(outbox) \cup Range(fs)
      /\ (Once(outbox) /\ Once(fs) /\ Apart(outbox, fs)) => Once(outbox')
      BY <1>1, <1>2, <1>3, ConcatFacts, SMT, Z3
<1>5. Range(queue') = {} /\ Once(queue') /\ queue' \in Seq(Calls)
      BY <1>1, EmptyFacts, Zenon
<1>6. OnePlace'
  <2>1. /\ Once(outbox') /\ Within(queue', queue) /\ Apart(fs, queue')
        /\ Apart(fs, performed) /\ InHand(fs) /\ \A g \in Conns : Apart(fs, wire[g])
        BY <1>2, <1>4, <1>5, Zenon DEF IndInv, OnePlace, Within, Apart
  <2> QED BY <1>1, <1>4, <2>1, CallerFacts, ToOutbox, Zenon DEF IndInv
<1>7. Types'
      BY <1>1, <1>4, <1>5, ZenonT(30) DEF IndInv, Types
<1>8. \A c \in Calls : c \in Range(fs) => outcome[c] # "none"
      BY <1>2, Zenon DEF IndInv, Unmade, Somewhere
<1>9. kind = "java"
      BY Zenon DEF IndInv, Future, Flush
<1> QED BY <1>1, <1>3, <1>4, <1>5, <1>6, <1>7, <1>8, <1>9, SendingStep, ZenonT(30)

LEMMA CallStep ==
    ASSUME IndInv, NEW c \in Calls, Call(c)
    PROVE  IndInv'
<1>1. /\ UNCHANGED <<performed, kind, conn, link, handled, lostIn, back, flushing>>
      /\ outcome[c] = "none"
      /\ outcome' = [outcome EXCEPT ![c] = "pending"]
      BY Zenon DEF Call, NextCall, serverVars
<1>2. /\ outcome' \in [Calls -> Outcome] /\ outcome'[c] = "pending"
      /\ \A d \in Calls : d # c => outcome'[d] = outcome[d]
      BY <1>1, Zenon DEF IndInv, Types, Outcome
<1>3. /\ c \notin Range(queue) /\ c \notin Range(outbox) /\ c \notin Range(performed)
      /\ \A g \in Conns : c \notin Range(wire[g])
      /\ \A x \in callers : x.call # c
      BY <1>1, Zenon DEF IndInv, Unmade, Somewhere
<1>4. Answered'
      BY <1>1, <1>2, Zenon DEF IndInv, Answered
<1>5. CASE kind = "java"
  <2> DEFINE new == [call |-> c, authenticated |-> link = "ready"]
  <2>1. UNCHANGED <<queue, wire, outbox>> /\ callers' = callers \cup {new}
        BY <1>5, ZenonT(60) DEF Call
  <2>2. new \in [call : Calls, authenticated : BOOLEAN] /\ new.call = c
        BY ZenonT(60)
  <2> HIDE DEF new
  <2>3. Types'
        BY <1>1, <1>2, <2>1, <2>2, Zenon DEF IndInv, Types
  <2>4. OnePlace'
        BY <1>1, <1>3, <2>1, <2>2, ZenonT(60) DEF IndInv, OnePlace, InHand
  <2>5. Unmade'
        BY <1>1, <1>2, <2>1, <2>2, Zenon DEF IndInv, Unmade, Somewhere
  <2>6. Future'
        BY <1>1, <1>2, <1>5, <2>1, ZenonT(30) DEF IndInv, Future
  <2>7. Gone'
        BY <1>1, <1>2, <2>1, ZenonT(30) DEF IndInv, Gone
  <2> QED BY <1>4, <2>3, <2>4, <2>5, <2>6, <2>7, ZenonT(30) DEF IndInv
<1>6. CASE kind # "java" /\ link = "ready"
  <2>1. UNCHANGED <<queue, callers>> /\ Sent(<<c>>)
        BY <1>6, Zenon DEF Call
  <2>2. <<c>> \in Seq(Frame) /\ Range(<<c>>) = {c} /\ Once(<<c>>)
        BY FrameFacts, SingleFacts, ZenonT(30)
  <2>3. /\ InHand(<<c>>) /\ Apart(<<c>>, queue') /\ Apart(<<c>>, outbox)
        /\ Apart(<<c>>, performed) /\ \A g \in Conns : Apart(<<c>>, wire[g])
        /\ Within(queue', queue)
        BY <1>1, <1>3, <2>1, <2>2, ZenonT(30) DEF InHand, Apart, Within
  <2>4. /\ wire' \in [Conns -> Seq(Frame)] /\ outbox' \in Seq(Frame) /\ OnePlace'
        /\ Range(outbox') \subseteq Range(outbox) \cup Range(<<c>>)
        /\ kind = "ts" => outbox' = outbox
        /\ \A g \in Conns : /\ g # conn => wire'[g] = wire[g]
                            /\ Range(wire'[g]) \subseteq Range(wire[g]) \cup Range(<<c>>)
        BY <1>1, <2>1, <2>2, <2>3, SentFacts, Zenon
  <2>5. Types'
        BY <1>1, <1>2, <2>1, <2>4, ZenonT(60) DEF IndInv, Types
  <2> QED BY <1>1, <1>2, <2>1, <2>2, <2>4, <2>5, SendingStep, Zenon
<1>7. CASE kind # "java" /\ link # "ready"
  <2>1. UNCHANGED <<wire, outbox, callers>> /\ queue' = Append(queue, c)
        BY <1>7, Zenon DEF Call
  <2>2. /\ queue' \in Seq(Calls) /\ Range(queue') = Range(queue) \cup {c}
        /\ Once(queue) => Once(queue')
        BY <1>3, <2>1, AppendFacts, SMT, Z3 DEF IndInv, Types
  <2>3. Types'
        BY <1>1, <1>2, <2>1, <2>2, ZenonT(60) DEF IndInv, Types
  <2>4. OnePlace'
        BY <1>1, <1>3, <2>1, <2>2, SMTT(30), Z3T(30) DEF IndInv, OnePlace, InHand, Apart
  <2>5. Unmade'
        BY <1>1, <1>2, <2>1, <2>2, ZenonT(30) DEF IndInv, Unmade, Somewhere
  <2>6. Future'
        BY <1>1, <1>2, <2>1, ZenonT(30) DEF IndInv, Future
  <2>7. Gone'
        BY <1>1, <1>2, <2>1, <2>2, ZenonT(30) DEF IndInv, Gone
  <2> QED BY <1>4, <2>3, <2>4, <2>5, <2>6, <2>7, Zenon DEF IndInv
<1> QED BY <1>5, <1>6, <1>7, ZenonT(30)

LEMMA EnqueueStep ==
    ASSUME IndInv, Enqueue
    PROVE  IndInv'
<1>1. /\ UNCHANGED <<wire, performed, kind, conn, link, handled, lostIn, outcome,
                     back, flushing>>
      BY Zenon DEF Enqueue, serverVars
<1>2. PICK y \in callers :
         /\ callers' = callers \ {y}
         /\ IF y.authenticated THEN outbox' = Append(outbox, y.call) /\ UNCHANGED queue
            ELSE queue' = Append(queue, y.call) /\ UNCHANGED outbox
      BY Zenon DEF Enqueue
<1> DEFINE x == y.call
<1>3. /\ x \in Calls /\ x \in Frame /\ x \notin Range(queue) /\ x \notin Range(outbox)
      /\ x \notin Range(performed) /\ \A g \in Conns : x \notin Range(wire[g])
      /\ \A z \in callers' : z \in callers /\ z.call # x
      BY <1>2, CallerFacts, FrameFacts, ZenonT(30) DEF IndInv, OnePlace, InHand
<1>4. outcome[x] # "none"
      BY <1>2, <1>3, Zenon DEF IndInv, Unmade, Somewhere
<1>s. IF y.authenticated THEN outbox' = Append(outbox, x) /\ UNCHANGED queue
      ELSE queue' = Append(queue, x) /\ UNCHANGED outbox
      BY <1>2, Zenon
<1> HIDE DEF x
<1>5. Answered'
      BY <1>1, Zenon DEF IndInv, Answered
<1>6. kind # "ts"
      BY <1>2, Zenon DEF IndInv, Future
<1>7. Future'
      BY <1>1, <1>6, Zenon DEF IndInv, Future
<1>8. Gone'
      BY <1>1, <1>6, Zenon DEF IndInv, Gone, Future, Types
<1>9. CASE y.authenticated
  <2>1. outbox' = Append(outbox, x) /\ queue' = queue
        BY <1>9, <1>s, ZenonT(30)
  <2>2. /\ outbox' \in Seq(Frame) /\ Range(outbox') = Range(outbox) \cup {x}
        /\ Once(outbox) => Once(outbox')
        BY <1>3, <2>1, AppendFacts, SMTT(30), Z3T(30) DEF IndInv, Types
  <2>3. Types'
        BY <1>1, <1>3, <2>1, <2>2, Zenon DEF IndInv, Types
  <2>4. OnePlace'
        BY <1>1, <1>3, <2>1, <2>2, Zenon DEF IndInv, OnePlace, InHand, Apart
  <2>5. Unmade'
        BY <1>1, <1>3, <1>4, <2>1, <2>2, FrameFacts, Zenon DEF IndInv, Unmade, Somewhere
  <2> QED BY <1>5, <1>7, <1>8, <2>3, <2>4, <2>5, ZenonT(30) DEF IndInv
<1>10. CASE ~y.authenticated
  <2>1. queue' = Append(queue, x) /\ outbox' = outbox
        BY <1>10, <1>s, ZenonT(30)
  <2>2. /\ queue' \in Seq(Calls) /\ Range(queue') = Range(queue) \cup {x}
        /\ Once(queue) => Once(queue')
        BY <1>3, <2>1, AppendFacts, SMTT(30), Z3T(30) DEF IndInv, Types
  <2>3. Types'
        BY <1>1, <1>3, <2>1, <2>2, Zenon DEF IndInv, Types
  <2>4. OnePlace'
        BY <1>1, <1>3, <2>1, <2>2, Zenon DEF IndInv, OnePlace, InHand, Apart
  <2>5. Unmade'
        BY <1>1, <1>3, <1>4, <2>1, <2>2, FrameFacts, ZenonT(30) DEF IndInv, Unmade, Somewhere
  <2> QED BY <1>5, <1>7, <1>8, <2>3, <2>4, <2>5, Zenon DEF IndInv
<1> QED BY <1>9, <1>10, Zenon

\* The client has taken a frame and is ready: it flushes its queue, or in Java
\* will do so.
LEMMA ReadyStep ==
    ASSUME IndInv, Ready, conn \in Conns, back' \in [Conns -> Seq(Reply)],
           \A g \in Conns, c \in Calls :
              RESULT(c) \in Range(back'[g]) => RESULT(c) \in Range(back[g]),
           UNCHANGED <<kind, conn, callers, lostIn, handled, performed>>
    PROVE  IndInv'
<1>1. outcome' = outcome
      BY Zenon DEF Ready
<1>2. CASE kind = "java"
  <2>1. UNCHANGED <<queue, wire, outbox>>
        BY <1>2, Zenon DEF Ready
  <2>2. Types'
        BY <1>1, <2>1, ZenonT(30) DEF IndInv, Types
  <2> QED BY <1>1, <1>2, <2>1, <2>2, QuietStep, ZenonT(30) DEF places
<1>3. CASE kind # "java"
  <2>1. queue' = <<>> /\ flushing' = flushing /\ Sent(queue)
        BY <1>3, Zenon DEF Ready
  <2>2. PICK fs : fs = queue
        BY Zenon
  <2>3. fs \in Seq(Frame) /\ Sent(fs)
        BY <2>1, <2>2, FrameFacts, ZenonT(30) DEF IndInv, Types
  <2>4. Range(queue') = {} /\ Once(queue') /\ queue' \in Seq(Calls)
        BY <2>1, EmptyFacts, Zenon
  <2>5. /\ Once(fs) /\ InHand(fs) /\ Apart(fs, queue') /\ Apart(fs, outbox)
        /\ Apart(fs, performed) /\ Within(queue', queue)
        /\ \A g \in Conns : Apart(fs, wire[g])
        BY <2>2, <2>4, ZenonT(60) DEF IndInv, OnePlace, Apart, Within
  <2>6. /\ wire' \in [Conns -> Seq(Frame)] /\ outbox' \in Seq(Frame) /\ OnePlace'
        /\ Range(outbox') \subseteq Range(outbox) \cup Range(fs)
        /\ kind = "ts" => outbox' = outbox
        /\ \A g \in Conns : /\ g # conn => wire'[g] = wire[g]
                            /\ Range(wire'[g]) \subseteq Range(wire[g]) \cup Range(fs)
        BY <2>3, <2>5, SentFacts, Zenon
  <2>7. Types'
        BY <1>1, <2>4, <2>6, ZenonT(30) DEF IndInv, Types
  <2>8. \A c \in Calls : c \in Range(fs) => outcome[c] # "none"
        BY <2>2, ZenonT(60) DEF IndInv, Unmade, Somewhere
  <2>9. kind = "ts" => \A c \in Calls : c \in Range(fs) => outcome[c] # "lost"
        BY <2>2, Zenon DEF IndInv, Gone
  <2> QED BY <1>1, <2>1, <2>3, <2>4, <2>6, <2>7, <2>8, <2>9, SendingStep, Zenon
<1> QED BY <1>2, <1>3, Zenon

LEMMA ReceiveStep ==
    ASSUME IndInv, Receive
    PROVE  IndInv'
<1>1. /\ UNCHANGED <<kind, conn, callers, lostIn, handled, performed>>
      /\ conn \in Conns /\ back[conn] # <<>>
      /\ back' = [back EXCEPT ![conn] = Tail(back[conn])]
      BY Zenon DEF Receive, serverVars, IndInv, Types
<1>2. /\ Tail(back[conn]) \in Seq(Reply) /\ Head(back[conn]) \in Range(back[conn])
      /\ Range(Tail(back[conn])) \subseteq Range(back[conn])
  <2>1. back[conn] \in Seq(Reply)
        BY <1>1, Zenon DEF IndInv, Types
  <2> QED BY <1>1, <2>1, TailFacts, Zenon
<1>3. /\ back' \in [Conns -> Seq(Reply)]
      /\ \A g \in Conns, c \in Calls :
            RESULT(c) \in Range(back'[g]) => RESULT(c) \in Range(back[g])
      BY <1>1, <1>2, Zenon DEF IndInv, Types
<1>4. ASSUME Ready PROVE IndInv'
      BY <1>1, <1>3, <1>4, ReadyStep, ZenonT(30)
<1>5. ASSUME OnHello, auth PROVE IndInv'
  <2>1. UNCHANGED <<link, outcome, queue, flushing>>
        BY <1>5, Zenon DEF OnHello
  <2>2. CASE kind = "ts"
    <3>1. UNCHANGED <<wire, outbox>>
          BY <1>5, <2>2, ZenonT(30) DEF OnHello
    <3>2. Types'
          BY <1>1, <1>3, <2>1, <3>1, ZenonT(30) DEF IndInv, Types
    <3> QED BY <1>1, <1>3, <2>1, <3>1, <3>2, QuietStep, ZenonT(30) DEF places
  <2>3. CASE kind # "ts"
    <3>1. Sent(<<AUTH>>)
          BY <1>5, <2>3, ZenonT(30) DEF OnHello
    <3>2. /\ <<AUTH>> \in Seq(Frame) /\ Once(<<AUTH>>) /\ Range(<<AUTH>>) = {AUTH}
          /\ InHand(<<AUTH>>) /\ \A q : Apart(<<AUTH>>, q)
          BY AuthFacts, Zenon DEF IndInv
    <3>3. Within(queue', queue)
          BY <2>1, ZenonT(30) DEF Within
    <3>4. /\ wire' \in [Conns -> Seq(Frame)] /\ outbox' \in Seq(Frame) /\ OnePlace'
          /\ Range(outbox') \subseteq Range(outbox) \cup Range(<<AUTH>>)
          /\ kind = "ts" => outbox' = outbox
          /\ \A g \in Conns :
                /\ g # conn => wire'[g] = wire[g]
                /\ Range(wire'[g]) \subseteq Range(wire[g]) \cup Range(<<AUTH>>)
          BY <1>1, <3>1, <3>2, <3>3, SentFacts, ZenonT(30)
    <3>5. Types'
          BY <1>1, <1>3, <2>1, <3>4, ZenonT(30) DEF IndInv, Types
    <3>6. \A c \in Calls : c \notin Range(<<AUTH>>)
          BY <3>2, FrameFacts, Zenon
    <3> QED BY <1>1, <1>3, <2>1, <3>2, <3>4, <3>5, <3>6, SendingStep, Zenon
  <2> QED BY <2>2, <2>3, ZenonT(30)
<1>6. ASSUME OnError PROVE IndInv'
  <2>1. UNCHANGED <<link, queue, outbox, flushing, wire>>
        BY <1>6, Zenon DEF OnError
  <2>2. /\ outcome' \in [Calls -> Outcome]
        /\ \A c \in Calls : outcome'[c] \in {outcome[c], "refused"}
    <3>1. CASE outcome' = outcome
          BY <3>1, Zenon DEF IndInv, Types
    <3>2. CASE outcome' = Told({Head(pending)}, "refused")
      <4>1. Types /\ "refused" \in Outcome
            BY Zenon DEF IndInv, Outcome
      <4> QED BY <3>2, <4>1, ToldFacts, SMT, Z3
    <3> QED BY <1>6, <3>1, <3>2, Zenon DEF OnError
  <2>3. Types'
        BY <1>1, <1>3, <2>1, <2>2, Zenon DEF IndInv, Types
  <2> QED BY <1>1, <1>3, <2>1, <2>2, <2>3, QuietStep, ZenonT(30) DEF places
<1>7. ASSUME NEW c \in Calls, Head(back[conn]) = RESULT(c), OnResult(c) PROVE IndInv'
  <2>1. UNCHANGED <<link, queue, outbox, flushing, wire>>
        BY <1>7, ZenonT(30) DEF OnResult
  <2>2. c \in Range(performed)
        BY <1>1, <1>2, <1>7, ZenonT(30) DEF IndInv, Answered
  <2>3. /\ outcome' \in [Calls -> Outcome]
        /\ \A d \in Calls : outcome'[d] = IF d \in {c} \cap Range(pending) THEN "ok"
                                          ELSE outcome[d]
    <3>1. /\ Types /\ "ok" \in Outcome
          /\ outcome' = Told({c} \cap Range(pending), "ok")
          BY <1>7, Zenon DEF IndInv, Outcome, OnResult
    <3> QED BY <3>1, ToldFacts, SMT, Z3
  <2>4. Types'
        BY <1>1, <1>3, <2>1, <2>3, Zenon DEF IndInv, Types
  <2>5. \A d \in Calls : outcome'[d] = outcome[d]
                         \/ (outcome'[d] = "ok" /\ d \in Range(performed))
        BY <2>2, <2>3, ZenonT(30)
  <2> QED BY <1>1, <1>3, <2>1, <2>4, <2>5, QuietStep, ZenonT(30) DEF places
<1> QED BY <1>4, <1>5, <1>6, <1>7, ZenonT(30) DEF Receive, OnHello

LEMMA ServerStepStep ==
    ASSUME IndInv, NEW g \in Conns, ServerStep(g)
    PROVE  IndInv'
<1>1. /\ UNCHANGED <<callers, queue, outbox, kind, conn, link, lostIn, outcome, flushing>>
      /\ wire[g] # <<>> /\ wire' = [wire EXCEPT ![g] = Tail(wire[g])]
      BY Zenon DEF ServerStep, clientVars
<1>2. PICK f : f = Head(wire[g])
      BY Zenon
<1>3. /\ Tail(wire[g]) \in Seq(Frame) /\ f \in Frame /\ f \in Range(wire[g])
      /\ Range(Tail(wire[g])) \subseteq Range(wire[g])
      /\ Once(Tail(wire[g]))
      /\ f \in Calls => f \notin Range(Tail(wire[g]))
  <2>1. wire[g] \in Seq(Frame) /\ Once(wire[g])
        BY ZenonT(30) DEF IndInv, Types, OnePlace
  <2> QED BY <1>1, <1>2, <2>1, TailFacts, ZenonT(30)
<1>4. /\ wire' \in [Conns -> Seq(Frame)] /\ wire'[g] = Tail(wire[g])
      /\ \A h \in Conns : h # g => wire'[h] = wire[h]
      BY <1>1, <1>3, ZenonT(30) DEF IndInv, Types
<1>5. \A h \in Conns : Range(wire'[h]) \subseteq Range(wire[h])
                       /\ Within(wire'[h], wire[h])
      BY <1>3, <1>4, Zenon DEF Within
<1>6. g \in Nat /\ conn \in Nat /\ ~(g > conn)
      BY <1>1, NumberFacts, ZenonT(30) DEF IndInv, Future
<1>7. \A y \in Reply : /\ Append(back[g], y) \in Seq(Reply)
                       /\ Range(Append(back[g], y)) = Range(back[g]) \cup {y}
      BY AppendFacts, SMT, Z3 DEF IndInv, Types
<1>8. AUTH_OK \in Reply /\ ERROR \in Reply /\ \A c \in Calls : RESULT(c) \in Reply
      BY Zenon DEF Reply
<1>9. \A c \in Calls : RESULT(c) # AUTH_OK /\ RESULT(c) # ERROR
                       /\ \A d \in Calls : RESULT(c) = RESULT(d) => c = d
      BY Zenon DEF RESULT, AUTH_OK, ERROR
<1>10. PICK y \in Reply :
          \/ back' = back
          \/ /\ back' = [back EXCEPT ![g] = Append(back[g], y)]
             /\ \A c \in Calls : y = RESULT(c) => c = f /\ performed' = Append(performed, f)
  <2>1. CASE Handshake(g, f)
        BY <1>8, <1>9, <2>1, ZenonT(30) DEF Handshake, Answer
  <2>2. CASE HandleFrame(g, f)
        BY <1>8, <1>9, <2>2, ZenonT(30) DEF HandleFrame, Answer
  <2> QED BY <1>2, <2>1, <2>2, Zenon DEF ServerStep
<1>11. /\ performed' = performed \/ (f \in Calls /\ performed' = Append(performed, f))
       /\ handled' = handled
          \/ (f \in Calls /\ handled' = [handled EXCEPT ![g] = Append(handled[g], f)])
       BY <1>2, ZenonT(30) DEF ServerStep, Handshake, HandleFrame
<1>12. /\ performed' \in Seq(Calls) /\ Once(performed')
       /\ \/ Range(performed') = Range(performed)
          \/ f \in Calls /\ Range(performed') = Range(performed) \cup {f}
  <2>1. performed \in Seq(Calls) /\ Once(performed)
        /\ (f \in Calls => f \notin Range(performed))
        BY <1>3, ZenonT(30) DEF IndInv, Types, OnePlace, Apart
  <2>2. CASE performed' = performed
        BY <2>1, <2>2, ZenonT(30)
  <2>3. CASE f \in Calls /\ performed' = Append(performed, f)
    <3>1. /\ performed' \in Seq(Calls) /\ Range(performed') = Range(performed) \cup {f}
          /\ (Once(performed) /\ (f \in Calls => f \notin Range(performed)))
                => Once(performed')
          BY <2>1, <2>3, AppendFacts, SMT, Z3
    <3> QED BY <2>1, <2>3, <3>1, ZenonT(30)
  <2> QED BY <1>11, <2>2, <2>3, ZenonT(30)
<1>13. /\ handled' \in [Conns -> Seq(Calls)]
       /\ \A h \in Conns : /\ h # g => handled'[h] = handled[h]
                           /\ Range(handled'[h]) \subseteq Range(handled[h]) \cup {f}
  <2>1. CASE handled' = handled
        BY <2>1, Zenon DEF IndInv, Types
  <2>2. CASE f \in Calls /\ handled' = [handled EXCEPT ![g] = Append(handled[g], f)]
    <3>1. /\ Append(handled[g], f) \in Seq(Calls)
          /\ Range(Append(handled[g], f)) = Range(handled[g]) \cup {f}
          BY <2>2, AppendFacts, SMT, Z3 DEF IndInv, Types
    <3> QED BY <2>2, <3>1, ZenonT(30) DEF IndInv, Types
  <2> QED BY <1>11, <2>1, <2>2, Zenon
<1>14. Types'
  <2>1. back' \in [Conns -> Seq(Reply)]
        BY <1>7, <1>10, Zenon DEF IndInv, Types
  <2> QED BY <1>1, <1>4, <1>12, <1>13, <2>1, ZenonT(60) DEF IndInv, Types
<1>15. OnePlace'
  <2>1. \A h \in Conns : Once(wire'[h])
        BY <1>5, ZenonT(60) DEF IndInv, OnePlace, Within
  <2>2. \A c \in Calls : c \in Range(performed') =>
           /\ \A h \in Conns : c \notin Range(wire'[h])
           /\ c \notin Range(queue) /\ c \notin Range(outbox)
           /\ \A x \in callers : c # x.call
    <3>1. f \in Calls =>
             /\ \A h \in Conns : f \notin Range(wire'[h])
             /\ f \notin Range(queue) /\ f \notin Range(outbox)
             /\ \A x \in callers : f # x.call
          BY <1>3, <1>4, Zenon DEF IndInv, OnePlace, Apart, InHand
    <3>2. \A c \in Calls : c \in Range(performed) =>
             /\ \A h \in Conns : c \notin Range(wire'[h])
             /\ c \notin Range(queue) /\ c \notin Range(outbox)
             /\ \A x \in callers : c # x.call
          BY <1>5, Zenon DEF IndInv, OnePlace, Apart, InHand
    <3> QED BY <1>12, <3>1, <3>2, SMT, Z3
  <2>3. \A h \in Conns :
           /\ InHand(wire[h])' /\ Apart(wire'[h], queue') /\ Apart(wire'[h], outbox')
           /\ \A i \in Conns : i # h => Apart(wire'[h], wire'[i])
        BY <1>1, <1>5, Zenon DEF IndInv, OnePlace, Apart, InHand
  <2>4. /\ Apart(queue', performed') /\ Apart(outbox', performed')
        /\ \A h \in Conns : Apart(wire'[h], performed')
        BY <1>1, <2>2, ZenonT(30) DEF Apart
  <2>5. InHand(performed)'
        BY <1>1, <2>2, CallerFacts, ZenonT(30) DEF IndInv, InHand
  <2>6. /\ Once(queue') /\ Once(outbox') /\ InHand(queue)' /\ InHand(outbox)'
        /\ Apart(queue', outbox')
        /\ \A u, v \in callers' : u.call = v.call => u = v
        BY <1>1, ZenonT(60) DEF IndInv, OnePlace, InHand
  <2> QED BY <1>12, <2>1, <2>3, <2>4, <2>5, <2>6, ZenonT(30) DEF OnePlace
<1>16. Unmade'
  <2>1. \A c \in Calls : Somewhere(c)' => Somewhere(c)
        BY <1>1, <1>3, <1>5, <1>12, ZenonT(30) DEF Somewhere
  <2> QED BY <1>1, <2>1, ZenonT(30) DEF IndInv, Unmade
<1>17. Answered'
  <2>1. \A h \in Conns, c \in Calls : RESULT(c) \in Range(back'[h]) =>
           RESULT(c) \in Range(back[h]) \/ c \in Range(performed')
    <3>1. CASE back' = back
          BY <3>1, ZenonT(30)
    <3>2. CASE /\ back' = [back EXCEPT ![g] = Append(back[g], y)]
               /\ \A c \in Calls : y = RESULT(c) =>
                     c = f /\ performed' = Append(performed, f)
      <4>1. \A c \in Calls : y = RESULT(c) => c \in Range(performed')
        <5> SUFFICES ASSUME NEW c \in Calls, y = RESULT(c)
                     PROVE  c \in Range(performed')
            BY Zenon
        <5>1. c = f /\ performed' = Append(performed, f) /\ performed \in Seq(Calls)
              BY <3>2, Zenon DEF IndInv, Types
        <5> QED BY <5>1, AppendFacts, SMT, Z3
      <4>2. \A h \in Conns : Range(back'[h]) \subseteq Range(back[h]) \cup {y}
            BY <1>7, <3>2, Zenon DEF IndInv, Types
      <4> QED BY <4>1, <4>2, ZenonT(30)
    <3> QED BY <1>10, <3>1, <3>2, ZenonT(30)
  <2> QED BY <1>1, <1>12, <2>1, ZenonT(60) DEF IndInv, Answered
<1>18. Future'
      BY <1>1, <1>4, <1>6, <1>13, ZenonT(60) DEF IndInv, Future
<1>19. Gone'
      BY <1>1, <1>3, <1>5, <1>13, SMT, Z3 DEF IndInv, Gone
<1> QED BY <1>14, <1>15, <1>16, <1>17, <1>18, <1>19, ZenonT(30) DEF IndInv

-----------------------------------------------------------------------------
(* The order of the calls *)

\* The calls of q are in the order they were made, and those of p before those of q.
Rising(q) ==
    \A i, j \in DOMAIN q : i < j /\ q[i] \in Calls /\ q[j] \in Calls => q[i] < q[j]

Below(p, q) == \A c, d \in Calls : c \in Range(p) /\ d \in Range(q) => c < d

\* The call that the i-th frame on the way to the client answers, once the
\* client is ready: all that is on the way then answers calls.
Due(i) == handled[conn][Len(handled[conn]) - Len(back[conn]) + i]

\* No call was sent on a connection that is not ready, and the server has only
\* greeted the client.
Greeting(needed, state, frames) ==
    \/ needed /\ state = "new" /\ frames \in {<<>>, <<HELLO>>}
    \/ needed /\ state = "in" /\ frames \in {<<HELLO, AUTH_OK>>, <<AUTH_OK>>}
    \/ ~needed /\ state = "in" /\ frames = <<HELLO>>

Greeted ==
    /\ handled[conn] = <<>> /\ Range(wire[conn]) \subseteq {AUTH}
    /\ Greeting(auth, session[conn], back[conn])

\* On a connection that is ready the calls answered, on the wire and in the
\* outbox follow one another in the order they were made.
InLine ==
    /\ session[conn] = "in"
    /\ Rising(handled[conn]) /\ Rising(wire[conn])
    /\ Below(handled[conn], wire[conn]) /\ Below(handled[conn], outbox)
    /\ Below(wire[conn], outbox)
    /\ \A c \in Range(handled[conn]) : outcome[c] # "none"

\* Every answer on its way is of a pending call, and an ERROR of a refused one.
AnswersDue ==
    /\ Len(back[conn]) <= Len(handled[conn])
    /\ \A i \in DOMAIN back[conn] :
          /\ Due(i) \in Range(pending)
          /\ \/ back[conn][i] = RESULT(Due(i))
             \/ back[conn][i] = ERROR /\ Due(i) \in refused

\* A frame on the wire is of a pending call, and a pending call is on its way.
AllOnTheirWay ==
    /\ Range(wire[conn]) \cap Calls \subseteq Range(pending)
    /\ ~broken => \A c \in Range(pending) :
          \/ \E i \in DOMAIN back[conn] : c = Due(i)
          \/ c \in Range(wire[conn]) \/ c \in Range(outbox)

Turns ==
    /\ DOMAIN session = Conns
    /\ pending \in Seq(Calls) /\ Rising(pending) /\ Rising(outbox) /\ Rising(queue)
    /\ Below(outbox, queue)
    /\ \A c \in Range(pending) : outcome[c] # "none"
    /\ IF link = "ready" THEN queue = <<>> ELSE queue = pending
    /\ link = "open" => Greeted
    /\ link = "ready" => InLine /\ AnswersDue /\ AllOnTheirWay

InTurn ==
    /\ pending \in Seq(Calls) /\ \A c \in Range(pending) : outcome[c] # "none"
    /\ \A c, d \in Calls : outcome[c] # "none" /\ outcome[d] = "none" => c < d
    /\ kind = "java" => \A c \in Calls : outcome[c] # "refused"
    /\ kind # "java" => callers = {}
    /\ link \in {"down", "open", "ready"}
    /\ kind # "java" /\ ~mixed => Turns
    /\ RightCallRejected

LEMMA CallsOf == \A q \in Seq(Calls) : \A c \in Range(q) : c \in Calls
BY SMT, Z3 DEF Range

LEMMA RisingAppend ==
    ASSUME NEW S, NEW q \in Seq(S), NEW x \in S, Rising(q),
           \A c \in Calls : c \in Range(q) /\ x \in Calls => c < x
    PROVE  /\ Append(q, x) \in Seq(S) /\ Range(Append(q, x)) = Range(q) \cup {x}
           /\ Rising(Append(q, x))
<1> SUFFICES Rising(Append(q, x))
  BY AppendFacts, SMTT(30), Z3T(30)
<1>1. /\ DOMAIN Append(q, x) = 1..(Len(q) + 1) /\ DOMAIN q = 1..Len(q) /\ Len(q) \in Nat
      /\ \A i \in 1..Len(q) : Append(q, x)[i] = q[i] /\ q[i] \in Range(q)
      /\ Append(q, x)[Len(q) + 1] = x
  BY SMT, Z3 DEF Range
<1> SUFFICES ASSUME NEW i \in 1..(Len(q) + 1), NEW j \in 1..(Len(q) + 1), i < j,
                    Append(q, x)[i] \in Calls, Append(q, x)[j] \in Calls
             PROVE  Append(q, x)[i] < Append(q, x)[j]
  BY <1>1, Zenon DEF Rising
<1>2. CASE j = Len(q) + 1
  <2>1. i \in 1..Len(q)
    BY <1>1, <1>2, SMT, Z3
  <2> QED  BY <1>1, <1>2, <2>1, ZenonT(30)
<1>3. CASE j # Len(q) + 1
  <2>1. i \in 1..Len(q) /\ j \in 1..Len(q)
    BY <1>1, <1>3, SMT, Z3
  <2> QED  BY <1>1, <2>1, ZenonT(30) DEF Rising
<1> QED  BY <1>2, <1>3, Zenon

LEMMA RisingConcat ==
    ASSUME NEW S, NEW p \in Seq(S), NEW q \in Seq(S), Rising(p), Rising(q), Below(p, q)
    PROVE  Rising(p \o q)
<1> DEFINE m == Len(p)
           n == Len(q)
<1>1. /\ m \in Nat /\ n \in Nat /\ DOMAIN (p \o q) = 1..(m + n)
      /\ DOMAIN p = 1..m /\ DOMAIN q = 1..n
  BY SMTT(30), Z3T(30)
<1>2. /\ \A i \in 1..m : (p \o q)[i] = p[i] /\ p[i] \in Range(p)
      /\ \A i \in 1..(m + n) : i > m =>
            i - m \in 1..n /\ (p \o q)[i] = q[i - m] /\ q[i - m] \in Range(q)
  BY SMT, Z3 DEF Range
<1> HIDE DEF m, n
<1> SUFFICES ASSUME NEW i \in 1..(m + n), NEW j \in 1..(m + n), i < j,
                    (p \o q)[i] \in Calls, (p \o q)[j] \in Calls
             PROVE  (p \o q)[i] < (p \o q)[j]
  BY <1>1, ZenonT(30) DEF Rising
<1>3. \/ i \in 1..m /\ j \in 1..m
      \/ i \in 1..m /\ j > m
      \/ i > m /\ j > m /\ i - m < j - m
  BY <1>1, SMT, Z3
<1>4. CASE i \in 1..m /\ j \in 1..m
  BY <1>1, <1>2, <1>4, Zenon DEF Rising
<1>5. CASE i \in 1..m /\ j > m
  BY <1>2, <1>5, Zenon DEF Below
<1>6. CASE i > m /\ j > m /\ i - m < j - m
  BY <1>1, <1>2, <1>6, ZenonT(30) DEF Rising
<1> QED  BY <1>3, <1>4, <1>5, <1>6, ZenonT(30)

LEMMA RisingTail ==
    ASSUME NEW S, NEW q \in Seq(S), q # <<>>, Rising(q)
    PROVE  /\ Rising(Tail(q)) /\ Range(q) = {Head(q)} \cup Range(Tail(q))
           /\ \A c \in Calls : c \in Range(Tail(q)) /\ Head(q) \in Calls => Head(q) < c
<1>1. /\ 1 \in DOMAIN q /\ Head(q) = q[1]
      /\ \A i \in DOMAIN Tail(q) : i + 1 \in DOMAIN q /\ Tail(q)[i] = q[i + 1] /\ 1 < i + 1
      /\ \A i \in DOMAIN q : i = 1 \/ (i - 1 \in DOMAIN Tail(q) /\ Tail(q)[i - 1] = q[i])
  BY SMT, Z3
<1>2. \A i, j \in DOMAIN Tail(q) : i < j => i + 1 < j + 1
  BY SMT, Z3
<1>3. Rising(Tail(q))
  BY <1>1, <1>2, Zenon DEF Rising
<1>4. Range(q) = {Head(q)} \cup Range(Tail(q))
  <2>1. \A y \in Range(q) : y = Head(q) \/ y \in Range(Tail(q))
    <3> SUFFICES ASSUME NEW i \in DOMAIN q PROVE q[i] = Head(q) \/ q[i] \in Range(Tail(q))
      BY ZenonT(30) DEF Range
    <3>1. CASE i = 1
      BY <1>1, <3>1, Zenon
    <3>2. CASE i - 1 \in DOMAIN Tail(q) /\ Tail(q)[i - 1] = q[i]
      BY <3>2, Zenon DEF Range
    <3> QED  BY <1>1, <3>1, <3>2, ZenonT(30)
  <2>2. \A y \in Range(Tail(q)) : y \in Range(q)
    BY <1>1, SMT, Z3 DEF Range
  <2>3. Head(q) \in Range(q)
    BY <1>1, Zenon DEF Range
  <2> QED  BY <2>1, <2>2, <2>3, Zenon
<1>5. ASSUME NEW c \in Calls, c \in Range(Tail(q)), Head(q) \in Calls PROVE Head(q) < c
  BY <1>1, <1>5, Zenon DEF Range, Rising
<1> QED  BY <1>3, <1>4, <1>5, ZenonT(30)

LEMMA RisingPrefix ==
    ASSUME NEW S, NEW q \in Seq(S), NEW n \in 0..Len(q), Rising(q)
    PROVE  Rising(SubSeq(q, 1, n))
<1>1. \A i \in DOMAIN SubSeq(q, 1, n) : i \in DOMAIN q /\ SubSeq(q, 1, n)[i] = q[i]
  BY SMT, Z3
<1> QED  BY <1>1, Zenon DEF Rising

LEMMA CallNumbers == \A c, d \in Calls : c \in Nat /\ d \in Nat /\ (c < d => c # d /\ ~(d < c))
BY ClientAssumption, SMT, Z3

\* The first of the pending calls is the least.
LEMMA LeastIsHead ==
    ASSUME pending \in Seq(Calls), Rising(pending), NEW h \in Range(pending),
           \A d \in Range(pending) : d = h \/ h < d
    PROVE  pending # <<>> /\ Head(pending) = h /\ Without(h) = Tail(pending)
<1>1. pending # <<>>
  BY SMTT(30), Z3T(30) DEF Range
<1>2. /\ Range(pending) = {Head(pending)} \cup Range(Tail(pending))
      /\ \A c \in Calls : c \in Range(Tail(pending)) /\ Head(pending) \in Calls => Head(pending) < c
      /\ Head(pending) \in Calls /\ Tail(pending) \in Seq(Calls)
  BY <1>1, RisingTail, TailFacts, ZenonT(30)
<1>3. \A d \in Range(pending) : d \in Calls
  BY SMT, Z3 DEF Range
<1>4. Head(pending) = h
  BY <1>2, <1>3, CallNumbers, Zenon
<1>5. Range(Tail(pending)) \cap {h} = {}
  BY <1>2, <1>3, <1>4, CallNumbers, Zenon
<1>6. Omit(pending, {h}) = <<>> \o Omit(Tail(pending), {h})
  BY <1>1, <1>4, OmitHead, Zenon
<1>7. Omit(Tail(pending), {h}) = Tail(pending)
  BY <1>2, <1>5, OmitNone, Zenon
<1>8. <<>> \o Tail(pending) = Tail(pending)
  BY <1>2, SMT, Z3
<1> QED  BY <1>1, <1>4, <1>6, <1>7, <1>8, Zenon DEF Without

LEMMA BelowRules ==
    /\ \A p : Below(p, <<>>) /\ Below(<<>>, p)
    /\ \A p, q, r, s : Below(p, q) /\ Range(r) \cap Calls \subseteq Range(p)
                       /\ Range(s) \cap Calls \subseteq Range(q) => Below(r, s)
BY EmptyFacts, Zenon DEF Below


\* What a step keeps that changes neither the places before the wire nor what
\* was answered on the current connection.
LEMMA LineKept ==
    ASSUME Types, Turns, UNCHANGED <<pending, queue, outbox, link, conn, auth>>,
           \A c \in Calls : outcome[c] # "none" => outcome'[c] # "none",
           refused \subseteq refused', DOMAIN session' = DOMAIN session,
           link # "down" =>
              /\ handled'[conn] = handled[conn] /\ back'[conn] = back[conn]
              /\ session'[conn] = session[conn] /\ (link = "ready" => Rising(wire'[conn]))
              /\ Range(wire'[conn]) \subseteq Range(wire[conn]) \cup {AUTH}
              /\ ~broken' => /\ ~broken
                             /\ Range(wire[conn]) \cap Calls \subseteq Range(wire'[conn])
    PROVE  Turns'
<1>1. /\ pending' = pending /\ queue' = queue /\ outbox' = outbox /\ link' = link
      /\ conn' = conn /\ auth' = auth
  BY ZenonT(30)
<1>2. /\ DOMAIN session' = Conns
      /\ (pending \in Seq(Calls))' /\ Rising(pending)' /\ Rising(outbox)' /\ Rising(queue)'
      /\ Below(outbox, queue)'
      /\ IF link' = "ready" THEN queue' = <<>> ELSE queue' = pending'
  BY <1>1, Zenon DEF Turns
<1>3. \A c \in Range(pending') : outcome'[c] # "none"
  <2>1. \A c \in Range(pending) : c \in Calls
    BY CallsOf, Zenon DEF Turns
  <2> QED  BY <1>1, <2>1, ZenonT(30) DEF Turns
<1>4. ASSUME link' = "open" PROVE Greeted'
  <2>1. link = "open" /\ link # "down"
    BY <1>1, <1>4, Zenon
  <2>2. /\ handled'[conn'] = handled[conn] /\ back'[conn'] = back[conn]
        /\ session'[conn'] = session[conn] /\ auth' = auth
        /\ Range(wire'[conn']) \subseteq Range(wire[conn]) \cup {AUTH}
    BY <1>1, <2>1, Zenon
  <2>3. Greeted
    BY <2>1, Zenon DEF Turns
  <2>4. Range(wire'[conn']) \subseteq {AUTH}
    BY <2>2, <2>3, ZenonT(30) DEF Greeted
  <2> QED  BY <2>2, <2>3, <2>4, ZenonT(30) DEF Greeted
<1>5. ASSUME link' = "ready" PROVE InLine' /\ AnswersDue' /\ AllOnTheirWay'
  <2>1. link = "ready" /\ link # "down" /\ conn \in Conns
    BY <1>1, <1>5, ZenonT(30) DEF Types
  <2>2. InLine /\ AnswersDue /\ AllOnTheirWay
    BY <2>1, Zenon DEF Turns
  <2>3. \A i : Due(i)' = Due(i)
    BY <1>1, <2>1, Zenon DEF Due
  <2>w. Range(wire'[conn]) \cap Calls \subseteq Range(wire[conn])
    BY <2>1, FrameFacts, Zenon
  <2>h. handled[conn] \in Seq(Calls)
    BY <2>1, Zenon DEF Types
  <2>4. InLine'
    <3>1. \A c \in Range(handled[conn]) : c \in Calls
      BY <2>h, CallsOf, Zenon
    <3>2. /\ Below(handled[conn], wire'[conn]) /\ Below(wire'[conn], outbox)
      BY <2>2, <2>w, Zenon DEF InLine, Below
    <3> QED  BY <1>1, <2>1, <2>2, <3>1, <3>2, ZenonT(30) DEF InLine
  <2>5. AnswersDue'
    BY <1>1, <2>1, <2>2, <2>3, Zenon DEF AnswersDue
  <2>6. AllOnTheirWay'
    <3>1. Range(wire'[conn]) \cap Calls \subseteq Range(pending)
      BY <2>2, <2>w, Zenon DEF AllOnTheirWay
    <3>2. \A c \in Range(pending) : c \in Calls
      BY CallsOf, Zenon DEF Turns
    <3>3. ~broken' => \A c \in Range(pending) :
              \/ \E i \in DOMAIN back[conn] : c = Due(i)
              \/ c \in Range(wire'[conn]) \/ c \in Range(outbox)
      BY <2>1, <2>2, <3>2, Zenon DEF AllOnTheirWay
    <3> QED  BY <1>1, <2>1, <2>3, <3>1, <3>3, Zenon DEF AllOnTheirWay
  <2> QED  BY <2>4, <2>5, <2>6, ZenonT(30)
<1> QED  BY <1>2, <1>3, <1>4, <1>5, ZenonT(30) DEF Turns

\* When all pending calls are given up, nothing is left to be in turn.
LEMMA GiveUpTurns ==
    ASSUME Turns, GiveUp, link' = "down", UNCHANGED <<outbox, session>>
    PROVE  Turns'
<1>1. pending' = <<>> /\ queue' = <<>> /\ link' # "ready" /\ link' # "open"
  BY Zenon DEF GiveUp
<1>2. (pending \in Seq(Calls))' /\ Rising(<<>>) /\ Range(<<>>) = {}
  BY <1>1, EmptyFacts, SMT, Z3 DEF Rising
<1>3. Below(outbox, <<>>)
  BY BelowRules, Zenon
<1> QED  BY <1>1, <1>2, <1>3, Zenon DEF Turns

LEMMA OpenTurns ==
    ASSUME IndInv, Turns, Open
    PROVE  Turns'
<1>1. /\ link = "down" /\ link' = "open" /\ conn' = conn + 1 /\ conn + 1 \in Conns
      /\ back' = [back EXCEPT ![conn + 1] = <<HELLO>>]
      /\ session' = [session EXCEPT ![conn + 1] = IF auth THEN "new" ELSE "in"]
      /\ UNCHANGED <<auth, pending, queue, outbox, outcome, wire, handled>>
  BY Zenon DEF Open
<1>2. wire[conn + 1] = <<>> /\ handled[conn + 1] = <<>> /\ Range(<<>>) = {}
  <2>1. conn + 1 > conn
    BY NumberFacts, SMT, Z3 DEF IndInv
  <2> QED  BY <1>1, <2>1, EmptyFacts, Zenon DEF IndInv, Future
<1>3. link # "ready" /\ link' # "ready"
  BY <1>1, ZenonT(30)
<1>4. Greeted'
  <2>1. back'[conn + 1] = <<HELLO>>
    BY <1>1, Zenon DEF IndInv, Types
  <2>2. session'[conn + 1] = IF auth THEN "new" ELSE "in"
    BY <1>1, Zenon DEF Turns
  <2>3. Greeting(auth, session'[conn + 1], back'[conn + 1])
    BY <2>1, <2>2, Zenon DEF Greeting
  <2> QED  BY <1>1, <1>2, <2>3, Zenon DEF Greeted
<1> QED  BY <1>1, <1>3, <1>4, Zenon DEF Turns


LEMMA CallTurns ==
    ASSUME IndInv, IndInv', Turns, kind # "java", NEW c \in Calls, Call(c),
           \A d, e \in Calls : outcome[d] # "none" /\ outcome[e] = "none" => d < e
    PROVE  Turns'
<1>1. /\ pending' = Append(pending, c) /\ outcome[c] = "none" /\ outcome'[c] = "pending"
      /\ \A d \in Calls : outcome[d] # "none" => d < c /\ outcome'[d] # "none"
  <2>1. /\ pending' = Append(pending, c) /\ outcome[c] = "none"
        /\ outcome' = [outcome EXCEPT ![c] = "pending"]
    BY Zenon DEF Call, NextCall
  <2>2. outcome'[c] = "pending" /\ \A d \in Calls : d # c => outcome'[d] = outcome[d]
    BY <2>1, Zenon DEF IndInv, Types
  <2> QED  BY <2>1, <2>2, Zenon
<1>2. /\ UNCHANGED <<kind, auth, link, conn, broken, handled, back, session, refused>>
      /\ IF link = "ready" THEN Sent(<<c>>) /\ queue' = queue
         ELSE queue' = Append(queue, c) /\ UNCHANGED <<wire, outbox>>
  BY Zenon DEF Call, serverVars
<1>3. /\ \A d \in Calls : d \in Range(queue) \/ d \in Range(outbox) => d < c
      /\ \A d \in Calls, g \in Conns : d \in Range(wire[g]) => d < c
      /\ \A d \in Calls : d \in Range(pending) => d < c
  BY <1>1, Zenon DEF IndInv, Unmade, Somewhere, Turns
<1>4. /\ pending' \in Seq(Calls) /\ Rising(pending') /\ Range(pending') = Range(pending) \cup {c}
  <2>1. /\ pending \in Seq(Calls) /\ Rising(pending)
        /\ \A d \in Calls : d \in Range(pending) /\ c \in Calls => d < c
    BY <1>3, Zenon DEF Turns
  <2> QED  BY <1>1, <2>1, RisingAppend, SMT, Z3
<1>5. \A d \in Range(pending') : outcome'[d] # "none"
  <2>1. \A d \in Range(pending) : d \in Calls
    BY CallsOf, Zenon DEF Turns
  <2>2. outcome'[c] # "none"
    BY <1>1, ZenonT(30)
  <2> QED  BY <1>1, <1>4, <2>1, <2>2, Zenon DEF Turns
<1>6. CASE link # "ready"
  <2>1. queue' = pending' /\ outbox' = outbox /\ wire' = wire
    BY <1>1, <1>2, <1>6, Zenon DEF Turns
  <2>2. Below(outbox', queue')
    <3>1. Range(queue') = Range(queue) \cup {c}
      BY <1>4, <1>6, <2>1, Zenon DEF Turns
    <3> QED  BY <1>3, <2>1, <3>1, Zenon DEF Turns, Below
  <2>3. link = "open" => Greeted'
    <3>1. link = "open" => Greeted
      BY Zenon DEF Turns
    <3> QED  BY <1>2, <2>1, <3>1, Zenon DEF Greeted
  <2> QED  BY <1>2, <1>4, <1>5, <1>6, <2>1, <2>2, <2>3, Zenon DEF Turns
<1>7. CASE link = "ready"
  <2>1. conn \in Conns /\ link # "down" /\ link' = "ready" /\ link' # "open"
    BY <1>2, <1>7, ZenonT(30) DEF IndInv, Types
  <2>2. InLine /\ AnswersDue /\ AllOnTheirWay /\ queue = <<>> /\ queue' = <<>>
    BY <1>2, <1>7, Zenon DEF Turns
  <2>3. \A i : Due(i)' = Due(i)
    BY <1>2, Zenon DEF Due
  <2>4. \A d \in Range(handled[conn]) : d \in Calls /\ d < c /\ outcome'[d] # "none"
    <3>1. \A d \in Range(handled[conn]) : d \in Calls
      <4>1. handled[conn] \in Seq(Calls)
        BY <2>1, Zenon DEF IndInv, Types
      <4> QED  BY <4>1, SMT, Z3 DEF Range
    <3> QED  BY <1>1, <2>2, <3>1, ZenonT(30) DEF InLine
  <2>5. AnswersDue'
    BY <1>2, <1>4, <2>2, <2>3, Zenon DEF AnswersDue
  <2>6. Below(outbox', queue') /\ Rising(queue')
    BY <2>2, BelowRules, Zenon DEF Turns
  <2>7. /\ Rising(outbox') /\ InLine' /\ AllOnTheirWay'
    <3>1. CASE kind = "ts" /\ broken
      <4>1. wire' = wire /\ outbox' = outbox
        BY <1>2, <1>7, <3>1, Zenon DEF Sent, Wired
      <4> QED  BY <1>2, <1>4, <2>2, <2>4, <3>1, <4>1, Zenon DEF Turns, InLine, AllOnTheirWay
    <3>2. CASE kind = "ts" /\ ~broken
      <4>1. wire'[conn] = wire[conn] \o <<c>> /\ outbox' = outbox /\ outbox = <<>>
        <5>1. wire' = [wire EXCEPT ![conn] = wire[conn] \o <<c>>] /\ outbox' = outbox
          BY <1>2, <1>7, <2>1, <3>2, Zenon DEF Sent, Wired
        <5> QED  BY <2>1, <3>2, <5>1, Zenon DEF IndInv, Types, Future
      <4>2. wire[conn] \o <<c>> = Append(wire[conn], c) /\ wire[conn] \in Seq(Frame) /\ c \in Frame
        <5>1. wire[conn] \in Seq(Frame) /\ c \in Frame
          BY <2>1, FrameFacts, Zenon DEF IndInv, Types
        <5> QED  BY <5>1, SMT, Z3
      <4>3. Rising(wire'[conn]) /\ Range(wire'[conn]) = Range(wire[conn]) \cup {c}
        <5>1. /\ Rising(wire[conn])
              /\ \A d \in Calls : d \in Range(wire[conn]) /\ c \in Calls => d < c
          BY <1>3, <2>1, <2>2, Zenon DEF InLine
        <5>2. wire[conn] \in Seq(Frame) /\ c \in Frame
          BY <4>2, ZenonT(30)
        <5>3. Rising(Append(wire[conn], c)) /\ Range(Append(wire[conn], c)) = Range(wire[conn]) \cup {c}
          BY <5>1, <5>2, RisingAppend, SMT, Z3
        <5> QED  BY <4>1, <4>2, <5>3, Zenon
      <4>4. Below(handled[conn], wire'[conn]) /\ Below(wire'[conn], outbox')
        BY <2>2, <2>4, <4>1, <4>3, BelowRules, ZenonT(30) DEF InLine, Below
      <4>5. InLine'
        BY <1>2, <2>2, <2>4, <4>1, <4>3, <4>4, Zenon DEF InLine
      <4>6. AllOnTheirWay'
        BY <1>2, <1>4, <2>2, <2>3, <3>2, <4>1, <4>3, Zenon DEF AllOnTheirWay
      <4> QED  BY <4>1, <4>5, <4>6, Zenon DEF Turns
    <3>3. CASE kind # "ts"
      <4>1. outbox' = outbox \o <<c>> /\ wire' = wire
        BY <1>2, <1>7, <3>3, Zenon DEF Sent
      <4>2. outbox \o <<c>> = Append(outbox, c) /\ outbox \in Seq(Frame) /\ c \in Frame
        <5>1. outbox \in Seq(Frame) /\ c \in Frame
          BY FrameFacts, Zenon DEF IndInv, Types
        <5> QED  BY <5>1, SMT, Z3
      <4>3. Rising(outbox') /\ Range(outbox') = Range(outbox) \cup {c}
        <5>1. Rising(outbox) /\ \A d \in Calls : d \in Range(outbox) /\ c \in Calls => d < c
          BY <1>3, Zenon DEF Turns
        <5>2. outbox \in Seq(Frame) /\ c \in Frame
          BY <4>2, ZenonT(30)
        <5>3. Rising(Append(outbox, c)) /\ Range(Append(outbox, c)) = Range(outbox) \cup {c}
          BY <5>1, <5>2, RisingAppend, SMT, Z3
        <5> QED  BY <4>1, <4>2, <5>3, Zenon
      <4>4. Below(handled[conn], outbox') /\ Below(wire[conn], outbox')
        BY <1>3, <2>1, <2>2, <2>4, <4>3, Zenon DEF InLine, Below
      <4>5. InLine'
        BY <1>2, <2>2, <2>4, <4>1, <4>4, Zenon DEF InLine
      <4>6. AllOnTheirWay'
        BY <1>2, <1>4, <2>2, <2>3, <4>1, <4>3, Zenon DEF AllOnTheirWay
      <4> QED  BY <4>3, <4>5, <4>6, ZenonT(30)
    <3> QED  BY <3>1, <3>2, <3>3, ZenonT(30)
  <2> QED  BY <1>2, <1>4, <1>5, <2>1, <2>2, <2>5, <2>6, <2>7, ZenonT(30) DEF Turns
<1> QED  BY <1>6, <1>7, ZenonT(30)

LEMMA SenderTurns ==
    ASSUME IndInv, Turns, kind # "java", Sender, ~mixed'
    PROVE  Turns'
<1> DEFINE h == Head(outbox)
<1>1. /\ outbox # <<>> /\ outbox' = Tail(outbox) /\ wire' = Wired(<<h>>)
      /\ h = AUTH \/ h \in Range(pending)
      /\ UNCHANGED <<auth, link, conn, broken, pending, queue, outcome, handled, back, session,
                     refused>>
  BY Zenon DEF Sender, serverVars
<1>2. /\ h \in Frame /\ h \in Range(outbox) /\ Tail(outbox) \in Seq(Frame)
      /\ outbox \in Seq(Frame)
  BY <1>1, TailFacts, Zenon DEF IndInv, Types
<1>3. /\ Rising(Tail(outbox)) /\ Range(outbox) = {h} \cup Range(Tail(outbox))
      /\ \A d \in Calls : d \in Range(Tail(outbox)) /\ h \in Calls => h < d
  BY <1>1, <1>2, RisingTail, Zenon DEF Turns
<1> HIDE DEF h
<1>4. Rising(outbox') /\ Below(outbox', queue')
  BY <1>1, <1>3, BelowRules, Zenon DEF Turns
<1>5. ASSUME link = "open" PROVE Greeted'
  <2>1. h = AUTH
    <3>1. link # "ready"
      BY <1>5, ZenonT(30)
    <3>2. \A d \in Range(pending) : d \in Calls
      BY CallsOf, Zenon DEF Turns
    <3>3. h \in Range(pending) => h \in Range(queue) /\ h \in Calls
      BY <3>1, <3>2, Zenon DEF Turns
    <3> QED  BY <1>1, <1>2, <3>3, Zenon DEF IndInv, OnePlace, Apart
  <2>2. Greeted
    BY <1>5, Zenon DEF Turns
  <2>3. Range(wire'[conn]) \subseteq Range(wire[conn]) \cup {AUTH}
    <3>1. <<h>> \in Seq(Frame) /\ Range(<<h>>) = {h}
      BY <1>2, SingleFacts, Zenon
    <3>2. conn \in Conns
      BY <1>5, ZenonT(30) DEF IndInv, Types
    <3> QED  BY <1>1, <2>1, <3>1, <3>2, WiredFacts, Zenon DEF IndInv
  <2> QED  BY <1>1, <2>2, <2>3, Zenon DEF Greeted
<1>6. ASSUME link = "ready" PROVE InLine' /\ AnswersDue' /\ AllOnTheirWay'
  <2>1. conn \in Conns /\ link # "down"
    BY <1>6, ZenonT(30) DEF IndInv, Types
  <2>2. InLine /\ AnswersDue /\ AllOnTheirWay
    BY <1>6, Zenon DEF Turns
  <2>3. \A i : Due(i)' = Due(i)
    BY <1>1, Zenon DEF Due
  <2>4. AnswersDue'
    BY <1>1, <2>2, <2>3, Zenon DEF AnswersDue
  <2>5. CASE broken
    <3>1. wire' = wire
      BY <1>1, <2>5, Zenon DEF Wired
    <3>2. Below(handled[conn], outbox') /\ Below(wire[conn], outbox')
      BY <1>1, <1>3, <2>2, Zenon DEF InLine, Below
    <3> QED  BY <1>1, <2>2, <2>4, <2>5, <3>1, <3>2, Zenon DEF InLine, AllOnTheirWay
  <2>6. CASE ~broken
    <3>1. wire'[conn] = wire[conn] \o <<h>>
      <4>1. wire' = [wire EXCEPT ![conn] = wire[conn] \o <<h>>]
        BY <1>1, <2>1, <2>6, Zenon DEF Wired
      <4> QED  BY <2>1, <4>1, Zenon DEF IndInv, Types
    <3>2. wire[conn] \o <<h>> = Append(wire[conn], h) /\ wire[conn] \in Seq(Frame)
      <4>1. wire[conn] \in Seq(Frame)
        BY <2>1, Zenon DEF IndInv, Types
      <4> QED  BY <1>2, <4>1, SMT, Z3
    <3>3. Rising(wire'[conn]) /\ Range(wire'[conn]) = Range(wire[conn]) \cup {h}
      <4>1. \A d \in Calls : d \in Range(wire[conn]) /\ h \in Calls => d < h
        BY <1>2, <2>2, Zenon DEF InLine, Below
      <4>2. Rising(wire[conn])
        BY <2>2, Zenon DEF InLine
      <4>3. wire[conn] \in Seq(Frame) /\ h \in Frame
        BY <1>2, <3>2, ZenonT(30)
      <4>4. Rising(Append(wire[conn], h)) /\ Range(Append(wire[conn], h)) = Range(wire[conn]) \cup {h}
        BY <4>1, <4>2, <4>3, RisingAppend, SMT, Z3
      <4> QED  BY <3>1, <3>2, <4>4, Zenon
    <3>4. /\ Below(handled[conn], wire'[conn]) /\ Below(handled[conn], outbox')
          /\ Below(wire'[conn], outbox')
      BY <1>1, <1>2, <1>3, <2>2, <3>3, Zenon DEF InLine, Below
    <3>5. InLine'
      BY <1>1, <2>2, <3>3, <3>4, Zenon DEF InLine
    <3>6. AllOnTheirWay'
      <4>1. Range(wire'[conn]) \cap Calls \subseteq Range(pending)
        BY <1>1, <2>2, <3>3, FrameFacts, Zenon DEF AllOnTheirWay
      <4>2. \A c \in Range(pending) : \/ \E i \in DOMAIN back[conn] : c = Due(i)
                                      \/ c \in Range(wire'[conn]) \/ c \in Range(outbox')
        BY <1>1, <1>3, <2>2, <2>6, <3>3, Zenon DEF AllOnTheirWay
      <4> QED  BY <1>1, <2>3, <4>1, <4>2, Zenon DEF AllOnTheirWay
    <3> QED  BY <2>4, <3>5, <3>6, ZenonT(30)
  <2> QED  BY <2>5, <2>6, ZenonT(30)
<1> QED  BY <1>1, <1>4, <1>5, <1>6, Zenon DEF Turns


\* The client becomes ready: the queue follows what is in the outbox, and on the
\* connection there is nothing yet that it could overtake.
LEMMA ReadyTurns ==
    ASSUME IndInv, Turns, kind # "java", link = "open", ~broken, Ready,
           session[conn] = "in", back'[conn] = <<>>,
           UNCHANGED <<conn, broken, session, handled>>
    PROVE  Turns'
<1>1. /\ link' = "ready" /\ link' # "open" /\ link # "ready" /\ link # "down" /\ conn \in Conns
      /\ pending' = pending /\ outcome' = outcome /\ queue' = <<>> /\ Sent(queue)
  BY Zenon DEF Ready, IndInv, Types
<1>2. Greeted /\ queue = pending
  BY <1>1, Zenon DEF Turns
<1>3. /\ handled[conn] = <<>> /\ \A c \in Calls : c \notin Range(wire[conn])
      /\ Range(<<>>) = {} /\ Rising(<<>>)
  <2>1. Range(<<>>) = {} /\ Rising(<<>>)
    BY SMT, Z3 DEF Range, Rising
  <2> QED  BY <1>2, <2>1, FrameFacts, ZenonT(30) DEF Greeted
<1>4. queue \in Seq(Frame) /\ wire[conn] \in Seq(Frame) /\ outbox \in Seq(Frame)
  BY <1>1, FrameFacts, Zenon DEF IndInv, Types
<1>5. Rising(wire[conn])
  <2>1. \A i \in DOMAIN wire[conn] : wire[conn][i] \in Range(wire[conn])
    BY ZenonT(30) DEF Range
  <2> QED  BY <1>3, <2>1, Zenon DEF Rising
<1>6. AnswersDue'
  <2>1. Len(<<>>) = 0 /\ DOMAIN <<>> = {} /\ Len(<<>>) <= Len(<<>>)
    BY SMT, Z3
  <2> QED  BY <1>3, <2>1, Zenon DEF AnswersDue
<1>7. Rising(outbox') /\ InLine' /\ AllOnTheirWay'
  <2>1. CASE kind = "ts"
    <3>1. wire'[conn] = wire[conn] \o queue /\ outbox' = outbox /\ outbox = <<>>
      <4>1. wire' = [wire EXCEPT ![conn] = wire[conn] \o queue] /\ outbox' = outbox
        BY <1>1, <2>1, ZenonT(30) DEF Sent, Wired
      <4> QED  BY <1>1, <2>1, <4>1, Zenon DEF IndInv, Types, Future
    <3>2. Rising(wire[conn] \o queue) /\ Range(wire[conn] \o queue) = Range(wire[conn]) \cup Range(queue)
      <4>1. Below(wire[conn], queue) /\ Rising(queue)
        BY <1>3, Zenon DEF Below, Turns
      <4> QED  BY <1>4, <1>5, <4>1, RisingConcat, ConcatFacts, SMT, Z3
    <3>3. Below(<<>>, wire'[conn]) /\ Below(<<>>, outbox') /\ Below(wire'[conn], <<>>)
      BY BelowRules, Zenon
    <3>4. InLine'
      BY <1>1, <1>3, <3>1, <3>2, <3>3, Zenon DEF InLine
    <3>5. AllOnTheirWay'
      BY <1>1, <1>2, <1>3, <3>1, <3>2, Zenon DEF AllOnTheirWay
    <3> QED  BY <3>1, <3>4, <3>5, Zenon DEF Turns
  <2>2. CASE kind # "ts"
    <3>1. wire' = wire /\ outbox' = outbox \o queue
      BY <1>1, <2>2, ZenonT(30) DEF Sent
    <3>2. Rising(outbox \o queue) /\ Range(outbox \o queue) = Range(outbox) \cup Range(queue)
      <4>1. Below(outbox, queue) /\ Rising(queue) /\ Rising(outbox)
        BY Zenon DEF Turns
      <4> QED  BY <1>4, <4>1, RisingConcat, ConcatFacts, SMT, Z3
    <3>3. Below(<<>>, wire'[conn]) /\ Below(<<>>, outbox') /\ Below(wire'[conn], outbox')
      BY <1>3, <3>1, BelowRules, Zenon DEF Below
    <3>4. InLine'
      BY <1>1, <1>3, <1>5, <3>1, <3>3, Zenon DEF InLine
    <3>5. AllOnTheirWay'
      BY <1>1, <1>2, <1>3, <3>1, <3>2, Zenon DEF AllOnTheirWay
    <3> QED  BY <3>1, <3>2, <3>4, <3>5, Zenon
  <2> QED  BY <2>1, <2>2, ZenonT(30)
<1>8. Below(outbox', queue') /\ Rising(queue')
  BY <1>1, <1>3, BelowRules, Zenon
<1> QED  BY <1>1, <1>6, <1>7, <1>8, Zenon DEF Turns

\* Where in a list of m the last n begin.
LEMMA Offsets ==
    ASSUME NEW m \in Nat, NEW n \in Nat, n <= m
    PROVE  /\ \A i \in 1..n : m - n + i \in 1..m /\ (i = 1 \/ m - n + 1 < m - n + i)
           /\ n # 0 => n - 1 <= m
BY SMT, Z3

LEMMA Shifted == \A m, n, i \in Nat : m - (n - 1) + i = m - n + (i + 1)
BY SMT, Z3

LEMMA GreetingFrames ==
    /\ Head(<<HELLO>>) = HELLO /\ Tail(<<HELLO>>) = <<>>
    /\ Head(<<AUTH_OK>>) = AUTH_OK /\ Tail(<<AUTH_OK>>) = <<>>
    /\ Head(<<HELLO, AUTH_OK>>) = HELLO /\ Tail(<<HELLO, AUTH_OK>>) = <<AUTH_OK>>
    /\ Append(<<>>, AUTH_OK) = <<AUTH_OK>> /\ Append(<<HELLO>>, AUTH_OK) = <<HELLO, AUTH_OK>>
<1>1. ASSUME NEW x PROVE Head(<<x>>) = x
  BY SMT, Z3
<1>2. ASSUME NEW x PROVE Tail(<<x>>) = <<>>
  BY SMT, Z3
<1>3. ASSUME NEW x PROVE Append(<<>>, x) = <<x>>
  BY SMT, Z3
<1>4. ASSUME NEW x, NEW y PROVE Head(<<x, y>>) = x
  BY SMT, Z3
<1>5. ASSUME NEW x, NEW y PROVE Append(<<x>>, y) = <<x, y>>
  <2>1. <<x>> \in Seq({x, y}) /\ Len(<<x>>) = 1 /\ <<x>>[1] = x
    BY SMT, Z3
  <2>2. /\ Append(<<x>>, y) \in Seq({x, y}) /\ Len(Append(<<x>>, y)) = 2
        /\ Append(<<x>>, y)[1] = x /\ Append(<<x>>, y)[2] = y
    BY <2>1, SMT, Z3
  <2>3. <<x, y>> \in Seq({x, y}) /\ Len(<<x, y>>) = 2 /\ <<x, y>>[1] = x /\ <<x, y>>[2] = y
    BY SMT, Z3
  <2>4. ASSUME NEW p \in Seq({x, y}), NEW q \in Seq({x, y}), Len(p) = 2, Len(q) = 2,
               p[1] = q[1], p[2] = q[2]
        PROVE  p = q
    <3>1. p \in [1..2 -> {x, y}] /\ q \in [1..2 -> {x, y}]
      BY <2>4, SMTT(30), Z3T(30)
    <3>2. \A i \in 1..2 : p[i] = q[i]
      BY <2>4, SMT, Z3
    <3> QED  BY <3>1, <3>2, SMT, Z3
  <2> QED  BY <2>2, <2>3, <2>4, Zenon
<1>6. ASSUME NEW x, NEW y PROVE Tail(<<x, y>>) = <<y>>
  BY SMT, Z3
<1> QED  BY <1>1, <1>2, <1>3, <1>4, <1>5, <1>6, Zenon

LEMMA OneMore ==
    ASSUME NEW m \in Nat, NEW n \in Nat, n <= m
    PROVE  /\ \A i \in 1..n : (m + 1) - (n + 1) + i = m - n + i /\ m - n + i \in 1..m
           /\ (m + 1) - (n + 1) + (n + 1) = m + 1
BY SMT, Z3

\* The indices of a sequence, and those of its tail.
LEMMA Indices ==
    ASSUME NEW S, NEW q \in Seq(S)
    PROVE  Len(q) \in Nat /\ DOMAIN q = 1..Len(q)
BY SMT, Z3

LEMMA TailIndices ==
    ASSUME NEW S, NEW q \in Seq(S), q # <<>>
    PROVE  /\ Tail(q) \in Seq(S) /\ Len(Tail(q)) = Len(q) - 1 /\ Len(q) \in Nat /\ Len(q) # 0
           /\ DOMAIN q = 1..Len(q) /\ 1 \in DOMAIN q /\ Head(q) = q[1]
           /\ \A i \in DOMAIN Tail(q) :
                 i \in Nat /\ i + 1 \in DOMAIN q /\ i + 1 # 1 /\ Tail(q)[i] = q[i + 1]
           /\ \A i \in DOMAIN q : i = 1 \/ (i - 1 \in DOMAIN Tail(q) /\ (i - 1) + 1 = i)
BY SMT, Z3

\* The first answer on its way is of the oldest pending call.
LEMMA FirstDue ==
    ASSUME IndInv, Turns, link = "ready", ~broken, back[conn] # <<>>
    PROVE  /\ pending # <<>> /\ Head(pending) = Due(1) /\ Due(1) \in Calls
           /\ Without(Due(1)) = Tail(pending)
           /\ \/ Head(back[conn]) = RESULT(Due(1))
              \/ Head(back[conn]) = ERROR /\ Due(1) \in refused
           /\ \A i \in DOMAIN back[conn] : i = 1 \/ Due(1) < Due(i)
<1>1. conn \in Conns /\ InLine /\ AnswersDue /\ AllOnTheirWay
  BY Zenon DEF IndInv, Types, Turns
<1>2. back[conn] \in Seq(Reply) /\ handled[conn] \in Seq(Calls)
  BY <1>1, Zenon DEF IndInv, Types
<1>3. /\ 1 \in DOMAIN back[conn] /\ Head(back[conn]) = back[conn][1]
  BY <1>2, SMT, Z3
<1> DEFINE off == Len(handled[conn]) - Len(back[conn])
<1>4. /\ \A i \in DOMAIN back[conn] : off + i \in DOMAIN handled[conn]
      /\ \A i \in DOMAIN back[conn] : i = 1 \/ off + 1 < off + i
  <2>1. /\ Len(handled[conn]) \in Nat /\ DOMAIN handled[conn] = 1..Len(handled[conn])
        /\ Len(back[conn]) \in Nat /\ DOMAIN back[conn] = 1..Len(back[conn])
    BY <1>2, SMT, Z3
  <2> QED  BY <1>1, <2>1, Offsets, Zenon DEF AnswersDue
<1>5. \A i \in DOMAIN back[conn] : Due(i) = handled[conn][off + i]
  BY Zenon DEF Due
<1> HIDE DEF off
<1>6. \A j \in DOMAIN handled[conn] : handled[conn][j] \in Calls /\ handled[conn][j] \in Range(handled[conn])
  BY <1>2, SMT, Z3 DEF Range
<1>7. \A i \in DOMAIN back[conn] : i = 1 \/ Due(1) < Due(i)
  BY <1>1, <1>3, <1>4, <1>5, <1>6, Zenon DEF InLine, Rising
<1>8. Due(1) \in Range(pending) /\ Due(1) \in Calls /\ Due(1) \in Range(handled[conn])
  BY <1>1, <1>3, <1>4, <1>5, <1>6, Zenon DEF AnswersDue
<1>9. \A d \in Range(pending) : d = Due(1) \/ Due(1) < d
  <2>1. \A d \in Range(pending) : d \in Calls
    BY CallsOf, Zenon DEF Turns
  <2>2. \A d \in Calls : d \in Range(wire[conn]) \/ d \in Range(outbox) => Due(1) < d
    BY <1>1, <1>8, Zenon DEF InLine, Below
  <2>3. \A d \in Range(pending) : \/ \E i \in DOMAIN back[conn] : d = Due(i)
                                  \/ d \in Range(wire[conn]) \/ d \in Range(outbox)
    BY <1>1, Zenon DEF AllOnTheirWay
  <2> QED  BY <1>7, <2>1, <2>2, <2>3, Zenon
<1>10. pending # <<>> /\ Head(pending) = Due(1) /\ Without(Due(1)) = Tail(pending)
  BY <1>8, <1>9, LeastIsHead, Zenon DEF Turns
<1> QED  BY <1>1, <1>3, <1>7, <1>8, <1>10, Zenon DEF AnswersDue

\* When it is received, and the oldest pending call settled, the next is first.
LEMMA AnswerTaken ==
    ASSUME IndInv, Turns, link = "ready", ~broken, back[conn] # <<>>,
           pending' = Tail(pending), back' = [back EXCEPT ![conn] = Tail(@)],
           \A c \in Calls : outcome[c] # "none" => outcome'[c] # "none",
           UNCHANGED <<link, conn, broken, session, handled, wire, outbox, queue, refused>>
    PROVE  Turns'
<1>1. conn \in Conns /\ InLine /\ AnswersDue /\ AllOnTheirWay /\ queue = <<>>
  BY Zenon DEF IndInv, Types, Turns
<1>2. back[conn] \in Seq(Reply) /\ handled[conn] \in Seq(Calls) /\ back'[conn] = Tail(back[conn])
  BY <1>1, Zenon DEF IndInv, Types
<1>3. /\ pending # <<>> /\ Head(pending) = Due(1) /\ Due(1) \in Calls
      /\ \A i \in DOMAIN back[conn] : i = 1 \/ Due(1) < Due(i)
  BY FirstDue, ZenonT(30)
<1>4. /\ Rising(Tail(pending)) /\ Range(pending) = {Due(1)} \cup Range(Tail(pending))
      /\ Tail(pending) \in Seq(Calls) /\ Due(1) \notin Range(Tail(pending))
  <2>1. /\ Rising(Tail(pending)) /\ Range(pending) = {Head(pending)} \cup Range(Tail(pending))
        /\ \A c \in Calls : c \in Range(Tail(pending)) /\ Head(pending) \in Calls => Head(pending) < c
    BY <1>3, RisingTail, Zenon DEF Turns
  <2>2. Tail(pending) \in Seq(Calls)
    BY <1>3, TailIndices, Zenon DEF Turns
  <2> QED  BY <1>3, <2>1, <2>2, CallNumbers, Zenon
<1>5. \A c \in Range(pending) : c \in Calls
  BY CallsOf, Zenon DEF Turns
<1>6. /\ \A i \in DOMAIN back'[conn] :
             i + 1 \in DOMAIN back[conn] /\ i + 1 # 1 /\ back'[conn][i] = back[conn][i + 1]
      /\ \A i \in DOMAIN back[conn] : i = 1 \/ (i - 1 \in DOMAIN back'[conn] /\ (i - 1) + 1 = i)
      /\ Len(back'[conn]) = Len(back[conn]) - 1 /\ Len(back[conn]) \in Nat
      /\ Len(back[conn]) # 0 /\ Len(back[conn]) <= Len(handled[conn])
      /\ DOMAIN back[conn] = 1..Len(back[conn]) /\ 1 \in DOMAIN back[conn]
      /\ \A i \in DOMAIN back'[conn] : i \in Nat
  <2>1. Len(back[conn]) <= Len(handled[conn])
    BY <1>1, ZenonT(30) DEF AnswersDue
  <2> DEFINE q == back[conn]
  <2>2. /\ Len(Tail(q)) = Len(q) - 1 /\ Len(q) \in Nat /\ Len(q) # 0
        /\ DOMAIN q = 1..Len(q) /\ 1 \in DOMAIN q
        /\ \A i \in DOMAIN Tail(q) :
              i \in Nat /\ i + 1 \in DOMAIN q /\ i + 1 # 1 /\ Tail(q)[i] = q[i + 1]
        /\ \A i \in DOMAIN q : i = 1 \/ (i - 1 \in DOMAIN Tail(q) /\ (i - 1) + 1 = i)
    BY <1>2, TailIndices, Zenon
  <2> QED  BY <1>2, <2>1, <2>2, Zenon
<1>l. Len(handled[conn]) \in Nat /\ DOMAIN handled[conn] = 1..Len(handled[conn])
  BY <1>2, Indices, Zenon
<1>7. \A i \in DOMAIN back'[conn] : Due(i)' = Due(i + 1)
  <2> SUFFICES ASSUME NEW i \in DOMAIN back'[conn] PROVE Due(i)' = Due(i + 1)
    BY ZenonT(30)
  <2>2. Len(handled[conn]) - Len(back'[conn]) + i = Len(handled[conn]) - Len(back[conn]) + (i + 1)
    <3>1. Len(handled[conn]) - (Len(back[conn]) - 1) + i = Len(handled[conn]) - Len(back[conn]) + (i + 1)
      <4>1. i \in Nat
        BY <1>6, Zenon
      <4>2. Len(handled[conn]) \in Nat /\ Len(back[conn]) \in Nat
        BY <1>6, <1>l, Zenon
      <4> QED  BY <4>1, <4>2, Shifted, Zenon
    <3> QED  BY <1>6, <3>1, Zenon
  <2> QED  BY <2>2, Zenon DEF Due
<1>8. Len(back'[conn]) <= Len(handled[conn])
  BY <1>6, <1>l, Offsets, Zenon
<1>9. InLine'
  <2>1. \A c \in Range(handled[conn]) : c \in Calls
    BY <1>2, CallsOf, Zenon
  <2> QED  BY <1>1, <2>1, Zenon DEF InLine
<1>10. AnswersDue'
  <2>1. \A i \in DOMAIN back[conn] : i # 1 => Due(i) \in Range(Tail(pending))
    BY <1>1, <1>3, <1>4, <1>5, CallNumbers, Zenon DEF AnswersDue
  <2>2. \A i \in DOMAIN back'[conn] :
           /\ Due(i)' \in Range(Tail(pending))
           /\ \/ back'[conn][i] = RESULT(Due(i)')
              \/ back'[conn][i] = ERROR /\ Due(i)' \in refused
    <3> SUFFICES ASSUME NEW i \in DOMAIN back'[conn]
                 PROVE  /\ Due(i)' \in Range(Tail(pending))
                        /\ \/ back'[conn][i] = RESULT(Due(i)')
                           \/ back'[conn][i] = ERROR /\ Due(i)' \in refused
      BY ZenonT(30)
    <3>1. /\ i + 1 \in DOMAIN back[conn] /\ i + 1 # 1 /\ back'[conn][i] = back[conn][i + 1]
          /\ Due(i)' = Due(i + 1)
      BY <1>6, <1>7, Zenon
    <3> QED  BY <1>1, <2>1, <3>1, ZenonT(30) DEF AnswersDue
  <2> QED  BY <1>8, <2>2, Zenon DEF AnswersDue
<1>11. AllOnTheirWay'
  <2>1. Range(wire[conn]) \cap Calls \subseteq Range(Tail(pending))
    <3>1. Due(1) \in Range(handled[conn])
      <4>1. Len(handled[conn]) - Len(back[conn]) + 1 \in DOMAIN handled[conn]
        BY <1>6, <1>l, Offsets, Zenon
      <4> QED  BY <4>1, Zenon DEF Due, Range
    <3>2. \A c \in Calls : c \in Range(wire[conn]) => Due(1) < c
      BY <1>1, <1>3, <3>1, Zenon DEF InLine, Below
    <3> QED  BY <1>1, <1>3, <1>4, <3>2, CallNumbers, Zenon DEF AllOnTheirWay
  <2>2. ASSUME NEW c \in Range(Tail(pending))
        PROVE  \/ \E i \in DOMAIN back'[conn] : c = Due(i)'
               \/ c \in Range(wire[conn]) \/ c \in Range(outbox)
    <3>1. c \in Range(pending) /\ c # Due(1)
      BY <1>4, Zenon
    <3>2. CASE c \in Range(wire[conn]) \/ c \in Range(outbox)
      BY <3>2, ZenonT(30)
    <3>3. ASSUME NEW i \in DOMAIN back[conn], c = Due(i)
          PROVE  \E j \in DOMAIN back'[conn] : c = Due(j)'
      <4>1. i - 1 \in DOMAIN back'[conn] /\ (i - 1) + 1 = i
        BY <1>6, <3>1, <3>3, Zenon
      <4> QED  BY <1>7, <3>3, <4>1, Zenon
    <3> QED  BY <1>1, <3>1, <3>2, <3>3, Zenon DEF AllOnTheirWay
  <2> QED  BY <2>1, <2>2, Zenon DEF AllOnTheirWay
<1>12. \A c \in Range(Tail(pending)) : outcome'[c] # "none"
  BY <1>4, <1>5, Zenon DEF Turns
<1>13. link' = "ready" /\ link' # "open"
  BY ZenonT(30)
<1> QED  BY <1>1, <1>4, <1>9, <1>10, <1>11, <1>12, <1>13, Zenon DEF Turns


LEMMA ReceiveTurns ==
    ASSUME IndInv, Turns, kind # "java", Receive, link \in {"down", "open", "ready"},
           \A c \in Calls : outcome[c] = "refused" => c \in refused
    PROVE  Turns' /\ \A c \in Calls : outcome'[c] = "refused" => c \in refused'
<1> DEFINE f == Head(back[conn])
<1>1. /\ link # "down" /\ ~broken /\ back[conn] # <<>> /\ conn \in Conns
      /\ back' = [back EXCEPT ![conn] = Tail(@)]
      /\ UNCHANGED <<auth, conn, broken, session, handled, refused>>
      /\ \/ f = HELLO /\ OnHello
         \/ f = AUTH_OK /\ Ready
         \/ f = ERROR /\ OnError
         \/ \E c \in Calls : f = RESULT(c) /\ OnResult(c)
  BY Zenon DEF Receive, serverVars, IndInv, Types
<1>2. back'[conn] = Tail(back[conn]) /\ Types
  BY <1>1, Zenon DEF IndInv, Types
<1>k. /\ HELLO # AUTH_OK /\ HELLO # ERROR /\ AUTH_OK # ERROR
      /\ \A c \in Calls : RESULT(c) \notin {HELLO, AUTH_OK, ERROR}
      /\ \A c : \A d : RESULT(c) = RESULT(d) => c = d
  BY ZenonT(30) DEF HELLO, AUTH_OK, ERROR, RESULT
\* Before it is ready the client is only greeted.
<1>3. CASE link = "open"
  <2>1. Greeted /\ link # "ready"
    BY <1>3, Zenon DEF Turns
  <2>2. \/ /\ auth /\ session[conn] = "new" /\ f = HELLO /\ Tail(back[conn]) = <<>>
        \/ /\ auth /\ session[conn] = "in" /\ f = HELLO /\ Tail(back[conn]) = <<AUTH_OK>>
        \/ /\ auth /\ session[conn] = "in" /\ f = AUTH_OK /\ Tail(back[conn]) = <<>>
        \/ /\ ~auth /\ session[conn] = "in" /\ f = HELLO /\ Tail(back[conn]) = <<>>
    BY <1>1, <2>1, GreetingFrames, Zenon DEF Greeted, Greeting
  <2>3. (f = HELLO /\ OnHello) \/ (f = AUTH_OK /\ Ready)
    BY <1>1, <1>k, <2>2, Zenon
  <2> HIDE DEF f
  <2>4. CASE Ready /\ session[conn] = "in" /\ Tail(back[conn]) = <<>>
    <3>1. Turns'
      BY <1>1, <1>2, <1>3, <2>4, ReadyTurns, Zenon
    <3> QED  BY <1>1, <2>4, <3>1, Zenon DEF Ready
  <2>5. CASE auth /\ f = HELLO /\ OnHello
    <3>1. UNCHANGED <<link, pending, outcome, queue, conn, auth, session, handled>>
      BY <1>1, <2>5, Zenon DEF OnHello
    <3>2. Greeting(auth, session[conn], Tail(back[conn]))
      <4>1. /\ auth /\ \/ session[conn] = "new" /\ Tail(back[conn]) = <<>>
                       \/ session[conn] = "in" /\ Tail(back[conn]) = <<AUTH_OK>>
        BY <1>k, <2>2, <2>5, Zenon
      <4> QED  BY <4>1, Zenon DEF Greeting
    <3>3. wire' = wire /\ (outbox' = outbox \/ outbox' = outbox \o <<AUTH>>)
      <4>1. kind # "ts" => Sent(<<AUTH>>)
        BY <2>5, Zenon DEF OnHello
      <4> QED  BY <2>5, <4>1, Zenon DEF OnHello, Sent
    <3>4. Rising(outbox') /\ Below(outbox', queue)
      <4>1. outbox \in Seq(Frame) /\ AUTH \in Frame /\ AUTH \notin Calls /\ Rising(outbox)
        BY <1>2, FrameFacts, Zenon DEF Types, Turns
      <4>2. outbox \o <<AUTH>> = Append(outbox, AUTH)
        BY <4>1, SMTT(30), Z3T(30)
      <4>3. /\ Rising(Append(outbox, AUTH))
            /\ Range(Append(outbox, AUTH)) = Range(outbox) \cup {AUTH}
        BY <4>1, RisingAppend, SMT, Z3
      <4> QED  BY <3>3, <4>1, <4>2, <4>3, Zenon DEF Turns, Below
    <3>5. Greeted'
      BY <1>2, <2>1, <3>1, <3>2, <3>3, Zenon DEF Greeted
    <3>6. link' = "open" /\ link' # "ready"
      BY <1>3, <3>1, Zenon
    <3>7. Turns'
      BY <2>1, <3>1, <3>4, <3>5, <3>6, Zenon DEF Turns
    <3> QED  BY <1>1, <3>1, <3>7, Zenon
  <2>6. CASE ~auth /\ f = HELLO
    BY <1>k, <2>2, <2>3, <2>4, <2>6, Zenon DEF OnHello
  <2>7. CASE f = AUTH_OK
    BY <1>k, <2>2, <2>3, <2>4, <2>7, Zenon
  <2> QED  BY <2>3, <2>5, <2>6, <2>7, ZenonT(30)
\* Then all it gets answers its calls.
<1>4. CASE link = "ready"
  <2>1. /\ pending # <<>> /\ Head(pending) = Due(1) /\ Due(1) \in Calls
        /\ Without(Due(1)) = Tail(pending)
        /\ f = RESULT(Due(1)) \/ (f = ERROR /\ Due(1) \in refused)
    BY <1>1, <1>4, FirstDue, ZenonT(30)
  <2>2. (f = ERROR /\ OnError /\ Due(1) \in refused) \/ (f = RESULT(Due(1)) /\ OnResult(Due(1)))
    BY <1>1, <1>k, <2>1, Zenon
  <2> HIDE DEF f
  <2>3. /\ pending' = Tail(pending) /\ UNCHANGED <<link, wire, outbox, queue>>
        /\ \/ Due(1) \in refused /\ outcome' = Told({Due(1)}, "refused")
           \/ outcome' = Told({Due(1)} \cap Range(pending), "ok")
    BY <2>1, <2>2, Zenon DEF OnError, OnResult
  <2>4. \A c \in Calls : /\ outcome[c] # "none" => outcome'[c] # "none"
                         /\ outcome'[c] = "refused" => c \in refused
    <3>1. ASSUME Due(1) \in refused, outcome' = Told({Due(1)}, "refused"), NEW c \in Calls
          PROVE  /\ outcome[c] # "none" => outcome'[c] # "none"
                 /\ outcome'[c] = "refused" => c \in refused
      <4>1. outcome'[c] = IF c \in {Due(1)} THEN "refused" ELSE outcome[c]
        BY <3>1, Zenon DEF Told
      <4>2. "refused" # "none"
        BY ZenonT(30)
      <4> QED  BY <3>1, <4>1, <4>2, Zenon
    <3>2. ASSUME outcome' = Told({Due(1)} \cap Range(pending), "ok"), NEW c \in Calls
          PROVE  /\ outcome[c] # "none" => outcome'[c] # "none"
                 /\ outcome'[c] = "refused" => c \in refused
      <4>1. outcome'[c] = IF c \in {Due(1)} \cap Range(pending) THEN "ok" ELSE outcome[c]
        BY <3>2, Zenon DEF Told
      <4>2. "ok" # "none" /\ "ok" # "refused"
        BY ZenonT(30)
      <4> QED  BY <3>2, <4>1, <4>2, Zenon
    <3> QED  BY <2>3, <3>1, <3>2, Zenon
  <2>5. Turns'
    BY <1>1, <1>4, <2>3, <2>4, AnswerTaken, Zenon
  <2> QED  BY <1>1, <2>4, <2>5, Zenon
<1> QED  BY <1>1, <1>3, <1>4, ZenonT(30)

LEMMA ServerTurns ==
    ASSUME IndInv, Turns, NEW g \in Conns, ServerStep(g), ~mixed', link \in {"down", "open", "ready"}
    PROVE  Turns' /\ refused \subseteq refused'
<1> DEFINE f == Head(wire[g])
<1>1. /\ wire[g] # <<>> /\ wire' = [wire EXCEPT ![g] = Tail(@)]
      /\ Handshake(g, f) \/ HandleFrame(g, f)
      /\ UNCHANGED <<pending, queue, outbox, link, conn, auth, outcome, broken>>
  BY Zenon DEF ServerStep, clientVars
<1>2. /\ wire[g] \in Seq(Frame) /\ wire'[g] = Tail(wire[g]) /\ f \in Frame /\ f \in Range(wire[g])
      /\ \A h \in Conns : h # g => wire'[h] = wire[h]
      /\ Range(Tail(wire[g])) \subseteq Range(wire[g])
  <2>1. wire[g] \in Seq(Frame) /\ wire'[g] = Tail(wire[g]) /\ \A h \in Conns : h # g => wire'[h] = wire[h]
    BY <1>1, Zenon DEF IndInv, Types
  <2> QED  BY <1>1, <2>1, TailFacts, ZenonT(30)
<1>3. refused \subseteq refused' /\ DOMAIN session' = DOMAIN session
  BY <1>1, Zenon DEF Handshake, HandleFrame
<1> HIDE DEF f
<1>4. CASE link = "down" \/ g # conn
  <2>1. \A h \in Conns : h # g => /\ handled'[h] = handled[h] /\ back'[h] = back[h]
                                  /\ session'[h] = session[h]
    <3>1. CASE Handshake(g, f)
      BY <1>1, <3>1, Zenon DEF Handshake, Answer, IndInv, Types, Turns
    <3>2. CASE HandleFrame(g, f)
      BY <1>1, <3>2, Zenon DEF HandleFrame, Answer, IndInv, Types, Turns
    <3> QED  BY <1>1, <3>1, <3>2, ZenonT(30)
  <2>2. link # "down" => conn \in Conns /\ conn # g
    BY <1>4, Zenon DEF IndInv, Types
  <2>3. link = "ready" => Rising(wire[conn])
    BY Zenon DEF Turns, InLine
  <2>4. link # "down" =>
              /\ handled'[conn] = handled[conn] /\ back'[conn] = back[conn]
              /\ session'[conn] = session[conn] /\ wire'[conn] = wire[conn]
    BY <1>2, <2>1, <2>2, Zenon
  <2>5. link # "down" =>
              /\ handled'[conn] = handled[conn] /\ back'[conn] = back[conn]
              /\ session'[conn] = session[conn] /\ (link = "ready" => Rising(wire'[conn]))
              /\ Range(wire'[conn]) \subseteq Range(wire[conn]) \cup {AUTH}
              /\ ~broken' => /\ ~broken
                             /\ Range(wire[conn]) \cap Calls \subseteq Range(wire'[conn])
    BY <1>1, <2>3, <2>4, Zenon
  <2> QED  BY <1>1, <1>3, <2>5, LineKept, ZenonT(30) DEF IndInv
<1>5. CASE link = "open" /\ g = conn
  <2>1. Greeted /\ f = AUTH
    BY <1>2, <1>5, Zenon DEF Turns, Greeted
  <2>2. Range(wire'[conn]) \subseteq {AUTH}
    BY <1>2, <1>5, <2>1, Zenon DEF Greeted
  <2>3. CASE Handshake(g, f)
    <3>1. /\ session[conn] = "new" /\ session'[conn] = "in"
          /\ back'[conn] = Append(back[conn], AUTH_OK) /\ handled' = handled
      BY <1>5, <2>1, <2>3, Zenon DEF Handshake, Answer, IndInv, Types, Turns
    <3>2. auth /\ back[conn] \in {<<>>, <<HELLO>>}
      <4>1. "new" # "in"
        BY ZenonT(30)
      <4> QED  BY <2>1, <3>1, <4>1, Zenon DEF Greeted, Greeting
    <3>3. back'[conn] \in {<<HELLO, AUTH_OK>>, <<AUTH_OK>>}
      BY <3>1, <3>2, GreetingFrames, Zenon
    <3>4. Greeting(auth, session'[conn], back'[conn])
      BY <3>1, <3>2, <3>3, Zenon DEF Greeting
    <3>5. Greeted'
      BY <1>1, <2>1, <2>2, <3>1, <3>4, Zenon DEF Greeted
    <3>6. link' = "open" /\ link' # "ready" /\ link # "ready"
      BY <1>1, <1>5, ZenonT(30)
    <3> QED  BY <1>1, <1>3, <3>5, <3>6, Zenon DEF Turns
  <2>4. CASE HandleFrame(g, f)
    <3>1. UNCHANGED <<session, back, handled>>
      BY <2>1, <2>4, FrameFacts, Zenon DEF HandleFrame
    <3>2. Greeted'
      BY <1>1, <2>1, <2>2, <3>1, Zenon DEF Greeted
    <3>3. link' = "open" /\ link' # "ready" /\ link # "ready"
      BY <1>1, <1>5, Zenon
    <3> QED  BY <1>1, <1>3, <3>2, <3>3, Zenon DEF Turns
  <2> QED  BY <1>1, <2>3, <2>4, ZenonT(30)
<1>6. CASE link = "ready" /\ g = conn
  <2>1. InLine /\ AnswersDue /\ AllOnTheirWay /\ link # "open" /\ link # "down"
    BY <1>6, Zenon DEF Turns
  <2>2. HandleFrame(g, f)
    <3>1. session[g] # "new"
      BY <1>6, <2>1, ZenonT(30) DEF InLine
    <3> QED  BY <1>1, <3>1, ZenonT(30) DEF Handshake
  <2>3. /\ Rising(Tail(wire[g])) /\ Range(wire[g]) = {f} \cup Range(Tail(wire[g]))
        /\ \A c \in Calls : c \in Range(Tail(wire[g])) /\ f \in Calls => f < c
    BY <1>1, <1>2, <1>6, <2>1, RisingTail, Zenon DEF InLine, f
  <2>4. CASE f = AUTH
    <3>1. UNCHANGED <<session, back, handled>>
      BY <2>2, <2>4, FrameFacts, Zenon DEF HandleFrame
    <3>2. /\ Rising(wire'[conn]) /\ Range(wire'[conn]) \subseteq Range(wire[conn]) \cup {AUTH}
          /\ Range(wire[conn]) \cap Calls \subseteq Range(wire'[conn])
      BY <1>2, <1>6, <2>3, <2>4, FrameFacts, Zenon
    <3> QED  BY <1>1, <1>3, <3>1, <3>2, LineKept, Zenon DEF IndInv
  <2>5. CASE f \in Calls
    <3>1. /\ handled'[conn] = Append(handled[conn], f) /\ session' = session
          /\ \/ back'[conn] = Append(back[conn], RESULT(f))
             \/ back'[conn] = Append(back[conn], ERROR) /\ f \in refused'
      BY <1>6, <2>2, <2>5, FrameFacts, Zenon DEF HandleFrame, Answer, IndInv, Types
    <3>2. handled[conn] \in Seq(Calls) /\ back[conn] \in Seq(Reply)
      BY <1>6, Zenon DEF IndInv, Types
    <3>3. f \in Range(pending) /\ outcome[f] # "none"
      BY <1>2, <1>6, <2>1, <2>5, Zenon DEF AllOnTheirWay, Turns
    <3>4. \A c \in Calls : c \in Range(handled[conn]) /\ f \in Calls => c < f
      BY <1>2, <1>6, <2>1, Zenon DEF InLine, Below
    <3>5. /\ Rising(handled'[conn]) /\ Range(handled'[conn]) = Range(handled[conn]) \cup {f}
      <4>1. Rising(handled[conn])
        BY <2>1, Zenon DEF InLine
      <4>2. /\ Rising(Append(handled[conn], f))
            /\ Range(Append(handled[conn], f)) = Range(handled[conn]) \cup {f}
        BY <2>5, <3>2, <3>4, <4>1, RisingAppend, SMT, Z3
      <4> QED  BY <3>1, <4>2, Zenon
    <3>6. InLine'
      <4>1. /\ Below(handled'[conn], wire'[conn]) /\ Below(handled'[conn], outbox)
            /\ Below(wire'[conn], outbox)
        BY <1>2, <1>6, <2>1, <2>3, <2>5, <3>5, Zenon DEF InLine, Below
      <4> QED  BY <1>1, <1>2, <1>6, <2>1, <2>3, <3>1, <3>3, <3>5, <4>1, Zenon DEF InLine
    <3>7. PICK y : back'[conn] = Append(back[conn], y) /\ (y = RESULT(f) \/ (y = ERROR /\ f \in refused'))
      BY <3>1, Zenon
    <3>8. /\ Len(handled'[conn]) = Len(handled[conn]) + 1 /\ Len(back'[conn]) = Len(back[conn]) + 1
          /\ Len(handled[conn]) \in Nat /\ Len(back[conn]) \in Nat
          /\ DOMAIN back[conn] = 1..Len(back[conn]) /\ DOMAIN back'[conn] = 1..(Len(back[conn]) + 1)
          /\ back'[conn][Len(back[conn]) + 1] = y /\ handled'[conn][Len(handled[conn]) + 1] = f
          /\ \A i \in 1..Len(back[conn]) : back'[conn][i] = back[conn][i]
          /\ \A i \in 1..Len(handled[conn]) : handled'[conn][i] = handled[conn][i]
      BY <3>1, <3>2, <3>7, SMT, Z3
    <3>p. PICK m \in Nat, n \in Nat : m = Len(handled[conn]) /\ n = Len(back[conn])
      BY <3>8, Zenon
    <3>9. /\ m = Len(handled[conn]) /\ n = Len(back[conn]) /\ n <= m
          /\ Len(handled'[conn]) = m + 1 /\ Len(back'[conn]) = n + 1
      BY <2>1, <3>8, <3>p, Zenon DEF AnswersDue
    <3>10. \A i \in 1..n : Due(i)' = Due(i)
      <4> SUFFICES ASSUME NEW i \in 1..n PROVE Due(i)' = Due(i)
        BY ZenonT(30)
      <4>1. (m + 1) - (n + 1) + i = m - n + i /\ m - n + i \in 1..m
        BY <3>9, OneMore, Zenon
      <4>2. Due(i)' = handled'[conn][(m + 1) - (n + 1) + i]
        BY <1>1, <3>9, Zenon DEF Due
      <4> QED  BY <3>8, <3>9, <4>1, <4>2, Zenon DEF Due
    <3>11. Due(n + 1)' = f
      <4>1. (m + 1) - (n + 1) + (n + 1) = m + 1
        BY <3>9, OneMore, Zenon
      <4>2. Due(n + 1)' = handled'[conn][(m + 1) - (n + 1) + (n + 1)]
        BY <1>1, <3>9, Zenon DEF Due
      <4> QED  BY <3>8, <3>9, <4>1, <4>2, Zenon
    <3>12. /\ \A i \in DOMAIN back'[conn] : i \in 1..n \/ i = n + 1
           /\ n + 1 \in DOMAIN back'[conn] /\ \A i \in DOMAIN back[conn] : i \in DOMAIN back'[conn]
           /\ n + 1 <= m + 1
      <4>1. /\ \A i \in 1..(n + 1) : i \in 1..n \/ i = n + 1
            /\ n + 1 \in 1..(n + 1) /\ \A i \in 1..n : i \in 1..(n + 1)
            /\ n + 1 <= m + 1
        BY <3>9, SMTT(30), Z3T(30)
      <4> QED  BY <3>8, <3>9, <4>1, Zenon
    <3>13. AnswersDue'
      <4> SUFFICES ASSUME NEW i \in DOMAIN back'[conn]
                   PROVE  /\ Due(i)' \in Range(pending)
                          /\ \/ back'[conn][i] = RESULT(Due(i)')
                             \/ back'[conn][i] = ERROR /\ Due(i)' \in refused'
        BY <1>1, <3>9, <3>12, Zenon DEF AnswersDue
      <4>1. CASE i = n + 1
        BY <3>3, <3>7, <3>8, <3>9, <3>11, <4>1, Zenon
      <4>2. CASE i \in 1..n
        <5>1. Due(i)' = Due(i) /\ back'[conn][i] = back[conn][i] /\ i \in DOMAIN back[conn]
          BY <3>8, <3>9, <3>10, <4>2, Zenon
        <5> QED  BY <1>3, <2>1, <5>1, Zenon DEF AnswersDue
      <4> QED  BY <3>12, <4>1, <4>2, ZenonT(30)
    <3>14. AllOnTheirWay'
      <4>1. Range(wire'[conn]) \cap Calls \subseteq Range(pending)
        BY <1>2, <1>6, <2>1, Zenon DEF AllOnTheirWay
      <4>2. ASSUME ~broken, NEW c \in Range(pending)
            PROVE  \/ \E i \in DOMAIN back'[conn] : c = Due(i)'
                   \/ c \in Range(wire'[conn]) \/ c \in Range(outbox)
        <5>1. CASE c \in Range(outbox)
          BY <5>1, ZenonT(30)
        <5>2. CASE c \in Range(wire[conn])
          BY <1>2, <1>6, <2>3, <3>11, <3>12, <5>2, Zenon
        <5>3. ASSUME NEW i \in DOMAIN back[conn], c = Due(i)
              PROVE  \E j \in DOMAIN back'[conn] : c = Due(j)'
          BY <3>8, <3>9, <3>10, <3>12, <5>3, ZenonT(30)
        <5> QED  BY <2>1, <4>2, <5>1, <5>2, <5>3, ZenonT(30) DEF AllOnTheirWay
      <4> QED  BY <1>1, <4>1, <4>2, Zenon DEF AllOnTheirWay
    <3>15. link' = "ready" /\ link' # "open"
      BY <1>1, <1>6, ZenonT(30)
    <3> QED  BY <1>1, <1>3, <1>6, <3>6, <3>13, <3>14, <3>15, Zenon DEF Turns
  <2> QED  BY <1>2, <2>4, <2>5, Zenon DEF Frame
<1> QED  BY <1>3, <1>4, <1>5, <1>6, ZenonT(30)


LEMMA LoseTurns ==
    ASSUME IndInv, Turns, Lose
    PROVE  Turns'
<1>1. /\ link # "down" /\ broken' = TRUE /\ conn \in Conns
      /\ UNCHANGED <<auth, link, conn, pending, queue, outbox, outcome, back, session, handled, refused>>
  BY Zenon DEF Lose, serverVars, IndInv, Types
<1>2. PICK n \in 0..Len(wire[conn]) : wire' = [wire EXCEPT ![conn] = SubSeq(@, 1, n)]
  BY Zenon DEF Lose
<1>3. wire'[conn] = SubSeq(wire[conn], 1, n) /\ wire[conn] \in Seq(Frame)
  BY <1>1, <1>2, Zenon DEF IndInv, Types
<1>4. Range(SubSeq(wire[conn], 1, n)) \subseteq Range(wire[conn])
  BY <1>3, PrefixFacts, ZenonT(30)
<1>5. link = "ready" => Rising(wire'[conn])
  BY <1>3, RisingPrefix, Zenon DEF Turns, InLine
<1>6. link # "down" =>
            /\ handled'[conn] = handled[conn] /\ back'[conn] = back[conn]
            /\ session'[conn] = session[conn] /\ (link = "ready" => Rising(wire'[conn]))
            /\ Range(wire'[conn]) \subseteq Range(wire[conn]) \cup {AUTH}
            /\ ~broken' => /\ ~broken
                           /\ Range(wire[conn]) \cap Calls \subseteq Range(wire'[conn])
  BY <1>1, <1>3, <1>4, <1>5, Zenon
<1> QED  BY <1>1, <1>6, LineKept, Zenon DEF IndInv

\* Close, a late token, and a step of something else.
LEMMA StillTurns ==
    ASSUME IndInv, Turns,
           UNCHANGED <<auth, link, conn, pending, queue, outbox, outcome, back, session, handled, refused>>,
           \/ wire' = wire /\ (broken' = broken \/ broken' = (link # "down"))
           \/ wire' = Wired(<<AUTH>>) /\ broken' = broken
    PROVE  Turns'
<1>1. link # "down" => conn \in Conns /\ (link = "ready" => Rising(wire[conn]))
  BY Zenon DEF IndInv, Types, Turns, InLine
<1>2. ASSUME link # "down"
      PROVE  /\ link = "ready" => Rising(wire'[conn])
             /\ Range(wire'[conn]) \subseteq Range(wire[conn]) \cup {AUTH}
             /\ Range(wire[conn]) \subseteq Range(wire'[conn])
  <2>1. CASE wire' = wire
    BY <1>1, <1>2, <2>1, Zenon
  <2>2. CASE wire' = [wire EXCEPT ![conn] = @ \o <<AUTH>>]
    <3>1. wire'[conn] = wire[conn] \o <<AUTH>> /\ wire[conn] \in Seq(Frame) /\ AUTH \in Frame
      BY <1>1, <1>2, <2>2, FrameFacts, Zenon DEF IndInv, Types
    <3>2. wire'[conn] = Append(wire[conn], AUTH)
      BY <3>1, SMTT(30), Z3T(30)
    <3>3. Range(Append(wire[conn], AUTH)) = Range(wire[conn]) \cup {AUTH}
      BY <3>1, AppendFacts, SMT, Z3
    <3>4. ASSUME link = "ready" PROVE Rising(wire'[conn])
      <4>1. Rising(wire[conn]) /\ \A c \in Calls : c \in Range(wire[conn]) /\ AUTH \in Calls => c < AUTH
        BY <1>1, <1>2, <3>4, FrameFacts, ZenonT(30)
      <4>2. Rising(Append(wire[conn], AUTH))
        BY <3>1, <4>1, RisingAppend, Zenon
      <4> QED  BY <3>2, <4>2, Zenon
    <3> QED  BY <3>2, <3>3, <3>4, Zenon
  <2> QED  BY <1>2, <2>1, <2>2, Zenon DEF Wired
<1>3. link # "down" =>
            /\ handled'[conn] = handled[conn] /\ back'[conn] = back[conn]
            /\ session'[conn] = session[conn] /\ (link = "ready" => Rising(wire'[conn]))
            /\ Range(wire'[conn]) \subseteq Range(wire[conn]) \cup {AUTH}
            /\ ~broken' => /\ ~broken
                           /\ Range(wire[conn]) \cap Calls \subseteq Range(wire'[conn])
  BY <1>2, Zenon
<1> QED  BY <1>3, LineKept, Zenon DEF IndInv

\* A call leaves pending when its caller is told something; only a client that
\* is not Java's tells a caller that the call was refused.
Settled ==
    /\ pending' \in Seq(Calls) /\ Range(pending') \subseteq Range(pending)
    /\ \A d \in Calls :
          \/ outcome'[d] = outcome[d]
          \/ /\ d \in Range(pending) /\ outcome'[d] # "none"
             /\ kind = "java" => outcome'[d] # "refused"

LEMMA ToldSettles ==
    ASSUME NEW cs \in SUBSET Range(pending), NEW what \in {"ok", "timeout", "lost", "refused"},
           outcome' = Told(cs, what), what = "refused" => kind # "java",
           pending' \in Seq(Calls), Range(pending') \subseteq Range(pending)
    PROVE  Settled
<1>1. what # "none"
  BY ZenonT(30)
<1>2. \A d \in Calls : outcome'[d] = IF d \in cs THEN what ELSE outcome[d]
  BY Zenon DEF Told
<1> QED  BY <1>1, <1>2, Zenon DEF Settled

LEMMA GiveUpSettles ==
    ASSUME GiveUp PROVE Settled
<1>1. pending' = <<>> /\ outcome' = Told(Range(pending), "lost") /\ "lost" # "refused"
  BY ZenonT(30) DEF GiveUp
<1>2. /\ pending' \in Seq(Calls) /\ Range(pending') \subseteq Range(pending)
      /\ Range(pending) \in SUBSET Range(pending)
  BY <1>1, EmptyFacts, Zenon
<1>3. "lost" \in {"ok", "timeout", "lost", "refused"}
  BY ZenonT(30)
<1> QED  BY <1>1, <1>2, <1>3, ToldSettles, Zenon

LEMMA WithoutSettles ==
    ASSUME pending \in Seq(Calls), NEW c \in Calls, pending' = Without(c),
           \/ outcome' = Told({c} \cap Range(pending), "ok")
           \/ c \in Range(pending) /\ outcome' = Told({c}, "timeout")
    PROVE  Settled
<1>1. pending' \in Seq(Calls) /\ Range(pending') \subseteq Range(pending)
  <2>1. Omit(pending, {c}) \in Seq(Calls) /\ Range(Omit(pending, {c})) = Range(pending) \ {c}
    BY OmitRange, ZenonT(30)
  <2> QED  BY <2>1, Zenon DEF Without
<1>2. /\ "ok" \in {"ok", "timeout", "lost", "refused"} /\ "ok" # "refused"
      /\ "timeout" \in {"ok", "timeout", "lost", "refused"} /\ "timeout" # "refused"
  BY ZenonT(30)
<1>3. CASE outcome' = Told({c} \cap Range(pending), "ok")
  <2>1. {c} \cap Range(pending) \in SUBSET Range(pending)
    BY Zenon
  <2> QED  BY <1>1, <1>2, <1>3, <2>1, ToldSettles, Zenon
<1>4. CASE c \in Range(pending) /\ outcome' = Told({c}, "timeout")
  <2>1. {c} \in SUBSET Range(pending)
    BY <1>4, Zenon
  <2> QED  BY <1>1, <1>2, <1>4, <2>1, ToldSettles, Zenon
<1> QED  BY <1>3, <1>4, Zenon

LEMMA ReceiveSettles ==
    ASSUME pending \in Seq(Calls), Receive
    PROVE  Settled
<1>1. OnHello \/ Ready \/ OnError \/ \E c \in Calls : OnResult(c)
  BY Zenon DEF Receive
<1>2. CASE UNCHANGED <<pending, outcome>>
  BY <1>2, Zenon DEF Settled
<1>3. CASE pending # <<>> /\ kind # "java" /\ pending' = Tail(pending) /\ outcome' = Told({Head(pending)}, "refused")
  <2>1. /\ Tail(pending) \in Seq(Calls) /\ Range(Tail(pending)) \subseteq Range(pending)
        /\ Head(pending) \in Range(pending)
    BY <1>3, TailFacts, ZenonT(30)
  <2>2. {Head(pending)} \in SUBSET Range(pending) /\ "refused" \in {"ok", "timeout", "lost", "refused"}
    BY <2>1, Zenon
  <2> QED  BY <1>3, <2>1, <2>2, ToldSettles, Zenon
<1>4. ASSUME NEW c \in Calls, OnResult(c) PROVE Settled
  BY <1>4, WithoutSettles, Zenon DEF OnResult
<1>5. CASE OnError
  BY <1>2, <1>3, <1>5, Zenon DEF OnError
<1>6. CASE OnHello \/ Ready
  BY <1>2, <1>6, Zenon DEF OnHello, Ready
<1> QED  BY <1>1, <1>4, <1>5, <1>6, Zenon


LEMMA NextTurns ==
    ASSUME IndInv, IndInv', InTurn, kind # "java", ~mixed, ~mixed', [Next]_vars
    PROVE  Turns' /\ \A c \in Calls : outcome'[c] = "refused" => c \in refused'
<1>1. /\ Turns /\ link \in {"down", "open", "ready"} /\ callers = {} /\ ~flushing
      /\ \A c \in Calls : outcome[c] = "refused" => c \in refused
  BY Zenon DEF InTurn, RightCallRejected, IndInv, Future
<1>2. ASSUME NEW c \in Calls, Call(c)
      PROVE  Turns' /\ \A d \in Calls : outcome'[d] = "refused" => d \in refused'
  <2>1. \A d, e \in Calls : outcome[d] # "none" /\ outcome[e] = "none" => d < e
    BY Zenon DEF InTurn
  <2>2. Turns'
    BY <1>1, <1>2, <2>1, CallTurns, Zenon
  <2>3. outcome' = [outcome EXCEPT ![c] = "pending"] /\ refused' = refused
    BY <1>2, Zenon DEF Call, serverVars
  <2>4. \A d \in Calls : outcome'[d] = "pending" \/ outcome'[d] = outcome[d]
    BY <2>3, Zenon DEF IndInv, Types
  <2>5. "pending" # "refused"
    BY ZenonT(30)
  <2> QED  BY <1>1, <2>2, <2>3, <2>4, <2>5, Zenon
<1>3. ASSUME NEW c \in Calls, Timeout(c) PROVE FALSE
  BY <1>3, Zenon DEF Timeout
<1>4. CASE WatchRefused \/ Enqueue \/ Flush
  BY <1>1, <1>4, Zenon DEF WatchRefused, Enqueue, Flush
<1>5. CASE OpenFails \/ OnDisconnect
  <2>1. /\ GiveUp /\ link' = "down" /\ UNCHANGED <<outbox, session, refused>>
    BY <1>5, Zenon DEF OpenFails, OnDisconnect, serverVars
  <2>2. \A c \in Calls : outcome'[c] = IF c \in Range(pending) THEN "lost" ELSE outcome[c]
    BY <2>1, Zenon DEF GiveUp, Told
  <2>3. "lost" # "refused"
    BY ZenonT(30)
  <2>4. Turns'
    BY <1>1, <2>1, GiveUpTurns, Zenon
  <2> QED  BY <1>1, <2>1, <2>2, <2>3, <2>4, Zenon
<1>6. CASE Close \/ TokenArrives \/ UNCHANGED vars
  <2>1. /\ UNCHANGED <<auth, link, conn, pending, queue, outbox, outcome, back, session, handled, refused>>
        /\ \/ wire' = wire /\ (broken' = broken \/ broken' = (link # "down"))
           \/ wire' = Wired(<<AUTH>>) /\ broken' = broken
    BY <1>6, Zenon DEF Close, TokenArrives, vars, clientVars, serverVars
  <2>2. Turns'
    BY <1>1, <2>1, StillTurns, Zenon
  <2> QED  BY <1>1, <2>1, <2>2, Zenon
<1>7. CASE Sender \/ Open \/ Lose
  <2>1. Turns'
    BY <1>1, <1>7, SenderTurns, OpenTurns, LoseTurns, Zenon
  <2>2. UNCHANGED <<outcome, refused>>
    BY <1>7, Zenon DEF Sender, Open, Lose, serverVars
  <2> QED  BY <1>1, <2>1, <2>2, Zenon
<1>8. CASE Receive
  BY <1>1, <1>8, ReceiveTurns, Zenon
<1>9. ASSUME NEW g \in Conns, ServerStep(g)
      PROVE  Turns' /\ \A d \in Calls : outcome'[d] = "refused" => d \in refused'
  <2>1. Turns' /\ refused \subseteq refused'
    BY <1>1, <1>9, ServerTurns, Zenon
  <2>2. outcome' = outcome
    BY <1>9, Zenon DEF ServerStep, clientVars
  <2> QED  BY <1>1, <2>1, <2>2, Zenon
<1> QED  BY <1>2, <1>3, <1>4, <1>5, <1>6, <1>7, <1>8, <1>9, Zenon DEF Next

\* Apart from a call being made, a step only settles calls.
LEMMA NextSettles ==
    ASSUME pending \in Seq(Calls), [Next]_vars, ~\E c \in Calls : Call(c)
    PROVE  Settled
<1>1. ASSUME NEW c \in Calls, Timeout(c) PROVE Settled
  BY <1>1, WithoutSettles, Zenon DEF Timeout
<1>2. CASE UNCHANGED <<pending, outcome>>
  BY <1>2, Zenon DEF Settled
<1>3. CASE Enqueue \/ Sender \/ Flush \/ TokenArrives \/ WatchRefused \/ UNCHANGED vars
  BY <1>2, <1>3, Zenon DEF Enqueue, Sender, Flush, TokenArrives, WatchRefused, vars, clientVars
<1>4. CASE Open \/ Lose \/ Close \/ \E g \in Conns : ServerStep(g)
  BY <1>2, <1>4, Zenon DEF Open, Lose, Close, ServerStep, clientVars
<1>5. CASE OpenFails \/ OnDisconnect
  BY <1>2, <1>5, GiveUpSettles, Zenon DEF OpenFails, OnDisconnect
<1>6. CASE Receive
  BY <1>6, ReceiveSettles, Zenon
<1> QED  BY <1>1, <1>3, <1>4, <1>5, <1>6, Zenon DEF Next

\* What every step of the client keeps.
LEMMA NextKeeps ==
    ASSUME [Next]_vars, kind # "java" => callers = {}, link \in {"down", "open", "ready"}
    PROVE  /\ kind' = kind /\ (kind # "java" => callers' = {})
           /\ link' \in {"down", "open", "ready"}
           /\ ~mixed' => ~mixed
<1>1. ASSUME NEW c \in Calls, Call(c) \/ Timeout(c)
      PROVE  /\ kind' = kind /\ link' = link /\ (callers' = callers \/ kind = "java")
             /\ mixed' = mixed \/ mixed' = TRUE
  BY <1>1, Zenon DEF Call, Timeout
<1>2. CASE Enqueue \/ Flush \/ TokenArrives
  <2>1. kind' = kind /\ link' = link /\ callers' \subseteq callers /\ mixed' = mixed
    BY <1>2, Zenon DEF Enqueue, Flush, TokenArrives
  <2> QED  BY <2>1, Zenon
<1>3. CASE Sender
  <2>1. kind' = kind /\ link' = link /\ callers' = callers
    BY <1>3, Zenon DEF Sender
  <2>2. mixed' = (mixed \/ Head(outbox) \notin {AUTH} \cup Range(pending))
    BY <1>3, Zenon DEF Sender
  <2>3. ~mixed' => ~mixed
    BY <2>2, Zenon
  <2> QED  BY <2>1, <2>3, Zenon
<1>4. CASE Open \/ OpenFails \/ Lose \/ Close \/ OnDisconnect
  <2>1. /\ kind' = kind /\ callers' = callers /\ mixed' = mixed
        /\ link' = link \/ link' = "open" \/ link' = "down"
    BY <1>4, Zenon DEF Open, OpenFails, Lose, Close, OnDisconnect
  <2> QED  BY <2>1, Zenon
<1>5. CASE Receive
  <2>1. OnHello \/ Ready \/ OnError \/ \E c \in Calls : OnResult(c)
    BY <1>5, Zenon DEF Receive
  <2>2. link' = link \/ link' = "ready"
    BY <2>1, Zenon DEF OnHello, Ready, OnError, OnResult
  <2>3. kind' = kind /\ callers' = callers /\ mixed' = mixed
    BY <1>5, Zenon DEF Receive
  <2> QED  BY <2>2, <2>3, Zenon
<1>6. CASE WatchRefused \/ UNCHANGED vars \/ \E g \in Conns : ServerStep(g)
  <2>1. UNCHANGED <<kind, link, callers>>
    BY <1>6, Zenon DEF WatchRefused, ServerStep, vars, clientVars
  <2>2. mixed' = mixed \/ mixed' = TRUE
    BY <1>6, Zenon DEF WatchRefused, ServerStep, Handshake, HandleFrame, vars
  <2>3. ~mixed' => ~mixed
    BY <2>2, Zenon
  <2>4. kind' = kind /\ callers' = callers /\ link' = link
    BY <2>1, Zenon
  <2> QED  BY <2>3, <2>4, Zenon
<1>7. ASSUME NEW c \in Calls, Call(c) \/ Timeout(c)
      PROVE  /\ kind' = kind /\ (kind # "java" => callers' = {})
             /\ link' \in {"down", "open", "ready"}
             /\ ~mixed' => ~mixed
  BY <1>1, <1>7, Zenon
<1> QED  BY <1>2, <1>3, <1>4, <1>5, <1>6, <1>7, Zenon DEF Next

LEMMA NextInTurn == IndInv /\ IndInv' /\ InTurn /\ [Next]_vars => InTurn'
<1> SUFFICES ASSUME IndInv, IndInv', InTurn, [Next]_vars PROVE InTurn'
  BY ZenonT(30)
<1>1. /\ pending \in Seq(Calls) /\ \A c \in Range(pending) : outcome[c] # "none"
      /\ \A c, d \in Calls : outcome[c] # "none" /\ outcome[d] = "none" => c < d
      /\ kind = "java" => \A c \in Calls : outcome[c] # "refused"
  BY Zenon DEF InTurn
<1>2. /\ kind' = kind /\ (kind # "java" => callers' = {})
      /\ link' \in {"down", "open", "ready"}
      /\ ~mixed' => ~mixed
  BY NextKeeps, Zenon DEF InTurn
<1>3. kind # "java" /\ ~mixed' => Turns' /\ \A c \in Calls : outcome'[c] = "refused" => c \in refused'
  BY <1>2, NextTurns, Zenon
<1>4. /\ pending' \in Seq(Calls) /\ \A c \in Range(pending') : outcome'[c] # "none"
      /\ \A c, d \in Calls : outcome'[c] # "none" /\ outcome'[d] = "none" => c < d
      /\ kind = "java" => \A c \in Calls : outcome'[c] # "refused"
  <2>1. ASSUME NEW c \in Calls, Call(c)
        PROVE  /\ pending' \in Seq(Calls) /\ \A d \in Range(pending') : outcome'[d] # "none"
               /\ \A d, e \in Calls : outcome'[d] # "none" /\ outcome'[e] = "none" => d < e
               /\ kind = "java" => \A d \in Calls : outcome'[d] # "refused"
    <3>1. /\ pending' = Append(pending, c) /\ outcome' = [outcome EXCEPT ![c] = "pending"]
          /\ outcome[c] = "none" /\ \A d \in Calls : d < c => outcome[d] # "none"
      BY <2>1, Zenon DEF Call, NextCall
    <3>2. /\ outcome'[c] = "pending" /\ \A d \in Calls : d # c => outcome'[d] = outcome[d]
      BY <3>1, Zenon DEF IndInv, Types
    <3>3. "pending" # "none" /\ "pending" # "refused"
      BY Zenon
    <3>4. pending' \in Seq(Calls) /\ Range(pending') = Range(pending) \cup {c}
      BY <1>1, <3>1, AppendFacts, SMT, Z3
    <3>5. \A d \in Range(pending) : d \in Calls
      BY <1>1, CallsOf, Zenon
    <3>6. \A d \in Range(pending') : outcome'[d] # "none"
      BY <1>1, <3>2, <3>3, <3>4, <3>5, Zenon
    <3>7. ASSUME NEW d \in Calls, NEW e \in Calls, outcome'[d] # "none", outcome'[e] = "none"
          PROVE  d < e
      <4>1. e # c /\ outcome[e] = "none"
        BY <3>2, <3>3, <3>7, Zenon
      <4>2. CASE d = c
        <5>1. ~(e < c)
          BY <3>1, <4>1, Zenon
        <5> QED  BY <4>1, <4>2, <5>1, CallNumbers, SMT, Z3
      <4>3. CASE d # c
        BY <1>1, <3>2, <3>7, <4>1, <4>3, Zenon
      <4> QED  BY <4>2, <4>3, ZenonT(30)
    <3> QED  BY <1>1, <3>2, <3>3, <3>4, <3>6, <3>7, Zenon
  <2>2. CASE ~\E c \in Calls : Call(c)
    <3>1. Settled
      BY <1>1, <2>2, NextSettles, Zenon
    <3>2. \A d \in Range(pending) : d \in Calls
      BY <1>1, CallsOf, Zenon
    <3>3. \A d \in Calls : (outcome'[d] = "none") = (outcome[d] = "none")
      BY <1>1, <3>1, Zenon DEF Settled
    <3> QED  BY <1>1, <3>1, <3>2, <3>3, Zenon DEF Settled
  <2> QED  BY <2>1, <2>2, Zenon
<1>5. RightCallRejected'
  BY <1>2, <1>3, <1>4, Zenon DEF RightCallRejected
<1> QED  BY <1>2, <1>3, <1>4, <1>5, Zenon DEF InTurn


-----------------------------------------------------------------------------
(* The theorems *)

LEMMA InitHolds == Init => IndInv
<1> SUFFICES ASSUME Init PROVE IndInv
    BY ZenonT(30)
<1>1. Range(<<>>) = {} /\ Once(<<>>)
      BY EmptyFacts, ZenonT(30)
<1>2. Types
      BY ClientAssumption, SMTT(30), Z3T(30) DEF Init, Types, Outcome
<1>3. OnePlace
      BY <1>1, ZenonT(30) DEF Init, OnePlace, InHand, Apart
<1>4. Unmade
      BY <1>1, FrameFacts, ZenonT(30) DEF Init, Unmade, Somewhere
<1>5. Answered /\ Future /\ Gone
      BY <1>1, ZenonT(30) DEF Init, Answered, Future, Gone
<1> QED BY <1>2, <1>3, <1>4, <1>5, ZenonT(30) DEF IndInv

LEMMA StepHolds == IndInv /\ [Next]_vars => IndInv'
<1> SUFFICES ASSUME IndInv, [Next]_vars PROVE IndInv'
    BY ZenonT(30)
<1>1. CASE UNCHANGED vars
  <2>1. UNCHANGED <<places, kind, link, conn, handled, lostIn, back, outcome, flushing>>
        BY <1>1, ZenonT(30) DEF vars, clientVars, serverVars, places
  <2>2. Types'
        BY <2>1, ZenonT(30) DEF IndInv, Types, places
  <2> QED BY <2>1, <2>2, QuietStep, ZenonT(30)
<1>2. ASSUME NEW c \in Calls, Call(c) \/ Timeout(c) PROVE IndInv'
      BY <1>2, CallStep, TimeoutStep, ZenonT(30)
<1>3. CASE Enqueue \/ Sender \/ Flush \/ TokenArrives
      BY <1>3, EnqueueStep, SenderStep, FlushStep, TokenArrivesStep, ZenonT(30)
<1>4. CASE Open \/ OpenFails \/ Lose \/ Close \/ OnDisconnect
      BY <1>4, OpenStep, OpenFailsStep, LoseStep, CloseStep, OnDisconnectStep, ZenonT(30)
<1>5. CASE Receive \/ WatchRefused
      BY <1>5, ReceiveStep, WatchRefusedStep, ZenonT(30)
<1>6. ASSUME NEW g \in Conns, ServerStep(g) PROVE IndInv'
      BY <1>6, ServerStepStep, ZenonT(30)
<1> QED BY <1>1, <1>2, <1>3, <1>4, <1>5, <1>6, ZenonT(30) DEF Next

\* For any calls and connections, and whatever is lost, late or refused, the
\* server performs a call at most once and a caller that got a RESULT had its
\* call performed: call, onReady's flush and the senders hand a frame on and
\* keep no copy.
THEOREM PerformedOnce == Spec => []CallsOnce
<1>1. IndInv => CallsOnce
  <2> SUFFICES ASSUME IndInv PROVE CallsOnce
      BY ZenonT(30)
  <2>1. performed \in Seq(Calls) /\ Once(performed)
        BY ZenonT(30) DEF IndInv, Types, OnePlace
  <2>2. \A i \in DOMAIN performed : performed[i] \in Calls
        BY <2>1, SMT, Z3
  <2>3. IsInjective(performed)
        BY <2>1, <2>2, ZenonT(30) DEF IsInjective, Once
  <2> QED BY <2>3, ZenonT(30) DEF IndInv, Answered, CallsOnce
<1> QED BY <1>1, InitHolds, StepHolds, PTL DEF Spec

\* For any calls and connections, a call that the TypeScript client reported as
\* lost is never sent on a later connection; Java reports none as lost.
THEOREM LostForGood == Spec => []LostStaysLost
<1>1. IndInv => LostStaysLost
  <2> SUFFICES ASSUME IndInv, kind # "py", NEW c \in Calls, outcome[c] = "lost",
                      NEW g \in Conns, g > lostIn[c]
               PROVE  c \notin Range(wire[g] \o handled[g])
      BY ZenonT(30) DEF LostStaysLost
  <2>1. c \notin Range(wire[g]) /\ c \notin Range(handled[g])
        BY ZenonT(30) DEF IndInv, Gone
  <2>2. wire[g] \in Seq(Frame) /\ handled[g] \in Seq(Frame)
        BY FrameFacts, ZenonT(30) DEF IndInv, Types
  <2>3. Range(wire[g] \o handled[g]) = Range(wire[g]) \cup Range(handled[g])
        BY <2>2, ConcatFacts, SMT, Z3
  <2> QED BY <2>1, <2>3, ZenonT(30)
<1> QED BY <1>1, InitHolds, StepHolds, PTL DEF Spec

\* An ERROR does not name its call and onError rejects the oldest pending one:
\* for any calls and connections, and whatever is lost, the call whose caller is
\* told so is one the server refused, as long as no ERROR answered something
\* else, no call timed out and no frame of a settled call was sent.
THEOREM RefusalsMatch == Spec => []RightCallRejected
<1>1. Init => InTurn
  <2> SUFFICES ASSUME Init PROVE InTurn
    BY Zenon
  <2>1. /\ link = "down" /\ link # "ready" /\ link # "open" /\ callers = {}
        /\ pending = <<>> /\ queue = <<>> /\ outbox = <<>> /\ DOMAIN session = Conns
    BY Zenon DEF Init
  <2>2. \A c \in Calls : outcome[c] = "none" /\ outcome[c] # "refused"
    BY Zenon DEF Init
  <2>3. <<>> \in Seq(Calls) /\ Range(<<>>) = {} /\ Rising(<<>>)
    BY EmptyFacts, SMT, Z3 DEF Rising
  <2>4. Below(<<>>, <<>>)
    BY <2>3, Zenon DEF Below
  <2>5. Turns
    BY <2>1, <2>3, <2>4, Zenon DEF Turns
  <2> QED  BY <2>1, <2>2, <2>3, <2>5, Zenon DEF InTurn, RightCallRejected
<1>2. InTurn => RightCallRejected
  BY Zenon DEF InTurn
<1> QED  BY <1>1, <1>2, InitHolds, StepHolds, NextInTurn, PTL DEF Spec
=============================================================================
