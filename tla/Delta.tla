------------------------------- MODULE Delta -------------------------------
(***************************************************************************)
(* Deltas: how the three servers compute the ops that turn one value into  *)
(* another, and how the clients apply them.                                *)
(*                                                                         *)
(* A value is null, a scalar, an object or an array.  A path is the string *)
(* it is on the wire, a sequence of one-character strings, because what    *)
(* the implementations disagree on is how a path is put together and taken *)
(* apart.  The order in which a server visits the fields of an object is   *)
(* that of SetToSeq: the ops of one object write different fields.         *)
(***************************************************************************)
EXTENDS Integers, Sequences, FiniteSets, SequencesExt

Null == [tag |-> "null"]
Scalar(type, text) == [tag |-> "scalar", type |-> type, text |-> text]
Obj(fields) == [tag |-> "object", fields |-> fields]
Arr(elems) == [tag |-> "array", elems |-> elems]

IsObj(v) == v.tag = "object"
IsArr(v) == v.tag = "array"
IsContainer(v) == IsObj(v) \/ IsArr(v)

Empty == [k \in {} |-> Null]
Put(f, k, v) == [x \in DOMAIN f \cup {k} |-> IF x = k THEN v ELSE f[x]]
Drop(f, k) == [x \in DOMAIN f \ {k} |-> f[x]]

\* A field that is missing reads as null.
Field(v, k) == IF IsObj(v) /\ k \in DOMAIN v.fields THEN v.fields[k] ELSE Null

\* Array elements, counted from 0.  A write past the end leaves holes.
PutAt(s, i, v) ==
    [j \in 1..(IF i < Len(s) THEN Len(s) ELSE i + 1) |->
        IF j = i + 1 THEN v ELSE IF j <= Len(s) THEN s[j] ELSE Null]
CutAt(s, i) == IF i \in 0..(Len(s) - 1) THEN RemoveAt(s, i + 1) ELSE s

AddOp(path, v) == [op |-> "ADD", path |-> path, value |-> v]
UpdateOp(path, v) == [op |-> "UPDATE", path |-> path, value |-> v]
RemoveOp(path) == [op |-> "REMOVE", path |-> path, value |-> Null]

Slash == <<"/">>
Dash == <<"-">>

\* str.split(c)
RECURSIVE Split(_, _)
Split(s, c) ==
    IF c \notin ToSet(s) THEN <<s>>
    ELSE LET i == SelectInSeq(s, LAMBDA x : x = c)
         IN <<SubSeq(s, 1, i - 1)>> \o Split(SubSeq(s, i + 1, Len(s)), c)

Rest(s) == SubSeq(s, 2, Len(s))

-----------------------------------------------------------------------------
(* Rust server: delta.rs and the helpers of server.rs *)

JoinPathLosesBase(base, key) == Slash \o key

JoinPath(base, key) ==
    IF base = Slash THEN Slash \o key ELSE base \o Slash \o key

\* Added and updated fields first, then the removed ones.
RECURSIVE DiffAt(_, _, _)
DiffAt(path, old, new) ==
    IF IsObj(old) /\ IsObj(new)
    THEN LET o == old.fields
             n == new.fields
             Written(k) == IF k \in DOMAIN o
                           THEN DiffAt(JoinPath(path, k), o[k], n[k])
                           ELSE <<AddOp(JoinPath(path, k), n[k])>>
             Removed(k) == <<RemoveOp(JoinPath(path, k))>>
             Ops(S, Op(_)) == LET q == SetToSeq(S)
                              IN FlattenSeq([i \in DOMAIN q |-> Op(q[i])])
         IN Ops({k \in DOMAIN n : k \notin DOMAIN o \/ o[k] # n[k]}, Written)
            \o Ops(DOMAIN o \ DOMAIN n, Removed)
    ELSE IF old # new THEN <<UpdateOp(path, new)>> ELSE <<>>

Diff(old, new) == DiffAt(Slash, old, new)

RECURSIVE JsonMerge(_, _)
JsonMerge(base, patch) ==
    IF IsObj(base) /\ IsObj(patch)
    THEN LET p == patch.fields
         IN Obj([k \in DOMAIN base.fields \cup DOMAIN p |->
                   IF k \in DOMAIN p THEN JsonMerge(Field(base, k), p[k])
                   ELSE base.fields[k]])
    ELSE patch

\* path.trim_start_matches('/').split('/')
RECURSIVE Trimmed(_)
Trimmed(path) ==
    IF path # <<>> /\ path[1] = "/" THEN Trimmed(Rest(path)) ELSE path

Fields(v) == IF IsObj(v) THEN v.fields ELSE Empty

RECURSIVE SetInRecursive(_, _, _)
SetInRecursive(node, parts, v) ==
    IF parts = <<>> THEN v
    ELSE Obj(Put(Fields(node), parts[1],
                 SetInRecursive(Field(node, parts[1]), Rest(parts), v)))

JsonSetIn(root, path, v) ==
    IF path = Slash THEN v
    ELSE SetInRecursive(root, Split(Trimmed(path), "/"), v)

RECURSIVE RemoveInRecursive(_, _)
RemoveInRecursive(node, parts) ==
    IF ~IsObj(node) THEN node
    ELSE IF Len(parts) = 1 THEN Obj(Drop(node.fields, parts[1]))
    ELSE IF parts[1] \notin DOMAIN node.fields THEN node
    ELSE Obj(Put(node.fields, parts[1],
                 RemoveInRecursive(node.fields[parts[1]], Rest(parts))))

JsonRemoveIn(root, path) ==
    IF path = Slash THEN Null
    ELSE RemoveInRecursive(root, Split(Trimmed(path), "/"))

-----------------------------------------------------------------------------
(* Go server: delta.go and the helpers of server.go *)

\* What fmt.Sprintf("%v") prints, which tells neither the types nor where an
\* element ends.  Fields are printed in a fixed order.
Joined(texts) ==
    FlattenSeq([i \in DOMAIN texts |-> IF i = 1 THEN texts[i] ELSE <<" ">> \o texts[i]])

PrintedArr(texts) == <<"[">> \o Joined(texts) \o <<"]">>
PrintedObj(names, texts) ==
    <<"map[">> \o Joined([i \in DOMAIN names |-> names[i] \o <<":">> \o texts[i]])
    \o <<"]">>

RECURSIVE Printed(_)
Printed(v) ==
    CASE v.tag = "scalar" -> v.text
      [] IsArr(v) -> PrintedArr([i \in DOMAIN v.elems |-> Printed(v.elems[i])])
      [] IsObj(v) -> LET q == SetToSeq(DOMAIN v.fields)
                     IN PrintedObj(q, [i \in DOMAIN q |-> Printed(v.fields[q[i]])])
      [] OTHER -> <<"<nil>">>

\* A string, a float64, a bool or null is compared by type; a small integer, which
\* msgpack decodes to int8, and a container are compared as they print.
GoEqual(a, b) ==
    IF a = Null \/ (a.tag = "scalar" /\ a.type \in {"string", "float", "bool"})
    THEN a = b
    ELSE Printed(a) = Printed(b)

\* DeltaOp.Value is encoded with omitempty: a client finds no value in an op
\* whose value is zero or empty, and reads null.
EmptyTexts == {<<"<nil>">>, <<>>, <<"0">>, <<"false">>, <<"[", "]">>, <<"map[", "]">>}

IsEmpty(v) ==
    CASE v.tag = "scalar" -> v.text = (CASE v.type = "string" -> <<>>
                                         [] v.type = "bool" -> <<"false">>
                                         [] OTHER -> <<"0">>)
      [] IsArr(v) -> v.elems = <<>>
      [] IsObj(v) -> v.fields = Empty
      [] OTHER -> TRUE

Encoded(ops) ==
    [i \in DOMAIN ops |-> IF IsEmpty(ops[i].value) THEN [ops[i] EXCEPT !.value = Null]
                          ELSE ops[i]]

\* The prints of all the values that a copy may stand for: where it holds null
\* the server may hold any value whose print is that of an empty one.
RECURSIVE Spellings(_)
Spellings(v) ==
    CASE v = Null -> EmptyTexts
      [] IsArr(v) ->
           LET n == Len(v.elems)
               S == [i \in 1..n |-> Spellings(v.elems[i])]
           IN {PrintedArr(f) : f \in {g \in [1..n -> UNION Range(S)] :
                                        \A i \in 1..n : g[i] \in S[i]}}
      [] IsObj(v) ->
           LET q == SetToSeq(DOMAIN v.fields)
               S == [i \in DOMAIN q |-> Spellings(v.fields[q[i]])]
           IN {PrintedObj(q, f) : f \in {g \in [DOMAIN q -> UNION Range(S)] :
                                           \A i \in DOMAIN q : g[i] \in S[i]}}
      [] OTHER -> {Printed(v)}

RECURSIVE GoDiff(_, _)
GoDiff(old, new) ==
    IF ~(IsObj(old) /\ IsObj(new)) THEN <<UpdateOp(Slash, new)>>
    ELSE LET o == old.fields
             n == new.fields
             Nested(k) == LET sub == GoDiff(o[k], n[k])
                          IN [i \in DOMAIN sub |->
                                [sub[i] EXCEPT !.path = Slash \o k \o @]]
             Of(k) == IF k \notin DOMAIN n THEN <<RemoveOp(Slash \o k)>>
                      ELSE IF k \notin DOMAIN o THEN <<AddOp(Slash \o k, n[k])>>
                      ELSE IF IsObj(o[k]) /\ IsObj(n[k]) THEN Nested(k)
                      ELSE IF GoEqual(o[k], n[k]) THEN <<>>
                      ELSE <<UpdateOp(Slash \o k, n[k])>>
             q == SetToSeq(DOMAIN o) \o SetToSeq(DOMAIN n \ DOMAIN o)
         IN FlattenSeq([i \in DOMAIN q |-> Of(q[i])])

\* applyOp, with which a cluster peer follows the deltas of another node
RECURSIVE GoApplyOp(_, _, _)
GoApplyOp(current, o, path) ==
    LET rest == Rest(path)
        parts == Split(rest, "/")
        f == Fields(current)
        k == parts[1]
    IN IF path = Slash THEN o.value
       ELSE IF Len(path) < 2 \/ path[1] # "/" THEN current
       ELSE IF IsArr(current)
       THEN LET s == current.elems
            IN IF rest = Dash /\ o.op = "ADD" THEN Arr(Append(s, o.value))
               ELSE IF o.op = "REMOVE" /\ s # <<>> /\ Len(parts) = 1
               THEN Arr(Tail(s))
               ELSE current
       ELSE IF Len(parts) > 1
       THEN Obj(Put(f, k, GoApplyOp(Field(current, k), o,
                                    SubSeq(rest, Len(k) + 1, Len(rest)))))
       ELSE IF o.op = "REMOVE" THEN Obj(Drop(f, k))
       ELSE Obj(Put(f, k, o.value))

MergeValues(current, patch) ==
    IF ~(IsObj(current) /\ IsObj(patch)) THEN patch
    ELSE Obj([k \in DOMAIN current.fields \cup DOMAIN patch.fields |->
                IF k \in DOMAIN patch.fields THEN patch.fields[k]
                ELSE current.fields[k]])

\* the path is split at dots
SetIn(current, path, v) == SetInRecursive(current, Split(path, "."), v)

\* StateStore.Append: the new array and the ops of its delta
Appended(current, e, maxLen) ==
    LET s == Append(IF IsArr(current) THEN current.elems ELSE <<>>, e)
        over == maxLen > 0 /\ Len(s) > maxLen
    IN [value |-> Arr(IF over THEN SubSeq(s, Len(s) - maxLen + 1, Len(s)) ELSE s),
        ops |-> <<AddOp(Slash \o Dash, e)>>
                \o (IF over THEN <<RemoveOp(Slash \o <<"0">>)>> ELSE <<>>)]

-----------------------------------------------------------------------------
(* Path segments on arrays *)

Digits == <<"0", "1", "2", "3", "4", "5", "6", "7", "8", "9">>
NaN == -1

IsDigits(seg) == seg # <<>> /\ ToSet(seg) \subseteq ToSet(Digits)
ToNumber(seg) ==
    FoldLeft(LAMBDA n, d : 10 * n + SelectInSeq(Digits, LAMBDA x : x = d) - 1,
             0, seg)

\* JavaScript's Number() reads the empty string as 0; Python's and Java's
\* index parsers refuse it.
Index(client, seg) ==
    IF IsDigits(seg) \/ (client = "ts" /\ seg = <<>>) THEN ToNumber(seg) ELSE NaN

ContainerFor(seg) == IF seg = Dash \/ IsDigits(seg) THEN Arr(<<>>) ELSE Obj(Empty)

-----------------------------------------------------------------------------
(* Clients: delta.ts, delta.py, DeltaApplier.java; "go" is a cluster peer *)

ParsePath(client, path) ==
    IF path = Slash \/ (client = "java" /\ path = <<>>) THEN <<>>
    ELSE Split(Rest(path), "/")

\* The op on segment k of an array.  The TypeScript client writes past the end
\* and sets a named property, which no reader of the array sees; the others
\* ignore both.
ArrayLeaf(client, s, k, o) ==
    LET i == Index(client, k)
    IN CASE k = Dash /\ o.op # "REMOVE" -> Append(s, o.value)
         [] k = Dash /\ o.op = "REMOVE" -> CutAt(s, Len(s) - 1)
         [] k # Dash /\ i = NaN -> s
         [] k # Dash /\ i # NaN /\ o.op = "REMOVE" -> CutAt(s, i)
         [] OTHER -> IF i <= Len(s) \/ client = "ts" THEN PutAt(s, i, o.value)
                     ELSE s

WriteLeaf(client, node, k, o) ==
    IF IsArr(node) THEN Arr(ArrayLeaf(client, node.elems, k, o))
    ELSE IF o.op = "REMOVE" THEN Obj(Drop(node.fields, k))
    ELSE Obj(Put(node.fields, k, o.value))

\* Walk to the parent of the last segment, making the containers that are
\* missing; node is a container.
RECURSIVE SetAt(_, _, _, _)
SetAt(client, node, parts, o) ==
    LET k == parts[1]
        i == Index(client, k)
        Into(child) == SetAt(client,
                             IF IsContainer(child) THEN child
                             ELSE ContainerFor(parts[2]), Rest(parts), o)
    IN IF Len(parts) = 1 THEN WriteLeaf(client, node, k, o)
       ELSE IF IsObj(node) THEN Obj(Put(node.fields, k, Into(Field(node, k))))
       ELSE IF i \in 0..(Len(node.elems) - 1)
       THEN Arr(PutAt(node.elems, i, Into(node.elems[i + 1])))
       ELSE node

ApplyOne(client, state, o) ==
    LET parts == ParsePath(client, o.path)
    IN IF client = "go" THEN GoApplyOp(state, o, o.path)
       ELSE IF parts = <<>> THEN o.value
       ELSE SetAt(client, IF IsContainer(state) THEN state
                          ELSE ContainerFor(parts[1]), parts, o)

ApplyOps(client, state, ops) ==
    FoldLeft(LAMBDA s, o : ApplyOne(client, s, o), state, ops)

-----------------------------------------------------------------------------
(* TypeScript server: jsonpointer.ts *)

Thrown == [tag |-> "thrown"]

Escape(k) ==
    FlattenSeq([i \in DOMAIN k |-> CASE k[i] = "~" -> <<"~", "0">>
                                     [] k[i] = "/" -> <<"~", "1">>
                                     [] OTHER -> <<k[i]>>])
Unescape(seg) ==
    ReplaceAllSubSeqs(<<"~">>, <<"~", "0">>,
                      ReplaceAllSubSeqs(Slash, <<"~", "1">>, seg))

ServerParsePath(path) ==
    IF path \in {<<>>, Slash} THEN <<>>
    ELSE LET segs == Split(Rest(path), "/")
         IN [i \in DOMAIN segs |-> Unescape(segs[i])]

\* unlike a client, the server takes no number with a leading zero for an index
IsArrayLike(seg) == seg = Dash \/ (IsDigits(seg) /\ (seg[1] = "0" => Len(seg) = 1))

Seeded(v, seg) ==
    IF v # Null THEN v ELSE IF IsArrayLike(seg) THEN Arr(<<>>) ELSE Obj(Empty)

\* splice with a NaN position acts on position 0
Spliced(i) == IF i = NaN THEN 0 ELSE i

ServerArrayLeaf(s, k, o) ==
    LET i == Index("ts", k)
    IN CASE k = Dash -> IF o.op = "ADD" THEN Arr(Append(s, o.value)) ELSE Thrown
         [] k # Dash /\ o.op = "ADD" ->
              Arr(IF Spliced(i) >= Len(s) THEN Append(s, o.value)
                  ELSE InsertAt(s, Spliced(i) + 1, o.value))
         [] k # Dash /\ o.op = "UPDATE" -> Arr(IF i = NaN THEN s ELSE PutAt(s, i, o.value))
         [] OTHER -> Arr(CutAt(s, Spliced(i)))

\* A write to a property of a scalar throws; a delete of one does nothing.
RECURSIVE ServerSetAt(_, _, _)
ServerSetAt(node, parts, o) ==
    LET k == parts[1]
        last == Len(parts) = 1
        i == IF k = Dash THEN Len(node.elems) - 1 ELSE Index("ts", k)
        Into(child) == ServerSetAt(Seeded(child, parts[2]), Rest(parts), o)
        Kept(child, whole) == IF child = Thrown THEN Thrown ELSE whole
    IN CASE IsObj(node) /\ last ->
              Obj(IF o.op = "REMOVE" THEN Drop(node.fields, k)
                  ELSE Put(node.fields, k, o.value))
         [] IsObj(node) /\ ~last ->
              LET child == Into(Field(node, k))
              IN Kept(child, Obj(Put(node.fields, k, child)))
         [] IsArr(node) /\ last -> ServerArrayLeaf(node.elems, k, o)
         [] IsArr(node) /\ ~last ->
              IF i < 0 THEN node
              ELSE LET child == Into(IF i < Len(node.elems) THEN node.elems[i + 1]
                                     ELSE Null)
                   IN Kept(child, Arr(PutAt(node.elems, i, child)))
         [] OTHER -> IF last /\ o.op = "REMOVE" THEN node ELSE Thrown

ServerApplyOne(root, o) ==
    LET parts == ServerParsePath(o.path)
    IN IF o.path # <<>> /\ o.path[1] # "/" THEN Thrown
       ELSE IF parts = <<>> THEN o.value
       ELSE ServerSetAt(Seeded(root, parts[1]), parts, o)

ServerApplyOps(root, ops) ==
    FoldLeft(LAMBDA s, o : IF s = Thrown THEN s ELSE ServerApplyOne(s, o),
             root, ops)

\* Values are compared by identity, so that two containers always differ.
Identical(a, b) == ~IsContainer(a) /\ a = b

DiffShallow(before, after) ==
    IF Identical(before, after) THEN <<>>
    ELSE IF ~(IsObj(before) /\ IsObj(after)) THEN <<UpdateOp(Slash, after)>>
    ELSE LET a == before.fields
             b == after.fields
             Of(k) == IF k \notin DOMAIN a THEN <<AddOp(Slash \o Escape(k), b[k])>>
                      ELSE IF k \notin DOMAIN b THEN <<RemoveOp(Slash \o Escape(k))>>
                      ELSE IF Identical(a[k], b[k]) THEN <<>>
                      ELSE <<UpdateOp(Slash \o Escape(k), b[k])>>
             q == SetToSeq(DOMAIN a) \o SetToSeq(DOMAIN b \ DOMAIN a)
         IN FlattenSeq([i \in DOMAIN q |-> Of(q[i])])
=============================================================================
