------------------------------- MODULE Mirror -------------------------------
(***************************************************************************)
(* One key of a server and the copies its clients keep: every call that    *)
(* changes the value publishes ops, and every copy applies them.  A frame  *)
(* is delivered in the step that sends it; lost and late frames are the    *)
(* subject of WatchSync.  A workload names the server, the clients that    *)
(* follow the key, and the arguments of the state.* methods; for the Rust  *)
(* server also the schema of the key and the sessions that may call, each  *)
(* with the rule file in force.                                            *)
(*                                                                         *)
(* A key that does not exist reads as null, as it does to a client.        *)
(***************************************************************************)
EXTENDS Schema, Acl

CONSTANT Workload     \* name -> [server, clients: the implementations that
                      \* follow the key; values: the arguments of state.set;
                      \* patches, paths, leaves, presencePaths, elements,
                      \* maxLens: those of the other methods; schema;
                      \* sessions: [file, key, user: [sub, name, claims]]]

VARIABLES workload,    \* the one that runs
          session,     \* the one that calls
          value,       \* the server's value
          copy,        \* client -> its copy
          presence     \* paths bound to a session

vars == <<workload, session, value, copy, presence>>

NoFile == [rules |-> <<>>, preset |-> "none", claim_mappings |-> <<>>]

Uses == Workload[workload]
Clients == Uses.clients

Init ==
    /\ workload \in DOMAIN Workload
    /\ session \in Uses.sessions
    /\ value = Null
    /\ copy = [c \in Clients |-> Null]
    /\ presence = {}

Publish(new, ops) ==
    /\ ops # <<>> /\ new # Thrown
    /\ value' = new
    /\ copy' = [c \in Clients |->
                   ApplyOps(c, copy[c], IF Uses.server = "go" THEN Encoded(ops) ELSE ops)]

-----------------------------------------------------------------------------
(* Rust server *)

\* without a rule file everyone may
CanWrite ==
    session.file # NoFile =>
       Check(session.file, "write", session.key, session.user.sub, session.user.claims)

Accepted(new) == CanWrite /\ Validate(new, Uses.schema)

RustApply(new) == Accepted(new) /\ Publish(new, Diff(value, new))

RustSet == \E v \in Uses.values : RustApply(v) /\ UNCHANGED presence

\* a patch of a key that does not exist starts from an empty object
RustPatch ==
    /\ \E p \in Uses.patches :
          RustApply(JsonMerge(IF value = Null THEN Obj(Empty) ELSE value, p))
    /\ UNCHANGED presence

\* The schema is not asked.
RustSetInUnchecked ==
    /\ CanWrite
    /\ \E path \in Uses.paths, v \in Uses.leaves :
          LET new == JsonSetIn(value, path, v) IN Publish(new, Diff(value, new))
    /\ UNCHANGED presence

RustSetIn ==
    /\ \E path \in Uses.paths, v \in Uses.leaves : RustApply(JsonSetIn(value, path, v))
    /\ UNCHANGED presence

RustDelete ==
    /\ CanWrite /\ value # Null
    /\ Publish(Null, <<RemoveOp(Slash)>>)
    /\ UNCHANGED presence

\* the path is registered also when the value was there already
RustPresence ==
    \E path \in Uses.presencePaths, v \in Uses.leaves :
        /\ presence' = presence \cup {path}
        /\ LET new == JsonSetIn(value, path, v)
           IN IF Diff(value, new) = <<>> THEN Accepted(new) /\ UNCHANGED <<value, copy>>
              ELSE RustApply(new)

\* one path of the clean-up at the end of a session; no schema is asked
RustCleanup ==
    \E path \in presence :
        /\ presence' = presence \ {path}
        /\ LET new == JsonRemoveIn(value, path)
           IN IF value = Null \/ Diff(value, new) = <<>>
              THEN UNCHANGED <<value, copy>>
              ELSE Publish(new, Diff(value, new))

RustNext == RustSet \/ RustPatch \/ RustSetIn \/ RustDelete \/ RustPresence
            \/ RustCleanup

-----------------------------------------------------------------------------
(* Go server *)

GoApply(new) == Publish(new, GoDiff(value, new))

GoSet == \E v \in Uses.values : GoApply(v) /\ UNCHANGED presence

GoPatch ==
    \E p \in Uses.patches : GoApply(MergeValues(value, p)) /\ UNCHANGED presence

GoSetIn ==
    /\ \E path \in Uses.paths, v \in Uses.leaves : GoApply(SetIn(value, path, v))
    /\ UNCHANGED presence

GoDelete ==
    /\ value # Null
    /\ Publish(Null, <<RemoveOp(Slash)>>)
    /\ UNCHANGED presence

GoAppend ==
    /\ \E e \in Uses.elements, n \in Uses.maxLens :
          LET r == Appended(value, e, n) IN Publish(r.value, r.ops)
    /\ UNCHANGED presence

GoNext == GoSet \/ GoPatch \/ GoSetIn \/ GoDelete \/ GoAppend

-----------------------------------------------------------------------------
(* TypeScript server *)

TsPublish(ops) == Publish(ServerApplyOps(value, ops), ops)

TsSet == \E v \in Uses.values : TsPublish(DiffShallow(value, v)) /\ UNCHANGED presence

\* one UPDATE per field of the patch
TsPatch ==
    /\ \E p \in Uses.patches :
          LET q == SetToSeq(DOMAIN p.fields)
          IN TsPublish([i \in DOMAIN q |->
                          UpdateOp(Slash \o Escape(q[i]), p.fields[q[i]])])
    /\ UNCHANGED presence

TsSetIn ==
    /\ \E path \in Uses.paths, v \in Uses.leaves : TsPublish(<<UpdateOp(path, v)>>)
    /\ UNCHANGED presence

TsDelete ==
    /\ value # Null
    /\ TsPublish(<<RemoveOp(Slash)>>)
    /\ UNCHANGED presence

TsPresence ==
    \E path \in Uses.presencePaths, v \in Uses.leaves :
        /\ TsPublish(<<UpdateOp(path, v)>>)
        /\ presence' = presence \cup {path}

\* an error of the clean-up is ignored
TsTeardown ==
    \E path \in presence :
        /\ presence' = presence \ {path}
        /\ IF ServerApplyOps(value, <<RemoveOp(path)>>) = Thrown
           THEN UNCHANGED <<value, copy>>
           ELSE TsPublish(<<RemoveOp(path)>>)

TsNext == TsSet \/ TsPatch \/ TsSetIn \/ TsDelete \/ TsPresence \/ TsTeardown

-----------------------------------------------------------------------------
Next ==
    /\ \/ Uses.server = "rust" /\ RustNext
       \/ Uses.server = "go" /\ GoNext
       \/ Uses.server = "ts" /\ TsNext
    /\ UNCHANGED <<workload, session>>

Spec == Init /\ [][Next]_vars

-----------------------------------------------------------------------------
(* Properties *)

\* Every client that applied the ops of every delta in order holds the server's
\* value: diff and applyOps are inverse to each other, whatever the value is
\* and was (nested fields, nulls, arrays, a change of type, a numeric name).  The
\* deltas of the Go server tell less (delta.go:22, 169): its clients' copies have
\* the server's fields and elements, and print as its value does but for a null
\* where the server's value is, or prints as, an empty one.
ClientsMatch ==
    \A c \in Clients :
       \/ copy[c] = value
       \/ Uses.server = "go" /\ Printed(value) \in Spellings(copy[c])

\* What a typed key holds satisfies its schema, whatever state.set, patch, set_in
\* and presence wrote and clean-up took out again, as long as presence is used
\* where the schema lets go: clean-up asks no schema (server.rs:450).
StoredValid ==
    Uses.schema # NoSchema
    /\ (\A path \in Uses.presencePaths \ {Slash} :
           Optional(Uses.schema, Split(Trimmed(path), "/")))
    => value = Null \/ ValidateNode(value, Uses.schema)

\* A session reads and writes exactly what the rule file grants: the first rule
\* that covers the key, by the name it captures or a claim of the session
\* (acl.rs), and for the middleware the first whose glob covers it; and a key that
\* was closed to the session still has no value.
AccessAsWritten ==
    session.file # NoFile =>
      LET f == session.file
          k == session.key
          u == session.user
      IN /\ \A op \in {"read", "write"} :
              /\ Check(f, op, k, u.sub, u.claims) <=> Permitted(f, op, k, u.sub, u.claims)
              /\ MiddlewareCheck(f, op, k, u) <=> MiddlewarePermitted(f, op, k, u)
         /\ value # Null => Permitted(f, "write", k, u.sub, u.claims)
=============================================================================
