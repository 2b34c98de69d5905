------------------------------ MODULE MCMirror ------------------------------
(* Small documents, two levels of objects over two names, for every server. *)
EXTENDS Mirror

One == Scalar("int", <<"1">>)
OneText == Scalar("string", <<"1">>)
Zero == Scalar("int", <<"0">>)
ZeroText == Scalar("string", <<"0">>)
False == Scalar("bool", <<"false">>)

\* All objects whose fields, named by Names, have values in S.
Objects(Names, S) ==
    {Obj(f) : f \in UNION {[D -> S] : D \in SUBSET Names}}
Documents(Names, S) == S \cup Objects(Names, S \cup Objects(Names, S))

Plain == {<<"a">>, <<"b">>}
Numeric == {<<"a">>, <<"0">>}
BasicLeaves == {Null, One}
PatchesOf(Names) == Objects(Names, BasicLeaves \cup Objects({<<"a">>}, {One}))

PointerPaths == {<<"/">>, <<"/", "a">>, <<"/", "a", "/", "0">>}
PlainPaths == {<<"/">>, <<"/", "a">>, <<"/", "a", "/", "b">>}
DottedPaths == {<<"a">>, <<"a", ".", "b">>}

Nothing ==
    [values |-> {}, patches |-> {}, paths |-> {}, leaves |-> BasicLeaves,
     presencePaths |-> {}, elements |-> {}, maxLens |-> {},
     clients |-> {"ts", "py", "java"}, schema |-> NoSchema,
     sessions |-> {[file |-> NoFile]}]

\* Rust: names that look like indices.
Rust == [server |-> "rust",
         values |-> Documents(Numeric, {One, Arr(<<One>>)}),
         patches |-> PatchesOf(Numeric), paths |-> PointerPaths,
         presencePaths |-> PointerPaths] @@ Nothing

\* Rust: a key with a schema; presence is used in a field that may be missing.
Counters == SchemaNode("Object", TRUE, <<"0">> :> SchemaNode("Int", TRUE, Empty))
Typed == [schema |-> SchemaNode("Object", TRUE,
              (<<"a">> :> Counters) @@ (<<"0">> :> SchemaNode("Float", FALSE, Empty)))] @@ Rust

\* Rust: who may call, for every two rules, every key and every session.
Anyone == [kind |-> "any"]
Sub == [kind |-> "sub"]
Alice == [kind |-> "literal", sub |-> "a"]
Role(v) == [kind |-> "claim", prefix |-> "role", value |-> v]
Patterns == UNION {[1..n -> {"a", "{sub}", "*"}] : n \in 1..2}
            \cup {<<"*", "a", "*">>, <<"*", "b", "a">>, <<"{sub}", "a", "{sub}">>}
Rules == {[key |-> p, read |-> r, write |-> w] :
            p \in Patterns, r \in {Sub, Alice}, w \in {Anyone, Role("a"), Role("{sub}")}}
RoleList == [tag |-> "list", items |-> {"a"}]
LastRules == [key : Patterns, read : {Anyone}, write : {Alice}]
Users == {[sub |-> Nobody, name |-> <<>>, claims |-> <<>>],
          [sub |-> "a", name |-> <<"a">>, claims |-> <<"roles">> :> RoleList],
          [sub |-> "b", name |-> <<"b", "a">>,
           claims |-> <<"realm_access">> :>
               [tag |-> "object", fields |-> <<"roles">> :> RoleList]]}
Files == {[preset |-> s, claim_mappings |-> <<>>, rules |-> r] :
            s \in {"keycloak", "generic"}, r \in Rules \X LastRules}
Access == [server |-> "rust", clients |-> {"ts"}, values |-> {One},
           sessions |-> [file : Files, key : UNION {[1..n -> {"a", "b"}] : n \in 1..3},
                         user : Users]] @@ Nothing

\* Go: also a cluster peer that applies the deltas.
Go == [server |-> "go", clients |-> {"ts", "py", "java", "go"},
       values |-> Documents(Plain, {Null, One, Arr(<<One>>)}),
       patches |-> PatchesOf(Plain), paths |-> DottedPaths] @@ Nothing

\* Go: values that print alike, and values that are left out of an op.
GoTexts == [server |-> "go", clients |-> {"ts", "py", "java", "go"},
            values |-> Objects(Plain, {Zero, ZeroText, One, OneText, False, Obj(Empty),
                                       Arr(<<>>), Arr(<<One, One>>), Arr(<<OneText, One>>),
                                       Arr(<<Scalar("string", <<"1", " ", "1">>)>>),
                                       Obj(<<"a">> :> Zero), Obj(<<"a">> :> ZeroText),
                                       Scalar("string", <<"[", "1", " ", "1", "]">>),
                                       Scalar("string", <<"map[", "a", ":", "0", "]">>)}),
            patches |-> Objects({<<"a">>}, {Zero, OneText}), paths |-> DottedPaths,
            leaves |-> {Zero, Obj(Empty)}] @@ Nothing

\* Go: a key that only state.append writes.
GoAppends == [server |-> "go", maxLens |-> {3},
              elements |-> {One, OneText, Zero, Null, Obj(Empty)}] @@ Nothing

Ts == [server |-> "ts",
       values |-> Documents(Plain, {Null, One, Arr(<<One>>)}),
       patches |-> PatchesOf(Plain), paths |-> PlainPaths] @@ Nothing

\* TypeScript: presence in a key that always holds an object.
TsPresent == [server |-> "ts",
              values |-> Objects(Plain, {One} \cup Objects(Plain, BasicLeaves)),
              patches |-> PatchesOf(Plain), paths |-> {<<"/", "a", "/", "b">>},
              presencePaths |-> {<<"/", "a">>}] @@ Nothing

Workloads == [Rust |-> Rust, Typed |-> Typed, Access |-> Access, Go |-> Go,
              GoTexts |-> GoTexts, GoAppends |-> GoAppends, Ts |-> Ts, TsPresent |-> TsPresent]
=============================================================================
