-------------------------------- MODULE Acl --------------------------------
(***************************************************************************)
(* Who may read or write a key: AclRegistry of the Rust server (acl.rs),   *)
(* and the one of the middleware crate, which reads the same rule file     *)
(* differently.                                                            *)
(*                                                                         *)
(* A key, a key pattern and a claim path are sequences: of the segments    *)
(* between the dots for the server, of characters for the middleware.  A   *)
(* permission is a record that tells the forms of the rule file apart:     *)
(*    "*"          [kind |-> "any"]                                        *)
(*    "{sub}"      [kind |-> "sub"]                                        *)
(*    "role:X"     [kind |-> "claim", prefix |-> "role", value |-> "X"]    *)
(*    "alice"      [kind |-> "literal", sub |-> "alice"]                   *)
(* A claim is a string, a list (the set of its strings) or an object.      *)
(***************************************************************************)
EXTENDS Naturals, Sequences, SequencesExt

Nobody == "-"         \* session.sub = None
NoCapture == "-"      \* no {sub} in the pattern
NoClaim == [tag |-> "none"]

-----------------------------------------------------------------------------
(* AclRegistry::from_file *)

\* The claim path behind each prefix; every preset has its "permissions".
PresetMappings(name) ==
    [perm |-> <<"permissions">>] @@
    CASE name = "keycloak" -> [role |-> <<"realm_access", "roles">>,
                               group |-> <<"groups">>, tenant |-> <<"tenant_id">>]
      [] name = "auth0" -> [role |-> <<"roles">>, group |-> <<"groups">>,
                            tenant |-> <<"org_id">>]
      [] name = "okta" -> [role |-> <<"groups">>, group |-> <<"groups">>,
                           tenant |-> <<"tenant_id">>]
      [] name = "cognito" -> [role |-> <<"cognito:groups">>,
                              group |-> <<"cognito:groups">>,
                              tenant |-> <<"custom:tenant_id">>]
      [] name = "generic" -> [role |-> <<"roles">>, group |-> <<"groups">>,
                              tenant |-> <<"tenant_id">>]

Presets == {"keycloak", "auth0", "okta", "cognito", "generic"}

\* An unknown preset has no mappings; those of the file win.
Mappings(file) ==
    file.claim_mappings @@
    IF file.preset \in Presets THEN PresetMappings(file.preset) ELSE <<>>

-----------------------------------------------------------------------------
(* AclRegistry::check *)

NoMatch == [ok |-> FALSE, captured |-> NoCapture]

MatchPatternPrefix(pat, key) ==
    LET m[i \in 1..(Len(pat) + 1)] ==
          IF i > Len(pat) THEN [ok |-> TRUE, captured |-> NoCapture]
          ELSE IF i > Len(key) THEN NoMatch
          ELSE IF pat[i] = "*" THEN [ok |-> TRUE, captured |-> NoCapture]
          ELSE IF pat[i] = "{sub}"
               THEN IF m[i + 1].captured # NoCapture THEN m[i + 1]
                    ELSE [ok |-> m[i + 1].ok, captured |-> key[i]]
          ELSE IF pat[i] = key[i] THEN m[i + 1] ELSE NoMatch
    IN m[1]

\* match_pattern, from segment i of both on: a "*" takes the rest, the last
\* {sub} before it is the one captured.
MatchPattern(pat, key) ==
    LET m[i \in 1..(Len(pat) + 1)] ==
          IF i > Len(pat) THEN [ok |-> Len(key) = Len(pat), captured |-> NoCapture]
          ELSE IF i > Len(key) THEN NoMatch
          ELSE IF pat[i] = "*" THEN [ok |-> TRUE, captured |-> NoCapture]
          ELSE IF pat[i] = "{sub}"
               THEN IF m[i + 1].captured # NoCapture THEN m[i + 1]
                    ELSE [ok |-> m[i + 1].ok, captured |-> key[i]]
          ELSE IF pat[i] = key[i] THEN m[i + 1] ELSE NoMatch
    IN m[1]

\* The whole path as one name, or else a walk from object to object.
ResolveClaim(claims, path) ==
    IF path \in DOMAIN claims THEN claims[path]
    ELSE FoldLeft(LAMBDA v, part :
                     IF v.tag = "object" /\ <<part>> \in DOMAIN v.fields
                     THEN v.fields[<<part>>] ELSE NoClaim,
                  [tag |-> "object", fields |-> claims], path)

\* check_permission; "{sub}" as the value of a claim is the captured segment.
CheckPermission(perm, sub, captured, claims, mappings) ==
    CASE perm.kind = "any" -> TRUE
      [] perm.kind = "sub" -> sub # Nobody /\ sub = captured
      [] perm.kind = "literal" -> sub = perm.sub
      [] perm.kind = "claim" ->
           LET value == IF perm.value = "{sub}" THEN captured ELSE perm.value
               claim == ResolveClaim(claims, mappings[perm.prefix])
           IN /\ value # NoCapture /\ perm.prefix \in DOMAIN mappings
              /\ \/ claim.tag = "list" /\ value \in claim.items
                 \/ claim.tag = "string" /\ value = claim.text

\* The first rule whose pattern matches decides; none denies.
Check(file, op, key, sub, claims) ==
    LET hits == {i \in DOMAIN file.rules : MatchPattern(file.rules[i].key, key).ok}
        first == CHOOSE i \in hits : \A j \in hits : i <= j
        rule == file.rules[first]
    IN /\ hits # {}
       /\ CheckPermission(rule[op], sub, MatchPattern(rule.key, key).captured,
                          claims, Mappings(file))

-----------------------------------------------------------------------------
(* sodp-middleware: AclRegistry::check *)

\* Every {sub} is the caller's own name, nothing for a caller without one.
Expanded(pattern, user) ==
    FlattenSeq([i \in DOMAIN pattern |->
                  IF pattern[i] # "{sub}" THEN <<pattern[i]>>
                  ELSE IF user.sub = Nobody THEN <<>> ELSE user.name])

\* glob_match, from position i of s and j of pattern on.
GlobMatch(s, pattern) ==
    LET g[i \in 1..(Len(s) + 1), j \in 1..(Len(pattern) + 1)] ==
          IF j > Len(pattern) THEN i > Len(s)
          ELSE IF pattern[j] = "*"
               THEN j = Len(pattern) \/ \E k \in i..(Len(s) + 1) : g[k, j + 1]
          ELSE i <= Len(s) /\ s[i] = pattern[j] /\ g[i + 1, j + 1]
    IN g[1, 1]

\* Permission::allows; the "captured" name is the caller's, if there is a {sub}.
Allows(perm, user, pattern) ==
    /\ user.sub # Nobody
    /\ CASE perm.kind = "any" -> TRUE
         [] perm.kind = "sub" -> Contains(pattern, "{sub}")
         [] perm.kind = "literal" -> user.sub = perm.sub
         [] OTHER -> FALSE

MiddlewareCheck(file, op, key, user) ==
    LET hits == {i \in DOMAIN file.rules :
                    GlobMatch(key, Expanded(file.rules[i].key, user))}
        first == CHOOSE i \in hits : \A j \in hits : i <= j
        rule == file.rules[first]
    IN hits # {} /\ Allows(rule[op], user, rule.key)

-----------------------------------------------------------------------------
(* What the rule file says, without an algorithm *)

\* The segments of pat before its first "*".
Fixed(pat) == {i \in DOMAIN pat : \A j \in 1..i : pat[j] # "*"}

Covers(pat, key) ==
    /\ \A i \in Fixed(pat) : i \in DOMAIN key /\ pat[i] \in {"{sub}", key[i]}
    /\ IF Fixed(pat) = DOMAIN pat THEN DOMAIN key = DOMAIN pat
       ELSE \E i \in DOMAIN key : i \notin Fixed(pat)

\* The segment of key that s names when it is the last {sub} of pat.
Captures(pat, key, s) ==
    \E i \in Fixed(pat) : /\ pat[i] = "{sub}" /\ key[i] = s
                          /\ \A j \in Fixed(pat) : pat[j] = "{sub}" => j <= i

\* Does a claim the mappings name by prefix hold s?
Holds(claims, path, s) ==
    \E c \in {ResolveClaim(claims, path)} :
        s \in (CASE c.tag = "list" -> c.items [] c.tag = "string" -> {c.text}
                 [] OTHER -> {})

Grants(perm, pat, key, sub, claims, mappings) ==
    \/ perm.kind = "any"
    \/ perm.kind = "sub" /\ Captures(pat, key, sub)
    \/ perm.kind = "literal" /\ perm.sub = sub
    \/ /\ perm.kind = "claim" /\ perm.prefix \in DOMAIN mappings
       /\ \E s \in {perm.value} \cup {key[i] : i \in DOMAIN key} :
             /\ Holds(claims, mappings[perm.prefix], s)
             /\ perm.value = "{sub}" => Captures(pat, key, s)
             /\ perm.value # "{sub}" => s = perm.value

Permitted(file, op, key, sub, claims) ==
    \E i \in DOMAIN file.rules :
        LET rule == file.rules[i]
        IN /\ Covers(rule.key, key)
           /\ \A j \in 1..(i - 1) : ~Covers(file.rules[j].key, key)
           /\ Grants(rule[op], rule.key, key, sub, claims, Mappings(file))

\* s can be cut into pieces, one per position of pattern: any text for a "*", the
\* character itself for any other.
GlobCovers(s, pattern) ==
    \E cut \in [1..(Len(pattern) + 1) -> 0..Len(s)] :
        /\ cut[1] = 0 /\ cut[Len(pattern) + 1] = Len(s)
        /\ \A j \in DOMAIN pattern :
              IF pattern[j] = "*" THEN cut[j] <= cut[j + 1]
              ELSE /\ cut[j + 1] = cut[j] + 1
                   /\ s[cut[j + 1]] = pattern[j]

MiddlewarePermitted(file, op, key, user) ==
    \E i \in DOMAIN file.rules :
        LET rule == file.rules[i]
            Reaches(j) == GlobCovers(key, Expanded(file.rules[j].key, user))
        IN /\ user.sub # Nobody
           /\ Reaches(i) /\ \A j \in 1..(i - 1) : ~Reaches(j)
           /\ \/ rule[op].kind = "any"
              \/ rule[op].kind = "sub" /\ \E j \in DOMAIN rule.key : rule.key[j] = "{sub}"
              \/ rule[op].kind = "literal" /\ rule[op].sub = user.sub
=============================================================================
