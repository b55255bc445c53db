------------------------------ MODULE Requests ------------------------------
(***************************************************************************)
(* What a request is, as a pure function of its text: how its JSON is      *)
(* read, which texts the API lets through, which job an accepted one is,   *)
(* and what the prover is given for it.                                    *)
(*                                                                         *)
(* A text is a tree: a leaf has a kind and its characters, an array its    *)
(* items, an object its members in the order they are written, a key       *)
(* perhaps twice. Parsed makes an object a function from its keys.         *)
(* Characters are left out: a string is one token, and what a pattern      *)
(* matches is a set of strings. SHA-256 is taken to be injective.          *)
(***************************************************************************)
EXTENDS Naturals, Sequences, SequencesExt

CONSTANTS
  KeyOrder,     \* the keys in use, sorted by their Unicode scalar values
  Slugs,        \* the circuit ids made of [a-z0-9_-] alone
  Length(_),    \* how long a string is
  KeyPath(_),   \* what TOML makes of a key written without quotes: the names
                \* between its dots, or none at all where it is no such key
  MaxKeyLen,    \* max_idempotency_key_len
  MaxIdLen,     \* max_circuit_id_len
  MaxStringLen, \* max_string_len
  MaxArrayLen,  \* max_array_len
  MaxDepth      \* MAX_DEPTH

Leaf(kind, text) == [kind |-> kind, text |-> text]
Arr(items) == [kind |-> "array", items |-> items]
Obj(members) == [kind |-> "object", members |-> members]

\* serde_json: of a key's values the last stands, and a map is kept sorted.
RECURSIVE Parsed(_)
Parsed(v) ==
  CASE v.kind = "array" -> Arr([i \in DOMAIN v.items |-> Parsed(v.items[i])])
    [] v.kind = "object" ->
         LET keys == {m[1] : m \in Range(v.members)}
             last(k) == SelectLastInSeq(v.members, LAMBDA m : m[1] = k)
         IN Obj([k \in keys |-> Parsed(v.members[last(k)][2])])
    [] OTHER -> v

\* Every value inside a parsed value, itself included, with its depth.
RECURSIVE Within(_, _)
Within(v, depth) ==
  {<<v, depth>>} \cup
  CASE v.kind = "array"  -> UNION {Within(i, depth + 1) : i \in Range(v.items)}
    [] v.kind = "object" -> UNION {Within(m, depth + 1) : m \in Range(v.members)}
    [] OTHER -> {}
-----------------------------------------------------------------------------
(* Validation. *)

\* check_circuit_id and check_idempotency_key
PlainNames(id, key) ==
  /\ 0 < Length(id) /\ Length(id) <= MaxIdLen
  /\ id \in Slugs
  /\ Length(key) <= MaxKeyLen

\* check_input_limits and its walk
WithinLimits(v) ==
  /\ v.kind = "object"
  /\ \A n \in Within(v, 0) :
       /\ n[1].kind = "string" => Length(n[1].text) <= MaxStringLen
       /\ n[1].kind = "array"  => Len(n[1].items) <= MaxArrayLen

\* What canonicalise refuses: floats, and what is nested too deep.
HasCanonicalForm(v) ==
  \A n \in Within(v, 0) : n[2] <= MaxDepth /\ n[1].kind # "float"

\* The keywords the registered schemas use. A rule is a pattern for a string,
\* a length and a rule for the items of an array, or a rule for each field of
\* an object, each required and no other allowed.
IsString(pattern) == [type |-> "string", pattern |-> pattern]
IsArray(n, rule) == [type |-> "array", size |-> n, items |-> rule]
Closed(rules) == [type |-> "object", properties |-> rules]

\* A schema that asks for an object and says nothing of its fields.
AnyObject == [type |-> "object"]

RECURSIVE Obeys(_, _)
Obeys(v, rule) ==
  /\ v.kind = rule.type
  /\ v.kind = "string" => v.text \in rule.pattern
  /\ v.kind = "array" =>
       /\ Len(v.items) = rule.size
       /\ \A i \in Range(v.items) : Obeys(i, rule.items)
  /\ v.kind = "object" /\ rule # AnyObject =>
       /\ DOMAIN v.members = DOMAIN rule.properties
       /\ \A k \in DOMAIN v.members : Obeys(v.members[k], rule.properties[k])

\* validate_submission
IsValid(req, schema) ==
  LET v == Parsed(req.inputs)
  IN /\ PlainNames(req.circuit, req.key)
     /\ WithinLimits(v)
     /\ Obeys(v, schema)
     /\ HasCanonicalForm(v)
-----------------------------------------------------------------------------
(* Identity. *)

\* Slip: a string is written as it is, and reads like a number.
Unquoted(text) == <<text>>

\* write_json_string. The escapes are taken to be injective.
Quoted(text) == <<"quote", text, "quote">>

\* One part after another, with a comma before each but the first.
Listed(parts) ==
  FoldLeft(LAMBDA out, part : IF out = <<>> THEN part ELSE out \o <<",">> \o part,
           <<>>, parts)

\* write_canonical, of a parsed value.
RECURSIVE Canonical(_)
Canonical(v) ==
  CASE v.kind = "string" -> Quoted(v.text)
    [] v.kind = "array" ->
         <<"[">> \o Listed([i \in DOMAIN v.items |-> Canonical(v.items[i])]) \o <<"]">>
    [] v.kind = "object" ->
         LET keys == SelectSeq(KeyOrder, LAMBDA k : k \in DOMAIN v.members)
             member(k) == Quoted(k) \o <<":">> \o Canonical(v.members[k])
         IN <<"{">> \o Listed([i \in DOMAIN keys |-> member(keys[i])]) \o <<"}">>
    [] OTHER -> <<v.text>>

\* job_hash, before the digest.
JobHash(req) == <<req.circuit, "NUL">> \o Canonical(Parsed(req.inputs))

\* What a request means: a circuit and a value, however it is spelled.
Meaning(req) == <<req.circuit, Parsed(req.inputs)>>
-----------------------------------------------------------------------------
(* Prover.toml. *)

\* render_value, whether it has anything to write.
RECURSIVE HasToml(_)
HasToml(v) ==
  \/ v.kind \in {"string", "bool", "integer"}
  \/ v.kind = "array" /\ \A i \in Range(v.items) : HasToml(i)

\* render_prover_toml, whether it succeeds.
Renders(v) ==
  /\ v.kind = "object"
  /\ \A m \in Range(v.members) :
       IF m.kind = "object" THEN \A inner \in Range(m.members) : HasToml(inner)
                            ELSE HasToml(m)

Sorted(keys) == SelectSeq(KeyOrder, LAMBDA k : k \in keys)

Pairs(members, keys) ==
  LET order == Sorted(keys)
  IN [i \in DOMAIN order |-> [line |-> "pair", key |-> order[i], value |-> members[order[i]]]]

Tables(v) == {k \in DOMAIN v.members : v.members[k].kind = "object"}

Table(v, k) == <<[line |-> "table", key |-> k]>> \o Pairs(v.members[k].members,
                                                          DOMAIN v.members[k].members)

\* Slip: each member where it stands in the object.
LinesInOrder(v) ==
  FlattenSeq([i \in DOMAIN Sorted(DOMAIN v.members) |->
    LET k == Sorted(DOMAIN v.members)[i]
    IN IF k \in Tables(v) THEN Table(v, k) ELSE Pairs(v.members, {k})])

\* render_prover_toml, what it writes: the scalars and arrays of the object
\* first, then a table for each object in it. Keys are written as they are,
\* without quotes.
TomlLines(v) ==
  LET tables == Sorted(Tables(v))
  IN Pairs(v.members, DOMAIN v.members \ Tables(v))
       \o FlattenSeq([i \in DOMAIN tables |-> Table(v, tables[i])])

\* What a TOML reader refuses.
NotToml == Leaf("none", "")

\* A value put where a path leads, through tables made on the way. Nothing is
\* put where there is something already.
RECURSIVE Put(_, _, _)
Put(table, path, value) ==
  IF table.kind # "object" \/ path = <<>> THEN NotToml
  ELSE LET k == Head(path)
           taken == k \in DOMAIN table.members
           inner == IF Len(path) = 1 THEN IF taken THEN NotToml ELSE value
                    ELSE Put(IF taken THEN table.members[k] ELSE Obj(<<>>), Tail(path), value)
       IN IF inner = NotToml THEN NotToml ELSE Obj((k :> inner) @@ table.members)

\* A TOML reader: a pair belongs to the header it follows, and a key to the
\* tables its dots name. (A key with a line break, which makes more lines of
\* itself, is not among the keys in use.)
ReadToml(lines) ==
  LET read(sofar, l) ==
        IF l.line = "table"
          THEN [under |-> KeyPath(l.key),
                value |-> Put(sofar.value, KeyPath(l.key), Obj(<<>>))]
          ELSE [sofar EXCEPT !.value =
                  IF KeyPath(l.key) = <<>> THEN NotToml
                  ELSE Put(@, sofar.under \o KeyPath(l.key), l.value)]
  IN FoldLeft(read, [under |-> <<>>, value |-> Obj(<<>>)], lines).value
=============================================================================
