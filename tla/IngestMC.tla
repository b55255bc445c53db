------------------------------ MODULE IngestMC ------------------------------
(* Requests that differ in ways the API must and must not tell apart, for a *)
(* circuit with the shape of the seeded ones, with two siblings for twenty, *)
(* and for one whose schema, when it gets one, names a struct and a field   *)
(* or takes any object.                                                     *)
EXTENDS Ingest, Requests

SomeLength(s) == 3
SomeKeys == <<"leaf_index", "root", "root.secret", "secret", "siblings">>
NamesIn(key) == IF key = "root.secret" THEN <<"root", "secret">> ELSE <<key>>
SomeCircuits == {"membership", "custom"}

FieldElement == {"7", "0x7"}
SeededSchema ==
  Closed([root |-> IsString(FieldElement), secret |-> IsString(FieldElement),
          leaf_index |-> IsString({"7"}),
          siblings |-> IsArray(2, IsString(FieldElement))])
StructSchema ==
  Closed([root |-> Closed([secret |-> IsString(FieldElement)]),
          siblings |-> IsString(FieldElement)])
SchemaNamed == [seeded |-> SeededSchema, struct |-> StructSchema, any |-> AnyObject]

\* A key of the request goes with it and is no part of the job.
Asking(circuit, inputs) == [circuit |-> circuit, key |-> "key", inputs |-> inputs]

Seven == Leaf("string", "7")
Membership(sibling) ==
  <<<<"root", Leaf("string", "0x7")>>, <<"secret", Seven>>, <<"leaf_index", Seven>>,
    <<"siblings", Arr(<<Seven, sibling>>)>>>>
Nested(value) ==
  Obj(<<<<"root", Obj(<<<<"secret", value>>>>)>>, <<"siblings", Seven>>>>)

\* The same work with its keys in another order and one of them given twice;
\* a table before a scalar, around a string and around a number.
SomeRequests ==
  << Asking("membership", Obj(Membership(Leaf("string", "0x7")))),
     Asking("membership", Obj(<<<<"root", Leaf("float", "0.5")>>>>
                              \o Reverse(Membership(Leaf("string", "0x7"))))),
     Asking("custom", Nested(Seven)),
     Asking("custom", Nested(Leaf("integer", "7"))) >>

RequestNumbers == DOMAIN SomeRequests
CircuitNamed == [r \in RequestNumbers |-> SomeRequests[r].circuit]
LetThrough == [s \in DOMAIN SchemaNamed |->
                 {r \in RequestNumbers : IsValid(SomeRequests[r], SchemaNamed[s])}]
HashedTo == [r \in RequestNumbers |->
               CHOOSE n \in RequestNumbers :
                 /\ JobHash(SomeRequests[n]) = JobHash(SomeRequests[r])
                 /\ \A m \in 1..(n - 1) : JobHash(SomeRequests[m]) # JobHash(SomeRequests[r])]
JobNumbers == Range(HashedTo)
MeaningOf == [r \in RequestNumbers |-> Meaning(SomeRequests[r])]
Rendered == {r \in RequestNumbers : Renders(Parsed(SomeRequests[r].inputs))}
ReadsBack(v) == ReadToml(TomlLines(v)) = v
ReadBackSame == {r \in Rendered : ReadsBack(Parsed(SomeRequests[r].inputs))}
FieldsNamed == LetThrough["seeded"] \cup LetThrough["struct"]

\* A schema that takes any object takes this one as well, and what is read of
\* it is not its key but the struct that Nested writes.
Dotted == Obj(<<<<"root.secret", Seven>>, <<"siblings", Seven>>>>)
ASSUME DottedKeyIsReadAsATable ==
  /\ IsValid(Asking("custom", Dotted), AnyObject)
  /\ ReadToml(TomlLines(Parsed(Dotted))) = Parsed(Nested(Seven))

Registered(s) == [enabled |-> TRUE, schema |-> s]
SomeTables ==
  {[membership |-> Registered("seeded"), custom |-> Unregistered]}

Symmetry == Permutations(Client)

\* Two clients whose requests were accepted have the same job exactly when
\* they asked for the same work: neither the order of the keys nor a key given
\* twice tells requests apart, and a string is never taken for a number. That
\* a key given twice is refused, as canonical.rs:13 has it, is not what the
\* code does: serde_json has let the last one stand.
SameJobIffSameWork ==
  \A c1, c2 \in Client :
    answer[c1] \in Accepted /\ answer[c2] \in Accepted =>
      (JobOf[request[c1]] = JobOf[request[c2]]
         <=> MeaningOf[request[c1]] = MeaningOf[request[c2]])

\* For a request with the fields some closed schema names, what the prover
\* reads from Prover.toml is what was accepted: a scalar is never read into
\* the table that was before it. Of a schema that takes any object this does
\* not hold, since a key is written without quotes, whatever it is.
ProverReadsWhatWasAccepted ==
  \A cl \in Client :
    answer[cl] \in Accepted /\ request[cl] \in FieldsNamed \cap Rendered =>
      request[cl] \in ReadBackSame
=============================================================================
