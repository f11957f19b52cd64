------------------------------ MODULE ApiModels ------------------------------
(***************************************************************************)
(* #[api_model]: what a declared field promises and what its code enforces.*)
(*                                                                         *)
(* The macro reads the rules written on a field or on a value type, refuses*)
(* the ones the field cannot carry, and writes two things from the rest:   *)
(* the descriptor, which the schema projection turns into JSON Schema, and *)
(* the validate method that runs on every request.  The module states both *)
(* and the schema's own meaning, so that a payload can be put to each.     *)
(*                                                                         *)
(* A type is a name of Types: text, integer, float, bool, vec, a value type*)
(* (a named bundle of rules), an enumeration or a model.  Rules are a      *)
(* function from the attributes written to their arguments.  Numbers count *)
(* halves, so that an integer is an even one; a numeric literal also says  *)
(* whether it was written as a float.  The language of a pattern and the   *)
(* set of addresses are constants.  Aliases, renaming, borrowed views and  *)
(* the model-level validator are left out.                                 *)
(***************************************************************************)
EXTENDS Integers, Sequences, FiniteSets, SequencesExt, TLC

CONSTANTS
    Types,          \* the declared types, by name
    Values,         \* for each type, JSON values a client may send for it
    Declarations,   \* the declarations of the model's one field, "f"
    Languages,      \* for each pattern, the strings it matches
    Emails,         \* the strings is_email accepts
    ScanLimit,      \* UNIQUE_ITEMS_SCAN_LIMIT
    Sample,         \* the text an example starts from
    PadLimit,       \* the longest an example is padded to (64)
    None

Null == <<"null">>
Bool(b) == <<"bool", b>>
Num(n) == <<"num", n>>
Str(s) == <<"str", s>>
Arr(s) == <<"arr", s>>
Obj(f) == <<"obj", f>>
Kind(v) == v[1]
Content(v) == v[2]

VARIABLES
    field,      \* the declaration the macro was given, or None
    expanded,   \* did it compile
    body,       \* the last request body, or None
    reply,      \* its answer: "none", "decode", "invalid" or "ok"
    faults      \* the violations an invalid one lists

vars == <<field, expanded, body, reply, faults>>

-----------------------------------------------------------------------------
(* What the macro refuses.                                                 *)

Numeric == {"minimum", "maximum", "exclusive_minimum", "exclusive_maximum", "multiple_of"}
Items   == {"min_items", "max_items", "unique_items"}
Lengths == {"min_length", "max_length"}

Has(rules, key) == key \in DOMAIN rules

FieldShape(t) ==
    CASE Types[t].form = "text"    -> "Text"
      [] Types[t].form = "integer" -> "Integer"
      [] Types[t].form = "float"   -> "Float"
      [] Types[t].form = "vec"     -> "Collection"
      [] OTHER                     -> "Other"

\* Bounds are compared with their own kind only: lengths, items, inclusive, exclusive.
InvertedBounds(rules) ==
    \/ Has(rules, "min_length") /\ Has(rules, "max_length") /\ rules.min_length > rules.max_length
    \/ Has(rules, "min_items") /\ Has(rules, "max_items") /\ rules.min_items > rules.max_items
    \/ Has(rules, "minimum") /\ Has(rules, "maximum") /\ rules.minimum.v > rules.maximum.v
    \/ /\ Has(rules, "exclusive_minimum") /\ Has(rules, "exclusive_maximum")
       /\ rules.exclusive_minimum.v > rules.exclusive_maximum.v

TakesRules(rules) ==
    /\ Has(rules, "multiple_of") => rules.multiple_of.v # 0
    /\ ~InvertedBounds(rules)

IncompatibleDefault(rules, t) ==
    /\ Has(rules, "default")
    /\ ~ CASE Kind(rules.default) = "str"  -> FieldShape(t) = "Text"
           [] Kind(rules.default) = "bool" -> Types[t].form = "bool"
           [] OTHER -> IF rules.default[3] THEN FieldShape(t) = "Float"
                                              ELSE FieldShape(t) \in {"Integer", "Float"}

IncompatibleRules(rules, t) ==
    LET shape == FieldShape(t) IN
    \/ DOMAIN rules \cap Numeric # {} /\ shape \notin {"Integer", "Float"}
    \/ DOMAIN rules \cap Items # {} /\ shape # "Collection"
    \/ DOMAIN rules \cap {"pattern", "email"} # {} /\ shape # "Text"
    \/ IncompatibleDefault(rules, t)
    \/ DOMAIN rules \cap Lengths # {} /\ shape \notin {"Text", "Collection"}

\* On a collection min_length and max_length mean the item bounds.
NormalizeCollectionRules(rules, shape) ==
    IF shape # "Collection" THEN rules
    ELSE [key \in {k \in DOMAIN rules \cup Items :
                     /\ k \notin Lengths
                     /\ \/ Has(rules, k)
                        \/ k = "min_items" /\ Has(rules, "min_length")
                        \/ k = "max_items" /\ Has(rules, "max_length")} |->
            IF Has(rules, key) THEN rules[key]
            ELSE IF key = "min_items" THEN rules.min_length ELSE rules.max_length]

\* A value type wraps one type, which may not be an Option, and only a field has a default.
FieldOnly(rules) == Has(rules, "default")

\* A value type of Types was expanded by the same steps.
ValueTypeExpands(t) ==
    LET rules == Types[t].rules IN
    /\ TakesRules(rules)
    /\ ~FieldOnly(rules)
    /\ ~IncompatibleRules(rules, Types[t].of)

\* The names of an enumeration are told apart, also in the rule that lists them.
EnumExpands(t) ==
    LET names == Types[t].variants IN
    /\ IsInjective(names)
    /\ \A i \in 1..Len(names) : "|" \notin Range(Content(names[i]))

OwnedFieldExpands(d) ==
    /\ TakesRules(d.rules)
    /\ ~IncompatibleRules(d.rules, d.of)
    /\ ~(d.optional /\ Has(d.rules, "default"))

ModelExpands(fields) == \A i \in 1..Len(fields) : OwnedFieldExpands(fields[i])

\* What a field is declared with has compiled before: the module that makes an instance
\* assumes so.
TypesAssumption ==
    \A t \in DOMAIN Types :
        /\ Types[t].form = "value" => ValueTypeExpands(t)
        /\ Types[t].form = "enum" => EnumExpands(t)
        /\ Types[t].form = "model" => ModelExpands(Types[t].fields)

-----------------------------------------------------------------------------
(* The descriptor and the schema projected from it.  A schema is a function*)
(* from its keywords; "type" holds the set of type names it accepts.       *)

Rules(rules, t) == NormalizeCollectionRules(rules, FieldShape(t))

\* The rules a value type or an enumeration declares itself.
ConstraintRules(t) ==
    CASE Types[t].form = "value" -> Rules(Types[t].rules, Types[t].of)
      [] Types[t].form = "enum" ->
           \* `enum=` with nothing after it is no enumeration to FieldMetadata::parse.
           IF Types[t].variants = <<Str(<<>>)>> THEN <<>> ELSE [enum |-> ToSet(Types[t].variants)]
      [] OTHER -> <<>>

RECURSIVE TypeConstraints(_)
TypeConstraints(t) ==
    IF Types[t].form = "value" THEN ConstraintRules(t) @@ TypeConstraints(Types[t].of)
    ELSE ConstraintRules(t)

\* What ApiConstrained is implemented for; the probe finds no rules on the rest.
Constrained(t) == Types[t].form \in {"value", "enum"}
DeclaredRules(t) == IF Constrained(t) THEN ConstraintRules(t) ELSE <<>>

\* Only a scalar-shaped field inherits the rules of its value type.
FieldRules(d) ==
    LET own == Rules(d.rules, d.of) @@ (IF d.optional THEN [nullable |-> TRUE] ELSE <<>>)
    IN IF FieldShape(d.of) = "Other" THEN own @@ DeclaredRules(d.of) ELSE own

WidenWithNull(schema) ==
    IF "type" \in DOMAIN schema
    THEN [schema EXCEPT !.type = @ \cup {"null"}]
    ELSE IF "ref" \in DOMAIN schema
    THEN [anyOf |-> {schema, [type |-> {"null"}]}]
    ELSE schema

\* Named validators are recorded as an extension, which constrains nothing.
ApplyValidation(schema, rules) ==
    LET keywords == DOMAIN rules \ {"nullable", "validator"}
        written  == [k \in keywords |-> rules[k]] @@ schema
    IN IF "nullable" \in DOMAIN rules THEN WidenWithNull(written) ELSE written

RECURSIVE SchemaKindOf(_), SchemaValue(_)
SchemaKindOf(t) ==
    LET type == Types[t] IN
    CASE type.form \in {"text", "enum"} -> [type |-> {"string"}]
      [] type.form = "integer"          -> [type |-> {"integer"}]
      [] type.form = "float"            -> [type |-> {"number"}]
      [] type.form = "bool"             -> [type |-> {"boolean"}]
      [] type.form = "vec"              -> [type |-> {"array"}, items |-> SchemaValue(type.of)]
      [] type.form = "value"            -> SchemaKindOf(type.of)
      [] type.form = "model"            -> [ref |-> t]
SchemaValue(t) == ApplyValidation(SchemaKindOf(t), TypeConstraints(t))

FieldSchema(d) == ApplyValidation(SchemaValue(d.of), FieldRules(d))

ModelSchema(fields) ==
    [type |-> {"object"},
     properties |-> [n \in {fields[i].name : i \in 1..Len(fields)} |->
                       FieldSchema(fields[CHOOSE i \in 1..Len(fields) : fields[i].name = n])],
     required |-> {fields[i].name : i \in {j \in 1..Len(fields) :
                     ~fields[j].optional /\ ~Has(fields[j].rules, "default")}}]

-----------------------------------------------------------------------------
(* Decoding and validating a request.  A decoded value is again a JSON     *)
(* value: a default filled in, an absent option null, unknown keys dropped.*)

Even(n) == n % 2 = 0

RECURSIVE Decodes(_, _), DecodesModel(_, _)
DecodesModel(fields, v) ==
    /\ Kind(v) = "obj"
    /\ \A i \in 1..Len(fields) :
         LET d == fields[i] IN
         IF d.name \in DOMAIN Content(v)
         THEN (d.optional /\ Content(v)[d.name] = Null) \/ Decodes(d.of, Content(v)[d.name])
         ELSE d.optional \/ Has(d.rules, "default")
Decodes(t, v) ==
    LET type == Types[t] IN
    CASE type.form = "text"    -> Kind(v) = "str"
      [] type.form = "integer" -> Kind(v) = "num" /\ Content(v) % 2 = 0
      [] type.form = "float"   -> Kind(v) = "num"
      [] type.form = "bool"    -> Kind(v) = "bool"
      [] type.form = "enum"    -> v \in ToSet(type.variants)
      [] type.form = "value"   -> Decodes(type.of, v)
      [] type.form = "vec"     -> Kind(v) = "arr" /\ \A i \in 1..Len(Content(v)) : Decodes(type.of, Content(v)[i])
      [] type.form = "model"   -> DecodesModel(type.fields, v)

\* The default function returns the literal, in the field's own type.
DefaultValue(rules) == IF Kind(rules.default) = "num" THEN Num(Content(rules.default)) ELSE rules.default

RECURSIVE Decoded(_, _), DecodedModel(_, _)
DecodedModel(fields, v) ==
    Obj([n \in {fields[i].name : i \in 1..Len(fields)} |->
           LET d == fields[CHOOSE i \in 1..Len(fields) : fields[i].name = n]
           IN IF n \notin DOMAIN Content(v)
              THEN IF d.optional THEN Null ELSE DefaultValue(d.rules)
              ELSE IF Content(v)[n] = Null THEN Null ELSE Decoded(d.of, Content(v)[n])])
Decoded(t, v) ==
    LET type == Types[t] IN
    CASE type.form = "value" -> Decoded(type.of, v)
      [] type.form = "vec"   -> Arr([i \in 1..Len(Content(v)) |-> Decoded(type.of, Content(v)[i])])
      [] type.form = "model" -> DecodedModel(type.fields, v)
      [] OTHER -> v

Violation(path, code) == [path |-> path, code |-> code]

\* A nested model's paths hang below the field; an empty one is the field.
MergeNested(prefix, nested) == {Violation(prefix \o n.path, n.code) : n \in nested}

\* A value's own violations may already name the field they were declared on.
MergeField(name, nested) ==
    {Violation(IF name # <<>> /\ IsPrefix(name, n.path) THEN n.path ELSE name \o n.path, n.code)
       : n \in nested}

Repeats(s) == \E i, j \in 1..Len(s) : i < j /\ s[i] = s[j]

TextFaults(rules, s) ==
    {key \in DOMAIN rules :
       \/ key = "min_length" /\ Len(s) < rules.min_length
       \/ key = "max_length" /\ Len(s) > rules.max_length
       \/ key = "email" /\ s \notin Emails
       \/ key = "pattern" /\ s \notin Languages[rules.pattern]}

NumberFaults(rules, n) ==
    {key \in DOMAIN rules :
       \/ key = "minimum" /\ n < rules.minimum.v
       \/ key = "maximum" /\ n > rules.maximum.v
       \/ key = "exclusive_minimum" /\ n <= rules.exclusive_minimum.v
       \/ key = "exclusive_maximum" /\ n >= rules.exclusive_maximum.v
       \/ key = "multiple_of" /\ n % rules.multiple_of.v # 0}

CollectionFaults(rules, s) ==
    {key \in DOMAIN rules :
       \/ key = "min_items" /\ Len(s) < rules.min_items
       \/ key = "max_items" /\ Len(s) > rules.max_items
       \/ key = "unique_items" /\ (Len(s) > ScanLimit \/ Repeats(s))}

FieldChecks(rules, shape, v, name) ==
    {Violation(name, key) : key \in
       CASE shape = "Text" -> TextFaults(rules, Content(v))
         [] shape \in {"Integer", "Float"} -> NumberFaults(rules, Content(v))
         [] shape = "Collection" -> CollectionFaults(rules, Content(v))
         [] OTHER -> {}}

\* A declared validator reports its violations by a path of its own choice.
CustomFaults(rules, v, name) ==
    IF Has(rules, "validator") /\ v \in rules.validator.refuses
    THEN MergeField(name, {Violation(rules.validator.path, "custom")})
    ELSE {}

\* The rules of a value type; an enumeration has nothing left to check.
ValidateConstraints(t, v) ==
    IF Types[t].form # "value" THEN {}
    ELSE LET inner == Types[t].of
             rules == Rules(Types[t].rules, inner)
         IN FieldChecks(rules, FieldShape(inner), v, <<>>) \cup CustomFaults(rules, v, <<>>)

RECURSIVE Validate(_, _)

\* The generated code calls a method that two traits define: the one for a
\* constrained type, or for a model, and by autoref the empty one for the rest.

\* ApiConstrained.
ConstrainedValue(t, v, name) ==
    IF Constrained(t) THEN MergeField(name, ValidateConstraints(t, v)) ELSE {}

At(name, i) == Append(name, <<"index", i>>)

\* Mutant: the items of a collection are probed for models only.
UnconstrainedItems(t, s, name) == {}

ConstrainedItems(t, s, name) ==
    UNION {ConstrainedValue(t, s[i], At(name, i)) : i \in 1..Len(s)}

\* ApiModel.
NestedValue(t, v, name) ==
    IF Types[t].form = "model" THEN MergeNested(name, Validate(Types[t].fields, v)) ELSE {}
NestedItems(t, s, name) ==
    UNION {NestedValue(t, s[i], At(name, i)) : i \in 1..Len(s)}

\* The probes are put to the field, or to the items of its collection.
NestedChecks(t, v, name) ==
    CASE FieldShape(t) = "Collection" -> NestedItems(Types[t].of, Content(v), name)
                                         \cup ConstrainedItems(Types[t].of, Content(v), name)
      [] FieldShape(t) = "Other" -> NestedValue(t, v, name) \cup ConstrainedValue(t, v, name)
      [] OTHER -> {}

Validate(fields, v) ==
    UNION {LET d     == fields[i]
               value == Content(v)[d.name]
               rules == Rules(d.rules, d.of)
               name  == <<<<"key", d.name>>>>
           IN IF d.optional /\ value = Null THEN {}
              ELSE FieldChecks(rules, FieldShape(d.of), value, name)
                   \cup NestedChecks(d.of, value, name)
                   \cup CustomFaults(rules, value, name)
             : i \in 1..Len(fields)}

-----------------------------------------------------------------------------
(* The sample payload of a schema node.                                    *)

Keyword(schema, key, default) == IF key \in DOMAIN schema THEN schema[key] ELSE default

ExampleString(schema) ==
    IF "email" \in DOMAIN schema THEN CHOOSE e \in Emails : TRUE
    ELSE LET minimum == Min({PadLimit, Keyword(schema, "min_length", 0)})
             padded  == [i \in 1..Max({Len(Sample), minimum}) |->
                           IF i <= Len(Sample) THEN Sample[i] ELSE Sample[1]]
         IN SubSeq(padded, 1, Min({Len(padded), Keyword(schema, "max_length", Len(padded))}))

\* A bound written as a float is no i64 and is passed over.
ExampleInteger(schema) ==
    LET whole(key) == key \in DOMAIN schema /\ ~schema[key].float
        low  == Max({2} \cup {schema[key].v : key \in {k \in {"minimum"} : whole(k)}}
                        \cup {schema[key].v + 2 : key \in {k \in {"exclusive_minimum"} : whole(k)}})
    IN Min({low} \cup {schema[key].v : key \in {k \in {"maximum"} : whole(k)}}
                 \cup {schema[key].v - 2 : key \in {k \in {"exclusive_maximum"} : whole(k)}})

ExampleNumber(schema) ==
    LET low == Max({2} \cup {schema.minimum.v : k \in DOMAIN schema \cap {"minimum"}})
    IN Min({low} \cup {schema.maximum.v : k \in DOMAIN schema \cap {"maximum"}})

RECURSIVE ExampleForSchema(_)
ExampleForSchema(schema) ==
    IF "default" \in DOMAIN schema
    THEN IF Kind(schema.default) = "num" THEN Num(Content(schema.default)) ELSE schema.default
    ELSE IF "enum" \in DOMAIN schema THEN CHOOSE v \in schema.enum : TRUE
    ELSE IF "ref" \in DOMAIN schema
    THEN ExampleForSchema(ModelSchema(Types[schema.ref].fields))
    ELSE IF "type" \notin DOMAIN schema THEN Null
    ELSE IF "object" \in schema.type
    THEN Obj([n \in DOMAIN schema.properties |-> ExampleForSchema(schema.properties[n])])
    ELSE IF "array" \in schema.type
    THEN Arr([i \in 1..Max({1, Min({3, Keyword(schema, "min_items", 1)})}) |->
                ExampleForSchema(schema.items)])
    ELSE IF "string" \in schema.type THEN Str(ExampleString(schema))
    ELSE IF "integer" \in schema.type THEN Num(ExampleInteger(schema))
    ELSE IF "number" \in schema.type THEN Num(ExampleNumber(schema))
    ELSE Bool(TRUE)

-----------------------------------------------------------------------------
Init == field = None /\ expanded = FALSE /\ body = None /\ reply = "none" /\ faults = {}

\* #[api_model] on a struct with the one field of the declaration.
OwnedModel(d) ==
    /\ field = None
    /\ field' = d
    /\ expanded' = ModelExpands(<<d>>)
    /\ UNCHANGED <<body, reply, faults>>

\* A body the client sends for the field: one of its type's values, null, or without it.
Bodies(d) == {Obj([n \in {d.name} |-> v]) : v \in Values[d.of] \cup {Null}} \cup {Obj(<<>>)}

\* The generated extraction: decode the body, then validate it.
Receive(b) ==
    /\ expanded
    /\ body' = b
    /\ faults' = IF DecodesModel(<<field>>, b)
                 THEN Validate(<<field>>, DecodedModel(<<field>>, b)) ELSE {}
    /\ reply' = IF ~DecodesModel(<<field>>, b) THEN "decode"
                ELSE IF faults' = {} THEN "ok" ELSE "invalid"
    /\ UNCHANGED <<field, expanded>>

TypeOK ==
    /\ field \in Declarations \cup {None}
    /\ expanded \in BOOLEAN
    /\ body # None => expanded /\ body \in Bodies(field)
    /\ reply \in {"none", "decode", "invalid", "ok"}

Next ==
    \/ \E d \in Declarations : OwnedModel(d)
    \/ /\ body = None
       /\ expanded
       /\ \E b \in Bodies(field) : Receive(b)

Spec == Init /\ [][Next]_vars

-----------------------------------------------------------------------------
(* What a schema means.  "ref" names a model's component.                  *)

TypeName(v) ==
    CASE Kind(v) = "str"  -> {"string"}
      [] Kind(v) = "num"  -> IF Content(v) % 2 = 0 THEN {"integer", "number"} ELSE {"number"}
      [] Kind(v) = "bool" -> {"boolean"}
      [] Kind(v) = "arr"  -> {"array"}
      [] Kind(v) = "obj"  -> {"object"}
      [] OTHER        -> {"null"}

RECURSIVE Accepts(_, _)
Accepts(schema, v) ==
    /\ "type" \in DOMAIN schema => schema.type \cap TypeName(v) # {}
    /\ "enum" \in DOMAIN schema => v \in schema.enum
    /\ "ref" \in DOMAIN schema => Accepts(ModelSchema(Types[schema.ref].fields), v)
    /\ "anyOf" \in DOMAIN schema => \E s \in schema.anyOf : Accepts(s, v)
    /\ Kind(v) = "str" => TextFaults(schema, Content(v)) = {}
    /\ Kind(v) = "num" => NumberFaults(schema, Content(v)) = {}
    /\ Kind(v) = "arr" =>
         /\ Keyword(schema, "min_items", 0) <= Len(Content(v))
         /\ Len(Content(v)) <= Keyword(schema, "max_items", Len(Content(v)))
         /\ "unique_items" \in DOMAIN schema => ~Repeats(Content(v))
         /\ "items" \in DOMAIN schema => \A i \in 1..Len(Content(v)) : Accepts(schema.items, Content(v)[i])
    /\ Kind(v) = "obj" /\ "properties" \in DOMAIN schema =>
         /\ schema.required \subseteq DOMAIN Content(v)
         /\ \A n \in DOMAIN Content(v) \cap DOMAIN schema.properties :
              Accepts(schema.properties[n], Content(v)[n])

\* May the schema of a type refuse something its decoder takes?
RECURSIVE Restricts(_)
Restricts(t) ==
    CASE Types[t].form = "value" -> Types[t].rules # <<>> \/ Restricts(Types[t].of)
      [] Types[t].form = "vec"   -> Restricts(Types[t].of)
      [] Types[t].form = "model" ->
           \E i \in 1..Len(Types[t].fields) :
             Types[t].fields[i].rules # <<>> \/ Restricts(Types[t].fields[i].of)
      [] OTHER -> FALSE

\* Where the probes of a field do not reach: the items of an inner collection, the rules
\* of a type that a value type wraps.
RECURSIVE Unreached(_)
Unreached(t) ==
    LET type == Types[t] IN
    CASE type.form = "value" ->
           \/ Types[type.of].form \in {"value", "model"} /\ Restricts(type.of)
           \/ Types[type.of].form = "vec" /\ Restricts(Types[type.of].of)
      [] type.form = "vec" ->
           IF Types[type.of].form = "vec" THEN Restricts(Types[type.of].of) ELSE Unreached(type.of)
      [] type.form = "model" ->
           \E i \in 1..Len(type.fields) : Unreached(type.fields[i].of)
      [] OTHER -> FALSE

\* Does a value type reached from the type declare a validator?
RECURSIVE RunsValidator(_)
RunsValidator(t) ==
    \/ Types[t].form = "value" /\ Has(Types[t].rules, "validator")
    \/ Types[t].form \in {"value", "vec"} /\ RunsValidator(Types[t].of)

DefaultIsBad(d) ==
    /\ Has(d.rules, "default")
    /\ FieldChecks(d.rules, FieldShape(d.of), DefaultValue(d.rules), <<>>) # {}

Answered == body # None

\* What is accepted satisfies the published schema, except below the probes' reach and
\* where null meets an enumeration.
EnforcesItsSchema ==
    Answered /\ reply = "ok" =>
        \/ Accepts(ModelSchema(<<field>>), body)
        \/ Unreached(field.of)
        \/ field.optional /\ Types[field.of].form = "enum" /\ Content(body)["f"] = Null

\* What the schema accepts is accepted, except where a rule has no keyword (a validator,
\* an enumeration of the empty string, the limit of the uniqueness scan) or a declared
\* default breaks the rules of its own field.
PublishesItsRules ==
    Answered /\ Accepts(ModelSchema(<<field>>), body) =>
        \/ reply = "ok"
        \/ Has(field.rules, "validator") \/ RunsValidator(field.of)
        \/ Types[field.of].form = "enum" /\ ConstraintRules(field.of) = <<>>
        \/ Has(field.rules, "unique_items") /\ Len(Content(Content(body)["f"])) > ScanLimit
        \/ Content(body) = <<>> /\ DefaultIsBad(field)

\* A violation is reported below the public name of the field it is about, once.
PathsNameTheField ==
    Answered =>
        \A n \in faults :
            /\ n.path[1] = <<"key", "f">>
            /\ Len(n.path) > 1 /\ n.path[2] = <<"key", "f">> => Types[field.of].form = "model"

\* An example satisfies the rules it is built from, if some value does.
ExamplesSatisfy ==
    /\ expanded
    /\ DOMAIN field.rules \subseteq
         Lengths \cup {"minimum", "maximum", "exclusive_minimum", "exclusive_maximum", "min_items"}
    /\ Types[field.of].form \in {"text", "integer", "vec"}
    /\ \A key \in DOMAIN field.rules \cap Numeric : ~field.rules[key].float
    /\ \E v \in Values[field.of] : Accepts(FieldSchema(field), v)
    => Accepts(FieldSchema(field), ExampleForSchema(FieldSchema(field)))

ContractAgrees ==
    /\ EnforcesItsSchema
    /\ PublishesItsRules
    /\ PathsNameTheField
    /\ ExamplesSatisfy
=============================================================================
