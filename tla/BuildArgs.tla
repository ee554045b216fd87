----------------------------- MODULE BuildArgs ------------------------------
(***************************************************************************)
(* The args of a kernel: canonical.normalize_args, and what RFC 8785 tells *)
(* apart.                                                                  *)
(*                                                                         *)
(* A JSON value is an object, an array, a number or a word (a string, a    *)
(* boolean or null).  A number has its value and its spelling: 1 and 1.0   *)
(* are an int and a float to Python.  A schema says of what type a value   *)
(* is, and has a set of at most one default and one items schema.          *)
(***************************************************************************)
EXTENDS Integers, Sequences

CONSTANTS
  MaxSafe  \* canonical.MAX_SAFE_INTEGER

ASSUME BuildArgsAssumption == MaxSafe \in Nat

Object(fields) == [type |-> "object", fields |-> fields]
Array(items) == [type |-> "array", items |-> items]
Number(n, spelling) == [type |-> "number", n |-> n, spelling |-> spelling]
Word(w) == [type |-> "word", word |-> w]
Spellings == {"int", "float", "minus_zero", "not_finite"}

\* No value at all: the call ends with a ContractError.
Refused == [type |-> "refused"]

Schema(type, default) == [type |-> type, default |-> default]
ObjectSchema(properties, required, default) ==
  [type |-> "object", properties |-> properties, required |-> required, default |-> default]
ArraySchema(items, default) == [type |-> "array", items |-> items, default |-> default]

PropertiesOf(s) == IF s.type = "object" THEN s.properties ELSE <<>>
ItemsOf(s) == IF s.type = "array" THEN s.items ELSE {}

\* Mutant: what is inside a default, or of an object that was given, is left as it is.
ApplyDefaultsFlat(v, s) ==
  IF v.type # "object" THEN v
  ELSE LET ps == PropertiesOf(s)
           filled == {k \in DOMAIN ps : k \notin DOMAIN v.fields /\ ps[k].default # {}}
       IN Object([k \in DOMAIN v.fields \cup filled |->
                    IF k \in filled THEN CHOOSE d \in ps[k].default : TRUE ELSE v.fields[k]])

\* _apply_defaults: what is missing and has a default is filled in, and then
\* what is inside it, given or filled in.
RECURSIVE ApplyDefaults(_, _)
ApplyDefaults(v, s) ==
  CASE v.type = "object" ->
         LET ps == PropertiesOf(s)
             filled == {k \in DOMAIN ps : k \notin DOMAIN v.fields /\ ps[k].default # {}}
             Filled(k) == IF k \in filled THEN CHOOSE d \in ps[k].default : TRUE
                          ELSE v.fields[k]
         IN Object([k \in DOMAIN v.fields \cup filled |->
                      IF k \in DOMAIN ps THEN ApplyDefaults(Filled(k), ps[k]) ELSE Filled(k)])
    [] v.type = "array" /\ ItemsOf(s) # {} ->
         Array([i \in DOMAIN v.items |->
                  ApplyDefaults(v.items[i], CHOOSE t \in ItemsOf(s) : TRUE)])
    [] OTHER -> v

\* jsonschema: types, required fields, and no additional ones.  1.0 is an integer.
RECURSIVE Valid(_, _)
Valid(v, s) ==
  /\ v.type = s.type
  /\ s.type = "object" =>
       /\ s.required \subseteq DOMAIN v.fields
       /\ DOMAIN v.fields \subseteq DOMAIN s.properties
       /\ \A k \in DOMAIN v.fields : Valid(v.fields[k], s.properties[k])
  /\ s.type = "array" => \A i \in DOMAIN v.items : \A t \in s.items : Valid(v.items[i], t)

\* _validate_i_json: floats have no bound but must be finite and not -0.0.
RECURSIVE IJson(_)
IJson(v) ==
  CASE v.type = "number" -> \/ v.spelling = "int" /\ v.n \in -MaxSafe .. MaxSafe
                            \/ v.spelling = "float"
    [] v.type = "object" -> \A k \in DOMAIN v.fields : IJson(v.fields[k])
    [] v.type = "array" -> \A i \in DOMAIN v.items : IJson(v.items[i])
    [] OTHER -> TRUE

\* normalize_args; no args at all are {}.
NormalizeArgs(raw, s) ==
  LET normalized == ApplyDefaults(raw, s)
  IN IF raw.type = "object" /\ Valid(normalized, s) /\ IJson(normalized)
     THEN normalized ELSE Refused

\* canonical_json, up to what its bytes tell apart: the order of fields is
\* lost, and so is how a number was spelled.
RECURSIVE Canonical(_)
Canonical(v) ==
  CASE v.type = "number" -> Number(v.n, "int")
    [] v.type = "object" -> Object([k \in DOMAIN v.fields |-> Canonical(v.fields[k])])
    [] v.type = "array" -> Array([i \in DOMAIN v.items |-> Canonical(v.items[i])])
    [] OTHER -> v

-----------------------------------------------------------------------------
(* What a kernel reads, as the reference for the above.                    *)

\* What is at a path of field names in v, where the schema's defaults stand for
\* what is missing: a word, a number, the number of items, or nothing.
RECURSIVE Effective(_, _, _)
Effective(v, s, path) ==
  IF path = <<>>
  THEN CASE v.type = "number" -> <<"number", v.n>>
         [] v.type = "word" -> <<"word", v.word>>
         [] v.type = "array" -> <<"array", Len(v.items)>>
         [] OTHER -> <<"object">>
  ELSE LET k == Head(path) IN
       CASE v.type = "object" /\ k \in DOMAIN v.fields /\ k \in DOMAIN PropertiesOf(s) ->
              Effective(v.fields[k], PropertiesOf(s)[k], Tail(path))
         [] v.type = "object" /\ k \notin DOMAIN v.fields /\ k \in DOMAIN PropertiesOf(s)
              /\ PropertiesOf(s)[k].default # {} ->
              Effective(CHOOSE d \in PropertiesOf(s)[k].default : TRUE, PropertiesOf(s)[k], Tail(path))
         [] v.type = "array" /\ k \in DOMAIN v.items /\ ItemsOf(s) # {} ->
              Effective(v.items[k], CHOOSE t \in ItemsOf(s) : TRUE, Tail(path))
         [] OTHER -> <<"nothing">>
=============================================================================
