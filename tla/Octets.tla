--------------------------------- MODULE Octets ---------------------------------
(***************************************************************************)
(* Payloads, and what the parsers of src/parser/application make of them.  *)
(* A payload is a sequence of octets.  The first octet of a field stands   *)
(* for the whole field, a record that says what the field holds; the       *)
(* others are Inside.  Offsets count from 0.                               *)
(***************************************************************************)
EXTENDS Naturals, Sequences

\* An octet that is not the first of its field.
Inside == [inside |-> TRUE]

Field(first, size) == [i \in 1 .. size |-> IF i = 1 THEN first ELSE Inside]
Opaque(size) == [i \in 1 .. size |-> Inside]

\* Does this field begin at offset?
Has(data, offset, field) == field \in DOMAIN data[offset + 1]

\* Where a parser that goes on field by field up to offset end may stand.
Begins(data, fields, end) ==
  {o \in Nat : o >= end \/ \E field \in fields : Has(data, o, field)}

\* A parser returns Err, panics, or has parsed a value and goes on at offset next.
Err == [ok |-> FALSE, panics |-> FALSE]
Panic == [ok |-> FALSE, panics |-> TRUE]
Parsed(value, next) == [ok |-> TRUE, value |-> value, next |-> next]

\* Continue with what was parsed.
Then(step, Use(_, _)) == IF step.ok THEN Use(step.value, step.next) ELSE step
================================================================================
