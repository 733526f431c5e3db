----------------------------- MODULE SchemaSubset -----------------------------
(***************************************************************************)
(* The subset of JSON Schema the research validator interprets, and the    *)
(* fail-closed look at a schema that comes first.  A schema is a record of *)
(* its keywords: enum, required and pattern are sets (of the strings a     *)
(* pattern matches), allOf is a sequence of schemas.  A date is a record,  *)
(* its month 0 when the text has not the form of a date.                   *)
(***************************************************************************)
EXTENDS Integers, Sequences

CONSTANTS
    Malformed,  \* a value of another JSON type than its place calls for
    Closed      \* additionalProperties: false

SupportedKeywords ==
    {"type", "required", "properties", "additionalProperties", "enum", "pattern",
     "format", "items", "minItems", "minLength", "minimum", "maximum", "allOf",
     "if", "then"}

\* Schemas nest four deep at most: the shipped ones do (a claim's last_reviewed is
\* asked for by the "then" of its allOf when the "if" finds a materiality in an
\* enum), and the look below refuses a deeper one.  Each level of the recursion is
\* an operator of its own.

\* Keywords of a schema that no part of the validator interprets, Inside(s) being
\* those of a schema s in it.
UnsupportedIn(schema, Inside(_)) ==
    LET Under(k) ==
            CASE k \in {"items", "if", "then"} -> Inside(schema[k])
              [] k = "additionalProperties" /\ schema[k] # Closed -> Inside(schema[k])
              [] k = "properties" ->
                   UNION {Inside(schema[k][p]) : p \in DOMAIN schema[k]}
              [] k = "allOf" -> UNION {Inside(schema[k][i]) : i \in DOMAIN schema[k]}
              [] k = "format" /\ schema[k] # "date" -> {"format"}
              [] OTHER -> {}
        supported == DOMAIN schema \cap SupportedKeywords
    IN  (DOMAIN schema \ SupportedKeywords) \cup UNION {Under(k) : k \in supported}

UnsupportedAt1(schema) == UnsupportedIn(schema, LAMBDA s : {"nested too deep"})
UnsupportedAt2(schema) == UnsupportedIn(schema, UnsupportedAt1)
UnsupportedAt3(schema) == UnsupportedIn(schema, UnsupportedAt2)
UnsupportedKeywords(schema) == UnsupportedIn(schema, UnsupportedAt3)

LeapYear(y) == y % 4 = 0 /\ (y % 100 # 0 \/ y % 400 = 0)

DaysIn(year, month) ==
    IF month = 2 THEN IF LeapYear(year) THEN 29 ELSE 28
    ELSE IF month \in {4, 6, 9, 11} THEN 30 ELSE 31

\* A year below 100 comes back from the calendar as one of the last century.
IsValidDate(date) ==
    /\ date.year >= 100
    /\ date.month \in 1..12 /\ date.day \in 1..DaysIn(date.year, date.month)

\* No violation of a schema that has only supported keywords, Below(s, v) being that
\* v does not violate the schema s in it.  A schema for the additional properties
\* is accepted by the look above and never applied here.
Interpret(schema, value, Below(_, _)) ==
    LET Says(keyword) == keyword \in DOMAIN schema
        typed == value # Malformed
    IN  /\ Says("type") => typed
        /\ Says("enum") => value \in schema.enum
        /\ Says("pattern") /\ typed => value \in schema.pattern
        /\ Says("minLength") /\ schema.minLength > 0 => value # ""
        /\ Says("format") /\ typed => IsValidDate(value)
        /\ Says("minimum") /\ typed => value >= schema.minimum
        /\ Says("maximum") /\ typed => value <= schema.maximum
        /\ Says("minItems") /\ typed => Len(value) >= schema.minItems
        /\ Says("items") /\ typed =>
              \A i \in DOMAIN value : Below(schema.items, value[i])
        /\ Says("required") /\ typed => schema.required \subseteq DOMAIN value
        /\ Says("properties") /\ typed =>
              \A p \in DOMAIN schema.properties \cap DOMAIN value :
                 Below(schema.properties[p], value[p])
        /\ Says("additionalProperties") /\ Says("properties") /\ typed =>
              \/ schema.additionalProperties # Closed
              \/ DOMAIN value \subseteq DOMAIN schema.properties
        /\ Says("allOf") => \A i \in DOMAIN schema.allOf : Below(schema.allOf[i], value)
        /\ Says("if") /\ Says("then") /\ Below(schema["if"], value) =>
              Below(schema["then"], value)

ValidAt1(schema, value) == Interpret(schema, value, LAMBDA s, v : TRUE)
ValidAt2(schema, value) == Interpret(schema, value, ValidAt1)
ValidAt3(schema, value) == Interpret(schema, value, ValidAt2)
Validates(schema, value) == Interpret(schema, value, ValidAt3)
=============================================================================
