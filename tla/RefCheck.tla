------------------------------ MODULE RefCheck ------------------------------
(***************************************************************************)
(* The gate against invented names: x-schema-ref annotations checked       *)
(* against introspected snapshots before a tool runs (src/core/src/        *)
(* refs.rs, src/schema/src/resolver.rs, resolve.rs, snapshot.rs).          *)
(*                                                                         *)
(* An argument object names a table and a sequence of columns, and may     *)
(* hold one object of the same kind under "query".  A schema annotates the *)
(* table and the columns of either object, each annotation reached through *)
(* properties and items or only through an alternative (anyOf, $ref,       *)
(* additionalProperties).  The text of problems is left out.               *)
(***************************************************************************)
EXTENDS SchemaSnapshot

CONSTANTS
    Schemas,     \* the annotated input schemas: [root, query : [table, columns : annotation]]
    Inputs,      \* arguments that pass the schema's shape
    Snapshots    \* what is loaded: [source -> snapshot]

Objects == {"root", "query"}
Keys == {"table", "columns"}
\* SchemaRef::parse of an annotation, with where it stands.
NoRef == [form |-> "none", source |-> "", kind |-> "", parent |-> FALSE, via |-> "walked"]

VARIABLES schema, input, loaded, verdict

vars == <<schema, input, loaded, verdict>>

(***************************************************************************)
(* The walk.                                                               *)
(***************************************************************************)
\* The strings of the arguments that an annotation covers, and the annotated nodes with a value.
Texts(o, k) == IF k = "columns" THEN {input[o].columns[i] : i \in DOMAIN input[o].columns}
               ELSE {input[o].table} \ {Absent}

Annotation(n) == schema[n[1]][n[2]]
Walked == {n \in Objects \X Keys : Annotation(n).form # "none" /\ Annotation(n).via = "walked"}

\* The parent argument is looked up in the arguments as a whole.
Parent(reference) == IF reference.parent THEN input.root.table ELSE Absent

Problem(n, text) ==
    \/ Annotation(n).form = "malformed"
    \/ resolve(loaded, Annotation(n), text, Parent(Annotation(n))) # "known"

Problems == UNION {{<<n, text>> : text \in {t \in Texts(n[1], n[2]) : Problem(n, t)}} : n \in Walked}

(***************************************************************************)
(* One call.                                                               *)
(***************************************************************************)
Init ==
    /\ schema \in Schemas
    /\ input \in Inputs
    /\ loaded \in Snapshots
    /\ verdict = "asked"

check ==
    /\ verdict = "asked"
    /\ verdict' = IF Problems = {} THEN "run" ELSE "refused"
    /\ UNCHANGED <<schema, input, loaded>>

Next == check

Spec == Init /\ [][Next]_vars

(***************************************************************************)
(* Properties.                                                             *)
(***************************************************************************)
\* What a text at an annotation means, said without the resolver: a table is meant by
\* its full name, or by its last part where no other table ends so.
Means(snapshot, name) ==
    {t \in DOMAIN snapshot.tables : t = name \/ (name = <<t[2]>> /\ \A u \in DOMAIN snapshot.tables : u[2] = t[2] => u = t)}

\* The names at key k of object o are real, columns being those of the table that the
\* root of the arguments names: the sibling argument, for the root's own columns.
Real(o, k) ==
    LET reference == schema[o][k]
        snapshot == loaded[reference.source]
    IN /\ reference.source \in DOMAIN loaded
       /\ \A text \in Texts(o, k) :
             CASE reference.kind = "table" -> Means(snapshot, text) # {}
               [] reference.kind = "column" ->
                    reference.parent /\ \E t \in Means(snapshot, input.root.table) : text \in Columns(snapshot, t)
               [] reference.kind = "function" -> text \in snapshot.functions
               [] reference.kind = "enum" -> text \in DOMAIN snapshot.enums
               [] OTHER -> FALSE

\* The annotations with a value that the walk reaches.
Annotated == {n \in Walked : Texts(n[1], n[2]) # {}}

\* No tool runs with an invented name among its arguments: not where the annotation is
\* malformed, the source is not loaded, the parent is missing or the name ambiguous
\* (refs.rs:18, "The tool never runs with a hallucinated table name").
NoInventedName ==
    verdict = "run" => \A n \in Annotated : Annotation(n).form = "ref" /\ Real(n[1], n[2])

\* A call whose names are all real is not refused (resolver.rs:90): declining is for
\* what could not be checked.
NoFalseRefusal ==
    verdict = "refused" => \E n \in Annotated : Annotation(n).form = "malformed" \/ ~Real(n[1], n[2])

\* Both: a tool runs exactly when the names in its arguments are real.
GateIsExact == NoInventedName /\ NoFalseRefusal

\* What the theorems assume of the schemas and of what is loaded: an annotation is there,
\* malformed or read, and a snapshot has finitely many tables, named <<schema, table>>.
Introspected ==
    /\ \A s \in Schemas, o \in Objects, k \in Keys : s[o][k].form \in {"none", "malformed", "ref"}
    /\ \A sources \in Snapshots : \A name \in DOMAIN sources :
          LET tables == DOMAIN sources[name].tables
          IN IsFiniteSet(tables) /\ \A t \in tables : t = <<t[1], t[2]>>
=============================================================================
