--------------------------- MODULE SchemaSnapshot ---------------------------
(***************************************************************************)
(* What is known about a database, and what names mean in it               *)
(* (src/schema/src/snapshot.rs, resolve.rs, resolver.rs, tools.rs).  A     *)
(* snapshot is [tables : name -> [columns : set of [name, ...]], enums,    *)
(* functions]; a table's name is <<schema, table>>, and agents may say     *)
(* <<table>>.  Suggestions are modelled apart (Suggestions).               *)
(***************************************************************************)
EXTENDS FiniteSets, Integers, Sequences

Absent == <<>>

\* A name that is no table's own means the one table it is the last part of, if there is one.
TableMutant(snapshot, name) ==
    IF name \in DOMAIN snapshot.tables THEN name
    ELSE IF \E t \in DOMAIN snapshot.tables : <<t[2]>> = name
    THEN CHOOSE t \in DOMAIN snapshot.tables : <<t[2]>> = name
    ELSE Absent

Table(snapshot, name) ==
    LET ending == {t \in DOMAIN snapshot.tables : <<t[2]>> = name}
    IN IF name \in DOMAIN snapshot.tables THEN name
       ELSE IF Cardinality(ending) = 1 THEN CHOOSE t \in ending : TRUE
       ELSE Absent

Columns(snapshot, table) == {c.name : c \in snapshot.tables[table].columns}

resolve_table(snapshot, name) == Table(snapshot, name) # Absent

resolve_column(snapshot, table, column) ==
    Table(snapshot, table) # Absent /\ column \in Columns(snapshot, Table(snapshot, table))

\* The resolver: known, unknown, or unknown_source where it declines.
resolve(sources, reference, text, parent) ==
    LET snapshot == sources[reference.source]
        Judge(known) == IF known THEN "known" ELSE "unknown"
    IN IF reference.source \notin DOMAIN sources THEN "unknown_source"
       ELSE CASE reference.kind = "table" -> Judge(resolve_table(snapshot, text))
              [] reference.kind = "column" /\ parent # Absent -> Judge(resolve_column(snapshot, parent, text))
              [] reference.kind = "function" -> Judge(text \in snapshot.functions)
              [] reference.kind = "enum" -> Judge(text \in DOMAIN snapshot.enums)
              [] OTHER -> "unknown_source"

(***************************************************************************)
(* The tools' answers: the tables, those of one schema where one is given; *)
(* the columns of a table that is known; whether a name exists.  An        *)
(* argument that may be left out is a set of at most one.                  *)
(***************************************************************************)
schema_tables(snapshot, schema) == {t \in DOMAIN snapshot.tables : schema = {} \/ t[1] \in schema}

schema_columns(snapshot, table) ==
    {[name |-> c.name, type |-> c.data_type, nullable |-> c.nullable] : c \in snapshot.tables[Table(snapshot, table)].columns}

schema_check(snapshot, table, column) ==
    IF column = {} THEN resolve_table(snapshot, table) ELSE \A c \in column : resolve_column(snapshot, table, c)
=============================================================================
