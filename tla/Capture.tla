------------------------------ MODULE Capture ------------------------------
(***************************************************************************)
(* How a snapshot comes about and is served: `pks pull' runs nine catalog  *)
(* queries (src/schema/src/pg/introspect.rs, queries.rs, types.rs), folds  *)
(* their rows into a snapshot (src/schema/src/lib.rs) and writes a file    *)
(* (snapshot.rs); a server loads the file when it starts (resolver.rs) and *)
(* answers from it (tools.rs).                                             *)
(*                                                                         *)
(* The queries run on several connections and in no common transaction:    *)
(* each reads the catalog as it is then, and migrations commit in between. *)
(* The catalog is the sets of rows the queries read, with the columns that *)
(* something depends on.  Constraints and indexes are read and used no     *)
(* further.  The clock is the length of the database's history.            *)
(***************************************************************************)
EXTENDS SchemaSnapshot, SequencesExt

CONSTANTS
    Requested,     \* the names of the schemas asked for
    Connections,   \* of the pool
    Beginnings,    \* catalogs the database may be in
    Migrated(_),   \* the catalogs that one transaction of a migration may make of one
    MaxMigrations  \* bound: transactions

VARIABLES
    history,   \* the catalogs the database has been in, up to the present one
    pull,      \* `pks pull': [pc, at : query -> the time it ran at, result]
    file,      \* the snapshot file: "none", "torn" or "whole", with its snapshot
    server     \* what the server has loaded: [started, sources]

vars == <<history, pull, file, server>>

Present == history[Len(history)]
\* Every pull names its source so.
Source == "fellwork"

(***************************************************************************)
(* The queries, over the tables of pg_catalog.  A value that may be NULL   *)
(* is a set of at most one.                                                *)
(***************************************************************************)
PgCatalog == 11
InSchemas(db) == {n.oid : n \in {n \in db.pg_namespace : n.nspname \in Requested}}

QUERY_NAMESPACES(db) == {n \in db.pg_namespace : n.nspname \in Requested}

QUERY_CLASSES(db) == {c \in db.pg_class : c.relnamespace \in InSchemas(db) /\ c.relkind \in {"r", "v", "m", "c", "f"}}

QUERY_ATTRIBUTESMutant(db) == {a \in db.pg_attribute : a.attnum > 0 /\ \E c \in QUERY_CLASSES(db) : c.oid = a.attrelid}

QUERY_ATTRIBUTES(db) ==
    {a \in db.pg_attribute : a.attnum > 0 /\ ~a.attisdropped /\ \E c \in QUERY_CLASSES(db) : c.oid = a.attrelid}

QUERY_CONSTRAINTS(db) ==
    {k \in db.pg_constraint : \E c \in db.pg_class : c.oid = k.conrelid /\ c.relnamespace \in InSchemas(db)}

\* Plain functions and procedures: neither aggregates nor window functions.
QUERY_PROCS(db) == {p \in db.pg_proc : p.pronamespace \in InSchemas(db) /\ p.prokind \in {"f", "p"}}

QUERY_TYPESMutant(db) == {t \in db.pg_type : t.typnamespace \in InSchemas(db)}

\* The built-in types live in no schema a caller asks about.
QUERY_TYPES(db) == {t \in db.pg_type : t.typnamespace \in InSchemas(db) \union {PgCatalog}}

QUERY_ENUMS(db) ==
    {e \in db.pg_enum : \E t \in db.pg_type : t.oid = e.enumtypid /\ t.typnamespace \in InSchemas(db)}

QUERY_INDEXES(db) ==
    {i \in db.pg_index : \E c \in db.pg_class : c.oid = i.indrelid /\ c.relnamespace \in InSchemas(db)}

QUERY_DESCRIPTIONS(db) ==
    {d \in db.pg_description :
        \/ \E c \in db.pg_class : c.oid = d.objoid /\ c.relnamespace \in InSchemas(db)
        \/ \E p \in db.pg_proc : p.oid = d.objoid /\ p.pronamespace \in InSchemas(db)
        \/ \E t \in db.pg_type : t.oid = d.objoid /\ t.typnamespace \in InSchemas(db)}

(***************************************************************************)
(* The rows of the result.                                                 *)
(***************************************************************************)
PgClassKind == [r |-> "table", v |-> "view", m |-> "materializedview", c |-> "compositetype", f |-> "foreigntable"]
PgConstraintKind == [p |-> "primarykey", f |-> "foreignkey", u |-> "unique", c |-> "check", x |-> "exclusion"]
ForeignKeyAction == [a |-> "noaction", r |-> "restrict", c |-> "cascade", n |-> "setnull", d |-> "setdefault"]
ProcVolatility == [i |-> "immutable", s |-> "stable", v |-> "volatile"]
from_char(kinds, char) == {kinds[k] : k \in DOMAIN kinds \intersect {char}}
Or(found, otherwise) == IF found = {} THEN otherwise ELSE CHOOSE k \in found : TRUE

fetch_namespaces(db) == {[oid |-> n.oid, name |-> n.nspname] : n \in QUERY_NAMESPACES(db)}

fetch_classes(db) ==
    {[oid |-> c.oid, name |-> c.relname, schema_oid |-> c.relnamespace, kind |-> Or(from_char(PgClassKind, c.relkind), "table")] :
        c \in QUERY_CLASSES(db)}

fetch_attributes(db) ==
    {[class_oid |-> a.attrelid, name |-> a.attname, type_oid |-> a.atttypid, num |-> a.attnum, is_not_null |-> a.attnotnull] :
        a \in QUERY_ATTRIBUTES(db)}

\* The row of a constraint on no column, a trigger's for one, has no key: decoding it panics.
Panics(db) == \E k \in QUERY_CONSTRAINTS(db) : k.conkey = {}

fetch_constraints(db) ==
    {[class_oid         |-> k.conrelid,
      kind              |-> Or(from_char(PgConstraintKind, k.contype), "check"),
      key_attrs         |-> k.conkey,
      foreign_class_oid |-> {k.confrelid} \ {0},
      on_delete         |-> from_char(ForeignKeyAction, k.confdeltype)] : k \in QUERY_CONSTRAINTS(db)}

fetch_procs(db) ==
    {[oid |-> p.oid, name |-> p.proname, schema_oid |-> p.pronamespace,
      volatility |-> Or(from_char(ProcVolatility, p.provolatile), "volatile")] : p \in QUERY_PROCS(db)}

fetch_types(db) == {[oid |-> t.oid, name |-> t.typname, schema_oid |-> t.typnamespace] : t \in QUERY_TYPES(db)}

fetch_enums(db) == {[type_oid |-> e.enumtypid, sort_order |-> e.enumsortorder, label |-> e.enumlabel] : e \in QUERY_ENUMS(db)}

fetch_indexes(db) == {[class_oid |-> i.indrelid, is_primary |-> i.indisprimary] : i \in QUERY_INDEXES(db)}

fetch_descriptions(db) ==
    {[obj_oid |-> d.objoid, obj_sub_id |-> d.objsubid, description |-> d.description] : d \in QUERY_DESCRIPTIONS(db)}

\* In the order of the join.
Queries == <<"namespaces", "classes", "attributes", "constraints", "procs", "types", "enums", "indexes", "descriptions">>

\* What the queries return that ran at those times.
introspect(at) ==
    [namespaces   |-> fetch_namespaces(history[at["namespaces"]]),
     classes      |-> fetch_classes(history[at["classes"]]),
     attributes   |-> fetch_attributes(history[at["attributes"]]),
     constraints  |-> fetch_constraints(history[at["constraints"]]),
     procs        |-> fetch_procs(history[at["procs"]]),
     types        |-> fetch_types(history[at["types"]]),
     enums        |-> fetch_enums(history[at["enums"]]),
     indexes      |-> fetch_indexes(history[at["indexes"]]),
     descriptions |-> fetch_descriptions(history[at["descriptions"]])]

Kinds(kinds) == {kinds[k] : k \in DOMAIN kinds}
PgNamespace == [oid : Nat, name : STRING]
PgClass == [oid : Nat, name : STRING, schema_oid : Nat, kind : Kinds(PgClassKind)]
PgAttribute == [class_oid : Nat, name : STRING, type_oid : Nat, num : Nat \ {0}, is_not_null : BOOLEAN]
PgConstraint == [class_oid : Nat, kind : Kinds(PgConstraintKind), key_attrs : SUBSET Seq(Nat),
                 foreign_class_oid : SUBSET (Nat \ {0}), on_delete : SUBSET Kinds(ForeignKeyAction)]
PgProc == [oid : Nat, name : STRING, schema_oid : Nat, volatility : Kinds(ProcVolatility)]
PgType == [oid : Nat, name : STRING, schema_oid : Nat]
PgEnum == [type_oid : Nat, sort_order : Nat, label : STRING]
PgIndex == [class_oid : Nat, is_primary : BOOLEAN]
PgDescription == [obj_oid : Nat, obj_sub_id : Nat, description : STRING]

IntrospectionResult ==
    [namespaces : SUBSET PgNamespace, classes : SUBSET PgClass, attributes : SUBSET PgAttribute,
     constraints : SUBSET PgConstraint, procs : SUBSET PgProc, types : SUBSET PgType,
     enums : SUBSET PgEnum, indexes : SUBSET PgIndex, descriptions : SUBSET PgDescription]

(***************************************************************************)
(* from_introspection.                                                     *)
(***************************************************************************)
NameOf(rows, oid, otherwise) ==
    IF \E r \in rows : r.oid = oid THEN (CHOOSE r \in rows : r.oid = oid).name ELSE otherwise

\* Rows whose name is taken later replace the earlier ones.
Latest(rows, key) == CHOOSE r \in rows : \A s \in rows : s[key] <= r[key]

Column(r, a) ==
    [name        |-> a.name,
     data_type   |-> NameOf(r.types, a.type_oid, "unknown"),
     nullable    |-> ~a.is_not_null,
     description |-> {d.description : d \in {d \in r.descriptions : d.obj_oid = a.class_oid /\ d.obj_sub_id = a.num}}]

Filed(r, c) == <<NameOf(r.namespaces, c.schema_oid, "public"), c.name>>

\* A table's columns are sorted by name, and have each a name of their own.
TablesOf(r) ==
    [name \in {Filed(r, c) : c \in r.classes} |->
        LET c == Latest({d \in r.classes : Filed(r, d) = name}, "schema_oid")
        IN [kind |-> c.kind, columns |-> {Column(r, a) : a \in {a \in r.attributes : a.class_oid = c.oid}}]]

\* The labels of a type in the order the rows give them.
Labels(rows) ==
    LET Place(d) == Cardinality({e \in rows : e.sort_order < d.sort_order}) + 1
    IN  [i \in 1..Cardinality(rows) |-> (CHOOSE d \in rows : Place(d) = i).label]

\* Enumerations go by their bare names.
EnumsOf(r) ==
    [name \in {NameOf(r.types, e.type_oid, "unknown") : e \in r.enums} |->
        LET e == Latest({e \in r.enums : NameOf(r.types, e.type_oid, "unknown") = name}, "type_oid")
        IN Labels({d \in r.enums : d.type_oid = e.type_oid})]

from_introspection(r) == [tables |-> TablesOf(r), enums |-> EnumsOf(r), functions |-> {p.name : p \in r.procs}]

(***************************************************************************)
(* pks pull.                                                               *)
(***************************************************************************)
Nothing == [tables |-> <<>>, enums |-> <<>>, functions |-> {}]
Idle == [pc |-> "idle", at |-> <<>>]
NoFile == [is |-> "none", of |-> <<>>, captured |-> Nothing]

Init ==
    /\ history \in {<<db>> : db \in Beginnings}
    /\ pull = Idle
    /\ file = NoFile
    /\ server = [started |-> FALSE, sources |-> <<>>, of |-> <<>>]

Begin ==
    /\ pull.pc = "idle"
    /\ pull' = [pull EXCEPT !.pc = "querying"]
    /\ UNCHANGED <<history, file, server>>

\* The pool gives its connections to the queries in the order of the join.
Running == {i \in DOMAIN Queries :
               /\ Queries[i] \notin DOMAIN pull.at
               /\ Cardinality({j \in 1..(i - 1) : Queries[j] \notin DOMAIN pull.at}) < Connections}

\* A query runs.
Fetch ==
    /\ pull.pc = "querying"
    /\ \E i \in Running :
          LET q == Queries[i]
          IN pull' = IF q = "constraints" /\ Panics(Present)
                     THEN [pull EXCEPT !.pc = "failed"]
                     ELSE [pull EXCEPT !.at = [p \in DOMAIN @ \union {q} |-> IF p = q THEN Len(history) ELSE @[p]]]
    /\ UNCHANGED <<history, file, server>>

\* The file is created or emptied.
Create ==
    /\ pull.pc = "querying" /\ DOMAIN pull.at = ToSet(Queries)
    /\ pull' = [pull EXCEPT !.pc = "writing"]
    /\ file' = [NoFile EXCEPT !.is = "torn"]
    /\ UNCHANGED <<history, server>>

Write ==
    /\ pull.pc = "writing"
    /\ pull' = [pull EXCEPT !.pc = "done"]
    /\ file' = [is |-> "whole", of |-> pull.at, captured |-> from_introspection(introspect(pull.at))]
    /\ UNCHANGED <<history, server>>

\* A query fails, and the others are given up; the disk is full; or the process is killed.
Fail ==
    /\ pull.pc \in {"querying", "writing"}
    /\ pull' = [pull EXCEPT !.pc = "failed"]
    /\ UNCHANGED <<history, file, server>>

(***************************************************************************)
(* The server, which starts again when its host does, and the database.    *)
(***************************************************************************)
\* from_paths: a file that does not load is reported and skipped.
Start ==
    /\ server' = [started |-> TRUE, of |-> file.of,
                  sources |-> [s \in IF file.is = "whole" THEN {Source} ELSE {} |-> file.captured]]
    /\ UNCHANGED <<history, pull, file>>

Migrate ==
    /\ Len(history) <= MaxMigrations
    /\ \E db \in Migrated(Present) : history' = Append(history, db)
    /\ UNCHANGED <<pull, file, server>>

Next == Begin \/ Fetch \/ Create \/ Write \/ Fail \/ Start \/ Migrate

Spec == Init /\ [][Next]_vars

(***************************************************************************)
(* What the theorems assume of a catalog: its columns have the types that  *)
(* PostgreSQL gives them, its keys are unique, and its tables are finite.  *)
(***************************************************************************)
Catalog ==
    [pg_namespace   : SUBSET [oid : Nat, nspname : STRING],
     pg_class       : SUBSET [oid : Nat, relnamespace : Nat, relname : STRING, relkind : STRING],
     pg_attribute   : SUBSET [attrelid : Nat, attnum : Int, attname : STRING, atttypid : Nat,
                              attnotnull : BOOLEAN, attisdropped : BOOLEAN],
     pg_constraint  : SUBSET [conrelid : Nat, contype : STRING, conkey : SUBSET Seq(Nat), confrelid : Nat, confdeltype : STRING],
     pg_proc        : SUBSET [oid : Nat, pronamespace : Nat, proname : STRING, prokind : STRING, provolatile : STRING],
     pg_type        : SUBSET [oid : Nat, typnamespace : Nat, typname : STRING],
     pg_enum        : SUBSET [enumtypid : Nat, enumsortorder : Nat, enumlabel : STRING],
     pg_index       : SUBSET [indrelid : Nat, indisprimary : BOOLEAN],
     pg_description : SUBSET [objoid : Nat, objsubid : Nat, description : STRING]]

Unique(rows, key) == \A r, s \in rows : (\A column \in key : r[column] = s[column]) => r = s

Sound(db) ==
    /\ db \in Catalog /\ IsFiniteSet(db.pg_class) /\ IsFiniteSet(db.pg_enum)
    /\ Unique(db.pg_namespace, {"oid"}) /\ Unique(db.pg_namespace, {"nspname"})
    /\ Unique(db.pg_class, {"relnamespace", "relname"}) /\ Unique(db.pg_type, {"oid"})
    /\ Unique(db.pg_enum, {"enumtypid", "enumsortorder"}) /\ Unique(db.pg_enum, {"enumtypid", "enumlabel"})

SoundCatalogs == \A t \in DOMAIN history : Sound(history[t])

(***************************************************************************)
(* Properties.                                                             *)
(***************************************************************************)
Loaded == Source \in DOMAIN server.sources
Served == server.sources[Source]
\* The catalogs the database was in while the queries ran whose rows are served.
Span == {history[t] : t \in {t \in DOMAIN history :
            \E q, r \in DOMAIN server.of : server.of[q] <= t /\ t <= server.of[r]}}

\* What the catalog says, by names: the relations called so, a type, and a column that is there.
Called(db, name) ==
    {c \in db.pg_class : \E n \in db.pg_namespace :
        n.oid = c.relnamespace /\ name = <<n.nspname, c.relname>> /\ n.nspname \in Requested /\ c.relkind \in DOMAIN PgClassKind}
Typed(db, oid, name) == \E t \in db.pg_type : t.oid = oid /\ t.typname = name
Live(db, c, name) == {a \in db.pg_attribute : a.attrelid = c.oid /\ a.attname = name /\ a.attnum > 0 /\ ~a.attisdropped}
LabelsOf(db, t) == {e \in db.pg_enum : e.enumtypid = t}

\* A relation is filed under the name the first query found for its schema, and under
\* "public" where it found none; meanwhile the schema was created, or is called otherwise.
Misfiled(name) ==
    \E c \in history[server.of["classes"]].pg_class :
        /\ name = <<NameOf(fetch_namespaces(history[server.of["namespaces"]]), c.relnamespace, "public"), c.relname>>
        /\ \A n \in history[server.of["classes"]].pg_namespace : n.oid = c.relnamespace => n.nspname # name[1]

\* Whatever migrations commit between the queries, and whatever pulls die on the way, a
\* server answers from one whole capture, and all it says was so at some moment of it
\* (lib.rs:78, "a column that really exists"): a table was called so, and that relation
\* had such a column, though not at one moment; a function was there; the labels were those
\* of an enumeration of that name, in their order.  But for relations that are misfiled.
WhatIsSaidWas ==
    Loaded =>
        /\ DOMAIN server.of = ToSet(Queries) /\ introspect(server.of) \in IntrospectionResult
        /\ \A name \in schema_tables(Served, {}) : Misfiled(name) \/
              \E before \in Span : \E c \in Called(before, name) :
                  \A column \in schema_columns(Served, name) :
                      \E db \in Span : \E a \in Live(db, c, column.name) :
                          /\ a.attnotnull = ~column.nullable
                          /\ column.type = "unknown" \/ \E other \in Span : Typed(other, a.atttypid, column.type)
        /\ \A f \in Served.functions : \E db \in Span : \E p \in db.pg_proc :
              p.proname = f /\ p.prokind \in {"f", "p"} /\ p.pronamespace \in InSchemas(db)
        /\ \A name \in DOMAIN Served.enums : \E db \in Span : \E t \in {e.enumtypid : e \in db.pg_enum} :
              /\ name = "unknown" \/ \E other \in Span : Typed(other, t, name)
              /\ ToSet(Served.enums[name]) = {e.enumlabel : e \in LabelsOf(db, t)}
              /\ \A d, e \in LabelsOf(db, t) : \A i, j \in DOMAIN Served.enums[name] :
                    /\ Served.enums[name][i] = d.enumlabel /\ Served.enums[name][j] = e.enumlabel
                    /\ d.enumsortorder < e.enumsortorder
                    => i < j

\* A type of a schema asked for or a built-in one, a function, and a label, as they are queried.
Seen(db, t) == t \in db.pg_type /\ t.typnamespace \in InSchemas(db) \union {PgCatalog}
Asked(db, p) == p \in db.pg_proc /\ p.prokind \in {"f", "p"} /\ p.pronamespace \in InSchemas(db)
Labelled(db, t, e) ==
    t \in db.pg_type /\ t.typnamespace \in InSchemas(db) /\ e \in db.pg_enum /\ e.enumtypid = t.oid

\* What stood throughout the capture is said: a relation that was called so all the time,
\* partitioned tables excepted, with the columns, types and comments that stayed; a
\* function; an enumeration.  But for the relations that a misfiled one displaces.
WhatStoodIsSaid ==
    Loaded =>
        LET now == history[server.of["classes"]]
        IN /\ \A c \in now.pg_class : \A n \in now.pg_namespace :
                 LET name == <<n.nspname, c.relname>>
                 IN ~Misfiled(name) /\ (\A db \in Span : c \in Called(db, name)) =>
                       /\ schema_check(Served, name, {})
                       /\ \A a \in now.pg_attribute : \A t \in now.pg_type :
                             a.atttypid = t.oid /\ (\A db \in Span : a \in Live(db, c, a.attname) /\ Seen(db, t)) =>
                                /\ schema_check(Served, name, {a.attname})
                                /\ [name |-> a.attname, type |-> t.typname, nullable |-> ~a.attnotnull] \in schema_columns(Served, name)
                                /\ \A d \in now.pg_description :
                                      d.objoid = c.oid /\ d.objsubid = a.attnum /\ (\A db \in Span : d \in db.pg_description)
                                      => \E column \in Served.tables[name].columns :
                                            column.name = a.attname /\ d.description \in column.description
           /\ \A p \in now.pg_proc : (\A db \in Span : Asked(db, p)) => p.proname \in Served.functions
           /\ \A e \in now.pg_enum : \A t \in now.pg_type :
                 (\A db \in Span : Labelled(db, t, e)) => t.typname \in DOMAIN Served.enums
=============================================================================
