------------------------------- MODULE MCKept -------------------------------
(* Small instances of what is kept, for TLC. *)
EXTENDS WhatIsKept, TLC

(***************************************************************************)
(* The schema sets: one schema, and both.  The texts: the name asked for   *)
(* in two places, a longer one, and one in another letter case.            *)
(***************************************************************************)
MCSets == {{"auth"}, {"auth", "public"}}

Symbol(name, first, last) == [name |-> name, first |-> first, last |-> last]
MCTexts == {[lines |-> 3, symbols |-> {Symbol("run", 1, 1), Symbol("run_all", 2, 3)}],
            [lines |-> 2, symbols |-> {Symbol("run", 2, 2)}],
            [lines |-> 1, symbols |-> {Symbol("Run", 1, 1)}]}
MCPartOf == {<<"run", "run">>, <<"run", "run_all">>}
MCResembles == MCPartOf \union {<<"run", "Run">>}
MCWalk == <<"a", "b">>

CallerSymmetry == Permutations(Callers)

(***************************************************************************)
(* The catalogs of small databases: one or two schemas and one table, and  *)
(* what one transaction of a migration may make of them.                   *)
(***************************************************************************)
Namespace(oid, name) == [oid |-> oid, nspname |-> name]
Class(oid, schema, name, kind) == [oid |-> oid, relnamespace |-> schema, relname |-> name, relkind |-> kind]
Attribute(class, num, name, type) ==
    [attrelid |-> class, attnum |-> num, attname |-> name, atttypid |-> type, attnotnull |-> num = 1, attisdropped |-> FALSE]
Constraint(class, kind, key, other, action) ==
    [conrelid |-> class, contype |-> kind, conkey |-> key, confrelid |-> other, confdeltype |-> action]
Proc(oid, schema, name, kind) == [oid |-> oid, pronamespace |-> schema, proname |-> name, prokind |-> kind, provolatile |-> "s"]
Type(oid, schema, name) == [oid |-> oid, typnamespace |-> schema, typname |-> name]
Label(type, order, label) == [enumtypid |-> type, enumsortorder |-> order, enumlabel |-> label]

CatalogOid == 11
TextOid == 25
Bare == [pg_namespace   |-> {Namespace(1, "public"), Namespace(CatalogOid, "pg_catalog")},
         pg_class       |-> {},
         pg_attribute   |-> {},
         pg_constraint  |-> {},
         pg_proc        |-> {},
         pg_type        |-> {Type(TextOid, CatalogOid, "text")},
         pg_enum        |-> {},
         pg_index       |-> {},
         pg_description |-> {}]
WithTable(db, class, kind, schema, name) ==
    [db EXCEPT !.pg_class = @ \union {Class(class, schema, name, kind)},
               !.pg_attribute = @ \union {Attribute(class, -1, "ctid", TextOid), Attribute(class, 1, "x", TextOid)},
               !.pg_index = @ \union {[indrelid |-> class, indisprimary |-> TRUE]}]
WithEnum(db, type, schema) ==
    [db EXCEPT !.pg_type = @ \union {Type(type, schema, "mood")},
               !.pg_enum = @ \union {Label(type, 2, "ok"), Label(type, 4, "sad")}]
WithApp(db) == [db EXCEPT !.pg_namespace = @ \union {Namespace(2, "app")}]

MCBeginnings == {WithTable(Bare, 100, "r", 1, "t"), WithEnum(WithApp(WithTable(Bare, 100, "v", 1, "t")), 200, 1)}

Schemed(db, oid, name) ==
    [db EXCEPT !.pg_namespace = {IF n.oid = oid THEN [n EXCEPT !.nspname = name] ELSE n : n \in @}]
Renamed(db, from, to) == [db EXCEPT !.pg_class = {IF c.relname = from THEN [c EXCEPT !.relname = to] ELSE c : c \in @}]
Columned(db, class) == [db EXCEPT !.pg_attribute = @ \union {Attribute(class, 2, "y", TextOid)}]
Uncolumned(db, class) ==
    [db EXCEPT !.pg_attribute = {IF a.attname = "x" /\ a.attrelid = class THEN [a EXCEPT !.attisdropped = TRUE] ELSE a : a \in @}]
Dropped(db, class) ==
    [db EXCEPT !.pg_class = {c \in @ : c.oid # class}, !.pg_attribute = {a \in @ : a.attrelid # class}]

\* A schema with a relation in it, or with an enumeration, or with another name and another
\* relation; changes of the first table, with constraints that reference another, hold a
\* column, or fire a trigger; a label between two others; a function or an aggregate.
MCMigrated(db) ==
    LET appTables == IF \E c \in db.pg_class : c.oid = 101 THEN {} ELSE {<<"r", "t">>, <<"r", "v">>, <<"p", "t">>}
        ofTable ==
            {Columned(Renamed(db, "t", "u"), 100), Columned(db, 100), Uncolumned(db, 100), Dropped(db, 100),
             [db EXCEPT !.pg_description = @ \union {[objoid |-> 100, objsubid |-> 1, description |-> "about x"]}]} \union
            {[db EXCEPT !.pg_constraint = @ \union {k}] :
                k \in {Constraint(100, "f", {<<1>>}, 100, "c"), Constraint(100, "n", {<<1>>}, 0, " "), Constraint(100, "t", {}, 0, " ")}}
    IN {WithTable(WithApp(db), 101, t[1], 2, t[2]) : t \in appTables} \union
       {WithEnum(WithApp(db), 201, 2)} \union
       {Schemed(WithTable(db, 101, "r", 1, "v"), 1, name) : name \in {"app", "shop"} \ {n.nspname : n \in db.pg_namespace}} \union
       {d \in ofTable : \E c \in db.pg_class : c.oid = 100} \union
       {[db EXCEPT !.pg_enum = @ \union {Label(200, 3, "so")}] : t \in {t \in db.pg_type : t.oid = 200}} \union
       {[db EXCEPT !.pg_proc = @ \union {Proc(300, 1, "now", kind)}] : kind \in {"f", "a"}}

\* What the theorems about SymbolIndex assume.
ASSUME TextsAreParsed == Sym!Parsed

\* What the theorems about Capture assume of every catalog a database comes to.
ASSUME CatalogsAreSound == \A db \in Beginnings : Snap!Sound(db) /\ \A other \in Migrated(db) : Snap!Sound(other)
=============================================================================
