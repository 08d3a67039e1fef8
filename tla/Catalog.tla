------------------------------ MODULE Catalog ------------------------------
(***************************************************************************)
(* Products and their type: apps/api/src/products/product.service.ts and   *)
(* apps/api/src/catalog/product-type.service.ts.                           *)
(*                                                                         *)
(* A command on a product reads its row, its variants, the version of its  *)
(* type and the definitions of the type with four statements, validates    *)
(* what it read, and writes.  At read committed each statement sees what   *)
(* is committed when it runs, so the parts may be of different ages.       *)
(*                                                                         *)
(* Of the content of a product the model keeps whether it has variants and *)
(* the definitions its attributes are complete for: each replacement of    *)
(* the definitions of a type asks for something the earlier ones did not,  *)
(* and 0 stands for attributes that are complete for none.                 *)
(***************************************************************************)
EXTENDS Integers, Sequences

CONSTANTS
  Products,          \* product ids
  Editors,           \* requests in flight
  MaxProductVersion, \* bound on products.version
  MaxSchemaVersion   \* bound on product_types.schema_version

ASSUME CatalogAssumption ==
  /\ MaxProductVersion \in Nat \ {0}
  /\ MaxSchemaVersion \in Nat \ {0}

ProductStatus == {"absent", "draft", "active", "archived"}
SchemaVersions == 0..MaxSchemaVersion

Product ==
  [status : ProductStatus, version : 0..MaxProductVersion, schema : SchemaVersions,
   fits : SchemaVersions, variants : BOOLEAN]

Commands == {"create", "update", "updateAndPublish", "publish", "restore"}

EditorStep == {"idle", "variants", "type", "definitions", "write"}

VARIABLES
  type,      \* product_types and attribute_definitions: [version, definitions, active]
  product,   \* products and product_variants
  revision,  \* product_revisions: the rows written, in order
  editor,    \* the requests: their command, the product, and what they have read
  overtaken  \* products published from a row that had changed

catalogVars ==
  <<type, product, revision, editor, overtaken>>

NoProduct ==
  [status |-> "absent", version |-> 0, schema |-> 0, fits |-> 0, variants |-> FALSE]

IdleEditor ==
  [step |-> "idle", command |-> "update", p |-> NoProduct, schema |-> 0, definitions |-> 0]

CatalogInit ==
  /\ type = [version |-> 1, definitions |-> 1, active |-> TRUE]
  /\ product = [p \in Products |-> NoProduct]
  /\ revision = [p \in Products |-> << >>]
  /\ editor = [e \in Editors |-> [on \in Products |-> IdleEditor]]
  /\ overtaken = {}

\* insertAttributes: named by the version of the type that brings them.
NewDefinitions == type.version + 1

\* ProductTypeService.update, conditional on the version the editor expects;
\* the definitions are replaced only when the request has some.
UpdateType(replace) ==
  /\ type.version < MaxSchemaVersion
  /\ type' = [type EXCEPT !.version = @ + 1,
                          !.definitions = IF replace THEN NewDefinitions ELSE @]
  /\ UNCHANGED <<product, revision, editor, overtaken>>

ArchiveType ==
  /\ type.active
  /\ type' = [type EXCEPT !.active = FALSE]
  /\ UNCHANGED <<product, revision, editor, overtaken>>

Request(e, p) == editor[e][p]

Goes(e, p, r) ==
  /\ editor' = [editor EXCEPT ![e][p] = r]
  /\ UNCHANGED <<type, product, revision, overtaken>>

\* What a command uses of the row it read: publish all of it, an update the status
\* and the version, since with another version it is refused whatever else it read.
Used(command, row) ==
  CASE command = "publish" -> row
    [] command \in {"update", "updateAndPublish"} ->
         [NoProduct EXCEPT !.status = row.status, !.version = row.version]
    [] OTHER -> NoProduct

\* The row of loadOne.  An update expects the version it reads here: with any
\* other expectation it is refused.
ReadProduct(e, p, command) ==
  LET row == product[p]
  IN /\ Request(e, p).step = "idle"
     /\ CASE command = "create" -> row.status = "absent"
          [] command = "publish" -> row.status = "draft"
          [] command = "restore" -> row.status = "archived"
          [] OTHER -> row.status # "absent"
     /\ Goes(e, p, [IdleEditor EXCEPT !.command = command, !.p = Used(command, row),
                      !.step = IF command = "publish" THEN "variants"
                               ELSE IF command = "restore" THEN "write" ELSE "type"])

ReadVariants(e, p) ==
  /\ Request(e, p).step = "variants"
  /\ Goes(e, p, [Request(e, p) EXCEPT !.step = "type", !.p.variants = product[p].variants])

\* The two statements of loadProductTypeSchema.
ReadTypeVersion(e, p) ==
  /\ Request(e, p).step = "type"
  /\ IF type.active
     THEN Goes(e, p, [Request(e, p) EXCEPT !.step = "definitions", !.schema = type.version])
     ELSE Goes(e, p, IdleEditor)

ReadDefinitions(e, p) ==
  /\ Request(e, p).step = "definitions"
  /\ Goes(e, p, [Request(e, p) EXCEPT !.step = "write", !.definitions = type.definitions])

\* validateCustomAttributes: what attributes that some definitions accept are
\* complete for.
Accepted(definitions) == {0, definitions}

\* validateProductConfiguration: drafts may be partial, nothing else may.
Valid_Partial(status, fits, variants, definitions) ==
  status = "draft" \/ fits = definitions

Valid(status, fits, variants, definitions) ==
  status = "draft" \/ (variants /\ fits = definitions)

\* The row is written, with the revision that records it, and the request ends.
WriteProduct(e, p, row) ==
  /\ product' = [product EXCEPT ![p] = row]
  /\ revision' = [revision EXCEPT ![p] = Append(@, row)]
  /\ editor' = [editor EXCEPT ![e][p] = IdleEditor]
  /\ UNCHANGED type

Writing(e, p, commands) ==
  /\ Request(e, p).step = "write"
  /\ Request(e, p).command \in commands
  /\ product[p].version < MaxProductVersion

Create(e, p, status, fits, variants) ==
  LET r == Request(e, p)
  IN /\ Writing(e, p, {"create"})
     /\ product[p].status = "absent"
     /\ status \in {"draft", "active"}
     /\ fits \in Accepted(r.definitions)
     /\ Valid(status, fits, variants, r.definitions)
     /\ WriteProduct(e, p, [status |-> status, version |-> 1, schema |-> r.schema,
                            fits |-> fits, variants |-> variants])
     /\ UNCHANGED overtaken

Update(e, p, fits, variants) ==
  LET r == Request(e, p)
      status == IF r.command = "updateAndPublish" THEN "active" ELSE r.p.status
  IN /\ Writing(e, p, {"update", "updateAndPublish"})
     /\ product[p].version = r.p.version
     /\ fits \in Accepted(r.definitions)
     /\ Valid(status, fits, variants, r.definitions)
     /\ WriteProduct(e, p, [status |-> status, version |-> r.p.version + 1,
                            schema |-> r.schema, fits |-> fits, variants |-> variants])
     /\ overtaken' = overtaken \ {p}

\* The validation failed, or the version has moved.
Refuse(e, p) ==
  /\ Request(e, p).step = "write"
  /\ Request(e, p).command # "restore"
  /\ Goes(e, p, IdleEditor)

\* The update of publish has no condition on the row: what was read may be gone.
Publish(e, p) ==
  LET r == Request(e, p)
  IN /\ Writing(e, p, {"publish"})
     /\ Valid("active", r.p.fits, r.p.variants, r.definitions)
     /\ WriteProduct(e, p, [product[p] EXCEPT !.status = "active", !.version = @ + 1,
                                              !.schema = r.schema])
     /\ overtaken' = IF product[p].version = r.p.version THEN overtaken \ {p}
                     ELSE overtaken \cup {p}

Restore(e, p) ==
  /\ Writing(e, p, {"restore"})
  /\ WriteProduct(e, p, [product[p] EXCEPT !.status = "draft", !.version = @ + 1])
  /\ UNCHANGED overtaken

Archive_NoRevision(p) ==
  /\ product[p].status # "absent"
  /\ product[p].version < MaxProductVersion
  /\ product' = [product EXCEPT ![p].status = "archived", ![p].version = @ + 1]
  /\ UNCHANGED <<type, revision, editor, overtaken>>

Archive(p) ==
  /\ product[p].status # "absent"
  /\ product[p].version < MaxProductVersion
  /\ product' = [product EXCEPT ![p].status = "archived", ![p].version = @ + 1]
  /\ revision' = [revision EXCEPT ![p] = Append(@, product'[p])]
  /\ UNCHANGED <<type, editor, overtaken>>

CatalogNext ==
  \/ \E replace \in BOOLEAN : UpdateType(replace)
  \/ ArchiveType
  \/ \E p \in Products :
       \/ Archive(p)
       \/ \E e \in Editors :
            \/ \E command \in Commands : ReadProduct(e, p, command)
            \/ ReadVariants(e, p) \/ ReadTypeVersion(e, p) \/ ReadDefinitions(e, p)
            \/ \E fits \in SchemaVersions, variants \in BOOLEAN :
                 \/ \E status \in {"draft", "active"} : Create(e, p, status, fits, variants)
                 \/ Update(e, p, fits, variants)
            \/ Refuse(e, p) \/ Publish(e, p) \/ Restore(e, p)

CatalogSpec == CatalogInit /\ [][CatalogNext]_catalogVars

-----------------------------------------------------------------------------

CatalogTypeOK ==
  /\ type \in [version : 1..MaxSchemaVersion, definitions : 1..MaxSchemaVersion,
               active : BOOLEAN]
  /\ product \in [Products -> Product]
  /\ editor \in [Editors -> [Products ->
       [step : EditorStep, command : Commands, p : Product, schema : SchemaVersions,
        definitions : SchemaVersions]]]
  /\ overtaken \subseteq Products

\* A product's revisions are its history: one for each version it has had, in
\* order, the last one the row itself, whichever commands overlapped.
RevisionsExplainProduct ==
  \A p \in Products :
    /\ Len(revision[p]) = product[p].version
    /\ \A v \in 1..Len(revision[p]) : revision[p][v].version = v
    /\ product[p].version > 0 => revision[p][product[p].version] = product[p]

\* An active product has variants and complete attributes, unless publish wrote
\* over a row that had changed since it was validated.
PublishedWasValid ==
  \A p \in Products :
    product[p].status = "active" /\ p \notin overtaken =>
      product[p].variants /\ product[p].fits > 0
=============================================================================
