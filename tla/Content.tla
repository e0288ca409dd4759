------------------------------- MODULE Content -------------------------------
(***************************************************************************)
(* Content types and their items, taxonomies and their terms, block         *)
(* templates: the services of the same names.  All rows are in one table,   *)
(* in order of insertion, so that an id is never used again.  Of a row the   *)
(* model keeps what ties rows together: its kind, its slug, the field the    *)
(* slug is unique under, and the row it belongs to.  External: the unique    *)
(* indexes, the refusal of a connect to a row that is not there, and the     *)
(* referential actions of schema.prisma, which Prisma carries out.           *)
(***************************************************************************)
EXTENDS Desk

CONSTANTS
    Slugs,
    MaxRows         \* bound on the rows ever inserted

ContentRow ==
    [kind : {"type", "item", "taxonomy", "term", "template"}, slug : Slugs,
     under : {Void} \cup Slugs \cup Nat, of : {Void} \cup Nat]

ASSUME ContentAssumption == Void \notin ContentRow \cup Nat

VARIABLE rows

Row(kind, slug, under, of) == [kind |-> kind, slug |-> slug, under |-> under, of |-> of]
IsA(id, kind) == id \in DOMAIN rows /\ rows[id] # Void /\ rows[id].kind = kind
Those(kind) == {id \in DOMAIN rows : IsA(id, kind)}
With(kind, slug) == {id \in Those(kind) : rows[id].slug = slug}

\* The unique index of the row's kind already has its key.
KeyTaken(row, id) ==
    \E q \in Those(row.kind) \ {id} : rows[q].slug = row.slug /\ rows[q].under = row.under

ContentInit == rows = <<>>

-----------------------------------------------------------------------------
(* What a service asks of the database *)

\* Bug: the id of the owner is written as it was read.
InsertUnchecked(s, row) ==
    IF KeyTaken(row, Void) THEN Answer(s) /\ UNCHANGED rows
    ELSE /\ Len(rows) < MaxRows
         /\ rows' = Append(rows, row)
         /\ Answer(s)

\* The guarded client makes of the id of the owner a connect, so the owner has
\* to be there.
Insert(s, row) ==
    IF KeyTaken(row, Void) \/ (row.of # Void /\ rows[row.of] = Void)
    THEN Answer(s) /\ UNCHANGED rows
    ELSE /\ Len(rows) < MaxRows
         /\ rows' = Append(rows, row)
         /\ Answer(s)

Update(s, kind) ==
    LET c == call[s]
        row == IF c.slug = Void THEN rows[c.id] ELSE [rows[c.id] EXCEPT !.slug = c.slug]
    IN IF IsA(c.id, kind) /\ ~KeyTaken(row, c.id)
       THEN rows' = [rows EXCEPT ![c.id] = row] /\ Answer(s)
       ELSE UNCHANGED rows /\ Answer(s)

Remove(s, gone) ==
    /\ rows' = [id \in DOMAIN rows |-> IF id \in gone THEN Void ELSE rows[id]]
    /\ Answer(s)

OwnedBy(id) == {q \in Those("item") \cup Those("term") : rows[q].of = id}

\* A request about an id names one that was once inserted.
Request(s, op, id, slug, type, pc) ==
    /\ id = Void \/ id \in DOMAIN rows
    /\ Begin(s, [op |-> op, id |-> id, slug |-> slug, type |-> type, of |-> Void, pc |-> pc])

-----------------------------------------------------------------------------
(* Content types *)

TypeRequests(s) ==
    \/ \E slug \in Slugs : Request(s, "type.create", Void, slug, Void, "write")
    \/ \E id \in Those("type") :
          \/ \E slug \in Slugs : Request(s, "type.update", id, slug, Void, "write")
          \/ Request(s, "type.delete", id, Void, Void, "write")

CreateType(s) == At(s, "type.create", "write") /\ Insert(s, Row("type", call[s].slug, Void, Void))
UpdateType(s) == At(s, "type.update", "write") /\ Update(s, "type")

\* A type with items is not deleted.
DeleteType(s) ==
    /\ At(s, "type.delete", "write")
    /\ IF OwnedBy(call[s].id) = {} THEN Remove(s, {call[s].id}) ELSE Answer(s) /\ UNCHANGED rows

-----------------------------------------------------------------------------
(* Content items *)

ItemRequests(s) ==
    \/ \E type, slug \in Slugs : Request(s, "item.create", Void, slug, type, "find")
    \/ \E id \in Those("item") :
          \/ \E type \in Slugs, slug \in Slugs \cup {Void} : Request(s, "item.update", id, slug, type, "find")
          \/ Request(s, "item.delete", id, Void, Void, "write")

\* create and update: the type is read by the slug in the path.
FindType(s) ==
    /\ At(s, "item.create", "find") \/ At(s, "item.update", "find")
    /\ IF With("type", call[s].type) = {} THEN Answer(s)
       ELSE \E id \in With("type", call[s].type) :
               Await(s, [call[s] EXCEPT !.pc = "write", !.of = id])
    /\ UNCHANGED rows

CreateItem(s) ==
    At(s, "item.create", "write") /\ Insert(s, Row("item", call[s].slug, call[s].type, call[s].of))

\* The item is updated whatever its own type is.
UpdateItem(s) == At(s, "item.update", "write") /\ Update(s, "item")
DeleteItem(s) == At(s, "item.delete", "write") /\ Remove(s, {call[s].id})

-----------------------------------------------------------------------------
(* Taxonomies and terms *)

TaxonomyRequests(s) ==
    \/ \E slug \in Slugs : Request(s, "taxonomy.create", Void, slug, Void, "write")
    \/ \E id \in Those("taxonomy") :
          \/ \E slug \in Slugs \cup {Void} : Request(s, "taxonomy.update", id, slug, Void, "write")
          \/ Request(s, "taxonomy.delete", id, Void, Void, "terms")

TermRequests(s) ==
    \/ \E id \in {q \in DOMAIN rows : rows[q] = Void} \cup Those("taxonomy"), slug \in Slugs :
          Request(s, "term.create", id, slug, Void, "write")
    \/ \E id \in Those("term") :
          \/ \E slug \in Slugs : Request(s, "term.update", id, slug, Void, "write")
          \/ Request(s, "term.delete", id, Void, Void, "write")

CreateTaxonomy(s) == At(s, "taxonomy.create", "write") /\ Insert(s, Row("taxonomy", call[s].slug, Void, Void))
UpdateTaxonomy(s) == At(s, "taxonomy.update", "write") /\ Update(s, "taxonomy")

\* delete: the terms first, in a call of their own.
DeleteTerms(s) ==
    /\ At(s, "taxonomy.delete", "terms")
    /\ rows' = [id \in DOMAIN rows |-> IF id \in OwnedBy(call[s].id) THEN Void ELSE rows[id]]
    /\ Await(s, [call[s] EXCEPT !.pc = "write"])

\* The relation cascades to the terms added in between.
DeleteTaxonomy(s) ==
    At(s, "taxonomy.delete", "write") /\ Remove(s, {call[s].id} \cup OwnedBy(call[s].id))

CreateTerm(s) ==
    At(s, "term.create", "write") /\ Insert(s, Row("term", call[s].slug, call[s].id, call[s].id))
UpdateTerm(s) == At(s, "term.update", "write") /\ Update(s, "term")
DeleteTerm(s) == At(s, "term.delete", "write") /\ Remove(s, {call[s].id})

-----------------------------------------------------------------------------
(* Block templates *)

TemplateRequests(s) ==
    \/ \E slug \in Slugs : Request(s, "template.create", Void, slug, Void, "find")
    \/ \E id \in Those("template") :
          \/ \E slug \in Slugs \cup {Void} : Request(s, "template.update", id, slug, Void, "find")
          \/ Request(s, "template.delete", id, Void, Void, "find")

\* create looks for the slug, update and delete for the row.
FindTemplate(s) ==
    /\ \/ At(s, "template.create", "find") /\ With("template", call[s].slug) = {}
       \/ At(s, "template.update", "find") /\ IsA(call[s].id, "template")
       \/ At(s, "template.delete", "find") /\ IsA(call[s].id, "template")
    /\ Await(s, [call[s] EXCEPT !.pc = "write"])
    /\ UNCHANGED rows

RefuseTemplate(s) ==
    /\ \/ At(s, "template.create", "find") /\ With("template", call[s].slug) # {}
       \/ At(s, "template.update", "find") /\ ~IsA(call[s].id, "template")
       \/ At(s, "template.delete", "find") /\ ~IsA(call[s].id, "template")
    /\ Answer(s)
    /\ UNCHANGED rows

CreateTemplate(s) == At(s, "template.create", "write") /\ Insert(s, Row("template", call[s].slug, Void, Void))
UpdateTemplate(s) == At(s, "template.update", "write") /\ Update(s, "template")
DeleteTemplate(s) == At(s, "template.delete", "write") /\ Remove(s, {call[s].id})

-----------------------------------------------------------------------------
ContentRequests(s) ==
    (TypeRequests(s) \/ ItemRequests(s) \/ TaxonomyRequests(s) \/ TermRequests(s) \/ TemplateRequests(s))
    /\ UNCHANGED rows

ContentStep(s) ==
    \/ CreateType(s) \/ UpdateType(s) \/ DeleteType(s)
    \/ FindType(s) \/ CreateItem(s) \/ UpdateItem(s) \/ DeleteItem(s)
    \/ CreateTaxonomy(s) \/ UpdateTaxonomy(s) \/ DeleteTerms(s) \/ DeleteTaxonomy(s)
    \/ CreateTerm(s) \/ UpdateTerm(s) \/ DeleteTerm(s)
    \/ FindTemplate(s) \/ RefuseTemplate(s) \/ CreateTemplate(s) \/ UpdateTemplate(s) \/ DeleteTemplate(s)

\* Every item has its type and every term its taxonomy, whatever was deleted
\* between the read of an owner and the write of what belongs to it.
OwnersAreThere ==
    \A id \in Those("item") \cup Those("term") : rows[rows[id].of] # Void

=============================================================================
