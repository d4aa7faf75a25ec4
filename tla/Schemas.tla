------------------------------- MODULE Schemas -------------------------------
(***************************************************************************)
(* The schema of a running server: how a push of a new one is compared     *)
(* with the current one and with the stored data, how the list of schemas  *)
(* the server is compatible with follows it, how a client that connects is *)
(* judged by its schema, and what writers under an older schema may store  *)
(* meanwhile.                                                              *)
(*                                                                         *)
(* There is one collection, since schemas are compared collection by       *)
(* collection.  A schema is a function from the attributes it declares to  *)
(* their types, empty when it does not declare the collection.  null,      *)
(* undefined and a missing key are None: hasNoValue takes them for the     *)
(* same.  A hash of a schema is the schema.                                *)
(***************************************************************************)
EXTENDS Naturals, FiniteSets

CONSTANTS
  Ids,       \* of the entities
  Attrs,     \* the attributes a schema may declare
  Id,        \* the one that every declared collection has
  Types,     \* types of attributes
  IdType,    \* the type of Id
  Values,    \* encoded values, tagged with the type they are of
  IdValue,   \* one that stands for any id
  None,      \* no value
  NoSchema,  \* the schema of a schemaless server or client
  NoEntity,  \* nothing is stored
  Clients,
  ClientSchemas, \* schemas they connect with
  Server,    \* a writer that uses the database of the server itself
  MaxPushes, \* bound: calls of overrideSchema and clear, and restarts
  MaxWrites, \* bound: transactions
  Careful    \* incompatible pushes are those the documentation asks for, see Plain and Quiet

VARIABLES
  schema, \* db.schema
  saved,  \* the schema in the storage
  data,   \* the entities in the storage
  list,   \* the compatibility list in the storage
  push,   \* the running overrideSchema or clear
  tx,     \* the running transaction
  conns,  \* the connection of each client
  used    \* counts for the bounds

vars == <<schema, saved, data, list, push, tx, conns, used>>

-----------------------------------------------------------------------------
(* Types and values.                                                       *)

Undeclared == [a \in {} |-> IdType]

Declared == {s \in UNION {[{Id} \union D -> Types] : D \in SUBSET Attrs} : s[Id] = IdType}

Schemas == Declared \union {Undeclared}

Change == {ch \in UNION {[D -> Values] : D \in SUBSET Attrs} :
             Id \in DOMAIN ch => ch[Id] = IdValue}

Options == Schemas \union {NoSchema}

Write == Change \union {NoEntity}

Entity == {e \in [Attrs -> Values] : e[Id] = IdValue}

ASSUME SchemasAssumption ==
  /\ \A t \in Types :
       /\ t.kind \in {"string", "number", "set"}
       /\ {t.optional, t.nullable} \subseteq BOOLEAN
  /\ \A v \in Values \ {None} : v.kind \in {"string", "number", "set"}
  /\ Id \in Attrs /\ IdType \in Types /\ IdValue \in Values /\ None \in Values
  /\ IdType.kind = "string" /\ IdType.enum = {} /\ ~IdType.optional /\ ~IdType.nullable
  /\ IdValue # None /\ IdValue.kind = "string"
  /\ NoSchema \notin Schemas /\ NoEntity \notin Change \union Entity
  /\ ClientSchemas \subseteq Options
  /\ Server \notin Clients /\ {MaxPushes, MaxWrites} \subseteq Nat /\ Careful \in BOOLEAN

IsOptional(t) == t.optional \/ t.nullable

(* The value is one that encode makes for the type.                        *)
Fits(t, v) ==
  IF v = None THEN IsOptional(t)
  ELSE /\ v.kind = t.kind
       /\ t.kind = "set" => v.of = t.items
       /\ t.kind = "string" => t.enum = {} \/ v.of \in t.enum

(* Type.validateEncoded of one property: it looks at neither the enum nor  *)
(* the items of a set.                                                     *)
ValidEncoded(t, v) == IF v = None THEN IsOptional(t) ELSE v.kind = t.kind

Value(change, a) == IF a \in DOMAIN change THEN change[a] ELSE None

(* validateEntityChange.                                                   *)
ValidChange(s, change, partial) ==
  s # NoSchema => \A a \in DOMAIN s : \/ partial /\ a \notin DOMAIN change
                                      \/ ValidEncoded(s[a], Value(change, a))

BadMerged(current, change) == [a \in DOMAIN change |-> change[a]]

(* applyChange                                                             *)
Merged(current, change) ==
  [a \in Attrs |-> IF a \in DOMAIN change \/ current = NoEntity THEN Value(change, a)
                   ELSE current[a]]

(* An entity is as the schema says, and has nothing the schema does not    *)
(* declare.                                                                *)
Conforms(s, e) ==
  /\ s # Undeclared
  /\ \A a \in Attrs : IF a \in DOMAIN s THEN Fits(s[a], e[a]) ELSE e[a] = None

-----------------------------------------------------------------------------
(* Comparing schemas.                                                      *)

EnumNarrowed(t, u) ==
  /\ t.kind = "string" /\ u.enum # {}
  /\ t.enum = {} \/ ~(t.enum \subseteq u.enum)

BadAdded(old, t) == "none"

(* An attribute that the new schema adds.                                  *)
Added(old, t) == IF old # Undeclared /\ ~IsOptional(t) THEN "collection_is_empty" ELSE "none"

(* What the data must satisfy for the change of an attribute: the first of *)
(* DANGEROUS_EDITS that matches decides.                                   *)
Constraint(old, new, a) ==
  IF a \in DOMAIN old \ DOMAIN new
    THEN IF IsOptional(old[a]) THEN "attribute_is_empty" ELSE "collection_is_empty"
  ELSE IF a \in DOMAIN new \ DOMAIN old THEN Added(old, new[a])
  ELSE IF old[a].optional /\ ~new[a].optional THEN "attribute_has_no_undefined"
  ELSE IF old[a].kind # new[a].kind THEN "attribute_is_empty"
  ELSE IF old[a].kind = "set" /\ old[a].items # new[a].items THEN "attribute_is_empty"
  ELSE IF old[a].nullable /\ ~new[a].nullable THEN "attribute_has_no_null"
  ELSE IF EnumNarrowed(old[a], new[a]) THEN "attribute_satisfies_enum" ELSE "none"

(* getBackwardsIncompatibleEdits: the attributes with such a change.       *)
IncompatibleEdits(old, new) ==
  {a \in DOMAIN old \union DOMAIN new : Constraint(old, new, a) # "none"}

Compatible(old, new) == IncompatibleEdits(old, new) = {}

(* DATA_CONSTRAINT_CHECKS: a fetch that looks for an entity against it.    *)
(* '=' of an attribute that is a set is asked of its items: it never finds *)
(* a set that is null.                                                     *)
SafeWithData(old, new, a) ==
  LET c == Constraint(old, new, a)
      stored == {data[i] : i \in {j \in Ids : data[j] # NoEntity}}
  IN  /\ c = "collection_is_empty" => stored = {}
      /\ c = "attribute_is_empty" => \A e \in stored : e[a] = None
      /\ c = "attribute_has_no_undefined" => \A e \in stored : e[a] # None
      /\ c = "attribute_has_no_null" =>
           old[a].kind = "set" \/ \A e \in stored : e[a] # None
      /\ c = "attribute_satisfies_enum" =>
           \A e \in stored : e[a] # None /\ e[a].of \in new[a].enum

-----------------------------------------------------------------------------
(* What the documentation asks of incompatible pushes: one thing of an     *)
(* attribute at a time, and no clients that do not know of it.             *)

(* A type keeps its shape or its options; and a set stays nullable.        *)
Plain(old, new) ==
  \A a \in DOMAIN old \intersect DOMAIN new :
    LET t == old[a]
        u == new[a]
        shape == t.kind = u.kind /\ t.items = u.items /\ t.enum = u.enum
        options == t.optional = u.optional /\ t.nullable = u.nullable
    IN  /\ shape \/ options
        /\ t.kind = "set" /\ t.nullable => u.nullable

Idle == [step |-> "idle"]
NoTx == [step |-> "none"]
Off == [step |-> "off", schema |-> NoSchema, seen |-> {}, open |-> FALSE]

Quiet == tx = NoTx /\ \A c \in Clients : conns[c].step \in {"off", "refused"}

(* A push that may be incompatible, or a clear, is running.                *)
Loose == push # Idle /\ ~push.strict

-----------------------------------------------------------------------------
(* overrideSchema, and the listener of the server                          *)

Pushing(step, new, strict, edits, issues) ==
  [step |-> step, new |-> new, strict |-> strict, edits |-> edits, issues |-> issues,
   seen |-> {}]

OverrideSchema(new, strict) ==
  /\ push = Idle /\ used.pushes < MaxPushes
  /\ Careful => strict \/ (Quiet /\ (schema # NoSchema => Plain(schema, new)))
  /\ push' = IF schema = NoSchema THEN Pushing("update", new, strict, {}, FALSE)
             ELSE IF schema = new THEN Pushing("changed", new, strict, {}, FALSE)
             ELSE LET edits == IncompatibleEdits(schema, new)
                  IN  Pushing("check", new, strict, edits, edits # {})
  /\ used' = [used EXCEPT !.pushes = @ + 1]
  /\ UNCHANGED <<schema, saved, data, list, tx, conns>>

(* One of the fetches of getSchemaDiffIssues, which run side by side.      *)
CheckEdit(a) ==
  /\ push.step = "check" /\ a \in push.edits
  /\ push' = IF SafeWithData(schema, push.new, a) THEN [push EXCEPT !.edits = @ \ {a}] ELSE Idle
  /\ UNCHANGED <<schema, saved, data, list, tx, conns, used>>

Decide ==
  /\ push.step = "check" /\ push.edits = {}
  /\ push' = IF push.strict /\ push.issues THEN Idle ELSE [push EXCEPT !.step = "update"]
  /\ UNCHANGED <<schema, saved, data, list, tx, conns, used>>

(* updateSchema: the commit, and the assignment that follows it.           *)
UpdateSchema ==
  /\ push.step = "update"
  /\ schema' = push.new /\ saved' = push.new
  /\ push' = [push EXCEPT !.step = "changed"]
  /\ UNCHANGED <<data, list, tx, conns, used>>

(* onSchemaChange reads the list, and writes it.                           *)
SchemaChanged ==
  /\ push.step = "changed"
  /\ push' = [push EXCEPT !.step = "listed", !.seen = list]
  /\ UNCHANGED <<schema, saved, data, list, tx, conns, used>>

BadNewList(seen, new, issues) == seen \union {new}

NewList(seen, new, issues) == IF issues THEN {new} ELSE seen \union {new}

SetCompatibilityList ==
  /\ push.step = "listed"
  /\ list' = NewList(push.seen, push.new, push.issues)
  /\ push' = Idle
  /\ UNCHANGED <<schema, saved, data, tx, conns, used>>

(* db.clear: the storage, and unless it is full the schema again.          *)
Clear(full) ==
  /\ push = Idle /\ used.pushes < MaxPushes /\ schema # NoSchema
  /\ Careful => Quiet
  /\ data' = [i \in Ids |-> NoEntity] /\ saved' = NoSchema /\ list' = {}
  /\ IF full THEN schema' = NoSchema /\ push' = Idle
     ELSE push' = Pushing("restore", schema, FALSE, {}, FALSE) /\ UNCHANGED schema
  /\ used' = [used EXCEPT !.pushes = @ + 1]
  /\ UNCHANGED <<tx, conns>>

Restore ==
  /\ push.step = "restore"
  /\ saved' = push.new
  /\ push' = Idle
  /\ UNCHANGED <<schema, data, list, tx, conns, used>>

(* The server stops, and createDB starts it: with the schema it saved, or  *)
(* over that with the one of its options.  Nothing listens to that change, *)
(* and a server whose options the data does not fit does not start.        *)
Restart(option) ==
  /\ used.pushes < MaxPushes
  /\ Careful => ~Loose /\ ({saved, option} \intersect {NoSchema} = {} => Compatible(saved, option))
  /\ {saved, option} \intersect {NoSchema} = {} =>
       \A a \in IncompatibleEdits(saved, option) : SafeWithData(saved, option, a)
  /\ schema' = IF option = NoSchema THEN saved ELSE option
  /\ saved' = schema'
  /\ push' = Idle /\ tx' = NoTx /\ conns' = [c \in Clients |-> Off]
  /\ used' = [used EXCEPT !.pushes = @ + 1]
  /\ UNCHANGED <<data, list>>

-----------------------------------------------------------------------------
(* The handshake of a connection                                           *)

(* A handler ends: the connection may have been closed meanwhile.          *)
At(c, step) ==
  conns' = [conns EXCEPT ![c] = IF @.open THEN [@ EXCEPT !.step = step, !.seen = {}] ELSE Off]

(* start, up to its await.                                                 *)
Open(c, s) ==
  /\ conns[c] = Off
  /\ Careful => ~Loose
  /\ conns' = [conns EXCEPT ![c] =
       [step |-> IF s = NoSchema THEN "synced" ELSE IF schema = NoSchema THEN "refused"
                 ELSE "started",
        schema |-> s, seen |-> {}, open |-> TRUE]]
  /\ UNCHANGED <<schema, saved, data, list, push, tx, used>>

Start(c) ==
  /\ conns[c].step = "started"
  /\ At(c, IF conns[c].schema \in list THEN "synced" ELSE "asked")
  /\ UNCHANGED <<schema, saved, data, list, push, tx, used>>

(* The client's schema is one the server can sync with.                    *)
Allows(client, server) == server # NoSchema /\ Compatible(client, server)

HandleSchemaResponse(c) ==
  /\ conns[c].step = "asked"
  /\ At(c, IF Allows(conns[c].schema, schema) THEN "allowed" ELSE "refused")
  /\ UNCHANGED <<schema, saved, data, list, push, tx, used>>

AllowClientToSync(c) ==
  /\ conns[c].step = "allowed"
  /\ IF conns[c].schema \in list THEN At(c, "synced")
     ELSE conns' = [conns EXCEPT ![c].step = "adding", ![c].seen = list]
  /\ UNCHANGED <<schema, saved, data, list, push, tx, used>>

AddToList(c) ==
  /\ conns[c].step = "adding"
  /\ list' = conns[c].seen \union {conns[c].schema}
  /\ At(c, "synced")
  /\ UNCHANGED <<schema, saved, data, push, tx, used>>

(* closeConnection: a handler that is suspended goes on.                   *)
Close(c) ==
  /\ conns[c].open
  /\ conns' = [conns EXCEPT ![c] = IF @.step \in {"started", "allowed", "adding"}
                                     THEN [@ EXCEPT !.open = FALSE] ELSE Off]
  /\ UNCHANGED <<schema, saved, data, list, push, tx, used>>

-----------------------------------------------------------------------------
(* Transactions: one of the server itself, or the changes of a client.     *)

(* What encode lets a writer with a schema write.  Writers are typed: they *)
(* write what their schema declares.                                       *)
Update(s, ch) ==
  /\ DOMAIN ch \subseteq DOMAIN s \ {Id}
  /\ \A a \in DOMAIN ch : Fits(s[a], ch[a])

Insert(s, ch) ==
  /\ Id \in DOMAIN ch
  /\ DOMAIN ch \subseteq DOMAIN s
  /\ \A a \in DOMAIN s : Fits(s[a], Value(ch, a))

Writable(s, change) ==
  /\ s \notin {NoSchema, Undeclared}
  /\ change # NoEntity => Insert(s, change) \/ Update(s, change)

Begin(w, i, change) ==
  /\ tx = NoTx /\ used.writes < MaxWrites
  /\ Careful => ~Loose
  /\ w # Server => conns[w].step = "synced"
  /\ Writable(IF w = Server THEN schema ELSE conns[w].schema, change)
  /\ tx' = [step |-> "begun", id |-> i, change |-> change]
  /\ used' = [used EXCEPT !.writes = @ + 1]
  /\ UNCHANGED <<schema, saved, data, list, push, conns>>

(* The validation of applyChanges: an insertion of an id that is stored    *)
(* and an update need not be complete.                                     *)
Accepted ==
  \/ tx.change = NoEntity
  \/ ValidChange(schema, tx.change, Id \notin DOMAIN tx.change \/ data[tx.id] # NoEntity)

(* An update of an entity that is not stored changes nothing.              *)
ApplyChanges ==
  /\ tx.step = "begun"
  /\ tx' = IF ~Accepted THEN NoTx
           ELSE IF tx.change = NoEntity THEN [step |-> "applied", id |-> tx.id, next |-> NoEntity]
           ELSE IF data[tx.id] = NoEntity /\ Id \notin DOMAIN tx.change THEN NoTx
           ELSE [step |-> "applied", id |-> tx.id, next |-> Merged(data[tx.id], tx.change)]
  /\ UNCHANGED <<schema, saved, data, list, push, conns, used>>

Commit ==
  /\ tx.step = "applied"
  /\ data' = [data EXCEPT ![tx.id] = tx.next]
  /\ tx' = NoTx
  /\ UNCHANGED <<schema, saved, list, push, conns, used>>

-----------------------------------------------------------------------------

(* createDB over a storage with a schema and data of that schema, or over  *)
(* an empty one.                                                           *)
Init ==
  /\ schema \in Options /\ saved = schema
  /\ data \in [Ids -> Entity \union {NoEntity}]
  /\ \A i \in Ids : data[i] # NoEntity => schema # NoSchema /\ Conforms(schema, data[i])
  /\ list = {}
  /\ push = Idle /\ tx = NoTx
  /\ conns = [c \in Clients |-> Off]
  /\ used = [pushes |-> 0, writes |-> 0]

Next ==
  \/ \E s \in Schemas, strict \in BOOLEAN : OverrideSchema(s, strict)
  \/ \E a \in Attrs : CheckEdit(a)
  \/ Decide \/ UpdateSchema \/ SchemaChanged \/ SetCompatibilityList
  \/ \E full \in BOOLEAN : Clear(full)
  \/ Restore
  \/ \E s \in Options : Restart(s)
  \/ \E c \in Clients, s \in ClientSchemas : Open(c, s)
  \/ \E c \in Clients : \/ Start(c) \/ HandleSchemaResponse(c) \/ AllowClientToSync(c)
                        \/ AddToList(c) \/ Close(c)
  \/ \E w \in Clients \union {Server}, i \in Ids, ch \in Write : Begin(w, i, ch)
  \/ ApplyChanges \/ Commit

Spec == Init /\ [][Next]_vars

-----------------------------------------------------------------------------
(* Properties                                                              *)

Pushes == {Idle} \union
  [step : {"check", "update", "changed", "listed", "restore"}, new : Schemas, strict : BOOLEAN,
   edits : SUBSET Attrs, issues : BOOLEAN, seen : SUBSET Schemas]

Txs == {NoTx} \union
  [step : {"begun"}, id : Ids, change : Write] \union
  [step : {"applied"}, id : Ids, next : Entity \union {NoEntity}]

Conns ==
  [step : {"off", "synced", "refused"}, schema : Options, seen : SUBSET Schemas,
   open : BOOLEAN] \union
  [step : {"started", "asked", "allowed", "adding"}, schema : Schemas, seen : SUBSET Schemas,
   open : BOOLEAN]

(* Every variable has its type: what is stored is a whole entity, the list *)
(* holds schemas, and a handshake is about one.                            *)
TypeOK ==
  /\ {schema, saved} \subseteq Options
  /\ data \in [Ids -> Entity \union {NoEntity}]
  /\ list \subseteq Schemas
  /\ push \in Pushes /\ tx \in Txs
  /\ conns \in [Clients -> Conns]
  /\ used \in [pushes : Nat, writes : Nat]

(* "Maintain the integrity of data": whatever is pushed, by whom and       *)
(* however writers under older schemas run beside it, every stored entity  *)
(* is one the current schema allows.                                       *)
DataConforms ==
  schema # NoSchema => \A i \in Ids : data[i] # NoEntity => Conforms(schema, data[i])

(* "If the schemas are incompatible, the client will refuse to connect":   *)
(* a client that syncs has a schema the server's is compatible with.       *)
SyncingFit ==
  \A c \in Clients : conns[c].step = "synced" /\ conns[c].schema # NoSchema =>
    Allows(conns[c].schema, schema)

(* "Allow clients with the previous version of the schema to continue      *)
(* syncing": what a writer wrote under its schema is not refused under     *)
(* the one the server has by the time it is applied.                       *)
WritesLand == tx.step = "begun" => Accepted
=============================================================================
