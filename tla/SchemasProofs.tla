---------------------------- MODULE SchemasProofs ----------------------------
(***************************************************************************)
(* Theorems about Schemas, for every set of attributes, types, values and  *)
(* clients and every bound.  The lemmas at the start are about pairs of    *)
(* schemas: what a compatible change keeps, and that compatible changes    *)
(* add up to one.  The invariant that follows says what each step of a     *)
(* push, of a handshake and of a transaction may rely on.                  *)
(***************************************************************************)
EXTENDS Schemas, TLAPS

-----------------------------------------------------------------------------
(* Pairs of schemas.                                                       *)

(* What a schema is made of.                                               *)
LEMMA SchemaShape ==
  /\ Undeclared \in Schemas /\ DOMAIN Undeclared = {}
  /\ \A s \in Schemas : /\ DOMAIN s \subseteq Attrs
                        /\ \A a \in DOMAIN s : s[a] \in Types
                        /\ s = Undeclared \/ (Id \in DOMAIN s /\ s[Id] = IdType)
                        /\ DOMAIN s = {} => s = Undeclared
<1>1. Undeclared \in Schemas /\ DOMAIN Undeclared = {}
  BY DEF Undeclared, Schemas
<1>2. ASSUME NEW s \in Declared
      PROVE  /\ DOMAIN s \subseteq Attrs /\ Id \in DOMAIN s /\ s[Id] = IdType
             /\ \A a \in DOMAIN s : s[a] \in Types
  <2>1. PICK D \in SUBSET Attrs : s \in [{Id} \union D -> Types]
    BY DEF Declared
  <2>2. s[Id] = IdType
    BY DEF Declared
  <2> QED BY <2>1, <2>2, SchemasAssumption
<1>3. ASSUME NEW s \in Schemas
      PROVE  /\ DOMAIN s \subseteq Attrs
             /\ \A a \in DOMAIN s : s[a] \in Types
             /\ s = Undeclared \/ (Id \in DOMAIN s /\ s[Id] = IdType)
             /\ DOMAIN s = {} => s = Undeclared
  <2>1. CASE s \in Declared
    BY <1>2, <2>1
  <2>2. CASE s = Undeclared
    BY <1>1, <2>2
  <2> QED BY <2>1, <2>2 DEF Schemas
<1> QED BY <1>1, <1>3

(* What a type of an attribute is made of.                                 *)
LEMMA TypeShape ==
  \A t \in Types : t.optional \in BOOLEAN /\ t.nullable \in BOOLEAN
                   /\ t.kind \in {"string", "number", "set"} /\ IsOptional(t) \in BOOLEAN
BY SchemasAssumption DEF IsOptional

(* A compatible change removes no attribute, adds optional ones only, and  *)
(* a type that stays takes every value it took.                            *)
LEMMA CompatibleShape ==
  ASSUME NEW s \in Schemas, NEW u \in Schemas, Compatible(s, u)
  PROVE  /\ DOMAIN s \subseteq DOMAIN u
         /\ \A a \in DOMAIN u \ DOMAIN s : s = Undeclared \/ IsOptional(u[a])
         /\ \A a \in DOMAIN s : /\ s[a].optional => u[a].optional
                                /\ s[a].nullable => u[a].nullable
                                /\ s[a].kind = u[a].kind
                                /\ s[a].kind = "set" => s[a].items = u[a].items
                                /\ ~EnumNarrowed(s[a], u[a])
<1>1. \A a \in DOMAIN s \union DOMAIN u : Constraint(s, u, a) = "none"
  BY DEF Compatible, IncompatibleEdits
<1>2. DOMAIN s \subseteq DOMAIN u
  BY <1>1 DEF Constraint
<1>3. \A a \in DOMAIN u \ DOMAIN s : s = Undeclared \/ IsOptional(u[a])
  BY <1>1 DEF Constraint, Added
<1>4. ASSUME NEW a \in DOMAIN s
      PROVE  /\ s[a].optional => u[a].optional
             /\ s[a].nullable => u[a].nullable
             /\ s[a].kind = u[a].kind
             /\ s[a].kind = "set" => s[a].items = u[a].items
             /\ ~EnumNarrowed(s[a], u[a])
  <2>1. a \in DOMAIN u /\ Constraint(s, u, a) = "none"
    BY <1>1, <1>2
  <2> QED BY <2>1 DEF Constraint
<1> QED BY <1>2, <1>3, <1>4

(* And the other way round.                                                *)
LEMMA CompatibleIf ==
  ASSUME NEW s \in Schemas, NEW u \in Schemas,
         DOMAIN s \subseteq DOMAIN u,
         \A a \in DOMAIN u \ DOMAIN s : s = Undeclared \/ IsOptional(u[a]),
         \A a \in DOMAIN s : /\ s[a].optional => u[a].optional
                             /\ s[a].nullable => u[a].nullable
                             /\ s[a].kind = u[a].kind
                             /\ s[a].kind = "set" => s[a].items = u[a].items
                             /\ ~EnumNarrowed(s[a], u[a])
  PROVE  Compatible(s, u)
<1>1. ASSUME NEW a \in DOMAIN s \union DOMAIN u PROVE Constraint(s, u, a) = "none"
  <2>1. CASE a \in DOMAIN s
    BY <2>1 DEF Constraint
  <2>2. CASE a \notin DOMAIN s
    BY <2>2 DEF Constraint, Added
  <2> QED BY <2>1, <2>2
<1> QED BY <1>1 DEF Compatible, IncompatibleEdits

(* A schema is compatible with itself.                                     *)
LEMMA CompatibleReflexive == \A s \in Schemas : Compatible(s, s)
<1>1. ASSUME NEW s \in Schemas PROVE Compatible(s, s)
  <2>1. \A a \in DOMAIN s : ~EnumNarrowed(s[a], s[a])
    BY DEF EnumNarrowed
  <2> QED BY <2>1, CompatibleIf
<1> QED BY <1>1

(* Clients that fit a schema fit what it is compatibly changed to.         *)
LEMMA CompatibleTransitive ==
  ASSUME NEW s \in Schemas, NEW t \in Schemas, NEW u \in Schemas,
         Compatible(s, t), Compatible(t, u)
  PROVE  Compatible(s, u)
<1>1. DOMAIN s \subseteq DOMAIN t /\ DOMAIN t \subseteq DOMAIN u
  BY CompatibleShape
<1>2. ASSUME NEW a \in DOMAIN u \ DOMAIN s, s # Undeclared PROVE IsOptional(u[a])
  <2>1. t # Undeclared
    BY <1>1, <1>2, SchemaShape
  <2>2. CASE a \in DOMAIN t
    <3>1. IsOptional(t[a])
      BY <1>2, <2>2, CompatibleShape
    <3>2. (t[a].optional => u[a].optional) /\ (t[a].nullable => u[a].nullable)
      BY <2>2, CompatibleShape
    <3> QED BY <3>1, <3>2 DEF IsOptional
  <2>3. CASE a \notin DOMAIN t
    BY <2>1, <2>3, CompatibleShape
  <2> QED BY <2>2, <2>3
<1>3. ASSUME NEW a \in DOMAIN s
      PROVE  /\ s[a].optional => u[a].optional
             /\ s[a].nullable => u[a].nullable
             /\ s[a].kind = u[a].kind
             /\ s[a].kind = "set" => s[a].items = u[a].items
             /\ ~EnumNarrowed(s[a], u[a])
  <2>1. /\ s[a].optional => t[a].optional
        /\ s[a].nullable => t[a].nullable
        /\ s[a].kind = t[a].kind
        /\ s[a].kind = "set" => s[a].items = t[a].items
        /\ ~EnumNarrowed(s[a], t[a])
    BY CompatibleShape
  <2>2. /\ t[a].optional => u[a].optional
        /\ t[a].nullable => u[a].nullable
        /\ t[a].kind = u[a].kind
        /\ t[a].kind = "set" => t[a].items = u[a].items
        /\ ~EnumNarrowed(t[a], u[a])
    BY <1>1, CompatibleShape
  <2>3. ~EnumNarrowed(s[a], u[a])
    BY <2>1, <2>2 DEF EnumNarrowed
  <2> QED BY <2>1, <2>2, <2>3
<1>4. DOMAIN s \subseteq DOMAIN u
  BY <1>1
<1> QED BY <1>2, <1>3, <1>4, CompatibleIf

(* What a type takes, the type it is compatibly changed to takes too.      *)
LEMMA CompatibleFits ==
  ASSUME NEW s \in Schemas, NEW u \in Schemas, Compatible(s, u),
         NEW a \in DOMAIN s, NEW v, Fits(s[a], v)
  PROVE  a \in DOMAIN u /\ Fits(u[a], v)
<1>1. /\ a \in DOMAIN u
      /\ s[a].optional => u[a].optional
      /\ s[a].nullable => u[a].nullable
      /\ s[a].kind = u[a].kind
      /\ s[a].kind = "set" => s[a].items = u[a].items
      /\ ~EnumNarrowed(s[a], u[a])
  BY CompatibleShape
<1>2. CASE v = None
  BY <1>1, <1>2 DEF Fits, IsOptional
<1>3. CASE v # None
  BY <1>1, <1>3 DEF Fits, EnumNarrowed
<1> QED BY <1>1, <1>2, <1>3

(* What a schema allows, one that it is compatibly changed to allows too.  *)
LEMMA CompatibleConforms ==
  ASSUME NEW s \in Schemas, NEW u \in Schemas, Compatible(s, u), NEW e, Conforms(s, e)
  PROVE  Conforms(u, e)
<1>1. s # Undeclared /\ DOMAIN s \subseteq DOMAIN u /\ u # Undeclared
  <2>1. DOMAIN s \subseteq DOMAIN u
    BY CompatibleShape
  <2> QED BY <2>1, SchemaShape DEF Conforms
<1>2. ASSUME NEW a \in Attrs
      PROVE  IF a \in DOMAIN u THEN Fits(u[a], e[a]) ELSE e[a] = None
  <2>1. CASE a \in DOMAIN s
    <3>1. Fits(s[a], e[a])
      BY <2>1 DEF Conforms
    <3>2. a \in DOMAIN u /\ Fits(u[a], e[a])
      BY <2>1, <3>1, CompatibleFits
    <3> QED BY <3>2
  <2>2. CASE a \notin DOMAIN s
    <3>1. e[a] = None
      BY <2>2 DEF Conforms
    <3>2. CASE a \in DOMAIN u
      <4>1. IsOptional(u[a])
        BY <1>1, <2>2, <3>2, CompatibleShape
      <4> QED BY <3>1, <3>2, <4>1 DEF Fits
    <3> QED BY <3>1, <3>2
  <2> QED BY <2>1, <2>2
<1> QED BY <1>1, <1>2 DEF Conforms

(* And what a writer may write under it, it may write under the other.     *)
LEMMA CompatibleWritable ==
  ASSUME NEW s \in Schemas, NEW u \in Schemas, Compatible(s, u), NEW ch, Writable(s, ch)
  PROVE  Writable(u, ch)
<1>1. DOMAIN s \subseteq DOMAIN u /\ s # Undeclared /\ u # Undeclared /\ u # NoSchema
  <2>1. DOMAIN s \subseteq DOMAIN u
    BY CompatibleShape
  <2>2. s # Undeclared
    BY DEF Writable
  <2> QED BY <2>1, <2>2, SchemaShape, SchemasAssumption
<1>2. ASSUME Insert(s, ch) PROVE Insert(u, ch)
  <2>1. ASSUME NEW a \in DOMAIN u PROVE Fits(u[a], Value(ch, a))
    <3>1. CASE a \in DOMAIN s
      BY <1>2, <3>1, CompatibleFits DEF Insert
    <3>2. CASE a \notin DOMAIN s
      <4>1. IsOptional(u[a]) /\ Value(ch, a) = None
        BY <1>1, <1>2, <3>2, CompatibleShape DEF Insert, Value
      <4> QED BY <4>1 DEF Fits
    <3> QED BY <3>1, <3>2
  <2> QED BY <1>1, <1>2, <2>1 DEF Insert
<1>3. ASSUME Update(s, ch) PROVE Update(u, ch)
  <2>1. ASSUME NEW a \in DOMAIN ch PROVE Fits(u[a], ch[a])
    <3>1. a \in DOMAIN s /\ Fits(s[a], ch[a])
      BY <1>3 DEF Update
    <3> QED BY <3>1, CompatibleFits
  <2> QED BY <1>1, <1>3, <2>1 DEF Update
<1> QED BY <1>1, <1>2, <1>3 DEF Writable

(* A push that changes one thing of an attribute at a time, and whose      *)
(* checks of the data all succeed, fits the data: the first rule that      *)
(* matches is then the only one that does.                                 *)
LEMMA PlainConforms ==
  ASSUME NEW s \in Schemas, NEW u \in Schemas, Plain(s, u),
         \A a \in IncompatibleEdits(s, u) : SafeWithData(s, u, a),
         NEW i \in Ids, data[i] # NoEntity, Conforms(s, data[i])
  PROVE  Conforms(u, data[i])
<1> DEFINE e == data[i]
           C(a) == Constraint(s, u, a)
<1>1. ASSUME NEW a \in DOMAIN s \union DOMAIN u
      PROVE  /\ C(a) # "collection_is_empty"
             /\ C(a) = "attribute_is_empty" => e[a] = None
             /\ C(a) = "attribute_has_no_undefined" => e[a] # None
             /\ C(a) = "attribute_has_no_null" => s[a].kind = "set" \/ e[a] # None
             /\ C(a) = "attribute_satisfies_enum" => e[a] # None /\ e[a].of \in u[a].enum
  <2>1. CASE C(a) = "none"
    BY <2>1
  <2>2. CASE C(a) # "none"
    <3>1. SafeWithData(s, u, a)
      BY <2>2 DEF IncompatibleEdits
    <3>2. e \in {data[j] : j \in {k \in Ids : data[k] # NoEntity}}
      OBVIOUS
    <3> QED BY <3>1, <3>2 DEF SafeWithData
  <2> QED BY <2>1, <2>2
<1>2. s # Undeclared /\ Id \in DOMAIN s /\ s[Id] = IdType
  BY SchemaShape DEF Conforms
<1>3. u # Undeclared
  <2>1. SUFFICES ASSUME u = Undeclared PROVE FALSE
    OBVIOUS
  <2>2. Id \in DOMAIN s \ DOMAIN u /\ ~IsOptional(s[Id])
    BY <1>2, <2>1, SchemaShape, SchemasAssumption DEF IsOptional
  <2>3. C(Id) = "collection_is_empty"
    BY <2>2 DEF Constraint
  <2> QED BY <1>1, <2>2, <2>3
<1>4. ASSUME NEW a \in Attrs, a \notin DOMAIN u PROVE e[a] = None
  <2>1. CASE a \in DOMAIN s
    <3>1. C(a) = "attribute_is_empty" \/ C(a) = "collection_is_empty"
      BY <1>4, <2>1 DEF Constraint
    <3> QED BY <1>1, <2>1, <3>1
  <2>2. CASE a \notin DOMAIN s
    BY <2>2 DEF Conforms
  <2> QED BY <2>1, <2>2
<1>5. ASSUME NEW a \in Attrs, a \in DOMAIN u, a \notin DOMAIN s PROVE Fits(u[a], e[a])
  <2>1. IsOptional(u[a])
    <3>1. IsOptional(u[a]) \/ C(a) = "collection_is_empty"
      BY <1>2, <1>5 DEF Constraint, Added
    <3> QED BY <1>1, <1>5, <3>1
  <2>2. e[a] = None
    BY <1>5 DEF Conforms
  <2> QED BY <2>1, <2>2 DEF Fits
<1>6. ASSUME NEW a \in Attrs, a \in DOMAIN u, a \in DOMAIN s PROVE Fits(u[a], e[a])
  <2> DEFINE shape == s[a].kind = u[a].kind /\ s[a].items = u[a].items /\ s[a].enum = u[a].enum
             options == s[a].optional = u[a].optional /\ s[a].nullable = u[a].nullable
  <2>1. Fits(s[a], e[a])
    BY <1>6 DEF Conforms
  <2>2. (shape \/ options) /\ (s[a].kind = "set" /\ s[a].nullable => u[a].nullable)
    BY <1>6 DEF Plain
  <2>3. /\ s[a].optional /\ ~u[a].optional => C(a) = "attribute_has_no_undefined"
        /\ ~(s[a].optional /\ ~u[a].optional) => \/ C(a) = "attribute_is_empty"
                                               \/ /\ s[a].kind = u[a].kind
                                                  /\ s[a].kind = "set" => s[a].items = u[a].items
    BY <1>6 DEF Constraint
  <2>4. shape /\ ~(s[a].optional /\ ~u[a].optional) /\ s[a].nullable /\ ~u[a].nullable
          => C(a) = "attribute_has_no_null"
    BY <1>6 DEF Constraint
  <2>5. options /\ s[a].kind = u[a].kind /\ (s[a].kind = "set" => s[a].items = u[a].items)
          => IF EnumNarrowed(s[a], u[a]) THEN C(a) = "attribute_satisfies_enum" ELSE TRUE
    BY <1>6 DEF Constraint
  <2>6. s[a] \in Types /\ u[a] \in Types
    BY <1>6, SchemaShape
  <2>7. CASE e[a] = None
    <3>1. IsOptional(s[a])
      BY <2>1, <2>7 DEF Fits
    <3>2. CASE options
      BY <3>1, <3>2, <2>7 DEF Fits, IsOptional
    <3>3. CASE shape
      <4>1. ~(s[a].optional /\ ~u[a].optional)
        BY <1>1, <1>6, <2>3, <2>7
      <4>2. ~(s[a].nullable /\ ~u[a].nullable)
        BY <1>1, <1>6, <2>2, <2>4, <2>7, <3>3, <4>1
      <4> QED BY <2>7, <3>1, <4>1, <4>2 DEF Fits, IsOptional
    <3> QED BY <2>2, <3>2, <3>3
  <2>8. CASE e[a] # None
    <3>1. CASE shape
      BY <2>1, <2>8, <3>1 DEF Fits
    <3>2. CASE options
      <4>1. s[a].kind = u[a].kind /\ (s[a].kind = "set" => s[a].items = u[a].items)
        BY <1>1, <1>6, <2>3, <2>8, <3>2
      <4>2. CASE EnumNarrowed(s[a], u[a])
        <5>1. e[a].of \in u[a].enum
          BY <1>1, <1>6, <2>5, <3>2, <4>1, <4>2
        <5> QED BY <2>1, <2>8, <4>1, <5>1 DEF Fits
      <4>3. CASE ~EnumNarrowed(s[a], u[a])
        BY <2>1, <2>8, <4>1, <4>3 DEF Fits, EnumNarrowed
      <4> QED BY <4>2, <4>3
    <3> QED BY <2>2, <3>1, <3>2
  <2> QED BY <2>7, <2>8
<1> QED BY <1>3, <1>4, <1>5, <1>6 DEF Conforms

(* What a writer wrote under the current schema passes validateEncoded.    *)
LEMMA WritableAccepted ==
  ASSUME schema \in Options, Writable(schema, tx.change)
  PROVE  Accepted
<1>1. CASE tx.change = NoEntity
  BY <1>1 DEF Accepted
<1>2. ASSUME Insert(schema, tx.change), tx.change # NoEntity PROVE Accepted
  BY <1>2 DEF Accepted, ValidChange, Insert, Fits, ValidEncoded
<1>3. ASSUME Update(schema, tx.change), tx.change # NoEntity PROVE Accepted
  BY <1>3 DEF Accepted, ValidChange, Update, Fits, ValidEncoded, Value
<1> QED BY <1>1, <1>2, <1>3 DEF Writable

(* Applied to an entity of a schema, it makes another one.                 *)
LEMMA MergedConforms ==
  ASSUME NEW s \in Schemas, NEW e, e # NoEntity => Conforms(s, e),
         NEW ch, ch # NoEntity, Writable(s, ch), e # NoEntity \/ Id \in DOMAIN ch
  PROVE  Conforms(s, Merged(e, ch))
<1>1. s # Undeclared
  BY DEF Writable
<1>2. \A a \in Attrs : Merged(e, ch)[a] = IF a \in DOMAIN ch \/ e = NoEntity THEN Value(ch, a)
                                         ELSE e[a]
  BY DEF Merged
<1>3. CASE Insert(s, ch)
  <2>1. ASSUME NEW a \in Attrs
        PROVE  IF a \in DOMAIN s THEN Fits(s[a], Value(ch, a)) ELSE Value(ch, a) = None
    BY <1>3 DEF Insert, Value
  <2> QED BY <1>1, <1>2, <2>1 DEF Conforms
<1>4. CASE Update(s, ch)
  <2>1. Id \notin DOMAIN ch
    BY <1>4 DEF Update
  <2>2. e # NoEntity /\ Conforms(s, e)
    BY <2>1
  <2>3. ASSUME NEW a \in DOMAIN ch PROVE a \in DOMAIN s /\ Fits(s[a], Value(ch, a))
    BY <1>4 DEF Update, Value
  <2> QED BY <1>1, <1>2, <2>2, <2>3 DEF Conforms
<1> QED BY <1>3, <1>4 DEF Writable

-----------------------------------------------------------------------------
(* Types.                                                                  *)

(* The values of a change are values, the one of Id that of an id.         *)
LEMMA ChangeShape ==
  /\ \A ch \in Change, a \in Attrs : Value(ch, a) \in Values
  /\ \A ch \in Change : Id \in DOMAIN ch => ch[Id] = IdValue
BY SchemasAssumption DEF Change, Value

(* A change applied to an entity makes an entity.                          *)
LEMMA MergedType ==
  ASSUME NEW e \in Entity \union {NoEntity}, NEW ch \in Change, e # NoEntity \/ Id \in DOMAIN ch
  PROVE  Merged(e, ch) \in Entity
<1> DEFINE m == [a \in Attrs |-> IF a \in DOMAIN ch \/ e = NoEntity THEN Value(ch, a) ELSE e[a]]
<1>1. m \in [Attrs -> Values]
  <2>1. ASSUME NEW a \in Attrs PROVE m[a] \in Values
    <3>1. CASE a \in DOMAIN ch \/ e = NoEntity
      BY <3>1, ChangeShape
    <3>2. CASE ~(a \in DOMAIN ch \/ e = NoEntity)
      <4>1. e \in [Attrs -> Values]
        BY <3>2 DEF Entity
      <4> QED BY <3>2, <4>1
    <3> QED BY <3>1, <3>2
  <2> QED BY <2>1
<1>2. m[Id] = IdValue
  <2>1. Id \in Attrs
    BY SchemasAssumption
  <2>2. CASE Id \in DOMAIN ch
    BY <2>1, <2>2, ChangeShape DEF Value
  <2>3. CASE Id \notin DOMAIN ch
    BY <2>1, <2>3 DEF Entity
  <2> QED BY <2>2, <2>3
<1> QED BY <1>1, <1>2 DEF Merged, Entity

(* The records overrideSchema and clear make of a push are pushes.         *)
LEMMA PushingType ==
  ASSUME NEW step \in {"check", "update", "changed", "listed", "restore"}, NEW new \in Schemas,
         NEW strict \in BOOLEAN, NEW edits \in SUBSET Attrs, NEW issues \in BOOLEAN
  PROVE  Pushing(step, new, strict, edits, issues) \in Pushes
BY DEF Pushing, Pushes

(* Edits are of attributes.                                                *)
LEMMA EditsType ==
  ASSUME NEW s \in Schemas, NEW u \in Schemas PROVE IncompatibleEdits(s, u) \subseteq Attrs
BY SchemaShape DEF IncompatibleEdits

(* The initial states are well typed.                                      *)
LEMMA InitType == Init => TypeOK
<1> SUFFICES ASSUME Init PROVE TypeOK
  OBVIOUS
<1>1. Idle \in Pushes /\ NoTx \in Txs /\ Off \in Conns
  BY DEF Pushes, Txs, Conns, Off, Options
<1>2. {schema, saved} \subseteq Options /\ list \subseteq Schemas
  BY DEF Init
<1>3. data \in [Ids -> Entity \union {NoEntity}]
  BY DEF Init
<1>4. conns \in [Clients -> Conns] /\ used \in [pushes : Nat, writes : Nat]
  BY <1>1 DEF Init
<1> QED BY <1>1, <1>2, <1>3, <1>4 DEF Init, TypeOK

(* And every step keeps them so.                                           *)
LEMMA StepType == TypeOK /\ [Next]_vars => TypeOK'
<1> SUFFICES ASSUME TypeOK, [Next]_vars PROVE TypeOK'
  OBVIOUS
<1> USE DEF TypeOK
<1>a. /\ used.pushes \in Nat /\ used.writes \in Nat
      /\ [used EXCEPT !.pushes = @ + 1] \in [pushes : Nat, writes : Nat]
      /\ [used EXCEPT !.writes = @ + 1] \in [pushes : Nat, writes : Nat]
  OBVIOUS
<1>b. Idle \in Pushes /\ NoTx \in Txs /\ Off \in Conns
  BY DEF Pushes, Txs, Conns, Off, Options
<1>c. ASSUME push # Idle
      PROVE  /\ push.new \in Schemas /\ push.edits \subseteq Attrs /\ push.seen \subseteq Schemas
             /\ push.issues \in BOOLEAN /\ push.strict \in BOOLEAN
             /\ \A step \in {"check", "update", "changed", "listed"} :
                  [push EXCEPT !.step = step] \in Pushes
             /\ \A a : [push EXCEPT !.edits = @ \ {a}] \in Pushes
             /\ [push EXCEPT !.step = "listed", !.seen = list] \in Pushes
  BY <1>c DEF Pushes
<1>d. \A x : x \in {"check", "update", "changed", "listed", "restore"} => x # Idle.step
  BY DEF Idle
<1>e. ASSUME NEW c \in Clients, conns[c].step \in {"started", "asked", "allowed", "adding"},
             NEW step \in {"asked", "allowed", "synced", "refused"}, At(c, step)
      PROVE  conns' \in [Clients -> Conns]
  <2>1. conns[c] \in [step : {"started", "asked", "allowed", "adding"}, schema : Schemas,
                      seen : SUBSET Schemas, open : BOOLEAN]
    BY <1>e DEF Conns
  <2>2. [conns[c] EXCEPT !.step = step, !.seen = {}] \in Conns
    BY <2>1 DEF Conns, Options
  <2> QED BY <1>b, <1>e, <2>2 DEF At
<1>1. ASSUME NEW s \in Schemas, NEW strict \in BOOLEAN, OverrideSchema(s, strict) PROVE TypeOK'
  <2>1. schema # NoSchema => IncompatibleEdits(schema, s) \in SUBSET Attrs
    BY EditsType DEF Options
  <2>2. push' \in Pushes
    <3>1. CASE schema = NoSchema
      <4>1. Pushing("update", s, strict, {}, FALSE) \in Pushes
        BY PushingType
      <4> QED BY <1>1, <3>1, <4>1 DEF OverrideSchema
    <3>2. CASE schema # NoSchema /\ schema = s
      <4>1. Pushing("changed", s, strict, {}, FALSE) \in Pushes
        BY PushingType
      <4> QED BY <1>1, <3>2, <4>1 DEF OverrideSchema
    <3>3. CASE schema # NoSchema /\ schema # s
      <4> DEFINE edits == IncompatibleEdits(schema, s)
      <4>1. Pushing("check", s, strict, edits, edits # {}) \in Pushes
        BY <2>1, <3>3, PushingType
      <4> QED BY <1>1, <3>3, <4>1 DEF OverrideSchema
    <3> QED BY <3>1, <3>2, <3>3
  <2> QED BY <1>1, <1>a, <2>2 DEF OverrideSchema
<1>2. ASSUME NEW a \in Attrs, CheckEdit(a) PROVE TypeOK'
  BY <1>2, <1>b, <1>c, <1>d DEF CheckEdit
<1>3. CASE Decide
  BY <1>3, <1>b, <1>c, <1>d DEF Decide
<1>4. CASE UpdateSchema
  BY <1>4, <1>b, <1>c, <1>d DEF UpdateSchema, Options
<1>5. CASE SchemaChanged
  BY <1>5, <1>b, <1>c, <1>d DEF SchemaChanged
<1>6. CASE SetCompatibilityList
  BY <1>6, <1>b, <1>c, <1>d DEF SetCompatibilityList, NewList
<1>7. ASSUME NEW full \in BOOLEAN, Clear(full) PROVE TypeOK'
  <2>1. schema \in Schemas
    BY <1>7 DEF Clear, Options
  <2>2. Pushing("restore", schema, FALSE, {}, FALSE) \in Pushes
    BY <2>1, PushingType
  <2>3. push' \in Pushes /\ schema' \in Options
    BY <1>7, <1>b, <2>2 DEF Clear, Options
  <2> QED BY <1>7, <1>a, <2>3 DEF Clear, Options
<1>8. CASE Restore
  BY <1>8, <1>b, <1>c, <1>d DEF Restore, Options
<1>9. ASSUME NEW s \in Options, Restart(s) PROVE TypeOK'
  <2>1. schema' \in Options /\ saved' \in Options
    BY <1>9 DEF Restart
  <2>2. conns' \in [Clients -> Conns]
    BY <1>9, <1>b DEF Restart
  <2> QED BY <1>9, <1>a, <1>b, <2>1, <2>2 DEF Restart
<1>10. ASSUME NEW c \in Clients, NEW s \in ClientSchemas, Open(c, s) PROVE TypeOK'
  <2>1. s \in Options /\ (s # NoSchema => s \in Schemas)
    BY SchemasAssumption DEF Options
  <2>2. conns' \in [Clients -> Conns]
    BY <1>10, <2>1 DEF Open, Conns
  <2> QED BY <1>10, <2>2 DEF Open
<1>11. ASSUME NEW c \in Clients, Start(c) PROVE TypeOK'
  BY <1>11, <1>e DEF Start
<1>12. ASSUME NEW c \in Clients, HandleSchemaResponse(c) PROVE TypeOK'
  BY <1>12, <1>e DEF HandleSchemaResponse
<1>13. ASSUME NEW c \in Clients, AllowClientToSync(c) PROVE TypeOK'
  <2>1. conns' \in [Clients -> Conns]
    <3>1. [conns[c] EXCEPT !.step = "adding", !.seen = list] \in Conns
      BY <1>13 DEF AllowClientToSync, Conns
    <3>2. CASE conns[c].schema \in list
      BY <1>13, <1>e, <3>2 DEF AllowClientToSync
    <3>3. CASE conns[c].schema \notin list
      <4>1. conns' = [conns EXCEPT ![c] = [@ EXCEPT !.step = "adding", !.seen = list]]
        BY <1>13, <3>3 DEF AllowClientToSync
      <4> QED BY <3>1, <4>1
    <3> QED BY <3>2, <3>3
  <2> QED BY <1>13, <2>1 DEF AllowClientToSync
<1>14. ASSUME NEW c \in Clients, AddToList(c) PROVE TypeOK'
  <2>1. conns[c].seen \subseteq Schemas /\ conns[c].schema \in Schemas
    BY <1>14 DEF AddToList, Conns
  <2> QED BY <1>14, <1>e, <2>1 DEF AddToList
<1>15. ASSUME NEW c \in Clients, Close(c) PROVE TypeOK'
  <2>1. [conns[c] EXCEPT !.open = FALSE] \in Conns
    BY DEF Conns
  <2>2. conns' \in [Clients -> Conns]
    BY <1>15, <1>b, <2>1 DEF Close
  <2> QED BY <1>15, <2>2 DEF Close
<1>16. ASSUME NEW w \in Clients \union {Server}, NEW i \in Ids, NEW ch \in Write, Begin(w, i, ch)
       PROVE  TypeOK'
  <2>1. tx' \in Txs
    BY <1>16 DEF Begin, Txs
  <2> QED BY <1>16, <1>a, <2>1 DEF Begin
<1>17. CASE ApplyChanges
  <2>1. tx.id \in Ids /\ tx.change \in Write
    BY <1>17 DEF ApplyChanges, Txs, NoTx
  <2>2. tx' \in Txs
    <3>1. \A e \in Entity \union {NoEntity} : [step |-> "applied", id |-> tx.id, next |-> e] \in Txs
      BY <2>1 DEF Txs
    <3>2. CASE tx' = NoTx
      BY <1>b, <3>2
    <3>3. CASE tx' = [step |-> "applied", id |-> tx.id, next |-> NoEntity]
      BY <3>1, <3>3
    <3>4. ASSUME tx.change # NoEntity, data[tx.id] # NoEntity \/ Id \in DOMAIN tx.change,
                 tx' = [step |-> "applied", id |-> tx.id, next |-> Merged(data[tx.id], tx.change)]
          PROVE  tx' \in Txs
      <4>1. Merged(data[tx.id], tx.change) \in Entity
        BY <2>1, <3>4, MergedType DEF Write
      <4> QED BY <3>1, <3>4, <4>1
    <3> QED BY <1>17, <3>2, <3>3, <3>4 DEF ApplyChanges
  <2> QED BY <1>17, <2>2 DEF ApplyChanges
<1>18. CASE Commit
  <2>1. tx.id \in Ids /\ tx.next \in Entity \union {NoEntity}
    BY <1>18 DEF Commit, Txs, NoTx
  <2> QED BY <1>18, <1>b, <2>1 DEF Commit
<1>19. CASE UNCHANGED vars
  BY <1>19 DEF vars
<1> QED BY <1>1, <1>2, <1>3, <1>4, <1>5, <1>6, <1>7, <1>8, <1>9, <1>10, <1>11, <1>12, <1>13,
           <1>14, <1>15, <1>16, <1>17, <1>18, <1>19 DEF Next

(* Every variable keeps its type.                                          *)
THEOREM TypeCorrect == Spec => []TypeOK
<1>1. Init => TypeOK
  BY InitType
<1>2. TypeOK /\ [Next]_vars => TypeOK'
  BY StepType
<1> QED BY <1>1, <1>2, PTL DEF Spec

-----------------------------------------------------------------------------
(* The invariant, for pushes made as the documentation asks.               *)

(* All of a set of clients' schemas are ones to sync with.                 *)
FitAll(set) == \A s \in set : Allows(s, schema)

(* Of a loose push, the edits that are not in the set are checked.         *)
Checked(edits) ==
  /\ Plain(schema, push.new)
  /\ \A a \in IncompatibleEdits(schema, push.new) \ edits : SafeWithData(schema, push.new, a)

CheckPart ==
  push.step = "check" =>
    /\ schema # NoSchema
    /\ push.issues <=> ~Compatible(schema, push.new)
    /\ push.strict \/ Checked(push.edits)

UpdatePart ==
  push.step = "update" =>
    IF push.issues THEN ~push.strict /\ schema # NoSchema /\ Checked({})
    ELSE schema = NoSchema \/ Compatible(schema, push.new)

(* What follows the update of the schema.                                  *)
AfterPart ==
  /\ push.step \in {"changed", "listed", "restore"} => schema = push.new
  /\ push.step \in {"changed", "listed"} => ~(push.issues /\ push.strict)
  /\ push.step = "listed" /\ ~push.issues => FitAll(push.seen)
  /\ push.step = "restore" => ~push.strict

ListPart == (push.step \in {"changed", "listed"} /\ push.issues) \/ FitAll(list)

SavedPart == push.step # "restore" => saved = schema

LoosePart == Loose => Quiet

ConnPart ==
  \A c \in Clients :
    /\ conns[c].step \in {"synced", "allowed", "adding"} /\ conns[c].schema # NoSchema =>
         Allows(conns[c].schema, schema)
    /\ conns[c].step = "adding" => FitAll(conns[c].seen)

TxPart ==
  /\ tx.step = "begun" => Writable(schema, tx.change)
  /\ tx.step = "applied" =>
       schema # NoSchema /\ (tx.next # NoEntity => Conforms(schema, tx.next))

DataPart == \A i \in Ids : data[i] # NoEntity => schema # NoSchema /\ Conforms(schema, data[i])

CInv ==
  /\ TypeOK
  /\ CheckPart /\ UpdatePart /\ AfterPart
  /\ ListPart /\ SavedPart /\ LoosePart
  /\ ConnPart /\ TxPart /\ DataPart

(* What a step leaves alone keeps its part.                                *)
LEMMA Frames ==
  /\ CheckPart /\ UpdatePart /\ AfterPart /\ UNCHANGED <<push, schema, data>> =>
       CheckPart' /\ UpdatePart' /\ AfterPart'
  /\ ListPart /\ UNCHANGED <<push, list, schema>> => ListPart'
  /\ SavedPart /\ UNCHANGED <<push, saved, schema>> => SavedPart'
  /\ LoosePart /\ UNCHANGED <<push, tx, conns>> => LoosePart'
  /\ ConnPart /\ UNCHANGED <<conns, schema>> => ConnPart'
  /\ TxPart /\ UNCHANGED <<tx, schema>> => TxPart'
  /\ DataPart /\ UNCHANGED <<data, schema>> => DataPart'
<1>1. CheckPart /\ UpdatePart /\ AfterPart /\ UNCHANGED <<push, schema, data>> =>
        CheckPart' /\ UpdatePart' /\ AfterPart'
  BY SMTT(30) DEF CheckPart, UpdatePart, AfterPart, Checked, SafeWithData, FitAll
<1>2. ListPart /\ UNCHANGED <<push, list, schema>> => ListPart'
  BY DEF ListPart, FitAll
<1>3. SavedPart /\ UNCHANGED <<push, saved, schema>> => SavedPart'
  BY DEF SavedPart
<1>4. LoosePart /\ UNCHANGED <<push, tx, conns>> => LoosePart'
  BY DEF LoosePart, Loose, Quiet
<1>5. ConnPart /\ UNCHANGED <<conns, schema>> => ConnPart'
  BY DEF ConnPart, FitAll
<1>6. TxPart /\ UNCHANGED <<tx, schema>> => TxPart'
  BY DEF TxPart
<1>7. DataPart /\ UNCHANGED <<data, schema>> => DataPart'
  BY DEF DataPart
<1> QED BY <1>1, <1>2, <1>3, <1>4, <1>5, <1>6, <1>7

(* The invariant holds at the start.                                       *)
LEMMA InitInv == Init => CInv
<1> SUFFICES ASSUME Init PROVE CInv
  OBVIOUS
<1>1. TypeOK
  BY InitType
<1>2. CheckPart /\ UpdatePart /\ AfterPart /\ ListPart /\ SavedPart /\ LoosePart
  BY DEF Init, Idle, CheckPart, UpdatePart, AfterPart, ListPart, FitAll, SavedPart, LoosePart,
         Loose
<1>3. ConnPart /\ TxPart /\ DataPart
  BY DEF Init, Off, NoTx, ConnPart, TxPart, DataPart
<1> QED BY <1>1, <1>2, <1>3 DEF CInv

(* A push starts: a loose one when nothing else runs.                      *)
LEMMA OverrideStep ==
  ASSUME Careful, CInv, NEW s \in Schemas, NEW strict \in BOOLEAN, OverrideSchema(s, strict)
  PROVE  CheckPart' /\ UpdatePart' /\ AfterPart' /\ ListPart' /\ SavedPart' /\ LoosePart'
<1> USE DEF OverrideSchema
<1>1. push = Idle /\ schema' = schema /\ data' = data /\ list' = list /\ schema \in Options
  BY DEF CInv, TypeOK
<1>2. CASE schema = NoSchema
  <2>1. CheckPart' /\ UpdatePart' /\ AfterPart' /\ ListPart'
    BY <1>1, <1>2 DEF CInv, CheckPart, UpdatePart, AfterPart, ListPart, FitAll, Idle, Pushing
  <2> QED BY <1>1, <1>2, <2>1 DEF CInv, SavedPart, LoosePart, Loose, Quiet, Idle, Pushing
<1>3. CASE schema # NoSchema /\ schema = s
  <2>1. CheckPart' /\ UpdatePart' /\ AfterPart' /\ ListPart'
    BY <1>1, <1>3 DEF CInv, CheckPart, UpdatePart, AfterPart, ListPart, FitAll, Idle, Pushing
  <2> QED BY <1>1, <1>3, <2>1 DEF CInv, SavedPart, LoosePart, Loose, Quiet, Idle, Pushing
<1>4. CASE schema # NoSchema /\ schema # s
  <2>1. push' = Pushing("check", s, strict, IncompatibleEdits(schema, s),
                        IncompatibleEdits(schema, s) # {})
    BY <1>4
  <2>2. strict \/ Plain(schema, s)
    BY <1>4
  <2>3. CheckPart'
    <3>1. /\ push'.new = s /\ push'.edits = IncompatibleEdits(schema, s) /\ push'.strict = strict
      BY <1>4 DEF Pushing
    <3>4. push'.issues = (IncompatibleEdits(schema, s) # {})
      BY <1>4 DEF Pushing
    <3>2. IncompatibleEdits(schema', push'.new) \ push'.edits = {}
      BY <1>1, <3>1
    <3>3. strict \/ Checked(push.edits)'
      BY <1>1, <2>2, <3>1, <3>2 DEF Checked
    <3> QED BY <1>1, <1>4, <3>1, <3>3, <3>4 DEF CheckPart, Compatible
  <2>4. UpdatePart' /\ AfterPart' /\ ListPart'
    BY <1>1, <2>1 DEF CInv, UpdatePart, AfterPart, ListPart, FitAll, Idle, Pushing
  <2> QED BY <1>1, <2>1, <2>3, <2>4 DEF CInv, SavedPart, LoosePart, Loose, Quiet, Idle, Pushing
<1> QED BY <1>2, <1>3, <1>4

(* The data is checked edit by edit, and stays as it is meanwhile.         *)
LEMMA CheckStep ==
  ASSUME CInv, NEW a \in Attrs, CheckEdit(a)
  PROVE  CheckPart' /\ UpdatePart' /\ AfterPart' /\ ListPart' /\ SavedPart' /\ LoosePart'
<1>1. push.step = "check" /\ UNCHANGED <<schema, saved, data, list, tx, conns>> /\ push # Idle
  BY DEF CheckEdit, Idle
<1>2. CASE ~SafeWithData(schema, push.new, a)
  <2>1. push' = Idle
    BY <1>2 DEF CheckEdit
  <2> QED BY <1>1, <2>1 DEF CInv, CheckPart, UpdatePart, AfterPart, ListPart, FitAll, SavedPart,
                             LoosePart, Loose, Idle
<1>3. CASE SafeWithData(schema, push.new, a)
  <2>1. push' = [push EXCEPT !.edits = @ \ {a}]
    BY <1>3 DEF CheckEdit
  <2>2. /\ push'.step = "check" /\ push'.new = push.new /\ push'.edits = push.edits \ {a}
        /\ push'.strict = push.strict /\ push'.issues = push.issues
    BY <1>1, <2>1 DEF CInv, TypeOK, Pushes, Idle
  <2>3. Checked(push.edits) => Checked(push.edits \ {a})
    BY <1>3 DEF Checked
  <2>4. Checked(push.edits \ {a}) => Checked(push.edits)'
    BY <1>1, <2>2 DEF Checked, SafeWithData
  <2>5. CheckPart'
    BY <1>1, <2>2, <2>3, <2>4 DEF CInv, CheckPart
  <2>6. LoosePart'
    BY <1>1, <2>2 DEF CInv, LoosePart, Loose, Quiet
  <2> QED BY <1>1, <2>2, <2>5, <2>6 DEF CInv, UpdatePart, AfterPart, ListPart, FitAll, SavedPart
<1> QED BY <1>2, <1>3

(* A strict push with issues ends; another goes on, its data checked.      *)
LEMMA DecideStep ==
  ASSUME CInv, Decide
  PROVE  CheckPart' /\ UpdatePart' /\ AfterPart' /\ ListPart' /\ SavedPart' /\ LoosePart'
<1>1. /\ push.step = "check" /\ push.edits = {} /\ push # Idle
      /\ UNCHANGED <<schema, saved, data, list, tx, conns>>
  BY DEF Decide, Idle
<1>2. CASE push.strict /\ push.issues
  <2>1. push' = Idle
    BY <1>2 DEF Decide
  <2> QED BY <1>1, <2>1 DEF CInv, CheckPart, UpdatePart, AfterPart, ListPart, FitAll, SavedPart,
                             LoosePart, Loose, Idle
<1>3. CASE ~(push.strict /\ push.issues)
  <2>1. push' = [push EXCEPT !.step = "update"]
    BY <1>3 DEF Decide
  <2>2. /\ push'.step = "update" /\ push'.new = push.new
        /\ push'.strict = push.strict /\ push'.issues = push.issues
    BY <1>1, <2>1 DEF CInv, TypeOK, Pushes, Idle
  <2>3. Checked(push.edits) => Checked({})'
    BY <1>1, <2>2 DEF Checked, SafeWithData
  <2>4. UpdatePart'
    BY <1>1, <1>3, <2>2, <2>3 DEF CInv, CheckPart, UpdatePart
  <2>5. LoosePart'
    BY <1>1, <2>2 DEF CInv, LoosePart, Loose, Quiet
  <2> QED BY <1>1, <2>2, <2>4, <2>5 DEF CInv, CheckPart, AfterPart, ListPart, FitAll, SavedPart
<1> QED BY <1>2, <1>3

(* A compatible schema keeps the clients, the writers and the data.        *)
LEMMA CompatibleKeeps ==
  ASSUME CInv, schema # NoSchema, schema' \in Schemas, Compatible(schema, schema')
  PROVE  /\ \A s \in Schemas : Allows(s, schema) => Allows(s, schema')
         /\ UNCHANGED conns => ConnPart'
         /\ UNCHANGED tx => TxPart'
         /\ UNCHANGED data => DataPart'
<1>1. schema \in Schemas /\ schema' # NoSchema
  BY SchemasAssumption DEF CInv, TypeOK, Options
<1>2. ASSUME NEW s \in Schemas, Allows(s, schema) PROVE Allows(s, schema')
  BY <1>1, <1>2, CompatibleTransitive DEF Allows
<1>3. ASSUME UNCHANGED conns PROVE ConnPart'
  <2>1. \A c \in Clients : conns[c].schema \in Options /\ conns[c].seen \subseteq Schemas
    BY DEF CInv, TypeOK, Conns, Options
  <2> QED BY <1>2, <1>3, <2>1 DEF CInv, ConnPart, FitAll, Options
<1>4. ASSUME UNCHANGED tx PROVE TxPart'
  <2>1. ASSUME tx.step = "begun" PROVE Writable(schema', tx.change)
    BY <1>1, <2>1, CompatibleWritable DEF CInv, TxPart
  <2>2. ASSUME tx.step = "applied", tx.next # NoEntity PROVE Conforms(schema', tx.next)
    BY <1>1, <2>2, CompatibleConforms DEF CInv, TxPart
  <2> QED BY <1>1, <1>4, <2>1, <2>2 DEF TxPart
<1>5. ASSUME UNCHANGED data PROVE DataPart'
  BY <1>1, <1>5, CompatibleConforms DEF CInv, DataPart
<1> QED BY <1>2, <1>3, <1>4, <1>5

(* Under no schema there is nothing to keep.                               *)
LEMMA NothingKept ==
  ASSUME CInv, schema = NoSchema
  PROVE  /\ \A s \in Schemas : ~Allows(s, schema)
         /\ UNCHANGED conns => ConnPart'
         /\ UNCHANGED tx => TxPart'
         /\ UNCHANGED data => DataPart'
<1>1. \A s : ~Allows(s, schema)
  BY DEF Allows
<1>2. ASSUME UNCHANGED conns PROVE ConnPart'
  BY <1>1, <1>2 DEF CInv, ConnPart, FitAll
<1>3. ASSUME UNCHANGED tx PROVE TxPart'
  BY <1>3 DEF CInv, TxPart, Writable
<1>4. ASSUME UNCHANGED data PROVE DataPart'
  BY <1>4 DEF CInv, DataPart
<1> QED BY <1>1, <1>2, <1>3, <1>4

(* Where nobody is connected and nothing is written, nothing can misfit.   *)
LEMMA QuietKeeps ==
  ASSUME CInv, Quiet, UNCHANGED <<conns, tx>>
  PROVE  ConnPart' /\ TxPart'
BY DEF Quiet, NoTx, ConnPart, TxPart

(* A strict push is compatible.  A loose one has checked the data, which   *)
(* nobody could change, and nobody is there to keep to the old schema.     *)
LEMMA UpdateStep ==
  ASSUME CInv, UpdateSchema
  PROVE  CInv'
<1>1. /\ push.step = "update" /\ push # Idle /\ schema' = push.new /\ saved' = push.new
      /\ UNCHANGED <<data, list, tx, conns>> /\ push' = [push EXCEPT !.step = "changed"]
  BY DEF UpdateSchema, Idle
<1>2. /\ push'.step = "changed" /\ push'.new = push.new /\ push' # Idle
      /\ push'.strict = push.strict /\ push'.issues = push.issues /\ push.new \in Schemas
  BY <1>1 DEF CInv, TypeOK, Pushes, Idle
<1>3. TypeOK'
  BY StepType DEF CInv, Next
<1>4. LoosePart'
  BY <1>1, <1>2 DEF CInv, LoosePart, Loose, Quiet
<1>5. CheckPart' /\ UpdatePart' /\ SavedPart'
  BY <1>1, <1>2 DEF CheckPart, UpdatePart, SavedPart
<1>6. AfterPart'
  <2>1. ~(push.issues /\ push.strict)
    BY <1>1 DEF CInv, UpdatePart
  <2> QED BY <1>1, <1>2, <2>1 DEF AfterPart
<1>7. ConnPart' /\ TxPart' /\ DataPart' /\ ListPart'
  <2>1. CASE push.issues
    <3>1. ~push.strict /\ schema # NoSchema /\ Checked({})
      BY <1>1, <2>1 DEF CInv, UpdatePart
    <3>2. Quiet
      BY <1>1, <3>1 DEF CInv, LoosePart, Loose
    <3>3. ASSUME NEW i \in Ids, data[i] # NoEntity PROVE Conforms(push.new, data[i])
      <4>1. schema \in Schemas /\ Conforms(schema, data[i])
        BY <3>3 DEF CInv, TypeOK, Options, DataPart
      <4>2. Plain(schema, push.new)
        BY <3>1 DEF Checked
      <4>3. \A a \in IncompatibleEdits(schema, push.new) : SafeWithData(schema, push.new, a)
        BY <3>1 DEF Checked
      <4> QED BY <1>2, <3>3, <4>1, <4>2, <4>3, PlainConforms
    <3>4. DataPart'
      BY <1>1, <1>2, <3>3, SchemasAssumption DEF DataPart
    <3> QED BY <1>1, <1>2, <2>1, <3>2, <3>4, QuietKeeps DEF ListPart
  <2>2. CASE ~push.issues /\ schema = NoSchema
    <3>1. ListPart'
      BY <1>1, <2>2, NothingKept DEF CInv, TypeOK, ListPart, FitAll
    <3> QED BY <1>1, <2>2, <3>1, NothingKept
  <2>3. CASE ~push.issues /\ schema # NoSchema
    <3>1. Compatible(schema, schema')
      BY <1>1, <2>3 DEF CInv, UpdatePart
    <3>2. ListPart'
      BY <1>1, <1>2, <2>3, <3>1, CompatibleKeeps DEF CInv, TypeOK, ListPart, FitAll
    <3> QED BY <1>1, <1>2, <2>3, <3>1, <3>2, CompatibleKeeps
  <2> QED BY <2>1, <2>2, <2>3
<1> QED BY <1>3, <1>4, <1>5, <1>6, <1>7 DEF CInv

(* What the listener reads of the list fits, unless it will replace it.    *)
LEMMA SchemaChangedStep ==
  ASSUME CInv, SchemaChanged
  PROVE  CInv'
<1>1. /\ push.step = "changed" /\ push # Idle /\ UNCHANGED <<schema, saved, data, list, tx, conns>>
      /\ push' = [push EXCEPT !.step = "listed", !.seen = list]
  BY DEF SchemaChanged, Idle
<1>2. /\ push'.step = "listed" /\ push'.new = push.new /\ push'.seen = list /\ push' # Idle
      /\ push'.strict = push.strict /\ push'.issues = push.issues
  BY <1>1 DEF CInv, TypeOK, Pushes, Idle
<1>3. TypeOK'
  BY StepType DEF CInv, Next
<1>4. LoosePart'
  BY <1>1, <1>2 DEF CInv, LoosePart, Loose, Quiet
<1>5. CheckPart' /\ UpdatePart' /\ AfterPart' /\ ListPart' /\ SavedPart'
  BY <1>1, <1>2 DEF CInv, CheckPart, UpdatePart, AfterPart, ListPart, SavedPart, FitAll
<1> QED BY <1>1, <1>3, <1>4, <1>5, Frames DEF CInv

(* The list it writes fits the schema that was pushed.                     *)
LEMMA SetListStep ==
  ASSUME CInv, SetCompatibilityList
  PROVE  CInv'
<1>1. /\ push.step = "listed" /\ push # Idle /\ push' = Idle /\ push.new \in Schemas
      /\ schema = push.new /\ UNCHANGED <<schema, saved, data, tx, conns>>
      /\ list' = NewList(push.seen, push.new, push.issues)
  BY DEF CInv, TypeOK, Pushes, AfterPart, SetCompatibilityList, Idle
<1>2. TypeOK'
  BY StepType DEF CInv, Next
<1>3. Allows(push.new, schema)
  BY <1>1, CompatibleReflexive, SchemasAssumption DEF Allows
<1>4. FitAll(list)'
  BY <1>1, <1>3 DEF CInv, AfterPart, FitAll, NewList
<1>5. /\ CheckPart' /\ UpdatePart' /\ AfterPart' /\ LoosePart' /\ SavedPart'
  BY <1>1 DEF CInv, CheckPart, UpdatePart, AfterPart, LoosePart, Loose, SavedPart, Idle
<1> QED BY <1>1, <1>2, <1>4, <1>5, Frames DEF CInv, ListPart

(* A clear runs beside no client.                                          *)
LEMMA ClearStep ==
  ASSUME Careful, CInv, NEW full \in BOOLEAN, Clear(full)
  PROVE  CInv'
<1>1. /\ push = Idle /\ schema # NoSchema /\ Quiet /\ UNCHANGED <<conns, tx>>
      /\ data' = [i \in Ids |-> NoEntity] /\ saved' = NoSchema /\ list' = {}
  BY DEF Clear
<1>2. TypeOK'
  BY StepType DEF CInv, Next
<1>3. ConnPart' /\ TxPart' /\ DataPart' /\ ListPart' /\ LoosePart'
  BY <1>1, QuietKeeps DEF CInv, DataPart, ListPart, FitAll, LoosePart, Quiet
<1>4. CheckPart' /\ UpdatePart' /\ AfterPart' /\ SavedPart'
  <2>1. CASE full
    BY <1>1, <2>1 DEF Clear, CheckPart, UpdatePart, AfterPart, SavedPart, Idle
  <2>2. CASE ~full
    BY <1>1, <2>2 DEF Clear, CheckPart, UpdatePart, AfterPart, SavedPart, Pushing
  <2> QED BY <2>1, <2>2
<1> QED BY <1>2, <1>3, <1>4 DEF CInv

(* The schema that clear saves again is the one in use.                    *)
LEMMA RestoreStep ==
  ASSUME CInv, Restore
  PROVE  CInv'
<1>1. /\ push.step = "restore" /\ push' = Idle /\ schema = push.new /\ saved' = push.new
      /\ UNCHANGED <<schema, data, list, tx, conns>>
  BY DEF CInv, AfterPart, Restore
<1>2. TypeOK'
  BY StepType DEF CInv, Next
<1>3. CheckPart' /\ UpdatePart' /\ AfterPart' /\ ListPart' /\ SavedPart' /\ LoosePart'
  BY <1>1 DEF CInv, CheckPart, UpdatePart, AfterPart, ListPart, FitAll, SavedPart, LoosePart,
              Loose, Idle
<1> QED BY <1>1, <1>2, <1>3, Frames DEF CInv

(* A restart finds saved what the schema was, and no loose push under way. *)
LEMMA RestartStep ==
  ASSUME Careful, CInv, NEW option \in Options, Restart(option)
  PROVE  CInv'
<1>1. /\ ~Loose /\ schema' = (IF option = NoSchema THEN saved ELSE option) /\ saved' = schema'
      /\ {saved, option} \intersect {NoSchema} = {} => Compatible(saved, option)
      /\ push' = Idle /\ tx' = NoTx /\ conns' = [c \in Clients |-> Off]
      /\ UNCHANGED <<data, list>>
  BY DEF Restart
<1>2. saved = schema
  BY <1>1 DEF CInv, SavedPart, AfterPart, Loose, Idle
<1>3. FitAll(list)
  BY <1>1 DEF CInv, ListPart, AfterPart, Loose, Idle
<1>4. TypeOK'
  BY StepType DEF CInv, Next
<1>5. ConnPart' /\ TxPart' /\ LoosePart'
  BY <1>1 DEF ConnPart, TxPart, LoosePart, Loose, Off, NoTx
<1>6. CheckPart' /\ UpdatePart' /\ AfterPart' /\ SavedPart'
  BY <1>1 DEF CheckPart, UpdatePart, AfterPart, SavedPart, Idle
<1>7. ListPart' /\ DataPart'
  <2>1. CASE schema = NoSchema
    BY <1>1, <1>3, <2>1, NothingKept DEF CInv, TypeOK, ListPart, FitAll
  <2>2. CASE schema # NoSchema /\ option = NoSchema
    BY <1>1, <1>2, <1>3, <2>2 DEF CInv, ListPart, FitAll, DataPart
  <2>3. CASE schema # NoSchema /\ option # NoSchema
    <3>1. schema' \in Schemas /\ Compatible(schema, schema')
      BY <1>1, <1>2, <2>3 DEF Options
    <3> QED BY <1>1, <1>3, <2>3, <3>1, CompatibleKeeps DEF CInv, TypeOK, ListPart, FitAll
  <2> QED BY <2>1, <2>2, <2>3
<1> QED BY <1>4, <1>5, <1>6, <1>7 DEF CInv

(* A connection that is there runs beside no loose push.                   *)
LEMMA ConnectedStep ==
  ASSUME CInv, NEW c \in Clients, conns[c].step \notin {"off", "refused"}
  PROVE  ~Loose /\ FitAll(list)
BY DEF CInv, LoosePart, Quiet, ListPart, AfterPart, Loose, Idle

(* A handler of one connection ends with a step that its schema justifies. *)
LEMMA AtStep ==
  ASSUME CInv, NEW c \in Clients, conns[c].step \notin {"off", "refused"}, NEW step, At(c, step),
         step \in {"synced", "allowed", "adding"} => Allows(conns[c].schema, schema),
         step # "adding", UNCHANGED <<schema, push, tx>>
  PROVE  ConnPart' /\ LoosePart'
<1>1. LoosePart'
  BY ConnectedStep DEF LoosePart, Loose
<1>2. conns' = [conns EXCEPT ![c] = conns'[c]]
  BY DEF At, CInv, TypeOK
<1>3. conns'[c] = Off \/ (conns'[c].step = step /\ conns'[c].schema = conns[c].schema)
  BY DEF At, CInv, TypeOK, Conns
<1>4. ConnPart'
  <2>1. \A d \in Clients \ {c} : conns'[d] = conns[d]
    BY <1>2 DEF CInv, TypeOK
  <2> QED BY <1>3, <2>1 DEF CInv, ConnPart, FitAll, Off
<1> QED BY <1>1, <1>4

(* A handshake goes on only with a schema that fits.                       *)
LEMMA HandshakeStep ==
  ASSUME Careful, CInv, NEW c \in Clients,
         \/ \E s \in ClientSchemas : Open(c, s)
         \/ Start(c) \/ HandleSchemaResponse(c) \/ AllowClientToSync(c) \/ Close(c)
  PROVE  ConnPart' /\ LoosePart'
<1>1. ASSUME NEW s \in ClientSchemas, Open(c, s) PROVE ConnPart' /\ LoosePart'
  <2>1. LoosePart'
    BY <1>1 DEF Open, LoosePart, Loose
  <2>2. \A d \in Clients \ {c} : conns'[d] = conns[d]
    BY <1>1 DEF Open, CInv, TypeOK
  <2>3. conns'[c].schema = s /\ (conns'[c].step = "synced" => s = NoSchema)
        /\ conns'[c].step \in {"synced", "refused", "started"}
    BY <1>1 DEF Open, CInv, TypeOK
  <2>4. schema' = schema
    BY <1>1 DEF Open
  <2> QED BY <2>1, <2>2, <2>3, <2>4 DEF CInv, ConnPart, FitAll
<1>2. CASE Start(c)
  <2>1. conns[c].schema \in list => Allows(conns[c].schema, schema)
    BY <1>2, ConnectedStep DEF Start, FitAll
  <2> QED BY <1>2, <2>1, AtStep DEF Start
<1>3. CASE HandleSchemaResponse(c)
  BY <1>3, AtStep DEF HandleSchemaResponse
<1>4. CASE AllowClientToSync(c)
  <2>1. Allows(conns[c].schema, schema) /\ ~Loose /\ FitAll(list)
    <3>1. conns[c].schema \in Schemas
      BY <1>4 DEF AllowClientToSync, CInv, TypeOK, Conns
    <3>2. conns[c].schema # NoSchema
      BY <3>1, SchemasAssumption
    <3> QED BY <1>4, <3>2, ConnectedStep DEF AllowClientToSync, CInv, ConnPart
  <2>2. CASE conns[c].schema \in list
    BY <1>4, <2>1, <2>2, AtStep DEF AllowClientToSync
  <2>3. CASE conns[c].schema \notin list
    <3>1. UNCHANGED <<schema, push, tx>>
          /\ conns' = [conns EXCEPT ![c] = [@ EXCEPT !.step = "adding", !.seen = list]]
      BY <1>4, <2>3 DEF AllowClientToSync
    <3>2. \A d \in Clients \ {c} : conns'[d] = conns[d]
      BY <3>1 DEF CInv, TypeOK
    <3>3. conns'[c].seen = list /\ conns'[c].schema = conns[c].schema
      BY <3>1 DEF CInv, TypeOK, Conns
    <3> QED BY <2>1, <3>1, <3>2, <3>3 DEF CInv, ConnPart, FitAll, LoosePart, Loose
  <2> QED BY <2>2, <2>3
<1>5. CASE Close(c)
  <2>1. \A d \in Clients \ {c} : conns'[d] = conns[d]
    BY <1>5 DEF Close, CInv, TypeOK
  <2>2. \/ conns'[c] = Off
        \/ /\ conns[c].step \in {"started", "allowed", "adding"}
           /\ conns'[c].step = conns[c].step /\ conns'[c].schema = conns[c].schema
           /\ conns'[c].seen = conns[c].seen
    BY <1>5 DEF Close, CInv, TypeOK, Conns
  <2>3. UNCHANGED <<schema, push, tx>>
    BY <1>5 DEF Close
  <2>4. ConnPart'
    BY <2>1, <2>2, <2>3 DEF CInv, ConnPart, FitAll, Off
  <2>5. LoosePart'
    BY <2>1, <2>2, <2>3 DEF CInv, LoosePart, Loose, Quiet, Off
  <2> QED BY <2>4, <2>5
<1> QED BY <1>1, <1>2, <1>3, <1>4, <1>5

(* What the list was when the handshake read it fits the schema still.     *)
LEMMA AddToListStep ==
  ASSUME CInv, NEW c \in Clients, AddToList(c)
  PROVE  ConnPart' /\ LoosePart' /\ ListPart'
<1>1. conns[c].step = "adding" /\ UNCHANGED <<schema, push, tx>>
      /\ list' = conns[c].seen \union {conns[c].schema}
  BY DEF AddToList
<1>2. conns[c].schema # NoSchema
  <2>1. conns[c].schema \in Schemas
    BY <1>1 DEF CInv, TypeOK, Conns
  <2> QED BY <2>1, SchemasAssumption
<1>3. Allows(conns[c].schema, schema) /\ FitAll(conns[c].seen)
  BY <1>1, <1>2 DEF CInv, ConnPart
<1>4. ConnPart' /\ LoosePart'
  BY <1>1, <1>3, AtStep DEF AddToList
<1>5. ListPart'
  BY <1>1, <1>3 DEF ListPart, FitAll
<1> QED BY <1>4, <1>5

(* Writers wrote under a schema that the current one is compatible with.   *)
LEMMA BeginStep ==
  ASSUME Careful, CInv, NEW w \in Clients \union {Server}, NEW i \in Ids, NEW ch \in Write,
         Begin(w, i, ch)
  PROVE  TxPart' /\ LoosePart'
<1>1. ~Loose /\ UNCHANGED <<schema, push, conns>>
      /\ tx' = [step |-> "begun", id |-> i, change |-> ch]
  BY DEF Begin
<1>2. Writable(schema, ch)
  <2>1. CASE w = Server
    BY <2>1 DEF Begin
  <2>2. CASE w # Server
    <3>1. w \in Clients /\ conns[w].step = "synced" /\ Writable(conns[w].schema, ch)
      BY <2>2 DEF Begin
    <3>2. conns[w].schema # NoSchema /\ conns[w].schema \in Options
      BY <3>1 DEF Writable, CInv, TypeOK, Conns, Options
    <3>3. Allows(conns[w].schema, schema)
      BY <3>1, <3>2 DEF CInv, ConnPart
    <3> QED BY <3>1, <3>2, <3>3, CompatibleWritable DEF Allows, CInv, TypeOK, Options
  <2> QED BY <2>1, <2>2
<1> QED BY <1>1, <1>2 DEF TxPart, LoosePart, Loose

(* What is applied makes an entity of the current schema.                  *)
LEMMA ApplyStep ==
  ASSUME CInv, ApplyChanges
  PROVE  TxPart' /\ LoosePart'
<1>1. tx.step = "begun" /\ tx # NoTx /\ UNCHANGED <<schema, push, conns>>
  BY DEF ApplyChanges, NoTx
<1>2. tx.id \in Ids /\ Writable(schema, tx.change) /\ schema \in Schemas /\ schema # NoSchema
  BY <1>1 DEF CInv, TypeOK, Txs, NoTx, TxPart, Writable, Options
<1>3. LoosePart'
  BY <1>1 DEF CInv, LoosePart, Loose, Quiet
<1>4. TxPart'
  <2>1. CASE tx' = NoTx
    BY <2>1 DEF TxPart, NoTx
  <2>2. CASE tx' = [step |-> "applied", id |-> tx.id, next |-> NoEntity]
    BY <1>1, <1>2, <2>2 DEF TxPart
  <2>3. ASSUME tx.change # NoEntity, data[tx.id] # NoEntity \/ Id \in DOMAIN tx.change,
               tx' = [step |-> "applied", id |-> tx.id, next |-> Merged(data[tx.id], tx.change)]
        PROVE  TxPart'
    <3>1. Conforms(schema, Merged(data[tx.id], tx.change))
      BY <1>2, <2>3, MergedConforms DEF CInv, DataPart
    <3> QED BY <1>1, <1>2, <2>3, <3>1 DEF TxPart
  <2> QED BY <2>1, <2>2, <2>3 DEF ApplyChanges
<1> QED BY <1>3, <1>4

(* And is stored under it, for no loose push runs meanwhile.               *)
LEMMA CommitStep ==
  ASSUME CInv, Commit
  PROVE  CInv'
<1>1. /\ tx.step = "applied" /\ tx # NoTx /\ tx' = NoTx
      /\ data' = [data EXCEPT ![tx.id] = tx.next]
      /\ UNCHANGED <<schema, saved, list, push, conns>>
  BY DEF Commit, NoTx
<1>2. ~Loose
  BY <1>1 DEF CInv, LoosePart, Quiet
<1>3. TypeOK'
  BY StepType DEF CInv, Next
<1>4. DataPart'
  BY <1>1 DEF CInv, TypeOK, TxPart, DataPart
<1>5. TxPart' /\ LoosePart'
  BY <1>1, <1>2 DEF TxPart, NoTx, LoosePart, Loose
<1>6. CheckPart' /\ UpdatePart' /\ AfterPart'
  BY <1>1, <1>2 DEF CInv, CheckPart, UpdatePart, AfterPart, FitAll, Loose, Idle
<1> QED BY <1>1, <1>3, <1>4, <1>5, <1>6, Frames DEF CInv

(* Every step keeps the invariant, when pushes are careful.                *)
LEMMA StepInv == ASSUME Careful PROVE CInv /\ [Next]_vars => CInv'
<1> SUFFICES ASSUME CInv, [Next]_vars PROVE CInv'
  OBVIOUS
<1>a. TypeOK'
  BY StepType DEF CInv
<1>1. ASSUME NEW s \in Schemas, NEW strict \in BOOLEAN, OverrideSchema(s, strict) PROVE CInv'
  <2>1. UNCHANGED <<schema, data, tx, conns>>
    BY <1>1 DEF OverrideSchema
  <2> QED BY <1>a, <1>1, <2>1, OverrideStep, Frames DEF CInv
<1>2. ASSUME NEW a \in Attrs, CheckEdit(a) PROVE CInv'
  <2>1. UNCHANGED <<schema, data, tx, conns>>
    BY <1>2 DEF CheckEdit
  <2> QED BY <1>a, <1>2, <2>1, CheckStep, Frames DEF CInv
<1>3. CASE Decide
  <2>1. UNCHANGED <<schema, data, tx, conns>>
    BY <1>3 DEF Decide
  <2> QED BY <1>a, <1>3, <2>1, DecideStep, Frames DEF CInv
<1>4. CASE UpdateSchema \/ SchemaChanged \/ SetCompatibilityList \/ Restore \/ Commit
  BY <1>4, UpdateStep, SchemaChangedStep, SetListStep, RestoreStep, CommitStep
<1>5. ASSUME NEW full \in BOOLEAN, Clear(full) PROVE CInv'
  BY <1>5, ClearStep
<1>6. ASSUME NEW option \in Options, Restart(option) PROVE CInv'
  BY <1>6, RestartStep
<1>7. ASSUME NEW c \in Clients,
             \/ \E s \in ClientSchemas : Open(c, s)
             \/ Start(c) \/ HandleSchemaResponse(c) \/ AllowClientToSync(c) \/ Close(c)
      PROVE  CInv'
  <2>1. UNCHANGED <<schema, saved, data, list, push, tx>>
    BY <1>7 DEF Open, Start, HandleSchemaResponse, AllowClientToSync, Close
  <2> QED BY <1>a, <1>7, <2>1, HandshakeStep, Frames DEF CInv
<1>8. ASSUME NEW c \in Clients, AddToList(c) PROVE CInv'
  <2>1. UNCHANGED <<schema, saved, data, push, tx>>
    BY <1>8 DEF AddToList
  <2> QED BY <1>a, <1>8, <2>1, AddToListStep, Frames DEF CInv
<1>9. ASSUME NEW w \in Clients \union {Server}, NEW i \in Ids, NEW ch \in Write, Begin(w, i, ch)
      PROVE  CInv'
  <2>1. UNCHANGED <<schema, saved, data, list, push, conns>>
    BY <1>9 DEF Begin
  <2> QED BY <1>a, <1>9, <2>1, BeginStep, Frames DEF CInv
<1>10. CASE ApplyChanges
  <2>1. UNCHANGED <<schema, saved, data, list, push, conns>>
    BY <1>10 DEF ApplyChanges
  <2> QED BY <1>a, <1>10, <2>1, ApplyStep, Frames DEF CInv
<1>11. CASE UNCHANGED vars
  BY <1>a, <1>11, Frames DEF CInv, vars
<1> QED BY <1>1, <1>2, <1>3, <1>4, <1>5, <1>6, <1>7, <1>8, <1>9, <1>10, <1>11 DEF Next

-----------------------------------------------------------------------------
(* The theorems.                                                           *)

(* The invariant of pushes made as the documentation asks: what each step of *)
(* a push, a handshake and a transaction relies on.                        *)
THEOREM CarefulInvariant == ASSUME Careful PROVE Spec => []CInv
<1>1. CInv /\ [Next]_vars => CInv'
  BY StepInv
<1> QED BY <1>1, InitInv, PTL DEF Spec

(* Whatever compatible pushes run beside the clients, and whatever loose   *)
(* ones without them, no stored entity is one the schema does not allow.   *)
THEOREM CarefulDataConforms == ASSUME Careful PROVE Spec => []DataConforms
<1>1. CInv => DataConforms
  BY DEF CInv, DataPart, DataConforms
<1> QED BY <1>1, CarefulInvariant, PTL

(* No client syncs whose schema the server's is not compatible with.       *)
THEOREM CarefulSyncingFit == ASSUME Careful PROVE Spec => []SyncingFit
<1>1. CInv => SyncingFit
  BY DEF CInv, ConnPart, SyncingFit
<1> QED BY <1>1, CarefulInvariant, PTL

(* No write is refused for a schema that was pushed after it was made.     *)
THEOREM CarefulWritesLand == ASSUME Careful PROVE Spec => []WritesLand
<1>1. CInv => WritesLand
  BY WritableAccepted DEF CInv, TypeOK, TxPart, WritesLand
<1> QED BY <1>1, CarefulInvariant, PTL
=============================================================================
