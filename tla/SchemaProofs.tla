---------------------------- MODULE SchemaProofs ----------------------------
(***************************************************************************)
(* Proofs about the Parser in SchemaSegment, for any words, files and      *)
(* number of calls: what the parser adds to a schema it adds to something  *)
(* that is there, key columns exist, and the schema is the one the file    *)
(* says.  And about the segment: what is loaded from the page is what was  *)
(* written to it.                                                          *)
(***************************************************************************)
EXTENDS SchemaSegment, DataLemmas, FiniteSetTheorems, WellFoundedInduction, TLAPS

-----------------------------------------------------------------------------
\* Where the machine stands: outside of a statement's parentheses, inside them
\* (in the relation added last), or after the name of an attribute.
OutsideStates == {"Init", "Create", "Table", "Semicolon"}

AttributeStates == {"AttributeName", "AttributeTypeInt", "AttributeTypeChar",
                    "CharBegin", "CharValue", "CharEnd", "AttributeTypeNumeric",
                    "NumericBegin", "NumericValue1", "NumericSeparator",
                    "NumericValue2", "NumericEnd", "Not", "Null"}

LEMMA ArrowKinds ==
  ASSUME NEW a \in Arrows
  PROVE  /\ a[3] \notin {"Init", "Create", "Table", "Semicolon"}
               => a[1] \notin {"Init", "Create", "Semicolon"}
         /\ a[3] \in AttributeStates
               => \/ a[1] \in AttributeStates
                  \/ a[1] \in {"CreateTableBegin", "Separator"} /\ a[2] = "name"
         /\ a[1] \in {"Table", "KeyListBegin"} => a[2] = "name"
         /\ a[1] = "CharBegin" => a[2] = "number"
  BY DEF Arrows, AttributeStates

LEMMA Moves ==
  ASSUME NEW s, NEW tok, NEW s2 \in Targets(s, tok)
  PROVE  /\ s2 \notin OutsideStates => s \notin OutsideStates \ {"Table"}
         /\ s2 \in AttributeStates
               => s \in AttributeStates \/ Adds(s, tok) = "attribute"
         /\ s \in {"Table", "KeyListBegin"} => tok \in Names
         /\ s = "CharBegin" => tok \in Numbers
<1>1. PICK a \in Arrows : a[1] = s /\ a[3] = s2 /\ Is(tok, a[2])
  BY DEF Targets
<1> QED
  BY <1>1, ArrowKinds DEF Is, Adds, OutsideStates

-----------------------------------------------------------------------------
\* A set of numbers that is not empty has a least one.
LEMMA LeastNumber ==
  ASSUME NEW S \in SUBSET Nat, S # {}
  PROVE  Min(S) \in S
<1>1. PICK x \in S : \A y \in S : ~(<<y, x>> \in OpToRel(<, Nat))
  BY NatLessThanWellFounded, WFMin
<1>2. \A y \in S : ~(y < x)
  <2>1. \A y \in S : y < x => <<y, x>> \in OpToRel(<, Nat)
    BY Zenon DEF OpToRel
  <2> QED
    BY <1>1, <2>1
<1>3. \A y \in S : x <= y
  BY <1>2
<1> QED
  BY <1>3 DEF Min

\* find_if over the attributes of a relation.
LEMMA NamedIsPlace ==
  ASSUME NEW attributes, Len(attributes) \in Nat, NEW name
  PROVE  Named(attributes, name) \in -1..(Len(attributes) - 1)
<1> DEFINE I == {i \in 1..Len(attributes) : attributes[i].name = name}
<1>1. Named(attributes, name) = (IF I # {} THEN Min(I) ELSE 0) - 1
  BY DEF Named, SelectInSeq
<1>2. I # {} => Min(I) \in I
  BY LeastNumber
<1> QED
  BY <1>1, <1>2

\* What a token adds to a relation is typed, keeps the attributes and keys
\* that are there, and adds keys that exist.
LEMMA ExtendedRelation ==
  ASSUME NEW rel \in Relations, KeysIn(rel), NEW tok, NEW type \in Leftover,
         NEW adds \in {"attribute", "key", "type", "len", "notNull"},
         adds = "attribute" => tok \in Names,
         adds = "len" => tok \in Numbers,
         adds \in {"type", "len", "notNull"} => rel.attributes # << >>,
         adds = "key" => Named(rel.attributes, tok) # -1
  PROVE  /\ Extended(rel, adds, tok, type) \in Relations
         /\ KeysIn(Extended(rel, adds, tok, type))
         /\ Len(Extended(rel, adds, tok, type).attributes)
               = Len(rel.attributes) + (IF adds = "attribute" THEN 1 ELSE 0)
<1> DEFINE n == Len(rel.attributes)
           new == Extended(rel, adds, tok, type)
<1>1. rel.attributes \in Seq(Attributes) /\ n \in Nat /\ rel.primaryKey \in Seq(Nat)
  BY DEF Relations
<1>2. CASE adds = "attribute"
  <2>1. new = [rel EXCEPT !.attributes = Append(rel.attributes, Attribute(tok, type))]
    BY <1>2 DEF Extended
  <2>2. Attribute(tok, type) \in Attributes
    BY <1>2 DEF Attribute, Attributes
  <2>3. /\ Append(rel.attributes, Attribute(tok, type)) \in Seq(Attributes)
        /\ Len(Append(rel.attributes, Attribute(tok, type))) = n + 1
    BY <1>1, <2>2
  <2>4. /\ new \in Relations /\ new.primaryKey = rel.primaryKey
        /\ new.attributes = Append(rel.attributes, Attribute(tok, type))
    BY <2>1, <2>3 DEF Relations
  <2> QED
    BY <1>1, <1>2, <2>3, <2>4 DEF KeysIn
<1>3. CASE adds = "key"
  <2> DEFINE column == Named(rel.attributes, tok)
  <2>1. new = [rel EXCEPT !.primaryKey = Append(rel.primaryKey, column)]
    BY <1>3 DEF Extended
  <2>2. column \in 0..(n - 1)
    BY <1>1, <1>3, NamedIsPlace
  <2>3. Append(rel.primaryKey, column) \in Seq(Nat)
    BY <1>1, <2>2
  <2>4. /\ new \in Relations /\ new.attributes = rel.attributes
        /\ new.primaryKey = Append(rel.primaryKey, column)
    BY <2>1, <2>3 DEF Relations
  <2> HIDE DEF column, new
  <2>5. \A q \in DOMAIN new.primaryKey : new.primaryKey[q] \in 0..(n - 1)
    BY <1>1, <2>2, <2>4 DEF KeysIn
  <2>6. KeysIn(new)
    BY <2>4, <2>5 DEF KeysIn
  <2> QED
    BY <1>1, <1>3, <2>4, <2>6 DEF new
<1>4. CASE adds \in {"type", "len", "notNull"}
  <2>1. PICK attr \in Attributes :
           new = [rel EXCEPT !.attributes = [rel.attributes EXCEPT ![n] = attr]]
    <3>1. n \in DOMAIN rel.attributes /\ rel.attributes[n] \in Attributes
      BY <1>1, <1>4
    <3>2. CASE adds = "type"
      <4> DEFINE attr == [rel.attributes[n] EXCEPT
                            !.type = IF tok = "integer" THEN "Integer" ELSE "Char"]
      <4>1. attr \in Attributes
        BY <3>1 DEF Attributes
      <4> QED
        BY <3>2, <4>1 DEF Extended
    <3>3. CASE adds = "len"
      <4> DEFINE attr == [rel.attributes[n] EXCEPT !.len = Atoi(tok)]
      <4>1. attr \in Attributes
        BY <3>1, <3>3, ParserAssumption DEF Attributes
      <4> QED
        BY <3>3, <4>1 DEF Extended
    <3>4. CASE adds = "notNull"
      <4> DEFINE attr == [rel.attributes[n] EXCEPT !.notNull = TRUE]
      <4>1. attr \in Attributes
        BY <3>1 DEF Attributes
      <4> QED
        BY <3>4, <4>1 DEF Extended
    <3> QED
      BY <1>4, <3>2, <3>3, <3>4
  <2>2. /\ [rel.attributes EXCEPT ![n] = attr] \in Seq(Attributes)
        /\ Len([rel.attributes EXCEPT ![n] = attr]) = n
    <3>0. rel.attributes \in [1..n -> Attributes]
      BY <1>1
    <3>1. [rel.attributes EXCEPT ![n] = attr] \in [1..n -> Attributes]
      BY <3>0
    <3> QED
      BY <1>1, <3>1
  <2>3. /\ new \in Relations /\ new.primaryKey = rel.primaryKey
        /\ new.attributes = [rel.attributes EXCEPT ![n] = attr]
    BY <2>1, <2>2 DEF Relations
  <2> HIDE DEF new
  <2>4. KeysIn(new)
    BY <2>2, <2>3 DEF KeysIn
  <2>5. Len(new.attributes) = n + 0
    BY <1>1, <2>2, <2>3
  <2> QED
    BY <1>4, <2>3, <2>4, <2>5 DEF new
<1> QED
  BY <1>2, <1>3, <1>4

-----------------------------------------------------------------------------
(***************************************************************************)
(* The inductive invariant.  While a parser that began outside of a        *)
(* statement reads, it has a relation when it is inside the parentheses of *)
(* a statement, and that relation an attribute when one has been named.    *)
(***************************************************************************)
BackInv ==
    fresh /\ parse = "reading" =>
        /\ state \notin OutsideStates => schema # << >>
        /\ state \in AttributeStates => Last(schema).attributes # << >>

SchemaInv == /\ schema \in Seq(Relations)
             /\ KeysExist
             /\ BackInv
             /\ BackExists

\* What a token that is accepted adds.
LEMMA AcceptedToken ==
  ASSUME SchemaInv, NEW tok, NEW s2 \in Targets(state, tok), NEW type \in Leftover,
         NEW adds, adds = Adds(state, tok), ~NothingThere(adds), ~NoSuchKey(adds, tok),
         NEW new, new = CASE adds = "relation" -> Append(schema, Relation(tok))
                          [] adds = "nothing"  -> schema
                          [] OTHER -> Front(schema) \o <<Extended(Last(schema), adds, tok, type)>>
  PROVE  /\ new \in Seq(Relations)
         /\ \A k \in DOMAIN new : KeysIn(new[k])
         /\ adds = "relation" => new # << >>
         /\ adds # "relation" /\ schema # << >>
               => /\ new # << >>
                  /\ Len(Last(new).attributes) = Len(Last(schema).attributes)
                                                   + (IF adds = "attribute" THEN 1 ELSE 0)
<1>1. schema \in Seq(Relations) /\ \A k \in DOMAIN schema : KeysIn(schema[k])
  BY DEF SchemaInv, KeysExist
<1>2. CASE adds = "relation"
  <2>1. tok \in Names
    BY <1>2, Moves DEF Adds
  <2>2. Relation(tok) \in Relations /\ KeysIn(Relation(tok))
    BY <2>1 DEF Relation, Relations, KeysIn
  <2> QED
    BY <1>1, <1>2, <2>2
<1>3. CASE adds = "nothing"
  <2>1. schema # << >> => Last(schema) \in Relations
    BY <1>1 DEF Last
  <2> QED
    BY <1>1, <1>3, <2>1 DEF Relations
<1>4. CASE adds \notin {"relation", "nothing"}
  <2>1. adds \in {"attribute", "key", "type", "len", "notNull"}
    BY <1>4 DEF Adds
  <2>2. /\ schema # << >>
        /\ adds \in {"type", "len", "notNull"} => Last(schema).attributes # << >>
    BY <1>4 DEF NothingThere
  <2>3. Last(schema) \in Relations /\ KeysIn(Last(schema))
    BY <1>1, <2>2 DEF Last
  <2>4. /\ adds = "attribute" => tok \in Names
        /\ adds = "len" => tok \in Numbers
    BY Moves DEF Adds
  <2>5. adds = "key" => Named(Last(schema).attributes, tok) # -1
    BY DEF NoSuchKey
  <2> DEFINE last == Last(schema)
             rel  == Extended(last, adds, tok, type)
  <2>6. /\ rel \in Relations /\ KeysIn(rel)
        /\ Len(rel.attributes) = Len(last.attributes)
                                   + (IF adds = "attribute" THEN 1 ELSE 0)
    <3>1. last \in Relations /\ KeysIn(last)
      BY <2>3
    <3>2. adds \in {"type", "len", "notNull"} => last.attributes # << >>
      BY <2>2
    <3>3. adds = "key" => Named(last.attributes, tok) # -1
      BY <2>5
    <3> HIDE DEF last
    <3> QED
      BY ONLY <2>1, <3>1, <3>2, <3>3, <2>4, type \in Leftover, ExtendedRelation
  <2>7. new = Front(schema) \o <<rel>>
    BY <1>4
  <2> HIDE DEF rel
  <2>8. /\ Front(schema) \in Seq(Relations)
        /\ Len(Front(schema)) = Len(schema) - 1
        /\ \A k \in 1..(Len(schema) - 1) : Front(schema)[k] = schema[k]
    BY <1>1, <2>2 DEF Front
  <2>9. /\ new \in Seq(Relations) /\ Len(new) = Len(schema)
        /\ new[Len(schema)] = rel
        /\ \A k \in 1..(Len(schema) - 1) : new[k] = schema[k]
    BY <1>1, <2>2, <2>6, <2>7, <2>8
  <2>10. \A k \in DOMAIN new : KeysIn(new[k])
    BY <1>1, <2>6, <2>9
  <2>11. new # << >> /\ Last(new) = rel
    BY <1>1, <2>2, <2>9 DEF Last
  <2> QED
    BY <1>4, <2>6, <2>9, <2>10, <2>11
<1> QED
  BY <1>2, <1>3, <1>4

LEMMA NextTokenKeeps ==
  ASSUME SchemaInv, NEW tok, NextToken(tok)
  PROVE  SchemaInv'
<1> DEFINE adds == Adds(state, tok)
<1>1. /\ schema \in Seq(Relations) /\ KeysExist /\ BackInv
      /\ parse = "reading" /\ fresh' = fresh
  BY DEF SchemaInv, NextToken
<1>2. CASE parse' = "thrown" /\ schema' = << >>
  BY <1>2 DEF SchemaInv, KeysExist, BackInv, BackExists
<1>3. CASE parse' = "undefined" /\ NothingThere(adds) /\ UNCHANGED <<state, schema>>
  <2>1. /\ state \notin OutsideStates
        /\ adds \in {"type", "len", "notNull"} => state \in AttributeStates
    BY <1>3 DEF NothingThere, Adds, OutsideStates, AttributeStates
  <2>2. ~fresh
    BY <1>1, <1>3, <2>1 DEF BackInv, NothingThere
  <2> QED
    BY <1>1, <1>3, <2>2 DEF SchemaInv, KeysExist, BackInv, BackExists
<1>4. CASE /\ ~NothingThere(adds) /\ ~NoSuchKey(adds, tok)
           /\ state' \in Targets(state, tok) /\ parse' = parse
           /\ \E type \in Leftover :
                schema' = CASE adds = "relation" -> Append(schema, Relation(tok))
                            [] adds = "nothing"  -> schema
                            [] OTHER -> Front(schema) \o <<Extended(Last(schema), adds, tok, type)>>
  <2> DEFINE grown == IF adds = "attribute" THEN 1 ELSE 0
  <2>1. /\ schema' \in Seq(Relations)
        /\ \A k \in DOMAIN schema' : KeysIn(schema'[k])
        /\ adds = "relation" => schema' # << >>
        /\ adds # "relation" /\ schema # << >>
               => /\ schema' # << >>
                  /\ Len(Last(schema').attributes) = Len(Last(schema).attributes) + grown
    BY <1>4, AcceptedToken
  <2>2. KeysExist'
    BY <2>1 DEF KeysExist
  <2>3. /\ state' \notin OutsideStates => state \notin OutsideStates \ {"Table"}
        /\ state' \in AttributeStates => state \in AttributeStates \/ adds = "attribute"
        /\ adds = "relation" <=> state = "Table"
    BY <1>4, Moves DEF Adds
  <2>4. ASSUME fresh
        PROVE  /\ state' \notin OutsideStates => schema' # << >>
               /\ state' \in AttributeStates => Last(schema').attributes # << >>
    <3>1. /\ state \notin OutsideStates => schema # << >>
          /\ state \in AttributeStates => Last(schema).attributes # << >>
      BY <1>1, <2>4 DEF BackInv
    <3>2. ASSUME state' \notin OutsideStates
          PROVE  schema' # << >>
      BY <2>1, <2>3, <3>1, <3>2 DEF OutsideStates
    <3>3. ASSUME state' \in AttributeStates
          PROVE  Last(schema').attributes # << >>
      <4>1. adds # "relation"
        BY <2>3, <3>3 DEF AttributeStates
      <4>2. schema # << >>
        BY <1>4, <2>3, <3>1, <3>3 DEF NothingThere, AttributeStates, OutsideStates
      <4>3. Len(Last(schema).attributes) \in Nat /\ grown \in {0, 1}
        BY <1>1, <4>2 DEF Last, Relations
      <4>4. Len(Last(schema).attributes) + grown > 0
        <5>1. CASE adds = "attribute"
          BY <4>3, <5>1
        <5>2. CASE state \in AttributeStates
          <6>1. Last(schema) \in Relations
            BY <1>1, <4>2 DEF Last
          <6>2. Last(schema).attributes \in Seq(Attributes)
            BY <6>1 DEF Relations
          <6>3. \A q \in Seq(Attributes) : q # << >> => Len(q) > 0
            OBVIOUS
          <6>4. Len(Last(schema).attributes) > 0
            BY <3>1, <5>2, <6>2, <6>3
          <6>5. \A a \in Nat, b \in {0, 1} : a > 0 => a + b > 0
            OBVIOUS
          <6> HIDE DEF grown
          <6> QED
            BY <4>3, <6>4, <6>5
        <5> QED
          BY <2>3, <3>3, <5>1, <5>2
      <4>5. Len(Last(schema').attributes) > 0
        BY <2>1, <4>1, <4>2, <4>4
      <4>6. \A q : q = << >> => Len(q) = 0
        OBVIOUS
      <4> QED
        BY <4>5, <4>6
    <3> QED
      BY <3>2, <3>3
  <2>5. BackInv'
    BY <1>1, <2>4 DEF BackInv
  <2> QED
    BY <1>1, <1>4, <2>1, <2>2, <2>5 DEF SchemaInv, BackExists
<1> QED
  BY <1>2, <1>3, <1>4 DEF NextToken

LEMMA SchemaInvInit ==
  Init => SchemaInv
BY DEF Init, ParserInit, SchemaInv, KeysExist, BackInv, BackExists

LEMMA SchemaInvStep ==
  SchemaInv /\ [Next]_vars => SchemaInv'
<1> SUFFICES ASSUME SchemaInv, [Next]_vars
             PROVE  SchemaInv'
  OBVIOUS
\* Most steps leave the schema, or empty it, and do not read.
<1>1. ASSUME schema' \in {schema, << >>}, parse' # "reading", parse' # "undefined"
      PROVE  SchemaInv'
  <2>1. schema \in Seq(Relations) /\ << >> \in Seq(Relations)
    BY DEF SchemaInv
  <2>2. schema' \in Seq(Relations)
    BY <1>1, <2>1
  <2> QED
    BY <1>1, <2>2 DEF SchemaInv, KeysExist, BackInv, BackExists
<1>2. ASSUME UNCHANGED <<state, schema, parse, fresh>>
      PROVE  SchemaInv'
  BY <1>2 DEF SchemaInv, KeysExist, BackInv, BackExists
<1>3. ASSUME ParserStep
      PROVE  SchemaInv'
  <2>1. ASSUME NEW opens \in BOOLEAN, Parse(opens)
        PROVE  SchemaInv'
    <3>1. schema' = << >> /\ parse' # "undefined"
      BY <2>1 DEF Parse
    <3>2. fresh' => state' \in {"Init", "Semicolon"}
      BY <2>1 DEF Parse
    <3> QED
      BY <3>1, <3>2 DEF SchemaInv, KeysExist, BackInv, BackExists, OutsideStates, AttributeStates
  <2>2. ASSUME NEW tok \in Tokens, NextToken(tok)
        PROVE  SchemaInv'
    BY <2>2, NextTokenKeeps
  <2>3. CASE EndOfFile
    BY <1>1, <2>3 DEF EndOfFile
  <2> QED
    BY <1>3, <2>1, <2>2, <2>3 DEF ParserStep, ParserNext
<1>4. ASSUME NEW s \in Built, Build(s)
      PROVE  SchemaInv'
  <2>1. schema' \in Seq(Relations) /\ \A k \in DOMAIN schema' : KeysIn(schema'[k])
    BY <1>4, BuiltAssumption DEF Build
  <2>2. parse' = "built"
    BY <1>4 DEF Build
  <2> QED
    BY <2>1, <2>2 DEF SchemaInv, KeysExist, BackInv, BackExists
<1>5. CASE Write
  BY <1>1, <1>5 DEF Write
<1>6. CASE Load
  BY <1>1, <1>6 DEF Load, Between
<1>7. CASE Evict
  BY <1>2, <1>7 DEF Evict, parserVars
<1>8. ASSUME NEW killed \in BOOLEAN, Restart(killed)
      PROVE  SchemaInv'
  BY <1>1, <1>8 DEF Restart
<1>9. CASE Undefined \/ UNCHANGED vars
  BY <1>2, <1>9 DEF Undefined, vars, parserVars
<1> QED
  BY <1>3, <1>4, <1>5, <1>6, <1>7, <1>8, <1>9 DEF Next

LEMMA SchemaInvariant ==
  Spec => []SchemaInv
BY SchemaInvInit, SchemaInvStep, PTL DEF Spec

(***************************************************************************)
(* Whatever words the files have, however often a Parser is used again and *)
(* wherever files end: every key column of a schema is an attribute of its *)
(* relation.                                                               *)
(***************************************************************************)
THEOREM KeyColumnsExist ==
  Spec => []KeysExist
<1>1. SchemaInv => KeysExist
  BY DEF SchemaInv
<1> QED
  BY <1>1, SchemaInvariant, PTL

(***************************************************************************)
(* A parser that begins a file between statements never takes back() of an *)
(* empty vector, whatever the file has.                                    *)
(***************************************************************************)
THEOREM FreshParserIsSafe ==
  Spec => []BackExists
<1>1. SchemaInv => BackExists
  BY DEF SchemaInv
<1> QED
  BY <1>1, SchemaInvariant, PTL

-----------------------------------------------------------------------------
(***************************************************************************)
(* What a file says, and what one more token changes of it.                *)
(***************************************************************************)
\* Places are a finite set, and ranks count them.
LEMMA Ranks ==
  ASSUME NEW n \in Nat, NEW S \in SUBSET (1..n)
  PROVE  /\ Cardinality(S) \in Nat
         /\ \A i \in Int : Rank(i, S) \in 0..Cardinality(S)
         /\ \A i \in S : Rank(i, S) \in 1..Cardinality(S)
         /\ \A i \in S, j \in S : i < j => Rank(i, S) < Rank(j, S)
<1>1. IsFiniteSet(1..n)
  BY FS_Interval
<1>2. \A T \in SUBSET S : IsFiniteSet(T) /\ Cardinality(T) \in Nat
  BY <1>1, FS_Subset, FS_CardinalityType
<1>3. Cardinality(S) \in Nat
  BY <1>2
<1>4. ASSUME NEW i \in Int
      PROVE  Rank(i, S) \in 0..Cardinality(S)
  <2>1. {j \in S : j <= i} \in SUBSET S
    OBVIOUS
  <2>2. Cardinality({j \in S : j <= i}) <= Cardinality(S)
    BY <1>2, <2>1, FS_Subset
  <2> QED
    BY <1>2, <1>3, <2>1, <2>2 DEF Rank
<1>5. ASSUME NEW i \in S, NEW j \in S, i < j
      PROVE  Rank(i, S) < Rank(j, S)
  <2> DEFINE A == {x \in S : x <= i}
             B == {x \in S : x <= j}
  <2>1. A \subseteq B /\ A # B /\ B \in SUBSET S
    <3>1. j \in B /\ j \notin A
      BY <1>5
    <3>2. \A x \in S : x <= i => x <= j
      BY <1>5
    <3>3. A \subseteq B /\ B \in SUBSET S
      BY <3>2
    <3> QED
      BY <3>1, <3>3
  <2>2. Cardinality(A) < Cardinality(B)
    <3>1. IsFiniteSet(B)
      BY <1>2, <2>1
    <3> HIDE DEF A, B
    <3>2. Cardinality(A) <= Cardinality(B) /\ (Cardinality(A) = Cardinality(B) => A = B)
      BY <2>1, <3>1, FS_Subset
    <3>3. Cardinality(A) \in Nat /\ Cardinality(B) \in Nat
      BY <1>2, <2>1
    <3> QED
      BY <2>1, <3>2, <3>3
  <2> QED
    BY <2>2 DEF Rank
<1>6. ASSUME NEW i \in S
      PROVE  Rank(i, S) >= 1
  <2> DEFINE A == {x \in S : x <= i}
  <2>1. i \in A /\ A \in SUBSET S
    OBVIOUS
  <2>2. IsFiniteSet(A) /\ Cardinality(A) \in Nat
    BY <1>2, <2>1
  <2>3. Cardinality(A) # 0
    BY <2>1, <2>2, FS_EmptySet
  <2> QED
    BY <2>2, <2>3 DEF Rank
<1> QED
  BY <1>3, <1>4, <1>5, <1>6

\* One more place, after the others, is the last.
LEMMA RankAfterAppend ==
  ASSUME NEW n \in Nat, NEW S \in SUBSET (1..n), NEW new \in Nat, n < new
  PROVE  /\ \A i \in Int : i <= n => Rank(i, S \cup {new}) = Rank(i, S)
         /\ Rank(new, S \cup {new}) = Cardinality(S) + 1
         /\ Rank(new, S) = Cardinality(S)
         /\ Cardinality(S \cup {new}) = Cardinality(S) + 1
<1>1. \A x \in S : x \in Int /\ 1 <= x /\ x <= n
  OBVIOUS
<1>2. IsFiniteSet(S) /\ new \notin S
  <2>1. IsFiniteSet(1..n)
    BY FS_Interval
  <2>2. IsFiniteSet(S)
    BY <2>1, FS_Subset
  <2>3. new \notin S
    BY <1>1
  <2> QED
    BY <2>2, <2>3
<1>3. Cardinality(S \cup {new}) = Cardinality(S) + 1
  BY <1>2, FS_AddElement
<1>4. \A i \in Int : i <= n =>
         {j \in S \cup {new} : j <= i} = {j \in S : j <= i}
  OBVIOUS
<1>5. \A j \in S \cup {new} : j <= new
  BY <1>1
<1>6. {j \in S \cup {new} : j <= new} = S \cup {new} /\ {j \in S : j <= new} = S
  BY <1>5
<1> QED
  BY <1>3, <1>4, <1>6 DEF Rank

\* The depth after one more token.
LEMMA DepthAfterAppend ==
  ASSUME NEW file, file \in Seq(Tokens), NEW tok \in Tokens
  PROVE  LET n == Len(file)
             more == Append(file, tok)
         IN  /\ \A i \in 1..(n + 1) : Depth(more, i) = Depth(file, i) /\ Depth(file, i) \in Int
             /\ tok = "(" => Depth(more, n + 2) = Depth(file, n + 1) + 1
             /\ tok = ")" => Depth(more, n + 2) = Depth(file, n + 1) - 1
             /\ tok \notin {"(", ")"} => Depth(more, n + 2) = Depth(file, n + 1)
<1> DEFINE n == Len(file)
           more == Append(file, tok)
           In(f, i, mark) == {k \in 1..(i - 1) : f[k] = mark}
<1>1. n \in Nat /\ (\A k \in 1..n : more[k] = file[k]) /\ more[n + 1] = tok
  OBVIOUS
<1> HIDE DEF more, n
<1>2. \A i \in 1..(n + 1) : \A mark : In(more, i, mark) = In(file, i, mark)
  BY <1>1
<1>3. \A i \in 1..(n + 1) : \A mark : IsFiniteSet(In(file, i, mark)) /\ Cardinality(In(file, i, mark)) \in Nat
  <2> SUFFICES ASSUME NEW i \in 1..(n + 1), NEW mark
               PROVE  IsFiniteSet(In(file, i, mark)) /\ Cardinality(In(file, i, mark)) \in Nat
    OBVIOUS
  <2>1. i - 1 \in Nat
    BY <1>1
  <2>2. IsFiniteSet(1..(i - 1))
    BY <2>1, FS_Interval
  <2> QED
    BY <2>2, FS_Subset, FS_CardinalityType
<1>4. \A mark : In(more, n + 2, mark)
                  = IF tok = mark THEN In(file, n + 1, mark) \cup {n + 1} ELSE In(file, n + 1, mark)
  BY <1>1
<1>5. ASSUME NEW mark
      PROVE  Cardinality(In(more, n + 2, mark))
               = Cardinality(In(file, n + 1, mark)) + (IF tok = mark THEN 1 ELSE 0)
  <2>1. n + 1 \in 1..(n + 1) /\ n + 1 \notin In(file, n + 1, mark)
    BY <1>1
  <2>2. IsFiniteSet(In(file, n + 1, mark)) /\ Cardinality(In(file, n + 1, mark)) \in Nat
    BY <1>3, <2>1
  <2>3. Cardinality(In(file, n + 1, mark) \cup {n + 1}) = Cardinality(In(file, n + 1, mark)) + 1
    BY <2>1, <2>2, FS_AddElement
  <2>4. PICK S, T : S = In(file, n + 1, mark) /\ T = In(more, n + 2, mark)
    OBVIOUS
  <2>5. /\ Cardinality(S) \in Nat /\ Cardinality(S \cup {n + 1}) = Cardinality(S) + 1
        /\ T = IF tok = mark THEN S \cup {n + 1} ELSE S
    BY ONLY <1>4, <2>2, <2>3, <2>4
  <2>6. Cardinality(T) = Cardinality(S) + (IF tok = mark THEN 1 ELSE 0)
    BY ONLY <2>5
  <2> QED
    BY ONLY <2>4, <2>6
<1>6. \A f, i : Depth(f, i) = Cardinality(In(f, i, "(")) - Cardinality(In(f, i, ")"))
  BY DEF Depth
<1> HIDE DEF In
<1>7. \A i \in 1..(n + 1) : Depth(more, i) = Depth(file, i) /\ Depth(file, i) \in Int
  BY <1>2, <1>3, <1>6
<1>8. PICK a \in Nat, b \in Nat : /\ a = Cardinality(In(file, n + 1, "("))
                                  /\ b = Cardinality(In(file, n + 1, ")"))
  BY <1>1, <1>3
<1>9. Depth(file, n + 1) = a - b
  BY <1>6, <1>8
<1>10. Depth(more, n + 2) = (a + (IF tok = "(" THEN 1 ELSE 0)) - (b + (IF tok = ")" THEN 1 ELSE 0))
  BY <1>5, <1>6, <1>8
<1> QED
  BY <1>7, <1>9, <1>10 DEF n, more

\* The places of one more token.
LEMMA PlacesAfterAppend ==
  ASSUME NEW file, file \in Seq(Tokens), NEW tok \in Tokens
  PROVE  LET n == Len(file)
             more == Append(file, tok)
             new(cond) == IF cond THEN {n + 1} ELSE {}
         IN  /\ RelationPlaces(file) \subseteq 1..n
             /\ AttributePlaces(file) \subseteq 1..n
             /\ KeyPlaces(file) \subseteq 1..n
             /\ RelationPlaces(more) = RelationPlaces(file) \cup new(n > 0 /\ file[n] = "table")
             /\ AttributePlaces(more) = AttributePlaces(file) \cup
                   new(/\ tok \in Names /\ Depth(file, n + 1) = 1
                       /\ n > 0 /\ file[n] \in {"(", "comma"})
             /\ KeyPlaces(more) = KeyPlaces(file) \cup
                   new(/\ tok \in Names /\ Depth(file, n + 1) = 2
                       /\ InKeyList(file, n + 1))
             /\ InKeyList(more, n + 2) <=>
                   /\ tok # ")"
                   /\ \/ InKeyList(file, n + 1)
                      \/ tok = "(" /\ Depth(file, n + 1) = 1 /\ n > 0 /\ file[n] = "key"
<1> DEFINE n == Len(file)
           more == Append(file, tok)
<1>1. /\ n \in Nat /\ DOMAIN file = 1..n /\ DOMAIN more = 1..(n + 1)
      /\ (\A k \in 1..n : more[k] = file[k]) /\ more[n + 1] = tok
  OBVIOUS
<1>2. \A i \in 1..(n + 1) : Depth(more, i) = Depth(file, i)
  BY DepthAfterAppend
<1> HIDE DEF more, n
<1>3. \A i \in 1..(n + 1) : InKeyList(more, i) = InKeyList(file, i)
  <2> SUFFICES ASSUME NEW i \in 1..(n + 1)
               PROVE  InKeyList(more, i) = InKeyList(file, i)
    OBVIOUS
  <2>1. \A k \in 2..(i - 1) : /\ Depth(more, k) = Depth(file, k) /\ more[k] = file[k]
                              /\ more[k - 1] = file[k - 1]
                              /\ \A l \in k..(i - 1) : more[l] = file[l]
    BY <1>1, <1>2
  <2> QED
    BY <2>1 DEF InKeyList
<1>4. RelationPlaces(more) = RelationPlaces(file) \cup IF n > 0 /\ file[n] = "table" THEN {n + 1} ELSE {}
  BY <1>1 DEF RelationPlaces
<1>5. AttributePlaces(more) = AttributePlaces(file) \cup
         IF /\ tok \in Names /\ Depth(file, n + 1) = 1
            /\ n > 0 /\ file[n] \in {"(", "comma"} THEN {n + 1} ELSE {}
  BY <1>1, <1>2 DEF AttributePlaces
<1>6. KeyPlaces(more) = KeyPlaces(file) \cup
         IF tok \in Names /\ Depth(file, n + 1) = 2 /\ InKeyList(file, n + 1) THEN {n + 1} ELSE {}
  BY <1>1, <1>2, <1>3 DEF KeyPlaces
<1>7. ASSUME InKeyList(more, n + 2)
      PROVE  /\ tok # ")"
             /\ \/ InKeyList(file, n + 1)
                \/ tok = "(" /\ Depth(file, n + 1) = 1 /\ n > 0 /\ file[n] = "key"
  <2>1. PICK k \in 2..(n + 1) : /\ more[k] = "(" /\ Depth(more, k) = 1 /\ more[k - 1] = "key"
                                /\ \A l \in k..(n + 1) : more[l] # ")"
    BY <1>1, <1>7 DEF InKeyList
  <2>2. tok # ")"
    BY <1>1, <2>1
  <2>3. CASE k = n + 1
    BY <1>1, <1>2, <2>1, <2>2, <2>3
  <2>4. CASE k \in 2..n
    <3>1. /\ file[k] = "(" /\ Depth(file, k) = 1 /\ file[k - 1] = "key"
          /\ \A l \in k..n : file[l] # ")"
      BY <1>1, <1>2, <2>1, <2>4
    <3> QED
      BY <1>1, <2>2, <2>4, <3>1 DEF InKeyList
  <2> QED
    BY <1>1, <2>3, <2>4
<1>8. ASSUME /\ tok # ")"
             /\ \/ InKeyList(file, n + 1)
                \/ tok = "(" /\ Depth(file, n + 1) = 1 /\ n > 0 /\ file[n] = "key"
      PROVE  InKeyList(more, n + 2)
  <2>1. CASE InKeyList(file, n + 1)
    <3>1. PICK k \in 2..n : /\ file[k] = "(" /\ Depth(file, k) = 1 /\ file[k - 1] = "key"
                            /\ \A l \in k..n : file[l] # ")"
      BY <1>1, <2>1 DEF InKeyList
    <3>2. /\ more[k] = "(" /\ Depth(more, k) = 1 /\ more[k - 1] = "key"
          /\ \A l \in k..(n + 1) : more[l] # ")"
      BY <1>1, <1>2, <1>8, <3>1
    <3> QED
      BY <1>1, <3>1, <3>2 DEF InKeyList
  <2>2. CASE tok = "(" /\ Depth(file, n + 1) = 1 /\ n > 0 /\ file[n] = "key"
    <3>1. /\ more[n + 1] = "(" /\ Depth(more, n + 1) = 1 /\ more[n] = "key"
          /\ \A l \in (n + 1)..(n + 1) : more[l] # ")"
      BY <1>1, <1>2, <1>8, <2>2
    <3> QED
      BY <1>1, <2>2, <3>1 DEF InKeyList
  <2> QED
    BY <1>8, <2>1, <2>2
<1>9. /\ RelationPlaces(file) \subseteq 1..n
       /\ AttributePlaces(file) \subseteq 1..n
       /\ KeyPlaces(file) \subseteq 1..n
  BY <1>1 DEF RelationPlaces, AttributePlaces, KeyPlaces
<1>10. InKeyList(more, n + 2) <=>
          (/\ tok # ")"
           /\ \/ InKeyList(file, n + 1)
              \/ tok = "(" /\ Depth(file, n + 1) = 1 /\ n > 0 /\ file[n] = "key")
  BY <1>7, <1>8
<1> QED
  BY <1>4, <1>5, <1>6, <1>9, <1>10 DEF n, more

-----------------------------------------------------------------------------
(***************************************************************************)
(* Where the machine stands in the file: how deep in parentheses, and what *)
(* the last tokens were.                                                   *)
(***************************************************************************)
Level(s) ==
    IF s \in {"Init", "Semicolon", "Create", "Table", "TableName", "CreateTableEnd"} THEN 0
    ELSE IF s \in {"KeyListBegin", "KeyName", "CharBegin", "CharValue", "NumericBegin",
                   "NumericValue1", "NumericSeparator", "NumericValue2"} THEN 2
    ELSE 1

StandsAfter(file, s) ==
    LET n == Len(file) IN
    /\ Depth(file, n + 1) = Level(s)
    /\ s = "Table" <=> n > 0 /\ file[n] = "table"
    /\ s = "Key" <=> n > 0 /\ file[n] = "key"
    /\ s \in {"CreateTableBegin", "Separator"}
          <=> n > 0 /\ Level(s) = 1 /\ file[n] \in {"(", "comma"}
    /\ s \in {"KeyListBegin", "KeyName"} <=> InKeyList(file, n + 1)
    /\ s = "AttributeName" <=> n \in AttributePlaces(file)
    /\ s = "AttributeTypeChar" <=> n - 1 \in AttributePlaces(file) /\ file[n] = "char"
    /\ s = "CharBegin" <=> n - 2 \in AttributePlaces(file) /\ file[n - 1] = "char"

\* Parentheses change the level, and nothing else does.
LEMMA ArrowLevels ==
  ASSUME NEW a \in Arrows
  PROVE  /\ a[2] \in Keywords \cup Marks \cup {"name", "number"}
         /\ a[2] = "(" => Level(a[3]) = Level(a[1]) + 1
         /\ a[2] = ")" => Level(a[3]) = Level(a[1]) - 1
         /\ a[2] \notin {"(", ")"} => Level(a[3]) = Level(a[1])
  BY DEF Arrows, Keywords, Marks, Level

\* A state tells the tokens that lead to it ...
LEMMA ArrowTokens ==
  ASSUME NEW a \in Arrows
  PROVE  /\ a[3] = "Table" <=> a[2] = "table"
         /\ a[3] = "Key" <=> a[2] = "key"
         /\ a[3] \in {"CreateTableBegin", "Separator"}
               <=> Level(a[3]) = 1 /\ a[2] \in {"(", "comma"}
         /\ a[3] \in {"KeyListBegin", "KeyName"}
               <=> /\ a[2] # ")"
                   /\ \/ a[1] \in {"KeyListBegin", "KeyName"}
                      \/ a[2] = "(" /\ a[1] = "Key"
         /\ a[3] = "AttributeName"
               <=> a[1] \in {"CreateTableBegin", "Separator"} /\ a[2] = "name"
         /\ a[3] = "AttributeTypeChar" <=> a[1] = "AttributeName" /\ a[2] = "char"
         /\ a[3] = "CharBegin" <=> a[1] = "AttributeTypeChar"
  BY DEF Arrows, Level

\* ... and those that may follow.
LEMMA ArrowStarts ==
  ASSUME NEW a \in Arrows
  PROVE  /\ a[1] = "Key" => a[2] = "("
         /\ a[1] = "Table" => a[2] = "name"
         /\ a[1] = "KeyListBegin" => a[2] = "name"
         /\ a[1] = "KeyName" => a[2] \notin {"name", "number"}
         /\ a[1] = "CharBegin" => a[2] = "number"
         /\ a[1] \in {"CreateTableBegin", "Separator"} => a[2] # "number"
         /\ a[1] = "AttributeName" => a[2] \in {"integer", "char", "numeric"}
         /\ Level(a[1]) \in {0, 1, 2}
         /\ a[1] \in {"CreateTableBegin", "Separator", "Key"} => Level(a[1]) = 1
         /\ a[1] \in {"KeyListBegin", "KeyName"} => Level(a[1]) = 2
  BY DEF Arrows, Level

\* Names, keywords and marks are told apart.
LEMMA TokenOfClass ==
  ASSUME NEW class \in Keywords \cup Marks \cup {"name", "number"}, NEW tok, Is(tok, class)
  PROVE  /\ tok \in Names <=> class \in {"name", "number"}
         /\ tok \in Names => tok \notin Keywords \cup Marks
         /\ \A w \in Keywords \cup Marks : tok = w <=> class = w
<1>1. Names \cap (Keywords \cup Marks) = {} /\ Numbers \subseteq Names
  BY ParserAssumption
<1>2. {"name", "number"} \cap (Keywords \cup Marks) = {}
  BY DEF Keywords, Marks
<1>3. CASE class = "name"
  BY <1>1, <1>2, <1>3 DEF Is
<1>4. CASE class = "number"
  BY <1>1, <1>2, <1>4 DEF Is
<1>5. CASE class \notin {"name", "number"}
  <2>1. tok = class
    BY <1>5 DEF Is
  <2> QED
    BY <1>1, <1>5, <2>1
<1> QED
  BY <1>3, <1>4, <1>5

\* What a token adds is told by where it stands.
LEMMA PlacesRead ==
  ASSUME NEW file, file \in Seq(Tokens), NEW tok \in Tokens,
         NEW s, StandsAfter(file, s), NEW s2 \in Targets(s, tok)
  PROVE  LET n == Len(file)
             more == Append(file, tok)
             new(cond) == IF cond THEN {n + 1} ELSE {}
         IN  /\ RelationPlaces(more) = RelationPlaces(file) \cup new(Adds(s, tok) = "relation")
             /\ AttributePlaces(more) = AttributePlaces(file) \cup new(Adds(s, tok) = "attribute")
             /\ KeyPlaces(more) = KeyPlaces(file) \cup new(Adds(s, tok) = "key")
             /\ StandsAfter(more, s2)
<1> DEFINE n == Len(file)
           more == Append(file, tok)
           RP == RelationPlaces(file)
           AP == AttributePlaces(file)
           KP == KeyPlaces(file)
<1>1. /\ n \in Nat /\ Len(more) = n + 1
      /\ (\A k \in 1..n : more[k] = file[k]) /\ more[n + 1] = tok
  OBVIOUS
<1>2. PICK a \in Arrows : a[1] = s /\ a[3] = s2 /\ Is(tok, a[2])
  BY DEF Targets
<1>3. /\ a[2] \in Keywords \cup Marks \cup {"name", "number"}
      /\ a[2] = "(" => Level(s2) = Level(s) + 1
      /\ a[2] = ")" => Level(s2) = Level(s) - 1
      /\ a[2] \notin {"(", ")"} => Level(s2) = Level(s)
  BY <1>2, ArrowLevels
<1>4. /\ tok \in Names <=> a[2] \in {"name", "number"}
      /\ \A w \in Keywords \cup Marks : tok = w <=> a[2] = w
  BY <1>2, <1>3, TokenOfClass
<1>5. /\ tok = "(" <=> a[2] = "("
      /\ tok = ")" <=> a[2] = ")"
      /\ tok = "comma" <=> a[2] = "comma"
      /\ tok = "table" <=> a[2] = "table"
      /\ tok = "key" <=> a[2] = "key"
      /\ tok = "char" <=> a[2] = "char"
  BY <1>4 DEF Keywords, Marks
<1>6. /\ s2 = "Table" <=> a[2] = "table"
      /\ s2 = "Key" <=> a[2] = "key"
      /\ s2 \in {"CreateTableBegin", "Separator"}
            <=> Level(s2) = 1 /\ a[2] \in {"(", "comma"}
      /\ s2 \in {"KeyListBegin", "KeyName"}
            <=> /\ a[2] # ")"
                /\ \/ s \in {"KeyListBegin", "KeyName"}
                   \/ a[2] = "(" /\ s = "Key"
      /\ s2 = "AttributeName"
            <=> s \in {"CreateTableBegin", "Separator"} /\ a[2] = "name"
      /\ s2 = "AttributeTypeChar" <=> s = "AttributeName" /\ a[2] = "char"
      /\ s2 = "CharBegin" <=> s = "AttributeTypeChar"
  BY <1>2, ArrowTokens
<1>7. /\ s = "Table" => a[2] = "name"
      /\ s = "KeyListBegin" => a[2] = "name"
      /\ s = "KeyName" => a[2] \notin {"name", "number"}
      /\ s \in {"CreateTableBegin", "Separator"} => a[2] # "number"
      /\ s \in {"CreateTableBegin", "Separator", "Key"} => Level(s) = 1
      /\ s \in {"KeyListBegin", "KeyName"} => Level(s) = 2
  BY <1>2, ArrowStarts
<1>8. /\ Depth(file, n + 1) = Level(s)
      /\ s = "Table" <=> n > 0 /\ file[n] = "table"
      /\ s = "Key" <=> n > 0 /\ file[n] = "key"
      /\ s \in {"CreateTableBegin", "Separator"}
            <=> n > 0 /\ Level(s) = 1 /\ file[n] \in {"(", "comma"}
      /\ s \in {"KeyListBegin", "KeyName"} <=> InKeyList(file, n + 1)
      /\ s = "AttributeName" <=> n \in AP
      /\ s = "AttributeTypeChar" <=> n - 1 \in AP /\ file[n] = "char"
  BY DEF StandsAfter
<1>9. /\ RP \subseteq 1..n /\ AP \subseteq 1..n
      /\ RelationPlaces(more) = RP \cup IF n > 0 /\ file[n] = "table" THEN {n + 1} ELSE {}
      /\ AttributePlaces(more) = AP \cup
            IF /\ tok \in Names /\ Depth(file, n + 1) = 1
               /\ n > 0 /\ file[n] \in {"(", "comma"} THEN {n + 1} ELSE {}
      /\ KeyPlaces(more) = KP \cup
            IF tok \in Names /\ Depth(file, n + 1) = 2 /\ InKeyList(file, n + 1) THEN {n + 1} ELSE {}
      /\ InKeyList(more, n + 2) <=>
            /\ tok # ")"
            /\ \/ InKeyList(file, n + 1)
               \/ tok = "(" /\ Depth(file, n + 1) = 1 /\ n > 0 /\ file[n] = "key"
  BY PlacesAfterAppend
<1>10. /\ tok = "(" => Depth(more, n + 2) = Depth(file, n + 1) + 1
       /\ tok = ")" => Depth(more, n + 2) = Depth(file, n + 1) - 1
       /\ tok \notin {"(", ")"} => Depth(more, n + 2) = Depth(file, n + 1)
  BY DepthAfterAppend
<1> HIDE DEF n, more, RP, AP, KP
<1>11. Adds(s, tok) = "relation" <=> n > 0 /\ file[n] = "table"
  BY <1>8 DEF Adds
<1>12. Adds(s, tok) = "attribute"
          <=> tok \in Names /\ Depth(file, n + 1) = 1 /\ n > 0 /\ file[n] \in {"(", "comma"}
  BY <1>8 DEF Adds
<1>13. Adds(s, tok) = "key"
          <=> tok \in Names /\ Depth(file, n + 1) = 2 /\ InKeyList(file, n + 1)
  <2>1. Adds(s, tok) = "key" <=> s = "KeyListBegin"
    BY DEF Adds
  <2> QED
    BY <1>4, <1>7, <1>8, <2>1
<1>14. Depth(more, n + 2) = Level(s2)
  BY <1>3, <1>5, <1>8, <1>10
<1>15. InKeyList(more, n + 2) <=> s2 \in {"KeyListBegin", "KeyName"}
  BY <1>5, <1>6, <1>7, <1>8, <1>9
<1>16. s2 = "AttributeName" <=> n + 1 \in AttributePlaces(more)
  <2>1. n + 1 \notin AP
    BY <1>1, <1>9
  <2>2. n + 1 \in AttributePlaces(more) <=> Adds(s, tok) = "attribute"
    BY <1>9, <1>12, <2>1
  <2>3. Adds(s, tok) = "attribute" <=> tok \in Names /\ s \in {"CreateTableBegin", "Separator"}
    BY DEF Adds
  <2> QED
    BY <1>4, <1>6, <1>7, <2>2, <2>3
<1>17. \A i \in Int : i <= n => (i \in AttributePlaces(more) <=> i \in AP)
  BY <1>1, <1>9
<1>18. s2 = "AttributeTypeChar" <=> n \in AttributePlaces(more) /\ tok = "char"
  BY <1>1, <1>5, <1>6, <1>8, <1>17
<1>19. s2 = "CharBegin" <=> n - 1 \in AttributePlaces(more) /\ more[n] = "char"
  <2>1. n - 1 \in AttributePlaces(more) <=> n - 1 \in AP
    BY <1>1, <1>17
  <2>2. n - 1 \in AP => more[n] = file[n]
    BY <1>1, <1>9
  <2> QED
    BY <1>6, <1>8, <2>1, <2>2
<1>20. StandsAfter(more, s2)
  <2>1. /\ Len(more) + 1 = n + 2 /\ (n + 1) - 1 = n /\ (n + 1) - 2 = n - 1 /\ n + 1 > 0
        /\ more[n + 1] = tok
    BY <1>1
  <2>2. /\ s2 = "Table" <=> tok = "table"
        /\ s2 = "Key" <=> tok = "key"
        /\ s2 \in {"CreateTableBegin", "Separator"}
              <=> Level(s2) = 1 /\ tok \in {"(", "comma"}
    BY <1>5, <1>6
  <2> QED
    BY <1>1, <1>14, <1>15, <1>16, <1>18, <1>19, <2>1, <2>2 DEF StandsAfter
<1> QED
  BY <1>9, <1>11, <1>12, <1>13, <1>20 DEF n, more, RP, AP, KP

-----------------------------------------------------------------------------
\* At most one more place, after the others.
OneMore(n, new, S, S2) == /\ n \in Nat /\ new \in Nat /\ n < new
                          /\ S \in SUBSET (1..n)
                          /\ S2 # S => S2 = S \cup {new}

\* Which of the places belong to a relation: a new one to the last.
LEMMA PlacesOfAfterAppend ==
  ASSUME NEW n, NEW new, NEW file, NEW more,
         OneMore(n, new, RelationPlaces(file), RelationPlaces(more)),
         NEW places, NEW places2, OneMore(n, new, places, places2),
         NEW k \in Nat
  PROVE  /\ k # Cardinality(RelationPlaces(more)) =>
               PlacesOf(k, places2, more) = PlacesOf(k, places, file)
         /\ places2 = places =>
               PlacesOf(k, places2, more) = PlacesOf(k, places, file)
         /\ k = Cardinality(RelationPlaces(more)) /\ places2 # places =>
               PlacesOf(k, places2, more) = PlacesOf(k, places, file) \cup {new}
<1> DEFINE R  == RelationPlaces(file)
           R2 == RelationPlaces(more)
<1>1. /\ n \in Nat /\ new \in Nat /\ n < new
      /\ R \in SUBSET (1..n) /\ places \in SUBSET (1..n)
      /\ R2 # R => R2 = R \cup {new}
      /\ places2 # places => places2 = places \cup {new}
  BY DEF OneMore
<1>2. \A i \in Int : i <= n => Rank(i, R2) = Rank(i, R)
  <2>1. \A i \in Int : i <= n => Rank(i, R \cup {new}) = Rank(i, R)
    BY <1>1, RankAfterAppend
  <2> QED
    BY <1>1, <2>1
<1>3. Rank(new, R2) = Cardinality(R2)
  <2>1. /\ Rank(new, R \cup {new}) = Cardinality(R) + 1
        /\ Rank(new, R) = Cardinality(R)
        /\ Cardinality(R \cup {new}) = Cardinality(R) + 1
    BY <1>1, RankAfterAppend
  <2> QED
    BY <1>1, <2>1
<1>4. \A i \in places : i \in Int /\ i <= n
  BY <1>1
<1>5. \A i \in places : Rank(i, R2) = Rank(i, R)
  BY <1>2, <1>4
<1>6. PlacesOf(k, places, file) = {i \in places : Rank(i, R) = k}
  BY DEF PlacesOf
<1>7. PlacesOf(k, places2, more) = {i \in places2 : Rank(i, R2) = k}
  BY DEF PlacesOf
<1>8. k # Cardinality(R2) =>
          PlacesOf(k, places2, more) = PlacesOf(k, places, file)
  BY <1>1, <1>3, <1>5, <1>6, <1>7
<1>9. places2 = places =>
          PlacesOf(k, places2, more) = PlacesOf(k, places, file)
  BY <1>1, <1>5, <1>6, <1>7
<1>10. k = Cardinality(R2) /\ places2 # places =>
           PlacesOf(k, places2, more) = PlacesOf(k, places, file) \cup {new}
  BY <1>1, <1>3, <1>5, <1>6, <1>7
<1> QED
  BY <1>8, <1>9, <1>10

\* No place belongs to a relation beyond the last.
LEMMA PlacesOfNone ==
  ASSUME NEW n \in Nat, NEW file, RelationPlaces(file) \in SUBSET (1..n),
         NEW places \in SUBSET (1..n), NEW k \in Nat
  PROVE  /\ PlacesOf(k, places, file) \in SUBSET (1..n)
         /\ k > Cardinality(RelationPlaces(file)) => PlacesOf(k, places, file) = {}
<1> DEFINE R == RelationPlaces(file)
<1>1. /\ Cardinality(R) \in Nat
      /\ \A i \in Int : Rank(i, R) \in 0..Cardinality(R)
  BY Ranks
<1>2. \A i \in places : i \in Int
  OBVIOUS
<1>3. PlacesOf(k, places, file) = {i \in places : Rank(i, R) = k}
  BY DEF PlacesOf
<1> HIDE DEF R
<1>4. ASSUME k > Cardinality(R), NEW i \in places
      PROVE  Rank(i, R) # k
  <2>1. Rank(i, R) \in 0..Cardinality(R)
    BY <1>1, <1>2
  <2> QED
    BY <1>1, <1>4, <2>1
<1> QED
  BY <1>3, <1>4 DEF R

\* An attribute whose type or length is still to come is the last one.
Pending(file, i) == \/ i = Len(file)
                    \/ i = Len(file) - 2 /\ file[Len(file) - 1] = "char"

LEMMA PendingIsLast ==
  ASSUME NEW file, file \in Seq(Tokens), NEW s, StandsAfter(file, s),
         NEW i \in AttributePlaces(file), Pending(file, i)
  PROVE  /\ \A j \in AttributePlaces(file) : j <= i
         /\ \A j \in RelationPlaces(file) : j <= i
         /\ i = Len(file) => s = "AttributeName"
         /\ i # Len(file) => s = "CharBegin"
<1> DEFINE n == Len(file)
<1>1. n \in Nat /\ DOMAIN file = 1..n
  OBVIOUS
<1> HIDE DEF n
<1>2. Names \cap {"table", "char", "("} = {}
  BY ParserAssumption DEF Keywords, Marks
<1>3. /\ \A j \in AttributePlaces(file) : j \in 1..n /\ file[j] \in Names /\ file[j - 1] \in {"(", "comma"}
      /\ \A j \in RelationPlaces(file) : j \in 1..n /\ file[j - 1] = "table"
  BY <1>1 DEF AttributePlaces, RelationPlaces
<1>4. CASE i = n
  <2>1. s = "AttributeName"
    BY <1>4 DEF StandsAfter, n
  <2> QED
    BY <1>1, <1>3, <1>4, <2>1 DEF n
<1>5. CASE i # n
  <2>1. i = n - 2 /\ file[n - 1] = "char"
    BY <1>5 DEF Pending, n
  <2>2. s = "CharBegin"
    BY <2>1 DEF StandsAfter, n
  <2>3. ASSUME NEW j \in AttributePlaces(file) PROVE j <= i
    <3>1. j # n - 1
      BY <1>2, <1>3, <2>1
    <3>2. j # n
      BY <1>3, <2>1
    <3> QED
      BY <1>1, <1>3, <2>1, <3>1, <3>2
  <2>4. ASSUME NEW j \in RelationPlaces(file) PROVE j <= i
    <3>1. j # n - 1
      <4>1. file[n - 2] \in Names
        BY <1>3, <2>1
      <4>2. j = n - 1 => file[n - 2] = "table"
        <5>1. (n - 1) - 1 = n - 2
          BY <1>1
        <5> QED
          BY <1>3, <5>1
      <4> QED
        BY <1>2, <4>1, <4>2
    <3>2. j # n
      BY <1>3, <2>1
    <3> QED
      BY <1>1, <1>3, <2>1, <3>1, <3>2
  <2> QED
    BY <1>5, <2>2, <2>3, <2>4 DEF n
<1> QED
  BY <1>4, <1>5

\* A place after all the others has the last rank, and only it.
LEMMA LastRank ==
  ASSUME NEW n \in Nat, NEW S \in SUBSET (1..n), NEW i \in 1..n, \A j \in S : j <= i
  PROVE  Rank(i, S) = Cardinality(S)
<1>1. {j \in S : j <= i} = S
  OBVIOUS
<1> QED
  BY <1>1 DEF Rank

-----------------------------------------------------------------------------
\* What a file says of an attribute: nothing changes with one more token ...
LEMMA AttributeKept ==
  ASSUME NEW file, file \in Seq(Tokens), NEW tok \in Tokens,
         NEW i \in 1..Len(file), ~Pending(file, i),
         NEW attr, SaysAttribute(file, i, attr),
         NEW attr2, attr2.name = attr.name, attr2.type = attr.type, attr2.len = attr.len
  PROVE  SaysAttribute(Append(file, tok), i, attr2)
<1> DEFINE n == Len(file)
           more == Append(file, tok)
<1>1. /\ n \in Nat /\ Len(more) = n + 1
      /\ \A k \in 1..n : more[k] = file[k]
  OBVIOUS
<1> HIDE DEF n, more
<1>2. i \in 1..n /\ i # n
  BY DEF Pending, n
<1>3. i < n /\ i < n + 1 /\ more[i] = file[i] /\ more[i + 1] = file[i + 1]
  BY <1>1, <1>2
<1>4. file[i + 1] = "char" => i # n - 2
  <2>1. i = n - 2 => i + 1 = n - 1
    BY <1>1
  <2> QED
    BY <2>1 DEF Pending, n
<1>5. file[i + 1] = "char" => (i + 3 <= n <=> i + 3 <= n + 1)
  BY <1>1, <1>2, <1>4
<1>6. i + 3 <= n => more[i + 3] = file[i + 3]
  BY <1>1, <1>2
<1>7. /\ attr.name = file[i]
      /\ attr.type \in CASE file[i + 1] = "integer" -> {"Integer"}
                         [] file[i + 1] = "char"    -> {"Char"}
                         [] OTHER                   -> Leftover
      /\ attr.len = IF file[i + 1] = "char" /\ i + 3 <= n THEN Atoi(file[i + 3]) ELSE -1
  BY <1>3 DEF SaysAttribute, n
<1>8. /\ attr2.name = more[i]
      /\ attr2.type \in CASE more[i + 1] = "integer" -> {"Integer"}
                          [] more[i + 1] = "char"    -> {"Char"}
                          [] OTHER                   -> Leftover
      /\ attr2.len = IF more[i + 1] = "char" /\ i + 3 <= n + 1 THEN Atoi(more[i + 3]) ELSE -1
  BY <1>3, <1>5, <1>6, <1>7
<1> QED
  BY <1>1, <1>3, <1>8 DEF SaysAttribute, more

\* ... unless its type was to come ...
LEMMA TypeSaid ==
  ASSUME NEW file, file \in Seq(Tokens), NEW tok \in Tokens, file # << >>,
         NEW attr, SaysAttribute(file, Len(file), attr),
         NEW attr2, attr2.name = attr.name, attr2.len = attr.len,
         attr2.type = CASE tok = "integer" -> "Integer" [] tok = "char" -> "Char" [] OTHER -> attr.type
  PROVE  SaysAttribute(Append(file, tok), Len(file), attr2)
<1> DEFINE n == Len(file)
           more == Append(file, tok)
<1>1. /\ n \in Nat /\ Len(more) = n + 1 /\ n > 0
      /\ \A k \in 1..n : more[k] = file[k]
      /\ more[n + 1] = tok
  OBVIOUS
<1> HIDE DEF n, more
<1>2. attr.name = file[n] /\ attr.type \in Leftover /\ attr.len = -1
  <2>1. ~(n < n)
    BY <1>1
  <2> QED
    BY <2>1 DEF SaysAttribute, n
<1>3. n < n + 1 /\ ~(n + 3 <= n + 1) /\ more[n] = file[n]
  BY <1>1
<1>4. attr2.type \in CASE tok = "integer" -> {"Integer"} [] tok = "char" -> {"Char"} [] OTHER -> Leftover
  BY <1>2
<1>5. SaysAttribute(more, n, attr2)
  BY <1>1, <1>2, <1>3, <1>4 DEF SaysAttribute
<1> QED
  BY <1>5 DEF n, more

\* ... or its length.
LEMMA LengthSaid ==
  ASSUME NEW file, file \in Seq(Tokens), NEW tok \in Tokens,
         NEW i \in 1..Len(file), i = Len(file) - 2, file[Len(file) - 1] = "char",
         NEW attr, SaysAttribute(file, i, attr),
         NEW attr2, attr2.name = attr.name, attr2.type = attr.type, attr2.len = Atoi(tok)
  PROVE  SaysAttribute(Append(file, tok), i, attr2)
<1> DEFINE n == Len(file)
           more == Append(file, tok)
<1>1. /\ n \in Nat /\ Len(more) = n + 1
      /\ \A k \in 1..n : more[k] = file[k]
      /\ more[n + 1] = tok
  OBVIOUS
<1>2. i \in 1..n /\ i = n - 2 /\ file[n - 1] = "char"
  OBVIOUS
<1> HIDE DEF n, more
<1>3. i < n /\ i < n + 1 /\ i + 1 = n - 1 /\ i + 3 = n + 1 /\ i + 1 \in 1..n /\ i + 3 <= n + 1
  BY <1>2, <1>1
<1>4. more[i] = file[i] /\ more[i + 1] = "char" /\ file[i + 1] = "char" /\ more[i + 3] = tok
  BY <1>2, <1>1, <1>3
<1>5. attr.name = file[i] /\ attr.type = "Char"
  BY <1>3, <1>4 DEF SaysAttribute, n
<1>6. SaysAttribute(more, i, attr2)
  BY <1>1, <1>3, <1>4, <1>5 DEF SaysAttribute
<1> QED
  BY <1>6 DEF more

-----------------------------------------------------------------------------
\* find_if returns the first attribute of the name.
LEMMA NamedIsFirst ==
  ASSUME NEW attributes, Len(attributes) \in Nat, NEW name, Named(attributes, name) # -1
  PROVE  /\ Named(attributes, name) \in 0..(Len(attributes) - 1)
         /\ attributes[Named(attributes, name) + 1].name = name
         /\ \A j \in 1..Named(attributes, name) : attributes[j].name # name
<1> DEFINE I == {i \in 1..Len(attributes) : attributes[i].name = name}
           column == Named(attributes, name)
<1>1. column = (IF I # {} THEN Min(I) ELSE 0) - 1
  BY DEF Named, SelectInSeq
<1>2. I # {} /\ I \in SUBSET Nat
  BY <1>1
<1>3. PICK x \in I : \A j \in I : x <= j
  <2>1. PICK x \in I : \A y \in I : ~(<<y, x>> \in OpToRel(<, Nat))
    BY <1>2, NatLessThanWellFounded, WFMin
  <2>2. \A y \in I : y < x => <<y, x>> \in OpToRel(<, Nat)
    BY <1>2, Zenon DEF OpToRel
  <2>3. \A y \in I : ~(y < x)
    BY <2>1, <2>2
  <2>4. \A y \in I : x <= y
    BY <1>2, <2>3
  <2> QED
    BY <2>4
<1>4. Min(I) = x
  <2>1. \A y \in I : (\A j \in I : y <= j) => y = x
    BY <1>2, <1>3
  <2>2. Min(I) = CHOOSE y \in I : \A j \in I : y <= j
    BY DEF Min
  <2> QED
    BY <1>3, <2>1, <2>2
<1>5. x \in 1..Len(attributes) /\ attributes[x].name = name
  OBVIOUS
<1>6. \A j \in 1..(x - 1) : attributes[j].name # name
  <2>1. \A j \in 1..(x - 1) : j \in 1..Len(attributes) /\ ~(x <= j)
    BY <1>5
  <2> QED
    BY <1>3, <2>1
<1>7. column = x - 1
  BY <1>1, <1>2, <1>4
<1>8. x - 1 \in 0..(Len(attributes) - 1) /\ (x - 1) + 1 = x
  BY <1>5
<1> HIDE DEF column
<1> QED
  BY <1>5, <1>6, <1>7, <1>8 DEF column

\* What becomes of the parts of a relation.
LEMMA ExtendedParts ==
  ASSUME NEW rel \in Relations, NEW tok, NEW type,
         NEW adds \in {"attribute", "key", "type", "len", "notNull", "nothing"},
         adds \in {"type", "len", "notNull"} => rel.attributes # << >>,
         NEW new, new = Extended(rel, adds, tok, type),
         NEW n \in Nat, n = Len(rel.attributes)
  PROVE  /\ new.name = rel.name
         /\ new.primaryKey = IF adds = "key" THEN Append(rel.primaryKey, Named(rel.attributes, tok))
                             ELSE rel.primaryKey
         /\ adds = "key" => new.attributes = rel.attributes
         /\ adds = "attribute" => Len(new.attributes) = n + 1
         /\ adds # "attribute" => Len(new.attributes) = n
         /\ adds = "attribute" => new.attributes[n + 1] = Attribute(tok, type)
         /\ \A j \in 1..n :
               /\ new.attributes[j].name = rel.attributes[j].name
               /\ adds # "type" \/ j # n => new.attributes[j].type = rel.attributes[j].type
               /\ adds # "len" \/ j # n => new.attributes[j].len = rel.attributes[j].len
         /\ adds = "type" =>
               new.attributes[n].type = IF tok = "integer" THEN "Integer" ELSE "Char"
         /\ adds = "len" => new.attributes[n].len = Atoi(tok)
<1>1. rel.attributes \in Seq(Attributes) /\ n \in Nat /\ rel.primaryKey \in Seq(Nat)
  BY DEF Relations
<1>2. CASE adds = "attribute"
  <2>1. new = [rel EXCEPT !.attributes = Append(rel.attributes, Attribute(tok, type))]
    BY <1>2 DEF Extended
  <2>2. /\ new.name = rel.name /\ new.primaryKey = rel.primaryKey
        /\ new.attributes = Append(rel.attributes, Attribute(tok, type))
    BY <2>1 DEF Relations
  <2>3. \A y : \A x \in Seq(Attributes) : /\ Len(Append(x, y)) = Len(x) + 1
                                          /\ Append(x, y)[Len(x) + 1] = y
                                          /\ \A j \in 1..Len(x) : Append(x, y)[j] = x[j]
    OBVIOUS
  <2>4. /\ Len(new.attributes) = n + 1
        /\ new.attributes[n + 1] = Attribute(tok, type)
        /\ \A j \in 1..n : new.attributes[j] = rel.attributes[j]
    BY <1>1, <2>2, <2>3
  <2>5. \A j \in 1..n : /\ new.attributes[j].name = rel.attributes[j].name
                         /\ new.attributes[j].type = rel.attributes[j].type
                         /\ new.attributes[j].len = rel.attributes[j].len
    BY <2>4
  <2> QED
    BY ONLY <1>2, <2>2, <2>4, <2>5
<1>3. CASE adds = "key"
  <2>1. new = [rel EXCEPT !.primaryKey = Append(rel.primaryKey, Named(rel.attributes, tok))]
    BY <1>3 DEF Extended
  <2>2. /\ new.name = rel.name /\ new.attributes = rel.attributes
        /\ new.primaryKey = Append(rel.primaryKey, Named(rel.attributes, tok))
    BY <2>1 DEF Relations
  <2>3. Len(new.attributes) = n + 0
    BY <1>1, <2>2
  <2> QED
    BY ONLY <1>3, <2>2, <2>3
<1>4. CASE adds \in {"type", "len", "notNull"}
  <2> DEFINE old == rel.attributes[n]
  <2>0. old \in Attributes
    BY <1>1, <1>4
  <2>1. PICK attr : /\ new = [rel EXCEPT !.attributes = [rel.attributes EXCEPT ![n] = attr]]
                    /\ attr.name = old.name
                    /\ attr.type = IF adds # "type" THEN old.type
                                   ELSE IF tok = "integer" THEN "Integer" ELSE "Char"
                    /\ attr.len = IF adds = "len" THEN Atoi(tok) ELSE old.len
    <3>1. CASE adds = "type"
      <4> DEFINE attr == [old EXCEPT !.type = IF tok = "integer" THEN "Integer" ELSE "Char"]
      <4>1. new = [rel EXCEPT !.attributes = [rel.attributes EXCEPT ![n] = attr]]
        BY <3>1 DEF Extended
      <4>2. /\ attr.name = old.name /\ attr.len = old.len
            /\ attr.type = IF tok = "integer" THEN "Integer" ELSE "Char"
        BY <2>0 DEF Attributes
      <4> QED
        BY <3>1, <4>1, <4>2
    <3>2. CASE adds = "len"
      <4> DEFINE attr == [old EXCEPT !.len = Atoi(tok)]
      <4>1. new = [rel EXCEPT !.attributes = [rel.attributes EXCEPT ![n] = attr]]
        BY <3>2 DEF Extended
      <4>2. attr.name = old.name /\ attr.type = old.type /\ attr.len = Atoi(tok)
        BY <2>0 DEF Attributes
      <4> QED
        BY <3>2, <4>1, <4>2
    <3>3. CASE adds = "notNull"
      <4> DEFINE attr == [old EXCEPT !.notNull = TRUE]
      <4>1. new = [rel EXCEPT !.attributes = [rel.attributes EXCEPT ![n] = attr]]
        BY <3>3 DEF Extended
      <4>2. attr.name = old.name /\ attr.type = old.type /\ attr.len = old.len
        BY <2>0 DEF Attributes
      <4> QED
        BY <3>3, <4>1, <4>2
    <3> QED
      BY <1>4, <3>1, <3>2, <3>3
  <2>2. /\ new.name = rel.name /\ new.primaryKey = rel.primaryKey
        /\ new.attributes = [rel.attributes EXCEPT ![n] = attr]
    BY <2>1 DEF Relations
  <2>3. DOMAIN rel.attributes = 1..n
    BY <1>1
  <2>4. /\ Len(new.attributes) = n + 0
        /\ \A j \in 1..n : new.attributes[j] = IF j = n THEN attr ELSE rel.attributes[j]
    BY <1>1, <2>2, <2>3
  <2> HIDE DEF old
  <2>5. old = rel.attributes[n]
    BY DEF old
  <2>6. \A j \in 1..n :
               /\ new.attributes[j].name = rel.attributes[j].name
               /\ adds # "type" \/ j # n => new.attributes[j].type = rel.attributes[j].type
               /\ adds # "len" \/ j # n => new.attributes[j].len = rel.attributes[j].len
    BY ONLY <2>1, <2>4, <2>5
  <2>7. /\ adds = "type" =>
              new.attributes[n].type = IF tok = "integer" THEN "Integer" ELSE "Char"
        /\ adds = "len" => new.attributes[n].len = Atoi(tok)
    <3>1. new.attributes[n] = attr
      BY <1>1, <1>4, <2>4
    <3> QED
      BY ONLY <2>1, <3>1
  <2> QED
    BY ONLY <1>4, <2>2, <2>4, <2>6, <2>7
<1>5. CASE adds = "nothing"
  <2>1. new = rel
    BY <1>5 DEF Extended
  <2>2. Len(new.attributes) = n + 0
    BY <1>1, <2>1
  <2> QED
    BY ONLY <1>5, <2>1, <2>2
<1> QED
  BY <1>2, <1>3, <1>4, <1>5

-----------------------------------------------------------------------------
\* One more place or not, the others keep their ranks.
LEMMA RanksKept ==
  ASSUME NEW n, NEW new, NEW S, NEW S2, OneMore(n, new, S, S2)
  PROVE  /\ \A i \in 1..n : Rank(i, S2) = Rank(i, S)
         /\ S2 # S => Rank(new, S2) = Cardinality(S) + 1
         /\ S2 # S => Cardinality(S2) = Cardinality(S) + 1
<1>1. /\ n \in Nat /\ new \in Nat /\ n < new /\ S \in SUBSET (1..n)
      /\ S2 # S => S2 = S \cup {new}
  BY DEF OneMore
<1>2. \A i \in 1..n : i \in Int /\ i <= n
  BY <1>1
<1>3. CASE S2 = S
  BY <1>3
<1>4. CASE S2 = S \cup {new}
  BY <1>1, <1>2, <1>4, RankAfterAppend
<1> QED
  BY <1>1, <1>3, <1>4

\* What a file says of a relation that gets at most an attribute or a key more.
AddsKey(file, rel, rel2) ==
    \E column \in Nat : /\ rel2.primaryKey = Append(rel.primaryKey, column)
                        /\ SaysKey(file, Len(file), rel2, column)

AddsAttribute(file, rel, rel2) ==
    /\ Len(rel2.attributes) = Len(rel.attributes) + 1
    /\ SaysAttribute(file, Len(file), rel2.attributes[Len(rel.attributes) + 1])

\* One more token.
OneToken(n, new, file, more) == /\ \A i \in 1..n : more[i] = file[i]
                                /\ Len(more) = new
                                /\ RelationPlaces(file) \subseteq 1..n

LEMMA RelationSaid ==
  ASSUME NEW n, NEW new, NEW file, NEW more, OneToken(n, new, file, more), NEW k,
         NEW attr, attr = PlacesOf(k, AttributePlaces(file), file),
         NEW key, key = PlacesOf(k, KeyPlaces(file), file),
         NEW attr2, attr2 = PlacesOf(k, AttributePlaces(more), more),
         NEW key2, key2 = PlacesOf(k, KeyPlaces(more), more),
         OneMore(n, new, attr, attr2), OneMore(n, new, key, key2),
         PlacesOf(k, RelationPlaces(more), more) = PlacesOf(k, RelationPlaces(file), file),
         NEW rel \in Relations, KeysIn(rel), SaysRelation(file, k, rel),
         NEW rel2, rel2.name = rel.name,
         \A j \in 1..Len(rel.attributes) : rel2.attributes[j].name = rel.attributes[j].name,
         \A i \in attr : SaysAttribute(more, i, rel2.attributes[Rank(i, attr)]),
         attr2 = attr => Len(rel2.attributes) = Len(rel.attributes),
         attr2 # attr => AddsAttribute(more, rel, rel2),
         key2 = key => rel2.primaryKey = rel.primaryKey,
         key2 # key => AddsKey(more, rel, rel2)
  PROVE  SaysRelation(more, k, rel2)
<1>1. /\ n \in Nat /\ new \in Nat /\ n < new
      /\ attr \in SUBSET (1..n) /\ key \in SUBSET (1..n)
      /\ attr2 # attr => attr2 = attr \cup {new}
      /\ key2 # key => key2 = key \cup {new}
      /\ \A i \in 1..n : more[i] = file[i]
      /\ Len(more) = new
      /\ RelationPlaces(file) \subseteq 1..n
  BY DEF OneMore, OneToken
<1>2. PICK column \in Nat :
         key2 # key => /\ rel2.primaryKey = Append(rel.primaryKey, column)
                       /\ SaysKey(more, new, rel2, column)
  <2>1. CASE key2 = key
    <3>1. 0 \in Nat
      OBVIOUS
    <3> QED
      BY <2>1, <3>1
  <2>2. CASE key2 # key
    BY <1>1, <2>2 DEF AddsKey
  <2> QED
    BY <2>1, <2>2
<1>3. /\ rel.attributes \in Seq(Attributes) /\ rel.primaryKey \in Seq(Nat)
      /\ Len(rel.attributes) \in Nat /\ Len(rel.primaryKey) \in Nat
  BY DEF Relations
<1>4. /\ \E i \in PlacesOf(k, RelationPlaces(file), file) : rel.name = file[i]
      /\ Len(rel.attributes) = Cardinality(attr)
      /\ Len(rel.primaryKey) = Cardinality(key)
      /\ \A i \in key : SaysKey(file, i, rel, rel.primaryKey[Rank(i, key)])
  BY DEF SaysRelation
<1>5. \E i \in PlacesOf(k, RelationPlaces(more), more) : rel2.name = more[i]
  <2>1. PICK i \in PlacesOf(k, RelationPlaces(file), file) : rel.name = file[i]
    BY <1>4
  <2>2. i \in 1..n
    BY <1>1, <2>1 DEF PlacesOf
  <2> QED
    BY <1>1, <2>1, <2>2
<1>6. /\ \A i \in 1..n : Rank(i, attr2) = Rank(i, attr)
      /\ attr2 # attr => Rank(new, attr2) = Cardinality(attr) + 1
      /\ attr2 # attr => Cardinality(attr2) = Cardinality(attr) + 1
  BY RanksKept
<1>7. /\ \A i \in 1..n : Rank(i, key2) = Rank(i, key)
      /\ key2 # key => Rank(new, key2) = Cardinality(key) + 1
      /\ key2 # key => Cardinality(key2) = Cardinality(key) + 1
  BY RanksKept
<1>8. attr2 # attr => /\ Len(rel2.attributes) = Len(rel.attributes) + 1
                      /\ SaysAttribute(more, new, rel2.attributes[Len(rel.attributes) + 1])
  BY <1>1 DEF AddsAttribute
<1>9. Len(rel2.attributes) = Cardinality(attr2)
  BY <1>4, <1>6, <1>8
<1>10. ASSUME NEW i \in attr2
       PROVE  SaysAttribute(more, i, rel2.attributes[Rank(i, attr2)])
  <2>1. CASE i \in attr
    BY <1>1, <1>6, <2>1
  <2>2. CASE i \notin attr
    <3>1. attr2 # attr /\ i = new
      BY <1>1, <2>2
    <3>2. Rank(i, attr2) = Len(rel.attributes) + 1
      BY <1>4, <1>6, <3>1
    <3> QED
      BY <1>8, <3>1, <3>2
  <2> QED
    BY <2>1, <2>2
<1>11. Len(rel2.primaryKey) = Cardinality(key2)
  <2>1. key2 # key => Len(rel2.primaryKey) = Len(rel.primaryKey) + 1
    BY <1>2, <1>3
  <2>2. key2 = key => Len(rel2.primaryKey) = Len(rel.primaryKey)
    OBVIOUS
  <2> QED
    BY <1>4, <1>7, <2>1, <2>2
<1>12. ASSUME NEW i \in key2
       PROVE  SaysKey(more, i, rel2, rel2.primaryKey[Rank(i, key2)])
  <2>1. CASE i \in key
    <3>1. Rank(i, key) \in 1..Len(rel.primaryKey) /\ Rank(i, key2) = Rank(i, key)
      BY <1>1, <1>4, <1>7, <2>1, Ranks
    <3>2. PICK c : c = rel.primaryKey[Rank(i, key)]
      OBVIOUS
    <3>3. c \in 0..(Len(rel.attributes) - 1)
      BY <1>3, <3>1, <3>2 DEF KeysIn
    <3>4. rel2.primaryKey[Rank(i, key2)] = c
      <4>1. CASE key2 # key
        BY <1>2, <1>3, <3>1, <3>2, <4>1
      <4>2. CASE key2 = key
        BY <3>1, <3>2, <4>2
      <4> QED
        BY <4>1, <4>2
    <3>5. SaysKey(file, i, rel, c)
      BY <1>4, <2>1, <3>2
    <3>6. more[i] = file[i]
      BY <1>1, <2>1
    <3>7. /\ c + 1 \in 1..Len(rel.attributes)
          /\ \A j \in 1..c : j \in 1..Len(rel.attributes)
      BY <1>3, <3>3
    <3>8. SaysKey(more, i, rel2, c)
      BY <3>5, <3>6, <3>7 DEF SaysKey
    <3> QED
      BY <3>4, <3>8
  <2>2. CASE i \notin key
    <3>1. key2 # key /\ i = new
      BY <1>1, <2>2
    <3>2. Rank(i, key2) = Len(rel.primaryKey) + 1
      BY <1>4, <1>7, <3>1
    <3>3. rel2.primaryKey[Rank(i, key2)] = column
      BY <1>2, <1>3, <3>1, <3>2
    <3> QED
      BY <1>2, <3>1, <3>3
  <2> QED
    BY <2>1, <2>2
<1>13. attr2 = PlacesOf(k, AttributePlaces(more), more) /\ key2 = PlacesOf(k, KeyPlaces(more), more)
  OBVIOUS
<1> QED
  BY <1>5, <1>9, <1>10, <1>11, <1>12, <1>13 DEF SaysRelation

-----------------------------------------------------------------------------
\* The attributes of the last relation, with a token that starts no relation.
LEMMA LastAttributesSaid ==
  ASSUME NEW file, file \in Seq(Tokens), NEW tok \in Tokens,
         NEW s, StandsAfter(file, s), NEW s2 \in Targets(s, tok),
         NEW type \in Leftover, NEW adds, adds = Adds(s, tok), adds # "relation",
         NEW m \in Nat, m = Cardinality(RelationPlaces(file)),
         NEW rel \in Relations, SaysRelation(file, m, rel),
         adds \in {"type", "len", "notNull"} => rel.attributes # << >>,
         NEW rel2, rel2 = Extended(rel, adds, tok, type),
         NEW attr, attr = PlacesOf(m, AttributePlaces(file), file),
         NEW n, n = Len(file)
  PROVE  /\ adds = "attribute" => Len(rel2.attributes) = Len(rel.attributes) + 1
         /\ adds # "attribute" => Len(rel2.attributes) = Len(rel.attributes)
         /\ \A j \in 1..Len(rel.attributes) : rel2.attributes[j].name = rel.attributes[j].name
         /\ \A i \in attr : SaysAttribute(Append(file, tok), i, rel2.attributes[Rank(i, attr)])
         /\ adds = "attribute" =>
               SaysAttribute(Append(file, tok), n + 1, rel2.attributes[Len(rel.attributes) + 1])
<1> DEFINE L == Len(rel.attributes)
           A == AttributePlaces(file)
           R == RelationPlaces(file)
           more == Append(file, tok)
<1>1. /\ rel.attributes \in Seq(Attributes) /\ L \in Nat /\ n \in Nat
      /\ Len(more) = n + 1 /\ more[n + 1] = tok
  BY DEF Relations
<1>2. R \subseteq 1..n /\ A \subseteq 1..n
  BY PlacesAfterAppend
<1>3. attr = {i \in A : Rank(i, R) = m}
  BY DEF PlacesOf
<1>4. L = Cardinality(attr) /\ \A i \in attr : SaysAttribute(file, i, rel.attributes[Rank(i, attr)])
  BY DEF SaysRelation
<1>5. adds \in {"attribute", "key", "type", "len", "notNull", "nothing"}
  BY DEF Adds
<1>6. adds \in {"type", "len", "notNull"} => rel.attributes # << >>
  OBVIOUS
\* Attribute by attribute.
<1>7. /\ adds = "attribute" => Len(rel2.attributes) = L + 1
      /\ adds # "attribute" => Len(rel2.attributes) = L
      /\ adds = "attribute" => rel2.attributes[L + 1] = Attribute(tok, type)
      /\ \A j \in 1..L :
            /\ rel2.attributes[j].name = rel.attributes[j].name
            /\ adds # "type" \/ j # L => rel2.attributes[j].type = rel.attributes[j].type
            /\ adds # "len" \/ j # L => rel2.attributes[j].len = rel.attributes[j].len
      /\ adds = "type" =>
            rel2.attributes[L].type = IF tok = "integer" THEN "Integer" ELSE "Char"
      /\ adds = "len" => rel2.attributes[L].len = Atoi(tok)
  <2>1. PICK l \in Nat : l = L
    BY <1>1
  <2>2. l = Len(rel.attributes) /\ rel2 = Extended(rel, adds, tok, type)
    BY <2>1
  <2>3. /\ adds = "attribute" => Len(rel2.attributes) = l + 1
        /\ adds # "attribute" => Len(rel2.attributes) = l
    BY ONLY <1>5, <1>6, <2>2, rel \in Relations, l \in Nat, ExtendedParts
  <2>6. adds = "attribute" => rel2.attributes[l + 1] = Attribute(tok, type)
    BY ONLY <1>5, <1>6, <2>2, rel \in Relations, l \in Nat, ExtendedParts
  <2>4. \A j \in 1..l :
            /\ rel2.attributes[j].name = rel.attributes[j].name
            /\ adds # "type" \/ j # l => rel2.attributes[j].type = rel.attributes[j].type
            /\ adds # "len" \/ j # l => rel2.attributes[j].len = rel.attributes[j].len
    BY ONLY <1>5, <1>6, <2>2, rel \in Relations, l \in Nat, ExtendedParts
  <2>5. /\ adds = "type" =>
              rel2.attributes[l].type = IF tok = "integer" THEN "Integer" ELSE "Char"
        /\ adds = "len" => rel2.attributes[l].len = Atoi(tok)
    BY ONLY <1>5, <1>6, <2>2, rel \in Relations, l \in Nat, ExtendedParts
  <2> QED
    BY ONLY <2>1, <2>3, <2>4, <2>5, <2>6
\* The place whose attribute the token completes.
<1>8. ASSUME NEW i \in A, Pending(file, i)
      PROVE  i \in attr /\ Rank(i, attr) = L
  <2>1. (\A j \in A : j <= i) /\ (\A j \in R : j <= i)
    BY <1>8, PendingIsLast
  <2>2. Rank(i, R) = m
    BY <1>1, <1>2, <2>1, LastRank
  <2>3. i \in attr /\ attr \in SUBSET (1..n) /\ \A j \in attr : j <= i
    BY <1>2, <1>3, <2>1, <2>2
  <2> QED
    BY <1>1, <1>2, <1>4, <2>3, LastRank
<1>9. ASSUME NEW i \in attr
      PROVE  Rank(i, attr) \in 1..L /\ i \in 1..n /\ i \in A
  <2>1. attr \in SUBSET (1..n)
    BY <1>2, <1>3
  <2> QED
    BY <1>1, <1>3, <1>4, <2>1, Ranks
<1>10. ASSUME NEW i \in attr, NEW p \in A, Pending(file, p), i # p
       PROVE  Rank(i, attr) # L
  <2>1. p \in attr /\ Rank(p, attr) = L /\ attr \in SUBSET (1..n)
    BY <1>2, <1>3, <1>8, <1>10
  <2>2. i < p
    <3>1. i <= p
      BY <1>9, <1>10, PendingIsLast
    <3> QED
      BY <1>2, <1>9, <1>10, <3>1
  <2>3. Rank(i, attr) < Rank(p, attr)
    BY <1>1, <2>1, <2>2, Ranks
  <2> QED
    BY <1>1, <1>9, <2>1, <2>3
<1>11. /\ adds = "type" <=> s = "AttributeName" /\ tok \in {"integer", "char"}
       /\ adds = "len" <=> s = "CharBegin"
  BY DEF Adds
<1>12. /\ s = "AttributeName" <=> n \in A
       /\ s = "CharBegin" <=> n - 2 \in A /\ file[n - 1] = "char"
  BY DEF StandsAfter
<1>13. ASSUME NEW i \in attr
       PROVE  SaysAttribute(more, i, rel2.attributes[Rank(i, attr)])
  <2> DEFINE q == Rank(i, attr)
  <2>1. q \in 1..L /\ i \in 1..n /\ i \in A /\ SaysAttribute(file, i, rel.attributes[q])
    BY <1>4, <1>9
  <2>2. CASE ~Pending(file, i)
    <3>1. adds = "type" => q # L
      <4>1. ASSUME adds = "type"
            PROVE  q # L
        <5>1. n \in A /\ Pending(file, n)
          BY <1>11, <1>12, <4>1 DEF Pending
        <5> QED
          BY <1>10, <2>2, <5>1
      <4> QED
        BY <4>1
    <3>2. adds = "len" => q # L
      <4>1. ASSUME adds = "len"
            PROVE  q # L
        <5>1. n - 2 \in A /\ Pending(file, n - 2)
          BY <1>11, <1>12, <4>1 DEF Pending
        <5> QED
          BY <1>10, <2>2, <5>1
      <4> QED
        BY <4>1
    <3>3. /\ rel2.attributes[q].name = rel.attributes[q].name
          /\ rel2.attributes[q].type = rel.attributes[q].type
          /\ rel2.attributes[q].len = rel.attributes[q].len
      BY <1>7, <2>1, <3>1, <3>2
    <3> HIDE DEF q, more
    <3>4. SaysAttribute(Append(file, tok), i, rel2.attributes[q])
      BY <2>1, <2>2, <3>3, AttributeKept
    <3> QED
      BY <3>4 DEF q, more
  <2>3. CASE i = n
    <3>1. s = "AttributeName" /\ q = L
      BY <1>8, <1>12, <2>1, <2>3 DEF Pending
    <3>2. adds # "len"
      BY <1>11, <3>1
    <3>3. tok \in {"integer", "char"} <=> adds = "type"
      BY <1>11, <3>1
    <3>4. file # << >>
      BY <1>1, <2>1
    <3>5. PICK x, y : x = rel.attributes[q] /\ y = rel2.attributes[q]
      OBVIOUS
    <3>6. y.name = x.name /\ y.len = x.len
      BY <1>7, <2>1, <3>2, <3>5
    <3>7. y.type = IF adds # "type" THEN x.type ELSE IF tok = "integer" THEN "Integer" ELSE "Char"
      BY <1>7, <2>1, <3>1, <3>5
    <3>8. y.type = CASE tok = "integer" -> "Integer" [] tok = "char" -> "Char" [] OTHER -> x.type
      BY ONLY <3>3, <3>7
    <3>9. SaysAttribute(file, Len(file), x)
      BY <2>1, <2>3, <3>5
    <3>10. SaysAttribute(Append(file, tok), Len(file), y)
      BY <3>4, <3>6, <3>8, <3>9, TypeSaid
    <3> QED
      BY <2>3, <3>5, <3>10
  <2>4. CASE i # n /\ Pending(file, i)
    <3>1. i = n - 2 /\ file[n - 1] = "char"
      BY <2>4 DEF Pending
    <3>2. s = "CharBegin" /\ q = L
      BY <1>8, <1>12, <2>1, <2>4, <3>1
    <3>3. adds = "len"
      BY <1>11, <3>2
    <3>5. PICK x, y : x = rel.attributes[q] /\ y = rel2.attributes[q]
      OBVIOUS
    <3>6. y.name = x.name /\ y.type = x.type /\ y.len = Atoi(tok)
      BY <1>7, <2>1, <3>2, <3>3, <3>5
    <3>7. SaysAttribute(file, i, x) /\ i \in 1..Len(file) /\ i = Len(file) - 2 /\ file[Len(file) - 1] = "char"
      BY <2>1, <3>1, <3>5
    <3>8. SaysAttribute(Append(file, tok), i, y)
      BY <3>6, <3>7, LengthSaid
    <3> QED
      BY <3>5, <3>8
  <2> QED
    BY <2>2, <2>3, <2>4
<1>14. ASSUME adds = "attribute"
       PROVE  SaysAttribute(more, n + 1, rel2.attributes[L + 1])
  <2>1. rel2.attributes[L + 1] = Attribute(tok, type)
    BY <1>7, <1>14
  <2>2. ~(n + 1 < Len(more))
    BY <1>1
  <2>3. SaysAttribute(more, n + 1, Attribute(tok, type))
    BY <1>1, <2>2 DEF SaysAttribute, Attribute
  <2> QED
    BY <2>1, <2>3
<1> QED
  BY <1>7, <1>13, <1>14

-----------------------------------------------------------------------------
\* How many relations there are with one more token.
LEMMA RelationsRead ==
  ASSUME NEW file, file \in Seq(Tokens), NEW tok \in Tokens,
         NEW s, StandsAfter(file, s), NEW s2 \in Targets(s, tok),
         NEW more, more = Append(file, tok), NEW m, m = Cardinality(RelationPlaces(file))
  PROVE  /\ m \in Nat
         /\ Adds(s, tok) = "relation" => Cardinality(RelationPlaces(more)) = m + 1
         /\ Adds(s, tok) # "relation" => Cardinality(RelationPlaces(more)) = m
<1>1. PICK R, R2, n, new : /\ R = RelationPlaces(file) /\ R2 = RelationPlaces(more)
                           /\ n = Len(file) /\ new = n + 1
  OBVIOUS
<1>2. R \in SUBSET (1..n) /\ n \in Nat /\ new \in Nat /\ n < new
  BY <1>1, PlacesAfterAppend
<1>3. R2 = R \cup IF Adds(s, tok) = "relation" THEN {new} ELSE {}
  BY <1>1, PlacesRead
<1>4. Cardinality(R \cup {new}) = Cardinality(R) + 1 /\ Cardinality(R) \in Nat
  BY ONLY <1>2, RankAfterAppend, Ranks
<1> QED
  BY <1>1, <1>3, <1>4

\* The places of each relation with one more token.
PlacesGrow(file, more, adds, k) ==
    LET last  == Cardinality(RelationPlaces(more))
        name  == PlacesOf(k, RelationPlaces(file), file)
        name2 == PlacesOf(k, RelationPlaces(more), more)
        attr  == PlacesOf(k, AttributePlaces(file), file)
        attr2 == PlacesOf(k, AttributePlaces(more), more)
        key   == PlacesOf(k, KeyPlaces(file), file)
        key2  == PlacesOf(k, KeyPlaces(more), more)
    IN  /\ k # last => name2 = name
        /\ adds # "relation" => name2 = name
        /\ OneMore(Len(file), Len(more), attr, attr2)
        /\ attr2 # attr <=> adds = "attribute" /\ k = last
        /\ OneMore(Len(file), Len(more), key, key2)
        /\ key2 # key <=> adds = "key" /\ k = last

LEMMA PlacesOfRead ==
  ASSUME NEW file, file \in Seq(Tokens), NEW tok \in Tokens,
         NEW s, StandsAfter(file, s), NEW s2 \in Targets(s, tok), NEW k \in Nat
  PROVE  PlacesGrow(file, Append(file, tok), Adds(s, tok), k)
<1>1. PICK more, n, new, adds, last, attr, key, attr2, key2 :
         /\ more = Append(file, tok) /\ n = Len(file) /\ new = Len(more)
         /\ adds = Adds(s, tok) /\ last = Cardinality(RelationPlaces(more))
         /\ attr = PlacesOf(k, AttributePlaces(file), file)
         /\ key = PlacesOf(k, KeyPlaces(file), file)
         /\ attr2 = PlacesOf(k, AttributePlaces(more), more)
         /\ key2 = PlacesOf(k, KeyPlaces(more), more)
  OBVIOUS
<1>2. PICK R, A, K, R2, A2, K2 :
         /\ R = RelationPlaces(file) /\ A = AttributePlaces(file) /\ K = KeyPlaces(file)
         /\ R2 = RelationPlaces(more) /\ A2 = AttributePlaces(more) /\ K2 = KeyPlaces(more)
  OBVIOUS
<1>3. /\ R \in SUBSET (1..n) /\ A \in SUBSET (1..n) /\ K \in SUBSET (1..n)
      /\ n \in Nat /\ new \in Nat /\ new = n + 1 /\ n < new
  BY <1>1, <1>2, PlacesAfterAppend
<1>4. /\ R2 = R \cup IF adds = "relation" THEN {new} ELSE {}
      /\ A2 = A \cup IF adds = "attribute" THEN {new} ELSE {}
      /\ K2 = K \cup IF adds = "key" THEN {new} ELSE {}
  BY <1>1, <1>2, <1>3, PlacesRead
<1>5. new \notin R /\ new \notin A /\ new \notin K
  BY <1>3
<1>6. /\ R2 # R => R2 = R \cup {new}
      /\ R2 # R <=> adds = "relation"
      /\ A2 # A => A2 = A \cup {new}
      /\ A2 # A <=> adds = "attribute"
      /\ K2 # K => K2 = K \cup {new}
      /\ K2 # K <=> adds = "key"
  BY <1>4, <1>5
<1>7. OneMore(n, new, R, R2) /\ OneMore(n, new, A, A2) /\ OneMore(n, new, K, K2)
  BY <1>3, <1>6 DEF OneMore
<1>8. ASSUME NEW places, NEW places2, OneMore(n, new, places, places2)
      PROVE  /\ k # last => PlacesOf(k, places2, more) = PlacesOf(k, places, file)
             /\ places2 = places => PlacesOf(k, places2, more) = PlacesOf(k, places, file)
             /\ k = last /\ places2 # places =>
                   PlacesOf(k, places2, more) # PlacesOf(k, places, file)
             /\ OneMore(n, new, PlacesOf(k, places, file), PlacesOf(k, places2, more))
  <2>1. last = Cardinality(R2)
    BY <1>1, <1>2
  <2>2. /\ k # Cardinality(R2) => PlacesOf(k, places2, more) = PlacesOf(k, places, file)
        /\ places2 = places => PlacesOf(k, places2, more) = PlacesOf(k, places, file)
        /\ k = Cardinality(R2) /\ places2 # places =>
              PlacesOf(k, places2, more) = PlacesOf(k, places, file) \cup {new}
    BY ONLY <1>2, <1>8, <1>7, k \in Nat, PlacesOfAfterAppend
  <2>3. PlacesOf(k, places, file) \subseteq places
    BY DEF PlacesOf
  <2>4. places \in SUBSET (1..n)
    BY <1>8 DEF OneMore
  <2>5. \A x \in places : x \in 1..n /\ x # new
    BY <1>3, <2>4
  <2>6. new \notin PlacesOf(k, places, file) /\ PlacesOf(k, places, file) \in SUBSET (1..n)
    BY <2>3, <2>5
  <2>7. OneMore(n, new, PlacesOf(k, places, file), PlacesOf(k, places2, more))
    BY <1>3, <2>2, <2>6 DEF OneMore
  <2> QED
    BY <2>1, <2>2, <2>6, <2>7
<1>9. /\ k # last => PlacesOf(k, R2, more) = PlacesOf(k, R, file)
      /\ adds # "relation" => PlacesOf(k, R2, more) = PlacesOf(k, R, file)
  BY <1>6, <1>8, <1>7
<1>10. /\ OneMore(n, new, attr, attr2)
       /\ attr2 # attr => adds = "attribute" /\ k = last
       /\ adds = "attribute" /\ k = last => attr2 # attr
  <2>1. attr = PlacesOf(k, A, file) /\ attr2 = PlacesOf(k, A2, more)
    BY <1>1, <1>2
  <2> QED
    BY ONLY <1>6, <1>8, <1>7, <2>1
<1>11. /\ OneMore(n, new, key, key2)
       /\ key2 # key => adds = "key" /\ k = last
       /\ adds = "key" /\ k = last => key2 # key
  <2>1. key = PlacesOf(k, K, file) /\ key2 = PlacesOf(k, K2, more)
    BY <1>1, <1>2
  <2> QED
    BY ONLY <1>6, <1>8, <1>7, <2>1
<1>12. PlacesGrow(file, more, adds, k)
  BY ONLY <1>1, <1>2, <1>9, <1>10, <1>11 DEF PlacesGrow
<1> QED
  BY ONLY <1>1, <1>12

\* The last relation, with a token that starts no other.
LEMMA LastRelationSaid ==
  ASSUME NEW file, file \in Seq(Tokens), NEW tok \in Tokens,
         NEW s, StandsAfter(file, s), NEW s2 \in Targets(s, tok),
         NEW type \in Leftover, NEW adds, adds = Adds(s, tok), adds # "relation",
         NEW m \in Nat, m = Cardinality(RelationPlaces(file)),
         NEW rel \in Relations, KeysIn(rel), SaysRelation(file, m, rel),
         adds \in {"type", "len", "notNull"} => rel.attributes # << >>,
         adds = "key" => Named(rel.attributes, tok) # -1
  PROVE  SaysRelation(Append(file, tok), m, Extended(rel, adds, tok, type))
<1>1. PICK more, n, new, rel2, attr, key, attr2, key2 :
         /\ more = Append(file, tok) /\ n = Len(file) /\ new = Len(more)
         /\ rel2 = Extended(rel, adds, tok, type)
         /\ attr = PlacesOf(m, AttributePlaces(file), file)
         /\ key = PlacesOf(m, KeyPlaces(file), file)
         /\ attr2 = PlacesOf(m, AttributePlaces(more), more)
         /\ key2 = PlacesOf(m, KeyPlaces(more), more)
  OBVIOUS
<1>2. PICK column : column = Named(rel.attributes, tok)
  OBVIOUS
<1>3. /\ n \in Nat /\ new \in Nat /\ new = n + 1 /\ n < new
      /\ more[new] = tok /\ (\A i \in 1..n : more[i] = file[i])
      /\ RelationPlaces(file) \subseteq 1..n
  BY <1>1, PlacesAfterAppend
<1>4. PICK last : last = Cardinality(RelationPlaces(more))
  OBVIOUS
<1>5. OneToken(n, new, file, more)
  BY <1>1, <1>3 DEF OneToken
<1>6. /\ m # last => PlacesOf(m, RelationPlaces(more), more) = PlacesOf(m, RelationPlaces(file), file)
      /\ adds # "relation" =>
            PlacesOf(m, RelationPlaces(more), more) = PlacesOf(m, RelationPlaces(file), file)
      /\ OneMore(n, new, attr, attr2)
      /\ attr2 # attr => adds = "attribute" /\ m = last
      /\ adds = "attribute" /\ m = last => attr2 # attr
      /\ OneMore(n, new, key, key2)
      /\ key2 # key => adds = "key" /\ m = last
      /\ adds = "key" /\ m = last => key2 # key
  <2>1. PlacesGrow(file, more, adds, m)
    BY <1>1, PlacesOfRead
  <2> QED
    BY ONLY <1>1, <1>4, <2>1 DEF PlacesGrow
<1>7. /\ PlacesOf(m, RelationPlaces(more), more) = PlacesOf(m, RelationPlaces(file), file)
      /\ OneMore(n, new, attr, attr2)
      /\ attr2 # attr => adds = "attribute" /\ m = last
      /\ adds = "attribute" /\ m = last => attr2 # attr
      /\ OneMore(n, new, key, key2)
      /\ key2 # key => adds = "key" /\ m = last
      /\ adds = "key" /\ m = last => key2 # key
  BY ONLY <1>6, adds # "relation"
<1>8. last = m
  BY <1>1, <1>4, RelationsRead
<1>9. adds \in {"attribute", "key", "type", "len", "notNull", "nothing"}
  BY DEF Adds
<1>10. rel.attributes \in Seq(Attributes) /\ Len(rel.attributes) \in Nat
  BY DEF Relations
<1>11. PICK L \in Nat : L = Len(rel.attributes)
  BY <1>10
<1>12. /\ rel2.name = rel.name
       /\ adds = "key" => rel2.primaryKey = Append(rel.primaryKey, column)
       /\ adds # "key" => rel2.primaryKey = rel.primaryKey
       /\ adds = "key" => rel2.attributes = rel.attributes
  <2>1. adds \in {"type", "len", "notNull"} => rel.attributes # << >>
    OBVIOUS
  <2> QED
    BY ONLY <1>1, <1>2, <1>9, <1>11, <2>1, rel \in Relations, L \in Nat, ExtendedParts
<1>13. /\ adds = "attribute" => Len(rel2.attributes) = Len(rel.attributes) + 1
       /\ adds # "attribute" => Len(rel2.attributes) = Len(rel.attributes)
       /\ \A j \in 1..Len(rel.attributes) : rel2.attributes[j].name = rel.attributes[j].name
       /\ \A i \in attr : SaysAttribute(Append(file, tok), i, rel2.attributes[Rank(i, attr)])
       /\ adds = "attribute" =>
             SaysAttribute(Append(file, tok), n + 1, rel2.attributes[Len(rel.attributes) + 1])
  BY <1>1, LastAttributesSaid
<1>14. /\ \A j \in 1..Len(rel.attributes) : rel2.attributes[j].name = rel.attributes[j].name
       /\ \A i \in attr : SaysAttribute(more, i, rel2.attributes[Rank(i, attr)])
       /\ attr2 = attr => Len(rel2.attributes) = Len(rel.attributes)
       /\ attr2 # attr => AddsAttribute(more, rel, rel2)
  BY ONLY <1>1, <1>3, <1>7, <1>13, <1>8 DEF AddsAttribute
<1>15. key2 = key => rel2.primaryKey = rel.primaryKey
  BY ONLY <1>7, <1>12, <1>8
<1>16. ASSUME key2 # key
       PROVE  AddsKey(more, rel, rel2)
  <2>0. adds = "key"
    BY <1>7, <1>16, <1>8
  <2>1. column # -1
    BY <1>2, <2>0
  <2>2. /\ column \in 0..(Len(rel.attributes) - 1)
        /\ rel.attributes[column + 1].name = tok
        /\ \A j \in 1..column : rel.attributes[j].name # tok
    BY <1>2, <1>10, <2>1, NamedIsFirst
  <2>3. rel2.attributes = rel.attributes /\ rel2.primaryKey = Append(rel.primaryKey, column)
    BY <1>12, <2>0
  <2>4. column \in Nat
    BY <1>10, <2>2
  <2>5. SaysKey(more, Len(more), rel2, column)
    BY <1>1, <1>3, <2>2, <2>3 DEF SaysKey
  <2> QED
    BY <2>3, <2>4, <2>5 DEF AddsKey
<1>17. SaysRelation(more, m, rel2)
  <2>1. KeysIn(rel) /\ SaysRelation(file, m, rel)
    OBVIOUS
  <2> QED
    BY ONLY <1>1, <1>7, <1>12, <1>5, <1>14, <1>15, <1>16, <2>1, rel \in Relations, RelationSaid
<1> QED
  BY <1>1, <1>17

\* The relations before the last, or before the one a token starts.
LEMMA OtherRelationSaid ==
  ASSUME NEW file, file \in Seq(Tokens), NEW tok \in Tokens,
         NEW s, StandsAfter(file, s), NEW s2 \in Targets(s, tok),
         NEW m \in Nat, m = Cardinality(RelationPlaces(file)),
         NEW k \in Nat, k < m \/ (Adds(s, tok) = "relation" /\ k <= m),
         NEW rel \in Relations, KeysIn(rel), SaysRelation(file, k, rel)
  PROVE  SaysRelation(Append(file, tok), k, rel)
<1>1. PICK more, n, new, attr, key, attr2, key2 :
         /\ more = Append(file, tok) /\ n = Len(file) /\ new = Len(more)
         /\ attr = PlacesOf(k, AttributePlaces(file), file)
         /\ key = PlacesOf(k, KeyPlaces(file), file)
         /\ attr2 = PlacesOf(k, AttributePlaces(more), more)
         /\ key2 = PlacesOf(k, KeyPlaces(more), more)
  OBVIOUS
<1>2. /\ n \in Nat /\ new \in Nat /\ new = n + 1 /\ n < new
      /\ (\A i \in 1..n : more[i] = file[i])
      /\ RelationPlaces(file) \subseteq 1..n /\ AttributePlaces(file) \subseteq 1..n
  BY <1>1, PlacesAfterAppend
<1>3. PICK last, adds : last = Cardinality(RelationPlaces(more)) /\ adds = Adds(s, tok)
  OBVIOUS
<1>4. /\ k # last => PlacesOf(k, RelationPlaces(more), more) = PlacesOf(k, RelationPlaces(file), file)
      /\ adds # "relation" =>
            PlacesOf(k, RelationPlaces(more), more) = PlacesOf(k, RelationPlaces(file), file)
      /\ OneMore(n, new, attr, attr2)
      /\ attr2 # attr => adds = "attribute" /\ k = last
      /\ adds = "attribute" /\ k = last => attr2 # attr
      /\ OneMore(n, new, key, key2)
      /\ key2 # key => adds = "key" /\ k = last
      /\ adds = "key" /\ k = last => key2 # key
  <2>1. PlacesGrow(file, more, adds, k)
    BY <1>1, <1>3, PlacesOfRead
  <2> QED
    BY ONLY <1>1, <1>3, <2>1 DEF PlacesGrow
<1>5. OneToken(n, new, file, more) /\ attr \in SUBSET (1..n)
  BY <1>1, <1>2, <1>4 DEF OneToken, OneMore
<1>6. k # last
  <2>1. /\ m \in Nat
        /\ adds = "relation" => last = m + 1
        /\ adds # "relation" => last = m
    BY <1>1, <1>3, RelationsRead
  <2> QED
    BY <1>3, <2>1
<1>7. /\ PlacesOf(k, RelationPlaces(more), more) = PlacesOf(k, RelationPlaces(file), file)
      /\ attr2 = attr /\ key2 = key
  BY <1>4, <1>6
<1>8. ASSUME NEW i \in attr
      PROVE  ~Pending(file, i)
  <2>1. SUFFICES ASSUME Pending(file, i) PROVE FALSE
    OBVIOUS
  <2>2. i \in AttributePlaces(file) /\ Rank(i, RelationPlaces(file)) = k /\ i \in 1..n
    BY <1>1, <1>2 DEF PlacesOf
  <2>3. /\ \A j \in RelationPlaces(file) : j <= i
        /\ s = "AttributeName" \/ s = "CharBegin"
    BY <2>1, <2>2, PendingIsLast
  <2>4. k = m
    BY <1>2, <2>2, <2>3, LastRank
  <2>5. Adds(s, tok) # "relation"
    BY <2>3 DEF Adds
  <2> QED
    BY <2>4, <2>5
<1>9. ASSUME NEW i \in attr
      PROVE  SaysAttribute(more, i, rel.attributes[Rank(i, attr)])
  <2>1. SaysAttribute(file, i, rel.attributes[Rank(i, attr)]) /\ i \in 1..Len(file)
    BY <1>1, <1>5 DEF SaysRelation
  <2>2. ~Pending(file, i)
    BY <1>8
  <2>3. SaysAttribute(Append(file, tok), i, rel.attributes[Rank(i, attr)])
    BY <2>1, <2>2, AttributeKept
  <2> QED
    BY <1>1, <2>3
<1>10. SaysRelation(more, k, rel)
  <2>1. KeysIn(rel) /\ SaysRelation(file, k, rel)
    OBVIOUS
  <2>2. /\ attr2 # attr => AddsAttribute(more, rel, rel)
        /\ key2 # key => AddsKey(more, rel, rel)
    BY <1>7
  <2> QED
    BY ONLY <1>1, <1>9, <1>4, <1>7, <1>5, <2>1, <2>2, rel \in Relations, RelationSaid
<1> QED
  BY <1>1, <1>10

-----------------------------------------------------------------------------
\* The relation a token starts.
LEMMA NewRelationSaid ==
  ASSUME NEW file, file \in Seq(Tokens), NEW tok \in Tokens,
         NEW s, StandsAfter(file, s), NEW s2 \in Targets(s, tok),
         Adds(s, tok) = "relation",
         NEW k, k = Cardinality(RelationPlaces(file)) + 1
  PROVE  SaysRelation(Append(file, tok), k, Relation(tok))
<1>1. PICK more, n, new, R, R2 : /\ more = Append(file, tok) /\ n = Len(file) /\ new = n + 1
                                 /\ R = RelationPlaces(file) /\ R2 = RelationPlaces(more)
  OBVIOUS
<1>2. /\ n \in Nat /\ new \in Nat /\ n < new /\ more[new] = tok
      /\ R \in SUBSET (1..n)
      /\ AttributePlaces(file) \in SUBSET (1..n) /\ KeyPlaces(file) \in SUBSET (1..n)
  BY <1>1, PlacesAfterAppend
<1>3. R2 = R \cup {new}
  BY <1>1, PlacesRead
<1>4. /\ Rank(new, R \cup {new}) = Cardinality(R) + 1
      /\ Cardinality(R) \in Nat
  BY ONLY <1>2, RankAfterAppend, Ranks
<1>5. k \in Nat /\ k > Cardinality(R)
  BY <1>1, <1>4
<1>6. new \in PlacesOf(k, R2, more)
  BY <1>1, <1>3, <1>4 DEF PlacesOf
<1>7. PlacesGrow(file, more, "relation", k)
  BY <1>1, <1>5, PlacesOfRead
<1>8. /\ PlacesOf(k, AttributePlaces(file), file) = {}
      /\ PlacesOf(k, KeyPlaces(file), file) = {}
  BY <1>1, <1>2, <1>5, PlacesOfNone
<1>9. /\ PlacesOf(k, AttributePlaces(more), more) = {}
      /\ PlacesOf(k, KeyPlaces(more), more) = {}
  BY ONLY <1>7, <1>8 DEF PlacesGrow
<1>10. /\ Relation(tok).name = more[new]
       /\ Len(Relation(tok).attributes) = Cardinality({})
       /\ Len(Relation(tok).primaryKey) = Cardinality({})
  BY <1>2, FS_EmptySet DEF Relation
<1>11. SaysRelation(more, k, Relation(tok))
  BY <1>1, <1>6, <1>9, <1>10 DEF SaysRelation
<1> QED
  BY <1>1, <1>11

\* The schema, with a token that is accepted.
LEMMA TokenSaid ==
  ASSUME SchemaInv, text \in Seq(Tokens), StandsAfter(text, state), SaysSchema(text, schema),
         NEW tok \in Tokens, NEW s2 \in Targets(state, tok), NEW type \in Leftover,
         NEW adds, adds = Adds(state, tok), ~NothingThere(adds), ~NoSuchKey(adds, tok),
         NEW new, new = CASE adds = "relation" -> Append(schema, Relation(tok))
                          [] adds = "nothing"  -> schema
                          [] OTHER -> Front(schema) \o <<Extended(Last(schema), adds, tok, type)>>
  PROVE  /\ SaysSchema(Append(text, tok), new)
         /\ StandsAfter(Append(text, tok), s2)
<1>1. PICK more, m : more = Append(text, tok) /\ m = Cardinality(RelationPlaces(text))
  OBVIOUS
<1>2. /\ m \in Nat
      /\ adds = "relation" => Cardinality(RelationPlaces(more)) = m + 1
      /\ adds # "relation" => Cardinality(RelationPlaces(more)) = m
  BY <1>1, RelationsRead
<1>3. /\ schema \in Seq(Relations) /\ Len(schema) = m /\ DOMAIN schema = 1..m
      /\ \A k \in 1..m : schema[k] \in Relations /\ KeysIn(schema[k])
      /\ \A k \in 1..m : SaysRelation(text, k, schema[k])
  BY <1>1, <1>2 DEF SchemaInv, KeysExist, SaysSchema
<1>4. ASSUME NEW k \in 1..m, k < m \/ adds = "relation"
      PROVE  SaysRelation(more, k, schema[k])
  <2>1. k \in Nat /\ (k < m \/ (Adds(state, tok) = "relation" /\ k <= m))
    BY <1>2, <1>4
  <2>2. PICK rel : rel = schema[k]
    OBVIOUS
  <2>3. rel \in Relations /\ KeysIn(rel) /\ SaysRelation(text, k, rel)
    BY <1>3, <2>2
  <2>4. SaysRelation(Append(text, tok), k, rel)
    BY <1>1, <1>2, <2>1, <2>3, OtherRelationSaid
  <2> QED
    BY <1>1, <2>2, <2>4
<1>5. ASSUME adds = "relation"
      PROVE  SaysSchema(more, new)
  <2>1. new = Append(schema, Relation(tok))
    BY <1>5
  <2>2. /\ Len(new) = m + 1 /\ DOMAIN new = 1..(m + 1) /\ new[m + 1] = Relation(tok)
        /\ \A k \in 1..m : new[k] = schema[k]
    BY <1>2, <1>3, <2>1
  <2>3. SaysRelation(more, m + 1, Relation(tok))
    BY <1>1, <1>5, NewRelationSaid
  <2>4. \A k \in 1..(m + 1) : SaysRelation(more, k, new[k])
    BY <1>2, <1>4, <1>5, <2>2, <2>3
  <2> QED
    BY <1>2, <1>5, <2>2, <2>4 DEF SaysSchema
<1>6. ASSUME adds # "relation" /\ schema = << >>
      PROVE  SaysSchema(more, new)
  <2>1. adds = "nothing"
    BY <1>6 DEF NothingThere
  <2>2. new = schema /\ m = 0
    BY <1>3, <1>6, <2>1
  <2> QED
    BY <1>2, <1>3, <1>6, <2>2 DEF SaysSchema
<1>7. ASSUME adds # "relation" /\ schema # << >>
      PROVE  SaysSchema(more, new)
  <2>1. PICK rel, rel2 : rel = Last(schema) /\ rel2 = Extended(rel, adds, tok, type)
    OBVIOUS
  <2>2. m \in 1..m /\ rel = schema[m]
    BY <1>2, <1>3, <1>7, <2>1 DEF Last
  <2>3. /\ rel \in Relations /\ KeysIn(rel) /\ SaysRelation(text, m, rel)
        /\ adds \in {"type", "len", "notNull"} => rel.attributes # << >>
        /\ adds = "key" => Named(rel.attributes, tok) # -1
    BY <1>3, <1>7, <2>1, <2>2 DEF NothingThere, NoSuchKey
  <2>4. SaysRelation(more, m, rel2)
    BY <1>1, <1>2, <1>7, <2>1, <2>3, LastRelationSaid
  <2>5. /\ Len(new) = m /\ DOMAIN new = 1..m /\ new[m] = rel2
        /\ \A k \in 1..m : k < m => new[k] = schema[k]
    <3>1. CASE adds = "nothing"
      <4>1. new = schema /\ rel2 = rel
        BY <2>1, <3>1 DEF Extended
      <4> QED
        BY <1>3, <2>2, <4>1
    <3>2. CASE adds # "nothing"
      <4>1. new = Front(schema) \o <<rel2>>
        BY <1>7, <2>1, <3>2
      <4>2. /\ Front(schema) \in Seq(Relations)
            /\ Len(Front(schema)) = m - 1
            /\ \A k \in 1..(m - 1) : Front(schema)[k] = schema[k]
        BY <1>3, <2>2 DEF Front
      <4>3. PICK front : front = Front(schema)
        OBVIOUS
      <4>4. front \in Seq(Relations) /\ Len(front) = m - 1
        BY <4>2, <4>3
      <4>5. /\ Len(front \o <<rel2>>) = (m - 1) + 1
            /\ DOMAIN (front \o <<rel2>>) = 1..((m - 1) + 1)
            /\ (front \o <<rel2>>)[(m - 1) + 1] = rel2
            /\ \A k \in 1..(m - 1) : (front \o <<rel2>>)[k] = front[k]
        BY <1>2, <2>2, <4>4
      <4>6. (m - 1) + 1 = m /\ \A k \in 1..m : k < m => k \in 1..(m - 1)
        BY <1>2
      <4> QED
        BY ONLY <4>1, <4>2, <4>3, <4>5, <4>6
    <3> QED
      BY <3>1, <3>2
  <2>6. \A k \in 1..m : SaysRelation(more, k, new[k])
    BY <1>2, <1>4, <2>4, <2>5
  <2> QED
    BY <1>2, <1>7, <2>5, <2>6 DEF SaysSchema
<1>8. SaysSchema(more, new)
  BY <1>1, <1>5, <1>6, <1>7
<1>9. StandsAfter(more, s2)
  BY <1>1, PlacesRead
<1> QED
  BY <1>1, <1>8, <1>9

-----------------------------------------------------------------------------
(***************************************************************************)
(* The inductive invariant: a file read from between two statements is     *)
(* said so far by the schema, and the machine stands where its             *)
(* parentheses and its last tokens tell.                                   *)
(***************************************************************************)
TextInv ==
    /\ text \in Seq(Tokens)
    /\ fresh /\ parse \in {"reading", "returned"} =>
          /\ StandsAfter(text, state)
          /\ SaysSchema(text, schema)

\* Of an empty file.
LEMMA NothingSaid ==
  ASSUME NEW s \in {"Init", "Semicolon"}
  PROVE  StandsAfter(<< >>, s) /\ SaysSchema(<< >>, << >>)
<1>1. PICK empty : empty = << >>
  OBVIOUS
<1>2. Len(empty) = 0 /\ DOMAIN empty = {}
  BY <1>1
<1>3. Cardinality({}) = 0
  BY FS_EmptySet
<1>4. Depth(empty, 1) = 0 /\ ~InKeyList(empty, 1)
  <2>1. \A mark : {k \in 1..(1 - 1) : empty[k] = mark} = {}
    OBVIOUS
  <2>2. Depth(empty, 1) = 0
    BY <1>3, <2>1 DEF Depth
  <2>3. 2..(1 - 1) = {}
    OBVIOUS
  <2>4. ~InKeyList(empty, 1)
    BY <2>3 DEF InKeyList
  <2> QED
    BY <2>2, <2>4
<1>5. RelationPlaces(empty) = {} /\ AttributePlaces(empty) = {}
  BY <1>2 DEF RelationPlaces, AttributePlaces
<1>6. StandsAfter(empty, s)
  BY <1>2, <1>4, <1>5 DEF StandsAfter, Level
<1>7. SaysSchema(empty, empty)
  BY <1>2, <1>3, <1>5 DEF SaysSchema
<1> QED
  BY <1>1, <1>6, <1>7

LEMMA TextInvStep ==
  SchemaInv /\ TextInv /\ [Next]_vars => TextInv'
<1> SUFFICES ASSUME SchemaInv, TextInv, [Next]_vars
             PROVE  TextInv'
  OBVIOUS
<1>1. text \in Seq(Tokens) /\ << >> \in Seq(Tokens)
  BY DEF TextInv
\* Most steps leave what is read alone, or have nothing to say of it.
<1>2. ASSUME UNCHANGED <<state, text, schema, fresh, parse>>
      PROVE  TextInv'
  BY <1>2 DEF TextInv
<1>3. ASSUME text' \in {text, << >>}, ~fresh' \/ parse' \notin {"reading", "returned"}
      PROVE  TextInv'
  BY <1>1, <1>3 DEF TextInv
<1>4. ASSUME ParserStep
      PROVE  TextInv'
  <2>1. ASSUME NEW opens \in BOOLEAN, Parse(opens)
        PROVE  TextInv'
    <3>1. /\ text' = << >> /\ schema' = << >> /\ state' = state
          /\ fresh' => state \in {"Init", "Semicolon"}
      BY <2>1 DEF Parse
    <3>2. fresh' => StandsAfter(text', state') /\ SaysSchema(text', schema')
      BY <3>1, NothingSaid
    <3> QED
      BY <1>1, <3>1, <3>2 DEF TextInv
  <2>2. ASSUME NEW tok \in Tokens, NextToken(tok)
        PROVE  TextInv'
    <3> DEFINE adds == Adds(state, tok)
    <3>1. parse = "reading" /\ fresh' = fresh
      BY <2>2 DEF NextToken
    <3>2. CASE text' = << >> /\ parse' = "thrown"
      BY <1>3, <3>2
    <3>3. CASE text' = text /\ parse' = "undefined"
      BY <1>3, <3>3
    <3>4. CASE /\ ~NothingThere(adds) /\ ~NoSuchKey(adds, tok)
               /\ state' \in Targets(state, tok) /\ text' = Append(text, tok)
               /\ \E type \in Leftover :
                    schema' = CASE adds = "relation" -> Append(schema, Relation(tok))
                                [] adds = "nothing"  -> schema
                                [] OTHER -> Front(schema) \o <<Extended(Last(schema), adds, tok, type)>>
      <4>1. text' \in Seq(Tokens)
        BY <1>1, <3>4
      <4>2. ASSUME fresh
            PROVE  StandsAfter(text', state') /\ SaysSchema(text', schema')
        <5>1. StandsAfter(text, state) /\ SaysSchema(text, schema)
          BY <3>1, <4>2 DEF TextInv
        <5>2. PICK type \in Leftover :
                 schema' = CASE adds = "relation" -> Append(schema, Relation(tok))
                             [] adds = "nothing"  -> schema
                             [] OTHER -> Front(schema) \o <<Extended(Last(schema), adds, tok, type)>>
          BY <3>4
        <5>3. PICK new, s2 : new = schema' /\ s2 = state'
          OBVIOUS
        <5>4. s2 \in Targets(state, tok)
          BY <3>4, <5>3
        <5> HIDE DEF adds
        <5>5. adds = Adds(state, tok)
          BY DEF adds
        <5>6. /\ SaysSchema(Append(text, tok), new)
              /\ StandsAfter(Append(text, tok), s2)
          BY <1>1, <3>4, <5>1, <5>2, <5>3, <5>4, <5>5, TokenSaid
        <5> QED
          BY <3>4, <5>3, <5>6
      <4> QED
        BY <3>1, <4>1, <4>2 DEF TextInv
    <3> QED
      BY <2>2, <3>2, <3>3, <3>4 DEF NextToken
  <2>3. CASE EndOfFile
    BY <2>3 DEF EndOfFile, TextInv
  <2> QED
    BY <1>4, <2>1, <2>2, <2>3 DEF ParserStep, ParserNext
<1>5. ASSUME NEW s \in Built, Build(s)
      PROVE  TextInv'
  BY <1>3, <1>5 DEF Build
<1>6. CASE Write
  BY <1>3, <1>6 DEF Write
<1>7. CASE Load
  <2>1. UNCHANGED <<state, text, schema, fresh>> /\ (parse' = parse \/ parse' = "garbage")
    BY <1>7 DEF Load
  <2> QED
    BY <1>2, <1>3, <2>1
<1>8. CASE Evict
  BY <1>2, <1>8 DEF Evict, parserVars
<1>9. ASSUME NEW killed \in BOOLEAN, Restart(killed)
      PROVE  TextInv'
  BY <1>3, <1>9 DEF Restart
<1>10. CASE Undefined \/ UNCHANGED vars
  BY <1>2, <1>10 DEF Undefined, vars, parserVars
<1> QED
  BY <1>4, <1>5, <1>6, <1>7, <1>8, <1>9, <1>10 DEF Next

(***************************************************************************)
(* Whatever words the files have and wherever they end, however often a    *)
(* Parser is used: the schema that parse returns, for a file it began      *)
(* between two statements, is the one the parentheses and commas of the    *)
(* file tell, every type, length and key column at its place.              *)
(***************************************************************************)
THEOREM ParserReadsTheText ==
  Spec => []SchemaSaysText
<1>1. Init => TextInv
  BY NothingSaid DEF Init, ParserInit, TextInv
<1>2. TextInv => SchemaSaysText
  BY DEF TextInv, SchemaSaysText
<1>3. Spec => []TextInv
  BY <1>1, TextInvStep, SchemaInvariant, PTL DEF Spec
<1> QED
  BY <1>2, <1>3, PTL

-----------------------------------------------------------------------------
\* What a cell may hold.
CellValues == Names \cup Nat \cup {-1} \cup Leftover \cup {"Integer", "Char"} \cup BOOLEAN

CellCount(rel) == 5 + Len(rel.primaryKey) + 4 * Len(rel.attributes)

\* A relation from cell at on, whatever notNull's cells hold.
RelationAt(p, at, rel) ==
    /\ p[at] = rel.name /\ p[at + 1] = rel.segmentID /\ p[at + 2] = rel.size
    /\ p[at + 3] = Len(rel.primaryKey)
    /\ \A q \in 1..Len(rel.primaryKey) : p[at + 3 + q] = rel.primaryKey[q]
    /\ p[at + 4 + Len(rel.primaryKey)] = Len(rel.attributes)
    /\ \A j \in 1..Len(rel.attributes) :
          /\ p[at + 5 + Len(rel.primaryKey) + 4 * (j - 1)] = rel.attributes[j].name
          /\ p[at + 5 + Len(rel.primaryKey) + 4 * (j - 1) + 1] = rel.attributes[j].type
          /\ p[at + 5 + Len(rel.primaryKey) + 4 * (j - 1) + 2] = rel.attributes[j].len

\* A page with the cells of a schema, the i-th relation's from at[i] on.
LaidOut(p, at, s) ==
    /\ at \in [1..(Len(s) + 1) -> Nat]
    /\ at[1] = 2
    /\ p[1] = Len(s)
    /\ \A i \in 1..Len(s) : at[i + 1] = at[i] + CellCount(s[i])
    /\ \A i \in 1..Len(s) : RelationAt(p, at[i], s[i])
    /\ at[Len(s) + 1] <= Len(p) + 1

LEMMA RelationTypes ==
  ASSUME NEW rel \in Relations
  PROVE  /\ rel.name \in Names /\ rel.segmentID \in Nat /\ rel.size \in Nat
         /\ rel.primaryKey \in Seq(Nat) /\ Len(rel.primaryKey) \in Nat
         /\ rel.attributes \in Seq(Attributes) /\ Len(rel.attributes) \in Nat
         /\ CellCount(rel) \in Nat
<1>1. rel.primaryKey \in Seq(Nat) /\ rel.attributes \in Seq(Attributes)
  BY DEF Relations
<1>2. Len(rel.primaryKey) \in Nat /\ Len(rel.attributes) \in Nat
  BY <1>1
<1> QED
  BY <1>1, <1>2 DEF Relations, CellCount

\* Parts of four cells each.
LEMMA PartsOfFour ==
  ASSUME NEW n \in Nat, NEW flat, NEW off, NEW seqs,
         InParts(flat, off, seqs, n), \A i \in 1..n : Len(seqs[i]) = 4
  PROVE  \A k \in 0..n : off[k] = 4 * k
<1> DEFINE Bad == {k \in 1..n : off[k] # 4 * k}
<1>1. Bad = {}
  <2> SUFFICES ASSUME Bad # {}
               PROVE  FALSE
    OBVIOUS
  <2>1. PICK k \in Bad : \A l \in Bad : k <= l
    <3>1. Bad \in SUBSET (1..n)
      OBVIOUS
    <3> HIDE DEF Bad
    <3> QED
      BY <3>1, LeastIndex
  <2>2. off[k - 1] = 4 * (k - 1)
    <3>1. CASE k = 1
      BY <3>1 DEF InParts
    <3>2. CASE k # 1
      <4>1. k - 1 \in 1..n /\ ~(k <= k - 1)
        BY <3>2
      <4> QED
        BY <2>1, <4>1
    <3> QED
      BY <3>1, <3>2
  <2>3. off[k] = off[k - 1] + 4
    BY DEF InParts
  <2> QED
    BY <2>2, <2>3
<1>2. off[0] = 0
  BY DEF InParts
<1> QED
  BY <1>1, <1>2

\* writeToDisk, one relation.
LEMMA CellsOfRelation ==
  ASSUME NEW rel \in Relations
  PROVE  /\ RelationCells(rel) \in Seq(CellValues)
         /\ Len(RelationCells(rel)) = CellCount(rel)
         /\ RelationAt(RelationCells(rel), 1, rel)
<1> DEFINE m == Len(rel.primaryKey)
           n == Len(rel.attributes)
           head == <<rel.name, rel.segmentID, rel.size, m>>
           seqs == [j \in DOMAIN rel.attributes |-> AttributeCells(rel.attributes[j])]
           flat == FlattenSeq(seqs)
<1>1. /\ rel.name \in Names /\ rel.segmentID \in Nat /\ rel.size \in Nat
      /\ rel.primaryKey \in Seq(Nat) /\ m \in Nat
      /\ rel.attributes \in Seq(Attributes) /\ n \in Nat
  BY RelationTypes
<1>2. ASSUME NEW j \in 1..n
      PROVE  /\ seqs[j] \in Seq(CellValues) /\ Len(seqs[j]) = 4
             /\ seqs[j][1] = rel.attributes[j].name
             /\ seqs[j][2] = rel.attributes[j].type
             /\ seqs[j][3] = rel.attributes[j].len
  <2>1. rel.attributes[j] \in Attributes
    BY <1>1
  <2>2. seqs[j] = AttributeCells(rel.attributes[j])
    BY <1>1
  <2>3. /\ rel.attributes[j].name \in CellValues /\ rel.attributes[j].type \in CellValues
        /\ rel.attributes[j].len \in CellValues /\ rel.attributes[j].notNull \in CellValues
    BY <2>1 DEF Attributes, CellValues
  <2> HIDE DEF seqs
  <2> QED
    BY <2>2, <2>3 DEF AttributeCells
<1>3. seqs \in [1..n -> Seq(CellValues)]
  <2>1. DOMAIN rel.attributes = 1..n
    BY <1>1
  <2> QED
    BY <1>2, <2>1
<1>. m \in Nat /\ n \in Nat
  BY <1>1
<1> HIDE DEF seqs, m, n
<1>4. flat \in Seq(CellValues)
  BY <1>1, <1>3, FlattenParts
<1>5. PICK off : InParts(flat, off, seqs, n)
  BY <1>1, <1>3, FlattenParts
<1> HIDE DEF flat
<1>6. \A k \in 0..n : off[k] = 4 * k
  BY <1>1, <1>2, <1>5, PartsOfFour
<1>7. Len(flat) = 4 * n
  BY <1>1, <1>5, <1>6 DEF InParts
<1>8. \A j \in 1..n : \A c \in 1..4 : flat[4 * (j - 1) + c] = seqs[j][c]
  <2> TAKE j \in 1..n
  <2> TAKE c \in 1..4
  <2>1. j - 1 \in 0..n
    BY <1>1
  <2>2. flat[off[j - 1] + c] = seqs[j][c]
    BY <1>2, <1>5 DEF InParts
  <2> QED
    BY <1>6, <2>1, <2>2
<1> DEFINE r1 == head \o rel.primaryKey
           r2 == r1 \o <<n>>
           r3 == r2 \o flat
<1>9. RelationCells(rel) = r3
  BY DEF RelationCells, flat, seqs, m, n
<1>10. rel.primaryKey \in Seq(CellValues) /\ Len(rel.primaryKey) = m
  BY <1>1 DEF CellValues, m
<1>11. head \in Seq(CellValues) /\ Len(head) = 4
  BY <1>1 DEF CellValues
<1>12. /\ r1 \in Seq(CellValues) /\ Len(r1) = 4 + m
       /\ r1[1] = rel.name /\ r1[2] = rel.segmentID /\ r1[3] = rel.size /\ r1[4] = m
       /\ \A q \in 1..m : r1[4 + q] = rel.primaryKey[q]
  <2>1. head[1] = rel.name /\ head[2] = rel.segmentID /\ head[3] = rel.size /\ head[4] = m
    OBVIOUS
  <2> HIDE DEF head
  <2>2. /\ r1 \in Seq(CellValues) /\ Len(r1) = Len(head) + m
        /\ \A c \in 1..(Len(head) + m) :
              r1[c] = IF c <= Len(head) THEN head[c] ELSE rel.primaryKey[c - Len(head)]
    BY <1>10, <1>11, ConcatProperties
  <2>3. \A q \in 1..m : 4 + q \in 1..(4 + m) /\ ~(4 + q <= 4) /\ 4 + q - 4 = q
    BY <1>1
  <2> HIDE DEF r1
  <2>4. \A q \in 1..m : r1[4 + q] = rel.primaryKey[q]
    BY <1>11, <2>2, <2>3
  <2> QED
    BY <1>1, <1>11, <2>1, <2>2, <2>4
<1> HIDE DEF r1
<1>13. /\ r2 \in Seq(CellValues) /\ Len(r2) = 5 + m
       /\ \A c \in 1..(4 + m) : r2[c] = r1[c]
       /\ r2[5 + m] = n
  <2>1. <<n>> \in Seq(CellValues)
    BY <1>1 DEF CellValues
  <2> QED
    BY <1>1, <1>12, <2>1
<1> HIDE DEF r2
<1>14. /\ r3 \in Seq(CellValues) /\ Len(r3) = 5 + m + 4 * n
       /\ \A c \in 1..(5 + m) : r3[c] = r2[c]
       /\ \A c \in 1..(4 * n) : r3[5 + m + c] = flat[c]
  <2>1. /\ r3 \in Seq(CellValues) /\ Len(r3) = Len(r2) + Len(flat)
        /\ \A c \in 1..(Len(r2) + Len(flat)) :
              r3[c] = IF c <= Len(r2) THEN r2[c] ELSE flat[c - Len(r2)]
    BY <1>4, <1>13, ConcatProperties
  <2>2. \A c \in 1..(4 * n) : /\ 5 + m + c \in 1..(5 + m + 4 * n)
                              /\ ~(5 + m + c <= 5 + m) /\ 5 + m + c - (5 + m) = c
    BY <1>1
  <2> HIDE DEF r3
  <2>3. \A c \in 1..(4 * n) : r3[5 + m + c] = flat[c]
    BY <1>7, <1>13, <2>1, <2>2
  <2> QED
    BY <1>1, <1>7, <1>13, <2>1, <2>3
<1> HIDE DEF r3
<1>15. \A c \in 1..(4 + m) : r3[c] = r1[c]
  BY <1>1, <1>13, <1>14
<1>16. ASSUME NEW j \in 1..n
       PROVE  /\ r3[1 + 5 + m + 4 * (j - 1)] = rel.attributes[j].name
              /\ r3[1 + 5 + m + 4 * (j - 1) + 1] = rel.attributes[j].type
              /\ r3[1 + 5 + m + 4 * (j - 1) + 2] = rel.attributes[j].len
  <2>1. \A c \in 1..3 : 4 * (j - 1) + c \in 1..(4 * n)
    BY <1>1
  <2>2. \A c \in 1..3 : r3[5 + m + (4 * (j - 1) + c)] = seqs[j][c]
    <3> TAKE c \in 1..3
    <3> DEFINE d == 4 * (j - 1) + c
    <3>1. d \in 1..(4 * n)
      BY <2>1
    <3>2. c \in 1..4 /\ flat[d] = seqs[j][c]
      BY <1>8
    <3> HIDE DEF d
    <3>3. r3[5 + m + d] = seqs[j][c]
      BY <1>14, <3>1, <3>2
    <3> QED
      BY <3>3 DEF d
  <2>3. \A c \in 1..3 : 5 + m + (4 * (j - 1) + c) = 1 + 5 + m + 4 * (j - 1) + (c - 1)
    BY <1>1
  <2> QED
    BY <1>1, <1>2, <2>2, <2>3
<1>17. RelationAt(r3, 1, rel)
  <2>1. \A q \in 1..m : r3[1 + 3 + q] = rel.primaryKey[q]
    BY <1>1, <1>12, <1>15
  <2>2. r3[1 + 4 + m] = n
    BY <1>1, <1>13, <1>14
  <2>3. r3[1] = rel.name /\ r3[1 + 1] = rel.segmentID /\ r3[1 + 2] = rel.size /\ r3[1 + 3] = m
    BY <1>1, <1>12, <1>15
  <2> QED
    BY <1>16, <2>1, <2>2, <2>3 DEF RelationAt, m, n
<1> QED
  BY <1>9, <1>14, <1>17 DEF CellCount, m, n

\* The same cells further on.
LEMMA RelationMoved ==
  ASSUME NEW rel \in Relations, NEW p, NEW d \in Nat, NEW cells,
         RelationAt(cells, 1, rel),
         \A c \in 1..CellCount(rel) : p[d + c] = cells[c]
  PROVE  RelationAt(p, d + 1, rel)
<1> DEFINE m == Len(rel.primaryKey)
           n == Len(rel.attributes)
<1>1. m \in Nat /\ n \in Nat
  BY RelationTypes
<1>2. /\ cells[1] = rel.name /\ cells[1 + 1] = rel.segmentID /\ cells[1 + 2] = rel.size
      /\ cells[1 + 3] = m
      /\ \A q \in 1..m : cells[1 + 3 + q] = rel.primaryKey[q]
      /\ cells[1 + 4 + m] = n
      /\ \A j \in 1..n :
            /\ cells[1 + 5 + m + 4 * (j - 1)] = rel.attributes[j].name
            /\ cells[1 + 5 + m + 4 * (j - 1) + 1] = rel.attributes[j].type
            /\ cells[1 + 5 + m + 4 * (j - 1) + 2] = rel.attributes[j].len
  BY DEF RelationAt
<1>3. \A c \in 1..(5 + m + 4 * n) : p[d + c] = cells[c]
  BY DEF CellCount
<1> HIDE DEF m, n
<1>4. /\ p[d + 1] = rel.name /\ p[d + 1 + 1] = rel.segmentID /\ p[d + 1 + 2] = rel.size
      /\ p[d + 1 + 3] = m
  BY <1>1, <1>2, <1>3
<1>5. ASSUME NEW q \in 1..m PROVE p[d + 1 + 3 + q] = rel.primaryKey[q]
  <2> DEFINE c == 1 + 3 + q
  <2>1. c \in 1..(5 + m + 4 * n) /\ d + 1 + 3 + q = d + c
    BY <1>1
  <2>2. cells[c] = rel.primaryKey[q]
    BY <1>2
  <2> HIDE DEF c
  <2> QED
    BY <1>3, <2>1, <2>2
<1>6. p[d + 1 + 4 + m] = n
  <2> DEFINE c == 1 + 4 + m
  <2>1. c \in 1..(5 + m + 4 * n) /\ d + 1 + 4 + m = d + c
    BY <1>1
  <2>2. cells[c] = n
    BY <1>2
  <2> HIDE DEF c
  <2> QED
    BY <1>3, <2>1, <2>2
<1>7. ASSUME NEW j \in 1..n, NEW x \in 0..2
      PROVE  p[d + 1 + 5 + m + 4 * (j - 1) + x] = cells[1 + 5 + m + 4 * (j - 1) + x]
  <2> DEFINE c == 1 + 5 + m + 4 * (j - 1) + x
  <2>1. c \in 1..(5 + m + 4 * n) /\ d + 1 + 5 + m + 4 * (j - 1) + x = d + c
    BY <1>1
  <2> HIDE DEF c
  <2>2. p[d + c] = cells[c]
    BY <1>3, <2>1
  <2> QED
    BY <2>1, <2>2 DEF c
<1>8. ASSUME NEW j \in 1..n
      PROVE  /\ p[d + 1 + 5 + m + 4 * (j - 1)] = rel.attributes[j].name
             /\ p[d + 1 + 5 + m + 4 * (j - 1) + 1] = rel.attributes[j].type
             /\ p[d + 1 + 5 + m + 4 * (j - 1) + 2] = rel.attributes[j].len
  <2>1. /\ d + 1 + 5 + m + 4 * (j - 1) + 0 = d + 1 + 5 + m + 4 * (j - 1)
        /\ 1 + 5 + m + 4 * (j - 1) + 0 = 1 + 5 + m + 4 * (j - 1)
    BY <1>1
  <2>2. p[d + 1 + 5 + m + 4 * (j - 1)] = cells[1 + 5 + m + 4 * (j - 1)]
    BY <1>7, <2>1
  <2>3. /\ p[d + 1 + 5 + m + 4 * (j - 1) + 1] = cells[1 + 5 + m + 4 * (j - 1) + 1]
        /\ p[d + 1 + 5 + m + 4 * (j - 1) + 2] = cells[1 + 5 + m + 4 * (j - 1) + 2]
    BY <1>7
  <2> QED
    BY <1>2, <2>2, <2>3
<1> QED
  BY <1>4, <1>5, <1>6, <1>8 DEF RelationAt, m, n

\* writeToDisk: the cells of a schema, and what is on the page behind them.
LEMMA CellsLaidOut ==
  ASSUME NEW s \in Seq(Relations), NEW rest \in Seq(CellValues)
  PROVE  /\ Cells(s) \in Seq(CellValues) /\ Len(Cells(s)) > 0
         /\ Cells(s) \o rest \in Seq(CellValues)
         /\ \E at : LaidOut(Cells(s) \o rest, at, s)
<1> DEFINE n == Len(s)
           seqs == [i \in DOMAIN s |-> RelationCells(s[i])]
           flat == FlattenSeq(seqs)
           p == Cells(s) \o rest
<1>1. n \in Nat /\ DOMAIN s = 1..n /\ \A i \in 1..n : s[i] \in Relations
  OBVIOUS
<1>2. ASSUME NEW i \in 1..n
      PROVE  /\ seqs[i] \in Seq(CellValues) /\ Len(seqs[i]) = CellCount(s[i])
             /\ RelationAt(seqs[i], 1, s[i])
  BY <1>1, CellsOfRelation
<1>3. seqs \in [1..n -> Seq(CellValues)]
  BY <1>1, <1>2
<1>4. Cells(s) = <<n>> \o flat
  BY DEF Cells
<1> HIDE DEF seqs, n, flat
<1>5. flat \in Seq(CellValues) /\ \E off : InParts(flat, off, seqs, n)
  BY <1>1, <1>3, FlattenParts DEF flat
<1>6. PICK off : InParts(flat, off, seqs, n)
  BY <1>5
<1>7. /\ off \in [0..n -> Nat] /\ off[0] = 0 /\ off[n] = Len(flat)
      /\ \A i \in 1..n : off[i] = off[i - 1] + CellCount(s[i])
      /\ \A i \in 1..n : \A c \in 1..CellCount(s[i]) : flat[off[i - 1] + c] = seqs[i][c]
  BY <1>2, <1>6 DEF InParts
<1>8. /\ Cells(s) \in Seq(CellValues) /\ Len(Cells(s)) = 1 + Len(flat)
      /\ Cells(s)[1] = n
      /\ \A c \in 1..Len(flat) : Cells(s)[1 + c] = flat[c]
  <2>1. <<n>> \in Seq(CellValues) /\ Len(<<n>>) = 1
    BY <1>1 DEF CellValues
  <2> QED
    BY <1>4, <1>5, <2>1
<1>9. /\ p \in Seq(CellValues) /\ Len(p) = Len(Cells(s)) + Len(rest)
      /\ \A c \in 1..Len(Cells(s)) : p[c] = Cells(s)[c]
  <2> DEFINE q == Cells(s)
  <2>1. q \in Seq(CellValues) /\ p = q \o rest
    BY <1>8
  <2> HIDE DEF q, p
  <2>2. Len(q) \in Nat /\ Len(rest) \in Nat
    BY <2>1
  <2>3. /\ p \in Seq(CellValues) /\ Len(p) = Len(q) + Len(rest)
        /\ \A c \in 1..(Len(q) + Len(rest)) :
              p[c] = IF c <= Len(q) THEN q[c] ELSE rest[c - Len(q)]
    BY <2>1, ConcatProperties
  <2>4. \A c \in 1..Len(q) : c \in 1..(Len(q) + Len(rest)) /\ c <= Len(q)
    BY <2>2
  <2> QED
    BY <2>3, <2>4 DEF q
<1>10. Len(flat) \in Nat /\ Len(rest) \in Nat
  BY <1>5
<1> HIDE DEF p
<1> DEFINE at == [i \in 1..(n + 1) |-> off[i - 1] + 2]
<1>11. \A i \in 1..(n + 1) : i - 1 \in 0..n
  BY <1>1
<1>12. /\ at \in [1..(n + 1) -> Nat] /\ at[1] = 2 /\ at[n + 1] = Len(flat) + 2
       /\ \A i \in 1..n : at[i] = off[i - 1] + 2 /\ at[i + 1] = off[i] + 2
  BY <1>1, <1>7, <1>11
<1> HIDE DEF at
<1>13. ASSUME NEW i \in 1..n PROVE at[i + 1] = at[i] + CellCount(s[i])
  BY <1>1, <1>7, <1>12, RelationTypes
<1>14. \A i \in 0..n : off[i] <= off[n]
  <2> DEFINE Bad == {k \in 1..n : \E i \in 0..k : ~(off[i] <= off[k])}
  <2>1. Bad = {}
    <3> SUFFICES ASSUME Bad # {}
                 PROVE  FALSE
      OBVIOUS
    <3>1. PICK k \in Bad : \A l \in Bad : k <= l
      <4>1. Bad \in SUBSET (1..n)
        OBVIOUS
      <4> HIDE DEF Bad
      <4> QED
        BY <1>1, <4>1, LeastIndex
    <3>2. PICK i \in 0..k : ~(off[i] <= off[k])
      OBVIOUS
    <3>3. k - 1 \in 0..n /\ CellCount(s[k]) \in Nat /\ off[k] = off[k - 1] + CellCount(s[k])
      <4>1. k \in 1..n
        OBVIOUS
      <4> HIDE DEF Bad
      <4>2. s[k] \in Relations
        BY <1>1, <4>1
      <4> QED
        BY <1>1, <1>7, <4>1, <4>2, RelationTypes
    <3>4. i # k /\ off[k] \in Nat /\ off[k - 1] \in Nat
      BY <1>7, <3>2, <3>3
    <3>5. i \in 0..(k - 1) /\ off[i] \in Nat
      BY <1>1, <1>7, <3>4
    <3>6. ~(off[i] <= off[k - 1])
      BY <3>2, <3>3, <3>4, <3>5
    <3>7. k - 1 # 0
      BY <1>7, <3>5, <3>6
    <3>8. k - 1 \in Bad /\ ~(k <= k - 1)
      BY <3>3, <3>5, <3>6, <3>7
    <3> HIDE DEF Bad
    <3> QED
      BY <3>1, <3>8
  <2>2. CASE n = 0
    BY <1>7, <2>2
  <2>3. CASE n # 0
    <3>1. n \in 1..n
      BY <1>1, <2>3
    <3> QED
      BY <2>1, <3>1
  <2> QED
    BY <2>2, <2>3
<1>15. ASSUME NEW i \in 1..n PROVE RelationAt(p, at[i], s[i])
  <2> DEFINE d == off[i - 1] + 1
             size == CellCount(s[i])
  <2>1. /\ size \in Nat /\ s[i] \in Relations
        /\ off[i - 1] \in Nat /\ off[i - 1] + size <= Len(flat) /\ d \in Nat
    BY <1>1, <1>7, <1>11, <1>14, RelationTypes
  <2>2. ASSUME NEW c \in 1..size PROVE p[d + c] = seqs[i][c]
    <3> DEFINE e == off[i - 1] + c
    <3>1. e \in 1..Len(flat) /\ d + c = 1 + e
      <4>1. size \in Nat /\ off[i - 1] \in Nat /\ off[i - 1] + size <= Len(flat)
        BY <2>1
      <4>2. c \in 1..size
        OBVIOUS
      <4> HIDE DEF size
      <4> QED
        BY <1>10, <4>1, <4>2
    <3>2. flat[e] = seqs[i][c]
      BY <1>7
    <3> HIDE DEF e
    <3>3. 1 + e \in 1..Len(Cells(s))
      BY <1>8, <1>10, <3>1
    <3>4. p[1 + e] = flat[e]
      BY <1>8, <1>9, <3>1, <3>3
    <3> QED
      BY <3>1, <3>2, <3>4
  <2>3. at[i] = d + 1
    BY <1>12, <2>1
  <2>4. RelationAt(seqs[i], 1, s[i])
    BY <1>2
  <2> HIDE DEF d
  <2>5. RelationAt(p, d + 1, s[i])
    BY <2>1, <2>2, <2>4, RelationMoved
  <2> QED
    BY <2>3, <2>5
<1>16. p[1] = n
  BY <1>8, <1>9, <1>10
<1>17. LaidOut(p, at, s)
  <2>1. at[n + 1] <= Len(p) + 1
    BY <1>8, <1>9, <1>10, <1>12
  <2> QED
    BY <1>12, <1>13, <1>15, <1>16, <2>1 DEF LaidOut, n
<1> QED
  BY <1>8, <1>9, <1>10, <1>17 DEF p

-----------------------------------------------------------------------------
\* loadFromDisk finds the relations where writeToDisk put them.
LEMMA StartOfRelation ==
  ASSUME NEW s \in Seq(Relations), NEW p, NEW at, LaidOut(p, at, s), NEW i \in 1..Len(s)
  PROVE  Start(p, i) = at[i]
<1>1. at[1] = 2 /\ at \in [1..(Len(s) + 1) -> Nat] /\ Len(s) \in Nat
  BY DEF LaidOut
<1>2. ASSUME NEW k \in 1..i, k # 1
      PROVE  at[k] = AttrAt(p, at[k - 1], AttrCount(p, at[k - 1]) + 1)
  <2> DEFINE j == k - 1
             x == at[j]
             rel == s[j]
  <2>1. j \in 1..Len(s) /\ j + 1 = k
    BY <1>1, <1>2
  <2>2. rel \in Relations /\ x \in Nat
    BY <1>1, <2>1
  <2>3. at[j + 1] = x + CellCount(rel) /\ RelationAt(p, x, rel)
    BY <2>1 DEF LaidOut
  <2> HIDE DEF rel, x, j
  <2> DEFINE m == Len(rel.primaryKey)
             n == Len(rel.attributes)
  <2>4. m \in Nat /\ n \in Nat /\ CellCount(rel) = 5 + m + 4 * n
    BY <2>2, RelationTypes DEF CellCount
  <2>5. KeyLen(p, x) = Len(rel.primaryKey) /\ AttrCount(p, x) = Len(rel.attributes)
    BY <2>3 DEF RelationAt, KeyLen, AttrCount
  <2>6. AttrAt(p, x, AttrCount(p, x) + 1) = x + CellCount(rel)
    <3>1. KeyLen(p, x) = m /\ AttrCount(p, x) = n
      BY <2>5
    <3> HIDE DEF m, n
    <3>2. AttrAt(p, x, AttrCount(p, x) + 1) = x + 5 + m + 4 * (n + 1 - 1)
      BY <2>2, <2>4, <3>1 DEF AttrAt
    <3> QED
      BY <2>2, <2>4, <3>2
  <2> QED
    BY <2>1, <2>3, <2>6 DEF x, j
<1> DEFINE g == [k \in 1..i |-> at[k]]
<1>3. g = [k \in 1..i |-> IF k = 1 THEN 2
                          ELSE AttrAt(p, g[k - 1], AttrCount(p, g[k - 1]) + 1)]
  <2>1. ASSUME NEW k \in 1..i
        PROVE  g[k] = IF k = 1 THEN 2
                      ELSE AttrAt(p, g[k - 1], AttrCount(p, g[k - 1]) + 1)
    <3>1. k # 1 => k - 1 \in 1..i
      OBVIOUS
    <3>2. g[k] = at[k] /\ (k # 1 => g[k - 1] = at[k - 1])
      BY <3>1
    <3> HIDE DEF g
    <3> QED
      BY <1>1, <1>2, <3>2
  <2>2. g = [k \in 1..i |-> g[k]]
    OBVIOUS
  <2> HIDE DEF g
  <2> QED
    BY <2>1, <2>2
<1> DEFINE F == CHOOSE f : f = [k \in 1..i |-> IF k = 1 THEN 2
                                 ELSE AttrAt(p, f[k - 1], AttrCount(p, f[k - 1]) + 1)]
<1>4. F = [k \in 1..i |-> IF k = 1 THEN 2
                          ELSE AttrAt(p, F[k - 1], AttrCount(p, F[k - 1]) + 1)]
  <2> HIDE DEF g
  <2> QED
    BY <1>3
<1>5. Start(p, i) = F[i]
  BY DEF Start
<1> HIDE DEF F, g
<1>6. \A k \in 1..i : F[k] = IF k = 1 THEN 2
                             ELSE AttrAt(p, F[k - 1], AttrCount(p, F[k - 1]) + 1)
  BY <1>4
<1> DEFINE Bad == {k \in 1..i : F[k] # at[k]}
<1>7. Bad = {}
  <2> SUFFICES ASSUME Bad # {}
               PROVE  FALSE
    OBVIOUS
  <2>1. PICK k \in Bad : \A l \in Bad : k <= l
    <3>1. Bad \in SUBSET (1..i) /\ i \in Nat
      BY <1>1
    <3> HIDE DEF Bad
    <3> QED
      BY <3>1, LeastIndex
  <2>2. k \in 1..i /\ F[k] # at[k]
    OBVIOUS
  <2>3. k # 1
    BY <1>1, <1>6, <2>2
  <2>4. k - 1 \in 1..i /\ k - 1 \notin Bad
    <3>1. k - 1 \in 1..i /\ ~(k <= k - 1)
      BY <2>2, <2>3
    <3> HIDE DEF Bad
    <3> QED
      BY <2>1, <3>1
  <2>5. F[k - 1] = at[k - 1]
    BY <2>4
  <2> HIDE DEF Bad
  <2> QED
    BY <1>2, <1>6, <2>2, <2>3, <2>5
<1> QED
  BY <1>1, <1>5, <1>7

\* loadFromDisk, one relation.
LEMMA RelationLoaded ==
  ASSUME NEW rel \in Relations, NEW p \in Seq(CellValues), NEW at \in Nat,
         at > 0, at + CellCount(rel) <= Len(p) + 1, RelationAt(p, at, rel)
  PROVE  RelationOn(p, at) = NotNullAttributes(rel)
<1> DEFINE m == Len(rel.primaryKey)
           n == Len(rel.attributes)
           keys == SubSeq(p, at + 4, at + 3 + KeyLen(p, at))
           attrs == [j \in 1..AttrCount(p, at) |-> AttributeOn(p, AttrAt(p, at, j))]
           wanted == [j \in DOMAIN rel.attributes |-> [rel.attributes[j] EXCEPT !.notNull = TRUE]]
<1>1. m \in Nat /\ n \in Nat /\ rel.primaryKey \in Seq(Nat) /\ rel.attributes \in Seq(Attributes)
  BY RelationTypes
<1>2. KeyLen(p, at) = m /\ AttrCount(p, at) = n
  BY DEF RelationAt, KeyLen, AttrCount
<1>3. keys = rel.primaryKey
  <2>1. Len(p) \in Nat /\ at + 5 + m + 4 * n <= Len(p) + 1
    <3>1. CellCount(rel) = 5 + m + 4 * n
      BY DEF CellCount
    <3>2. at + CellCount(rel) <= Len(p) + 1
      OBVIOUS
    <3> HIDE DEF m, n
    <3> QED
      BY <1>1, <3>1, <3>2
  <2> HIDE DEF m, n
  <2>2. keys = SubSeq(p, at + 4, at + 3 + m)
    BY <1>2
  <2> HIDE DEF keys
  <2>3. at + 4 \in 1..(Len(p) + 1) /\ at + 3 + m \in (at + 4 - 1)..Len(p)
    BY <1>1, <2>1
  <2>4. /\ Len(keys) = m /\ keys \in Seq(CellValues)
        /\ \A q \in 1..m : keys[q] = p[at + 3 + q]
    <3>0. PICK a, b : a = at + 4 /\ b = at + 3 + m
      OBVIOUS
    <3>1. a \in Int /\ b \in Int /\ (a <= b \/ b - a + 1 = 0)
      BY <1>1, <3>0
    <3>2. \A q \in a..b : p[q] \in CellValues
      BY <1>1, <2>1, <3>0
    <3>3. /\ SubSeq(p, a, b) \in Seq(CellValues)
          /\ Len(SubSeq(p, a, b)) = IF a <= b THEN b - a + 1 ELSE 0
          /\ \A q \in 1..(b - a + 1) : SubSeq(p, a, b)[q] = p[a + q - 1]
      BY <3>1, <3>2, SubSeqProperties
    <3>4. Len(SubSeq(p, a, b)) = b - a + 1
      BY <3>1, <3>3
    <3>5. keys = SubSeq(p, a, b)
      BY <2>2, <3>0
    <3>6. b - a + 1 = m
      BY <1>1, <3>0
    <3>7. Len(keys) = m /\ keys \in Seq(CellValues)
      BY <3>3, <3>4, <3>5, <3>6
    <3>8. ASSUME NEW q \in 1..m PROVE keys[q] = p[at + 3 + q]
      <4>1. a + q - 1 = at + 3 + q
        BY <1>1, <3>0
      <4> QED
        BY <3>3, <3>5, <3>6, <4>1
    <3> QED
      BY <3>7, <3>8
  <2>7. \A q \in 1..m : keys[q] = rel.primaryKey[q]
    BY <2>4 DEF RelationAt, m
  <2>8. Len(rel.primaryKey) = m
    BY DEF m
  <2> QED
    <3>1. keys = [q \in 1..m |-> keys[q]]
      BY <2>4
    <3>2. rel.primaryKey = [q \in 1..m |-> rel.primaryKey[q]]
      BY <1>1, <2>8
    <3>3. [q \in 1..m |-> keys[q]] = [q \in 1..m |-> rel.primaryKey[q]]
      BY <2>7
    <3> QED
      BY ONLY <3>1, <3>2, <3>3
<1>4. attrs = wanted
  <2>1. ASSUME NEW j \in 1..n
        PROVE  AttributeOn(p, AttrAt(p, at, j)) = [rel.attributes[j] EXCEPT !.notNull = TRUE]
    <3> DEFINE a == rel.attributes[j]
               x == AttrAt(p, at, j)
    <3>1. a \in Attributes
      BY <1>1
    <3>2. x = at + 5 + m + 4 * (j - 1)
      BY <1>2 DEF AttrAt
    <3>3. p[x] = a.name /\ p[x + 1] = a.type /\ p[x + 2] = a.len
      BY <3>2 DEF RelationAt
    <3> HIDE DEF a, x
    <3>4. AttributeOn(p, x) = [name |-> a.name, type |-> a.type, len |-> a.len, notNull |-> TRUE]
      <4> DEFINE b == Attribute(p[x], p[x + 1])
      <4>1. b \in [name : {a.name}, type : {a.type}, len : {-1}, notNull : {TRUE}]
        BY <3>3 DEF Attribute
      <4>2. AttributeOn(p, x) = [b EXCEPT !.len = a.len]
        BY <3>3 DEF AttributeOn
      <4> HIDE DEF b
      <4>3. b.name = a.name /\ b.type = a.type /\ b.notNull = TRUE
        BY <4>1
      <4>4. [b EXCEPT !.len = a.len]
               = [name |-> b.name, type |-> b.type, len |-> a.len, notNull |-> b.notNull]
        BY <4>1
      <4> QED
        BY <4>2, <4>3, <4>4
    <3>5. [a EXCEPT !.notNull = TRUE]
             = [name |-> a.name, type |-> a.type, len |-> a.len, notNull |-> TRUE]
      <4>1. \A x1 : [a EXCEPT !.notNull = x1]
                      = [name |-> a.name, type |-> a.type, len |-> a.len, notNull |-> x1]
        BY <3>1 DEF Attributes
      <4> QED
        BY ONLY <4>1
    <3> QED
      BY <3>4, <3>5 DEF a, x
  <2>2. DOMAIN rel.attributes = 1..n
    BY <1>1
  <2> QED
    BY <1>2, <2>1, <2>2
<1>5. p[at] = rel.name /\ p[at + 1] = rel.segmentID /\ p[at + 2] = rel.size
  BY DEF RelationAt
<1>6. RelationOn(p, at) \in [name : {rel.name}, primaryKey : {keys}, attributes : {attrs},
                             size : {rel.size}, segmentID : {rel.segmentID}]
  <2> DEFINE b == Relation(p[at])
  <2>1. b \in [name : {rel.name}, primaryKey : {<< >>}, attributes : {<< >>},
               size : {0}, segmentID : {0}]
    BY <1>5 DEF Relation
  <2>2. RelationOn(p, at) = [b EXCEPT !.segmentID = rel.segmentID, !.size = rel.size,
                                      !.primaryKey = keys, !.attributes = attrs]
    BY <1>5 DEF RelationOn
  <2> HIDE DEF b, m, n, keys, attrs
  <2> QED
    BY <2>1, <2>2
<1>7. NotNullAttributes(rel)
         \in [name : {rel.name}, primaryKey : {rel.primaryKey}, attributes : {wanted},
              size : {rel.size}, segmentID : {rel.segmentID}]
  <2>1. NotNullAttributes(rel) = [rel EXCEPT !.attributes = wanted]
    BY DEF NotNullAttributes
  <2> HIDE DEF m, n, keys, attrs, wanted
  <2> QED
    BY <2>1 DEF Relations
<1> HIDE DEF m, n, keys, attrs, wanted
<1>8. RelationOn(p, at) = [name |-> rel.name, primaryKey |-> keys, attributes |-> attrs,
                           size |-> rel.size, segmentID |-> rel.segmentID]
  BY <1>6
<1>9. NotNullAttributes(rel) = [name |-> rel.name, primaryKey |-> rel.primaryKey,
                                attributes |-> wanted,
                                size |-> rel.size, segmentID |-> rel.segmentID]
  BY <1>7
<1> QED
  BY <1>3, <1>4, <1>8, <1>9

\* The relations are one behind the other.
LEMMA RelationsInOrder ==
  ASSUME NEW s \in Seq(Relations), NEW p, NEW at, LaidOut(p, at, s)
  PROVE  /\ \A i \in 1..Len(s) : at[i] >= 2 /\ at[i] + CellCount(s[i]) <= Len(p) + 1
         /\ \A i, k \in 1..Len(s) : i < k => at[i] + CellCount(s[i]) <= at[k]
<1> DEFINE n == Len(s)
           T == 1..(n + 1)
           Bad == {k \in T : \E i \in 1..(k - 1) : ~(at[i] + CellCount(s[i]) <= at[k])}
<1>1. /\ n \in Nat /\ at \in [T -> Nat] /\ at[1] = 2 /\ at[n + 1] <= Len(p) + 1
      /\ \A i \in 1..n : s[i] \in Relations
      /\ \A i \in 1..n : at[i + 1] = at[i] + CellCount(s[i])
  BY DEF LaidOut
<1>2. \A i \in 1..n : CellCount(s[i]) \in Nat
  BY <1>1, RelationTypes
<1> HIDE DEF n
<1>3. \A i \in 1..n : at[i] \in Nat /\ at[i] + CellCount(s[i]) \in Nat
  BY <1>1, <1>2
<1>4. Bad = {}
  <2> SUFFICES ASSUME Bad # {}
               PROVE  FALSE
    OBVIOUS
  <2>1. PICK k \in Bad : \A l \in Bad : k <= l
    <3>1. Bad \in SUBSET (1..(n + 1)) /\ n + 1 \in Nat
      BY <1>1
    <3> HIDE DEF Bad
    <3> QED
      BY <3>1, LeastIndex
  <2>2. PICK i \in 1..(k - 1) : ~(at[i] + CellCount(s[i]) <= at[k])
    OBVIOUS
  <2>3. k \in 1..(n + 1) /\ k - 1 \in 1..n /\ i \in 1..n /\ at[k] \in Nat
    BY <1>1, <2>2
  <2>4. at[k] = at[k - 1] + CellCount(s[k - 1])
    BY <1>1, <2>3
  <2>5. i # k - 1
    BY <1>3, <2>2, <2>3, <2>4
  <2>6. i \in 1..(k - 1 - 1)
    BY <2>2, <2>3, <2>5
  <2>7. ~(at[i] + CellCount(s[i]) <= at[k - 1])
    BY <1>2, <1>3, <2>2, <2>3, <2>4
  <2>8. k - 1 \in Bad /\ ~(k <= k - 1)
    <3>1. k - 1 \in T /\ ~(k <= k - 1)
      BY <1>1, <2>3
    <3>2. \E l \in 1..(k - 1 - 1) : ~(at[l] + CellCount(s[l]) <= at[k - 1])
      BY <2>6, <2>7
    <3> HIDE DEF T
    <3> QED
      BY <3>1, <3>2
  <2> HIDE DEF Bad
  <2> QED
    BY <2>1, <2>8
<1>5. \A k \in T : \A i \in 1..(k - 1) : at[i] + CellCount(s[i]) <= at[k]
  BY <1>4
<1>6. \A i, k \in 1..n : i < k => at[i] + CellCount(s[i]) <= at[k]
  <2> TAKE i, k \in 1..n
  <2> HAVE i < k
  <2>1. k \in T /\ i \in 1..(k - 1)
    BY <1>1
  <2> QED
    BY <1>5, <2>1
<1>7. ASSUME NEW i \in 1..n
      PROVE  at[i] >= 2 /\ at[i] + CellCount(s[i]) <= Len(p) + 1
  <2>1. n + 1 \in T /\ i \in 1..(n + 1 - 1)
    BY <1>1
  <2>2. at[i] + CellCount(s[i]) <= at[n + 1]
    <3>1. PICK k : k = n + 1
      OBVIOUS
    <3>2. k \in T /\ i \in 1..(k - 1)
      BY <1>1, <3>1
    <3>3. at[i] + CellCount(s[i]) <= at[k]
      BY <1>5, <3>2
    <3> QED
      BY <3>1, <3>3
  <2>3. i # 1 => at[1] + CellCount(s[1]) <= at[i] /\ 1 \in 1..n
    BY <1>1, <1>6
  <2>4. at[i] >= 2
    BY <1>1, <1>2, <1>3, <2>3
  <2>5. Len(p) + 1 >= at[n + 1] /\ at[n + 1] \in Nat
    BY <1>1, <2>1
  <2> QED
    BY <1>3, <2>2, <2>4, <2>5
<1> QED
  BY <1>6, <1>7 DEF n

\* loadFromDisk, and what it stores to the page.
LEMMA SchemaLoaded ==
  ASSUME NEW s \in Seq(Relations), NEW p \in Seq(CellValues), NEW at, LaidOut(p, at, s)
  PROVE  Known(SchemaOn(p)) = NotNull(Known(s))
<1>1. ASSUME NEW i \in 1..Len(s) PROVE RelationOn(p, Start(p, i)) = NotNullAttributes(s[i])
  <2>1. Start(p, i) = at[i]
    BY StartOfRelation
  <2>2. at[i] \in Nat /\ at[i] > 0 /\ at[i] + CellCount(s[i]) <= Len(p) + 1
    <3>1. at[i] \in Nat
      BY DEF LaidOut
    <3>2. at[i] >= 2 /\ at[i] + CellCount(s[i]) <= Len(p) + 1
      BY RelationsInOrder
    <3> QED
      BY <3>1, <3>2
  <2>3. s[i] \in Relations /\ RelationAt(p, at[i], s[i])
    BY DEF LaidOut
  <2> QED
    BY <2>1, <2>2, <2>3, RelationLoaded
<1>2. p[1] = Len(s) /\ DOMAIN s = 1..Len(s)
  BY DEF LaidOut
<1>3. SchemaOn(p) = [i \in DOMAIN s |-> NotNullAttributes(s[i])]
  BY <1>1, <1>2 DEF SchemaOn
<1>4. Known(s) # None /\ Known(s)[1] = s
  BY DEF Known, None
<1> QED
  BY <1>3, <1>4 DEF NotNull, Known

LEMMA TouchedStaysLaidOut ==
  ASSUME NEW s \in Seq(Relations), NEW p \in Seq(CellValues), NEW at, LaidOut(p, at, s)
  PROVE  Touched(p) \in Seq(CellValues) /\ LaidOut(Touched(p), at, s)
<1> DEFINE t == Touched(p)
<1>1. t \in Seq(CellValues) /\ Len(t) = Len(p)
  <2>1. Len(p) \in Nat /\ DOMAIN p = 1..Len(p)
    OBVIOUS
  <2>2. t \in [1..Len(p) -> CellValues]
    BY <2>1 DEF Touched, CellValues
  <2> HIDE DEF t
  <2> QED
    BY <2>1, <2>2
<1>2. \A c \in 1..Len(p) : c \notin NotNullCells(p) => t[c] = p[c]
  BY DEF Touched
<1> HIDE DEF t
<1>0. /\ Len(s) \in Nat
      /\ \A k \in 1..Len(s) : s[k] \in Relations /\ at[k] \in Nat
  <2>1. Len(s) \in Nat /\ at \in [1..(Len(s) + 1) -> Nat]
    BY DEF LaidOut
  <2> QED
    BY <2>1
<1>3. ASSUME NEW c \in NotNullCells(p)
      PROVE  \E k \in 1..Len(s) : \E j \in 1..Len(s[k].attributes) :
                c = at[k] + 5 + Len(s[k].primaryKey) + 4 * (j - 1) + 3
  <2>0. PICK k \in 1..Len(s) : \E j \in 1..AttrCount(p, Start(p, k)) :
           c = AttrAt(p, Start(p, k), j) + 3
    <3>1. p[1] = Len(s)
      BY DEF LaidOut
    <3> QED
      BY <3>1 DEF NotNullCells
  <2>1. PICK j \in 1..AttrCount(p, Start(p, k)) : c = AttrAt(p, Start(p, k), j) + 3
    BY <2>0
  <2>2. Start(p, k) = at[k]
    BY StartOfRelation
  <2>3. AttrCount(p, at[k]) = Len(s[k].attributes) /\ KeyLen(p, at[k]) = Len(s[k].primaryKey)
    BY DEF LaidOut, RelationAt, AttrCount, KeyLen
  <2>4. c = at[k] + 5 + Len(s[k].primaryKey) + 4 * (j - 1) + 3
    BY <2>1, <2>2, <2>3 DEF AttrAt
  <2>5. j \in 1..Len(s[k].attributes)
    BY <2>1, <2>2, <2>3
  <2> QED
    BY <2>4, <2>5
\* The cells of a relation that are looked at are none of these.
<1>4. ASSUME NEW i \in 1..Len(s), NEW x \in Nat, x < CellCount(s[i]),
             \A j \in 1..Len(s[i].attributes) :
                x # 5 + Len(s[i].primaryKey) + 4 * (j - 1) + 3
      PROVE  t[at[i] + x] = p[at[i] + x]
  <2> DEFINE c == at[i] + x
  <2>1. s[i] \in Relations /\ at[i] \in Nat /\ CellCount(s[i]) \in Nat
    <3>1. s[i] \in Relations /\ at[i] \in Nat
      BY DEF LaidOut
    <3> QED
      BY <3>1, RelationTypes
  <2>2. c \in 1..Len(p)
    <3>1. at[i] >= 2 /\ at[i] + CellCount(s[i]) <= Len(p) + 1
      BY RelationsInOrder
    <3>2. Len(p) \in Nat
      OBVIOUS
    <3> QED
      BY <1>4, <2>1, <3>1, <3>2
  <2>3. c \notin NotNullCells(p)
    <3> SUFFICES ASSUME c \in NotNullCells(p)
                 PROVE  FALSE
      OBVIOUS
    <3>0. PICK k \in 1..Len(s) : \E j \in 1..Len(s[k].attributes) :
             c = at[k] + 5 + Len(s[k].primaryKey) + 4 * (j - 1) + 3
      BY <1>3
    <3>1. PICK j \in 1..Len(s[k].attributes) :
             c = at[k] + 5 + Len(s[k].primaryKey) + 4 * (j - 1) + 3
      BY <3>0
    <3> DEFINE m == Len(s[k].primaryKey)
               n == Len(s[k].attributes)
    <3>2. s[k] \in Relations /\ at[k] \in Nat
      BY <1>0
    <3>3. m \in Nat /\ n \in Nat /\ CellCount(s[k]) = 5 + m + 4 * n
      BY <3>2, RelationTypes DEF CellCount
    <3>4. c = at[k] + 5 + m + 4 * (j - 1) + 3 /\ j \in 1..n
      BY <3>1
    <3>5. k = i => x # 5 + m + 4 * (j - 1) + 3
      BY <1>4
    <3>6. /\ i < k => at[i] + CellCount(s[i]) <= at[k]
          /\ k < i => at[k] + CellCount(s[k]) <= at[i]
      BY RelationsInOrder
    <3> HIDE DEF m, n
    <3>7. CASE k = i
      BY <2>1, <3>2, <3>3, <3>4, <3>5, <3>7
    <3>8. CASE i < k
      BY <1>4, <2>1, <3>2, <3>3, <3>4, <3>6, <3>8
    <3>9. CASE k < i
      BY <1>4, <2>1, <3>2, <3>3, <3>4, <3>6, <3>9
    <3> QED
      BY <3>7, <3>8, <3>9
  <2> HIDE DEF c
  <2>4. t[c] = p[c]
    BY <1>2, <2>2, <2>3
  <2> QED
    BY <2>4 DEF c
<1>5. ASSUME NEW i \in 1..Len(s) PROVE RelationAt(t, at[i], s[i])
  <2> DEFINE a == at[i]
             rel == s[i]
             m == Len(rel.primaryKey)
             n == Len(rel.attributes)
  <2>1. rel \in Relations /\ a \in Nat /\ RelationAt(p, a, rel)
    BY DEF LaidOut
  <2>2. m \in Nat /\ n \in Nat /\ CellCount(rel) = 5 + m + 4 * n
    BY <2>1, RelationTypes DEF CellCount
  <2>3. ASSUME NEW x \in Nat, x < 5 + m + 4 * n,
               \A j \in 1..n : x # 5 + m + 4 * (j - 1) + 3
        PROVE  t[a + x] = p[a + x]
    BY <1>4, <2>2, <2>3
  <2>4. /\ p[a] = rel.name /\ p[a + 1] = rel.segmentID /\ p[a + 2] = rel.size
        /\ p[a + 3] = m
        /\ \A q \in 1..m : p[a + 3 + q] = rel.primaryKey[q]
        /\ p[a + 4 + m] = n
        /\ \A j \in 1..n :
              /\ p[a + 5 + m + 4 * (j - 1)] = rel.attributes[j].name
              /\ p[a + 5 + m + 4 * (j - 1) + 1] = rel.attributes[j].type
              /\ p[a + 5 + m + 4 * (j - 1) + 2] = rel.attributes[j].len
    BY <2>1 DEF RelationAt
  <2> HIDE DEF m, n, rel, a
  <2>5. \A x \in 0..(4 + m) : t[a + x] = p[a + x]
    <3> TAKE x \in 0..(4 + m)
    <3>1. x \in Nat /\ x < 5 + m + 4 * n /\ \A j \in 1..n : x # 5 + m + 4 * (j - 1) + 3
      BY <2>2
    <3> QED
      BY <2>3, <3>1
  <2>6. /\ t[a] = rel.name /\ t[a + 1] = rel.segmentID /\ t[a + 2] = rel.size
        /\ t[a + 3] = m
    <3>1. /\ a + 0 = a /\ \A x \in 0..3 : x \in 0..(4 + m)
      BY <2>1, <2>2
    <3>2. t[a + 0] = p[a + 0] /\ t[a + 1] = p[a + 1] /\ t[a + 2] = p[a + 2] /\ t[a + 3] = p[a + 3]
      BY <2>5, <3>1
    <3> QED
      BY <2>4, <3>1, <3>2
  <2>7. ASSUME NEW q \in 1..m PROVE t[a + 3 + q] = rel.primaryKey[q]
    <3>1. 3 + q \in 0..(4 + m) /\ a + (3 + q) = a + 3 + q
      BY <2>1, <2>2
    <3> QED
      BY <2>4, <2>5, <3>1
  <2>8. t[a + 4 + m] = n
    <3>1. 4 + m \in 0..(4 + m) /\ a + (4 + m) = a + 4 + m
      BY <2>1, <2>2
    <3> QED
      BY <2>4, <2>5, <3>1
  <2>9. ASSUME NEW j \in 1..n, NEW y \in 0..2
        PROVE  t[a + 5 + m + 4 * (j - 1) + y] = p[a + 5 + m + 4 * (j - 1) + y]
    <3> DEFINE x == 5 + m + 4 * (j - 1) + y
    <3>1. x \in Nat /\ x < 5 + m + 4 * n /\ a + x = a + 5 + m + 4 * (j - 1) + y
      BY <2>1, <2>2
    <3>2. \A l \in 1..n : x # 5 + m + 4 * (l - 1) + 3
      BY <2>2
    <3> HIDE DEF x
    <3>3. t[a + x] = p[a + x]
      BY <2>3, <3>1, <3>2
    <3> QED
      BY <3>1, <3>3
  <2>10. ASSUME NEW j \in 1..n
         PROVE  /\ t[a + 5 + m + 4 * (j - 1)] = rel.attributes[j].name
                /\ t[a + 5 + m + 4 * (j - 1) + 1] = rel.attributes[j].type
                /\ t[a + 5 + m + 4 * (j - 1) + 2] = rel.attributes[j].len
    <3>1. a + 5 + m + 4 * (j - 1) + 0 = a + 5 + m + 4 * (j - 1)
      BY <2>1, <2>2
    <3>2. /\ t[a + 5 + m + 4 * (j - 1) + 0] = p[a + 5 + m + 4 * (j - 1) + 0]
          /\ t[a + 5 + m + 4 * (j - 1) + 1] = p[a + 5 + m + 4 * (j - 1) + 1]
          /\ t[a + 5 + m + 4 * (j - 1) + 2] = p[a + 5 + m + 4 * (j - 1) + 2]
      BY <2>9
    <3> QED
      BY <2>4, <3>1, <3>2
  <2>11. RelationAt(t, a, rel)
    BY <2>6, <2>7, <2>8, <2>10 DEF RelationAt, m, n
  <2> QED
    BY <2>11 DEF a, rel
<1>6. t[1] = Len(s)
  <2>1. p[1] = Len(s) /\ Len(s) \in Nat /\ at[Len(s) + 1] <= Len(p) + 1
    BY DEF LaidOut
  <2>2. ASSUME 1 \in NotNullCells(p) PROVE FALSE
    <3>0. PICK k \in 1..Len(s) : \E j \in 1..Len(s[k].attributes) :
             1 = at[k] + 5 + Len(s[k].primaryKey) + 4 * (j - 1) + 3
      BY <1>3, <2>2
    <3>1. PICK j \in 1..Len(s[k].attributes) :
             1 = at[k] + 5 + Len(s[k].primaryKey) + 4 * (j - 1) + 3
      BY <3>0
    <3> DEFINE m == Len(s[k].primaryKey)
               n == Len(s[k].attributes)
    <3>2. s[k] \in Relations /\ at[k] \in Nat
      BY <1>0
    <3>3. m \in Nat /\ n \in Nat
      BY <3>2, RelationTypes
    <3>4. 1 = at[k] + 5 + m + 4 * (j - 1) + 3 /\ j \in 1..n
      BY <3>1
    <3> HIDE DEF m, n
    <3> QED
      BY <3>2, <3>3, <3>4
  <2>3. 1 \in 1..Len(p)
    <3>1. Len(p) \in Nat
      OBVIOUS
    <3>2. CASE Len(s) = 0
      BY <2>1, <3>1, <3>2 DEF LaidOut
    <3>3. CASE Len(s) # 0
      <4>1. 1 \in 1..Len(s) /\ s[1] \in Relations
        BY <2>1, <3>3
      <4>2. at[1] >= 2 /\ at[1] + CellCount(s[1]) <= Len(p) + 1 /\ CellCount(s[1]) \in Nat
        BY <4>1, RelationsInOrder, RelationTypes
      <4>3. at[1] = 2
        BY DEF LaidOut
      <4> QED
        BY <3>1, <4>2, <4>3
    <3> QED
      BY <3>2, <3>3
  <2> QED
    BY <1>2, <2>1, <2>2, <2>3
<1>7. LaidOut(t, at, s)
  BY <1>1, <1>5, <1>6 DEF LaidOut
<1> QED
  BY <1>1, <1>7 DEF t

-----------------------------------------------------------------------------
(***************************************************************************)
(* The inductive invariant of the page and the file.  Both hold one of the *)
(* schemas they may have, from the first cell on: the page, and the file   *)
(* when it is as new as the page, the schema written last if that is       *)
(* known; the file at any time one that a kill may bring back.             *)
(***************************************************************************)
Holds(p, k) ==
    /\ p \in Seq(CellValues)
    /\ \/ k = None /\ p = << >>
       \/ \E s \in Seq(Relations) : k = Known(s) /\ \E at : LaidOut(p, at, s)

StoreSays ==
    /\ ~InMemory => ~dirty
    /\ written = None => ~dirty
    /\ InMemory => \E k \in Expected : Holds(page, k)
    /\ ~dirty => \E k \in Expected : Holds(disk, k)
    /\ \E k \in kept : Holds(disk, k)

LoadedSays == loaded # None => \E k \in Expected : loaded = NotNull(k)

SegmentInv == /\ StoreSays
              /\ LoadedSays
              /\ parse = "garbage" => None \in kept

LEMMA SegmentInvInit ==
  Init => SegmentInv
<1> SUFFICES ASSUME Init
             PROVE  SegmentInv
  OBVIOUS
<1>1. /\ page = << >> /\ dirty = FALSE /\ disk = << >> /\ loaded = None
      /\ written = None /\ kept = {None} /\ parse # "garbage"
  BY DEF Init, ParserInit, NoPage
<1>2. Holds(disk, None)
  BY <1>1 DEF Holds
<1>3. ~InMemory
  BY <1>1 DEF InMemory, NoPage
<1> QED
  BY <1>1, <1>2, <1>3 DEF SegmentInv, StoreSays, LoadedSays, Expected

\* What a page or a file that is not empty holds is a schema.
LEMMA HoldsSchema ==
  ASSUME NEW p, NEW k, Holds(p, k), p # << >>
  PROVE  /\ p \in Seq(CellValues)
         /\ \E s \in Seq(Relations) : k = Known(s) /\ \E at : LaidOut(p, at, s)
BY DEF Holds

LEMMA LoadedIsHeld ==
  ASSUME NEW p, NEW k, Holds(p, k), p # << >>
  PROVE  /\ Known(SchemaOn(p)) = NotNull(k)
         /\ Holds(Touched(p), k)
         /\ Touched(p) # << >>
<1>1. PICK s \in Seq(Relations) : k = Known(s) /\ \E at : LaidOut(p, at, s)
  BY HoldsSchema
<1>2. PICK at : LaidOut(p, at, s)
  BY <1>1
<1>3. p \in Seq(CellValues)
  BY HoldsSchema
<1>4. Known(SchemaOn(p)) = NotNull(k)
  BY <1>1, <1>2, <1>3, SchemaLoaded
<1>5. Touched(p) \in Seq(CellValues) /\ LaidOut(Touched(p), at, s)
  BY <1>2, <1>3, TouchedStaysLaidOut
<1>6. Holds(Touched(p), k)
  BY <1>1, <1>5 DEF Holds
<1>7. Touched(p) # << >>
  <2>1. 1 \in DOMAIN p
    BY <1>3
  <2>2. DOMAIN Touched(p) = DOMAIN p
    BY DEF Touched
  <2>3. DOMAIN << >> = {}
    OBVIOUS
  <2> QED
    BY <2>1, <2>2, <2>3
<1> QED
  BY <1>4, <1>6, <1>7

LEMMA WrittenIsHeld ==
  ASSUME NEW s \in Seq(Relations), NEW old \in Seq(CellValues), NEW p,
         p = Cells(s) \o SubSeq(old, Len(Cells(s)) + 1, Len(old))
  PROVE  Holds(p, Known(s)) /\ p # << >>
<1> DEFINE rest == SubSeq(old, Len(Cells(s)) + 1, Len(old))
<1>0. << >> \in Seq(CellValues)
  OBVIOUS
<1>1. Cells(s) \in Seq(CellValues) /\ Len(Cells(s)) > 0
  BY <1>0, CellsLaidOut
<1>2. rest \in Seq(CellValues)
  <2> DEFINE a == Len(Cells(s)) + 1
             b == Len(old)
  <2>1. a \in Int /\ b \in Int /\ a > 0
    BY <1>1
  <2>2. \A q \in a..b : old[q] \in CellValues
    BY <2>1
  <2> HIDE DEF a, b
  <2>3. SubSeq(old, a, b) \in Seq(CellValues)
    BY <2>1, <2>2, SubSeqProperties
  <2> QED
    BY <2>3 DEF a, b
<1>3. p = Cells(s) \o rest
  OBVIOUS
<1> HIDE DEF rest
<1>4. p \in Seq(CellValues) /\ \E at : LaidOut(p, at, s)
  BY <1>2, <1>3, CellsLaidOut
<1>5. p # << >>
  <2> DEFINE c == Cells(s)
  <2>1. c \in Seq(CellValues) /\ Len(c) > 0 /\ p = c \o rest
    BY ONLY <1>1, <1>3
  <2> HIDE DEF c
  <2>2. Len(p) = Len(c) + Len(rest)
    BY ONLY <1>2, <2>1, ConcatProperties
  <2>3. Len(rest) \in Nat /\ Len(c) \in Nat
    BY ONLY <1>2, <2>1
  <2>4. Len(p) > 0
    BY <2>1, <2>2, <2>3
  <2>5. Len(<< >>) = 0
    OBVIOUS
  <2> QED
    BY <2>4, <2>5
<1> QED
  BY <1>4, <1>5 DEF Holds

LEMMA EmptyHasNoSchema ==
  ASSUME NEW s \in Seq(Relations), NEW at, LaidOut(<< >>, at, s)
  PROVE  FALSE
<1>1. /\ at \in [1..(Len(s) + 1) -> Nat] /\ at[1] = 2 /\ Len(s) \in Nat
      /\ at[Len(s) + 1] <= 1
  BY DEF LaidOut
<1>2. CASE Len(s) = 0
  BY <1>1, <1>2
<1>3. CASE Len(s) # 0
  <2>1. 1 \in 1..Len(s) /\ s[1] \in Relations
    BY <1>1, <1>3
  <2>2. at[1] + CellCount(s[1]) <= Len(<< >>) + 1 /\ CellCount(s[1]) \in Nat
    BY <2>1, RelationsInOrder, RelationTypes
  <2>3. Len(<< >>) = 0
    OBVIOUS
  <2> QED
    BY <1>1, <2>2, <2>3
<1> QED
  BY <1>2, <1>3

LEMMA SegmentInvStep ==
  SegmentInv /\ schema \in Seq(Relations) /\ [Next]_vars => SegmentInv'
<1> SUFFICES ASSUME SegmentInv, schema \in Seq(Relations), [Next]_vars
             PROVE  SegmentInv'
  OBVIOUS
<1> USE DEF SegmentInv
<1>1. /\ ~InMemory => ~dirty
      /\ written = None => ~dirty
      /\ InMemory => \E k \in Expected : Holds(page, k)
      /\ ~dirty => \E k \in Expected : Holds(disk, k)
      /\ \E k \in kept : Holds(disk, k)
  BY DEF StoreSays
\* What is in the page, or else in the file, is something a load may find.
<1>2. PICK held \in Expected : Holds(Contents, held)
  BY <1>1 DEF Contents
<1>3. \A s : Known(s) # None
  BY DEF Known, None
\* The parser, and the client that builds a schema, leave the segment alone.
<1>4. ASSUME UNCHANGED segmentVars, parse' # "garbage" \/ UNCHANGED parse
      PROVE  SegmentInv'
  BY <1>4 DEF StoreSays, LoadedSays, Expected, InMemory, segmentVars
<1>5. CASE ParserStep
  <2>1. UNCHANGED segmentVars
    BY <1>5 DEF ParserStep
  <2>2. ASSUME NEW opens \in BOOLEAN, Parse(opens)
        PROVE  parse' # "garbage"
    BY <2>2 DEF Parse
  <2>3. ASSUME NEW tok \in Tokens, NextToken(tok)
        PROVE  parse' # "garbage"
    <3>1. parse = "reading" /\ (parse' = parse \/ parse' = "thrown" \/ parse' = "undefined")
      BY <2>3 DEF NextToken
    <3> QED
      BY <3>1
  <2>4. EndOfFile => parse' # "garbage"
    BY DEF EndOfFile
  <2> QED
    BY <1>4, <1>5, <2>1, <2>2, <2>3, <2>4 DEF ParserStep, ParserNext
<1>6. ASSUME NEW s \in Built, Build(s)
      PROVE  SegmentInv'
  BY <1>4, <1>6 DEF Build
<1>7. CASE Write
  <2>1. parse' # "garbage" /\ loaded' = None
    BY <1>7 DEF Write
  <2>2. CASE Len(Cells(schema)) > PageSize
    BY <1>1, <1>7, <2>1, <2>2 DEF Write, StoreSays, LoadedSays, Expected, InMemory
  <2>3. CASE ~(Len(Cells(schema)) > PageSize)
    <3>1. /\ page' = Cells(schema) \o SubSeq(Contents, Len(Cells(schema)) + 1, Len(Contents))
          /\ disk' = IF dirty THEN page' ELSE disk
          /\ dirty' = TRUE
          /\ written' = Known(schema)
          /\ kept' = IF dirty THEN {Known(schema)} ELSE kept \cup {Known(schema)}
      BY <1>7, <2>3 DEF Write
    <3>2. Contents \in Seq(CellValues)
      BY <1>2 DEF Holds
    <3>3. Holds(page', Known(schema)) /\ page' # << >>
      BY <3>1, <3>2, WrittenIsHeld
    <3>4. Expected' = {Known(schema)} /\ InMemory'
      BY <1>3, <3>1, <3>3 DEF Expected, InMemory, NoPage
    <3>5. \E k \in kept' : Holds(disk', k)
      BY <1>1, <3>1, <3>3
    <3>6. StoreSays'
      BY <1>3, <3>1, <3>3, <3>4, <3>5 DEF StoreSays
    <3> QED
      BY <2>1, <3>6 DEF LoadedSays
  <2> QED
    BY <2>2, <2>3
<1>8. CASE Load
  <2>1. UNCHANGED <<dirty, disk, written, kept>>
    BY <1>8 DEF Load
  <2>2. Expected' = Expected
    BY <2>1 DEF Expected
  <2>3. CASE Contents = << >>
    <3>1. UNCHANGED <<page, loaded>>
      BY <1>8, <2>3 DEF Load
    <3>2. ~InMemory /\ disk = << >>
      BY <2>3 DEF Contents, InMemory, NoPage
    <3>3. PICK k \in kept : Holds(disk, k)
      BY <1>1
    <3>4. k = None
      <4>1. ASSUME NEW s \in Seq(Relations), NEW at, LaidOut(disk, at, s)
            PROVE  FALSE
        <5>1. LaidOut(<< >>, at, s)
          BY <3>2, <4>1
        <5> QED
          BY <5>1, EmptyHasNoSchema
      <4> QED
        BY <3>3, <4>1 DEF Holds
    <3>5. InMemory' = InMemory
      BY <3>1 DEF InMemory
    <3>6. StoreSays'
      BY <1>1, <2>1, <2>2, <3>1, <3>5 DEF StoreSays
    <3>7. LoadedSays'
      BY <2>2, <3>1 DEF LoadedSays
    <3>8. None \in kept'
      BY <2>1, <3>3, <3>4
    <3> QED
      BY <3>6, <3>7, <3>8
  <2>4. CASE Contents # << >>
    <3>1. /\ loaded' = Known(SchemaOn(Contents)) /\ page' = Touched(Contents)
          /\ parse' = parse /\ parse # "garbage"
      BY <1>8, <2>4 DEF Load, Between
    <3>2. /\ Known(SchemaOn(Contents)) = NotNull(held)
          /\ Holds(Touched(Contents), held) /\ Touched(Contents) # << >>
      BY <1>2, <2>4, LoadedIsHeld
    <3>3. InMemory'
      BY <3>1, <3>2 DEF InMemory, NoPage
    <3>4. Holds(page', held) /\ held \in Expected'
      BY <2>2, <3>1, <3>2
    <3>5. StoreSays'
      BY <1>1, <2>1, <2>2, <3>3, <3>4 DEF StoreSays
    <3>6. LoadedSays'
      BY <3>1, <3>2, <3>4 DEF LoadedSays
    <3> QED
      BY <3>1, <3>5, <3>6
  <2> QED
    BY <2>3, <2>4
<1>9. CASE Evict
  <2>1. /\ InMemory /\ page' = NoPage /\ dirty' = FALSE
        /\ disk' = IF dirty THEN page ELSE disk
        /\ kept' = IF written = None THEN kept ELSE {written}
        /\ UNCHANGED <<parse, loaded, written>> /\ parse # "garbage"
    BY <1>9 DEF Evict, WrittenBack, parserVars, Between
  <2>2. ~InMemory'
    BY <2>1 DEF InMemory
  <2>3. Expected' = Expected /\ kept' = Expected
    BY <2>1 DEF Expected
  <2>4. \E k \in Expected : Holds(disk', k)
    BY <1>1, <2>1
  <2>5. StoreSays'
    BY <2>1, <2>2, <2>3, <2>4 DEF StoreSays
  <2>6. LoadedSays'
    BY <2>1, <2>3 DEF LoadedSays
  <2> QED
    BY <2>1, <2>5, <2>6
<1>10. ASSUME NEW killed \in BOOLEAN, Restart(killed)
       PROVE  SegmentInv'
  <2>1. /\ page' = NoPage /\ dirty' = FALSE /\ loaded' = None /\ parse' = "idle"
        /\ kept' = IF killed \/ written = None THEN kept ELSE {written}
        /\ written' = IF killed THEN None ELSE written
        /\ disk' = IF killed \/ ~InMemory THEN disk ELSE IF dirty THEN page ELSE disk
    BY <1>10 DEF Restart, WrittenBack
  <2>2. ~InMemory'
    BY <2>1 DEF InMemory
  <2>3. Expected' = kept'
    BY <2>1 DEF Expected
  <2>4. \E k \in kept' : Holds(disk', k)
    <3>1. CASE killed
      BY <1>1, <2>1, <3>1
    <3>2. CASE ~killed
      <4>1. kept' = Expected
        BY <2>1, <3>2 DEF Expected
      <4>2. \E k \in Expected : Holds(disk', k)
        BY <1>1, <2>1, <3>2
      <4> QED
        BY <4>1, <4>2
    <3> QED
      BY <3>1, <3>2
  <2>5. StoreSays'
    BY <2>1, <2>2, <2>3, <2>4 DEF StoreSays
  <2> QED
    BY <2>1, <2>5 DEF LoadedSays
<1>11. CASE Undefined \/ UNCHANGED vars
  BY <1>4, <1>11 DEF Undefined, vars, parserVars
<1> QED
  BY <1>5, <1>6, <1>7, <1>8, <1>9, <1>10, <1>11 DEF Next

LEMMA NotNullTwice ==
  ASSUME NEW k
  PROVE  NotNull(NotNull(k)) = NotNull(k)
<1>1. ASSUME NEW rel PROVE NotNullAttributes(NotNullAttributes(rel)) = NotNullAttributes(rel)
  <2> DEFINE once  == NotNullAttributes(rel)
             Not(attrs) == [j \in DOMAIN attrs |-> [attrs[j] EXCEPT !.notNull = TRUE]]
  <2>1. Not(Not(rel.attributes)) = Not(rel.attributes)
    OBVIOUS
  <2>2. once = [rel EXCEPT !.attributes = Not(rel.attributes)]
    BY DEF NotNullAttributes
  <2>3. NotNullAttributes(once) = [once EXCEPT !.attributes = Not(once.attributes)]
    BY DEF NotNullAttributes
  <2> HIDE DEF once, Not
  <2>4. CASE "attributes" \in DOMAIN rel
    BY <2>1, <2>2, <2>3, <2>4 DEF once
  <2>5. CASE "attributes" \notin DOMAIN rel
    BY <2>2, <2>3, <2>5 DEF once
  <2> QED
    BY <2>4, <2>5
<1>2. CASE k = None
  BY <1>2 DEF NotNull
<1>3. CASE k # None
  <2> DEFINE rels == [i \in DOMAIN k[1] |-> NotNullAttributes(k[1][i])]
  <2>1. NotNull(k) = <<rels>>
    BY <1>3 DEF NotNull, Known
  <2>2. NotNull(<<rels>>) = <<[i \in DOMAIN rels |-> NotNullAttributes(rels[i])]>>
    BY DEF NotNull, Known, None
  <2>3. [i \in DOMAIN rels |-> NotNullAttributes(rels[i])] = rels
    BY <1>1
  <2> QED
    BY <2>1, <2>2, <2>3
<1> QED
  BY <1>2, <1>3

(***************************************************************************)
(* For any schemas, page size and number of segments, whatever is thrown   *)
(* out of memory and whenever the program is ended or killed: a segment    *)
(* that is loaded has the schema written last, or after a kill one that    *)
(* was written: the same if no attribute of it may be null, the same but   *)
(* for notNull otherwise.  It finds none only if none was written back.    *)
(***************************************************************************)
THEOREM LoadsAreRight ==
  Spec => []LoadsWhatWasWritten
<1>1. SegmentInv => LoadsWhatWasWritten
  <2> SUFFICES ASSUME SegmentInv
               PROVE  LoadsWhatWasWritten
    OBVIOUS
  <2>1. parse = "garbage" => None \in kept
    BY DEF SegmentInv
  <2>2. ASSUME loaded # None
        PROVE  \E s \in Expected : /\ NotNull(loaded) = NotNull(s)
                                   /\ NotNull(s) = s => loaded = s
    <3>1. PICK s \in Expected : loaded = NotNull(s)
      BY <2>2 DEF SegmentInv, LoadedSays
    <3>2. NotNull(loaded) = NotNull(s)
      BY <3>1, NotNullTwice
    <3> QED
      BY <3>1, <3>2
  <2> QED
    BY <2>1, <2>2 DEF LoadsWhatWasWritten
<1>2. SchemaInv => schema \in Seq(Relations)
  BY DEF SchemaInv
<1>3. Spec => []SegmentInv
  BY <1>2, SegmentInvInit, SegmentInvStep, SchemaInvariant, PTL DEF Spec
<1> QED
  BY <1>1, <1>3, PTL
=============================================================================
