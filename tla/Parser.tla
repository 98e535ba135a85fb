------------------------------- MODULE Parser -------------------------------
(***************************************************************************)
(* The parser of schemas: a machine that reads a file token by token and   *)
(* adds relations, attributes and key columns to the last relation of the  *)
(* schema.  The state of the machine belongs to the Parser, the schema to  *)
(* one call of parse(); a Parser may be used again.                        *)
(*                                                                         *)
(* Words are taken in lower case for keywords and as written for names.    *)
(***************************************************************************)
EXTENDS Integers, Sequences, FiniteSets, SequencesExt

CONSTANTS Names,       \* words of letters, digits and _ that are no keywords
          Numbers,     \* those of digits only
          Atoi(_),     \* their value
          OtherWords,  \* words with any other character in them
          Leftover,    \* what an uninitialised type may be
          MaxTokens, MaxParses  \* bounds: tokens of all files, calls of parse

Keywords == {"primary", "key", "create", "table", "integer", "numeric", "not", "null", "char"}
Marks    == {"(", ")", "comma", "semicolon"}

ASSUME ParserAssumption == /\ Names \cap (Keywords \cup Marks) = {}
                           /\ Numbers \subseteq Names
                           /\ \A w \in Numbers : Atoi(w) \in Nat

Tokens   == Keywords \cup Marks \cup Names \cup OtherWords

\* The constructors of Attribute and Relation; a length of ~0 is -1 here.
Attribute(name, type) == [name |-> name, type |-> type, len |-> -1, notNull |-> TRUE]
Relation(name) == [name |-> name, primaryKey |-> << >>, attributes |-> << >>,
                   size |-> 0, segmentID |-> 0]

Attributes == [name : Names, type : Leftover \cup {"Integer", "Char"},
               len : Nat \cup {-1}, notNull : BOOLEAN]

Relations == [name : Names, primaryKey : Seq(Nat), attributes : Seq(Attributes),
              size : Nat, segmentID : Nat]

KeysIn(rel) == \A q \in DOMAIN rel.primaryKey :
                  rel.primaryKey[q] \in 0..(Len(rel.attributes) - 1)

VARIABLES state,    \* of the machine
          text,     \* the tokens of the file read so far, until the schema is written
          schema,   \* the schema of this call of parse
          parse,    \* what parse does, or has done
          unclosed, \* an exception has left the file open
          fresh,    \* parse has opened its file, with the machine between statements
          tokens, parses        \* their numbers

parserVars == <<state, text, schema, parse, unclosed, fresh, tokens, parses>>

ParserInit == /\ state = "Init"
              /\ text = << >> /\ schema = << >>
              /\ parse = "idle"
              /\ unclosed = FALSE /\ fresh = FALSE
              /\ tokens = 0 /\ parses = 0

-----------------------------------------------------------------------------
\* The machine: from a state, with a token of a class, to a state.
Arrows ==
    {<<"Init", "create", "Create">>, <<"Semicolon", "create", "Create">>,
     <<"Create", "table", "Table">>, <<"Table", "name", "TableName">>,
     <<"TableName", "(", "CreateTableBegin">>,
     <<"Primary", "key", "Key">>, <<"Key", "(", "KeyListBegin">>,
     <<"KeyListBegin", "name", "KeyName">>, <<"KeyName", "comma", "KeyListBegin">>,
     <<"KeyName", ")", "KeyListEnd">>,
     <<"AttributeName", "integer", "AttributeTypeInt">>,
     <<"AttributeName", "char", "AttributeTypeChar">>,
     <<"AttributeTypeChar", "(", "CharBegin">>, <<"CharBegin", "number", "CharValue">>,
     <<"CharValue", ")", "CharEnd">>,
     <<"AttributeName", "numeric", "AttributeTypeNumeric">>,
     <<"AttributeTypeNumeric", "(", "NumericBegin">>, <<"NumericBegin", "number", "NumericValue1">>,
     <<"NumericValue1", "comma", "NumericSeparator">>, <<"NumericSeparator", "number", "NumericValue2">>,
     <<"NumericValue2", ")", "NumericEnd">>,
     <<"Not", "null", "Null">>, <<"CreateTableEnd", "semicolon", "Semicolon">>}
  \cup {<<s, t[1], t[2]>> : s \in {"CreateTableBegin", "Separator"},
            t \in {<<")", "CreateTableEnd">>, <<"primary", "Primary">>, <<"name", "AttributeName">>}}
  \cup {<<s, t[1], t[2]>> : s \in {"CharEnd", "NumericEnd", "AttributeTypeInt"},
            t \in {<<"comma", "Separator">>, <<")", "CreateTableEnd">>, <<"not", "Not">>}}
  \cup {<<s, t[1], t[2]>> : s \in {"KeyListEnd", "Null"},
            t \in {<<"comma", "Separator">>, <<")", "CreateTableEnd">>}}

Is(tok, class) == CASE class = "name"   -> tok \in Names
                    [] class = "number" -> tok \in Numbers
                    [] OTHER            -> tok = class

Targets(s, tok) == {a[3] : a \in {b \in Arrows : b[1] = s /\ Is(tok, b[2])}}

\* Faulty variant: the relation is not added.
Adds_NoRelation(s, tok) ==
    CASE s \in {"CreateTableBegin", "Separator"} /\ tok \in Names   -> "attribute"
      [] s = "AttributeName" /\ tok \in {"integer", "char"}         -> "type"
      [] OTHER                                                      -> "nothing"

\* What a token in a state adds to the schema.
Adds(s, tok) ==
    CASE s = "Table"                                                -> "relation"
      [] s \in {"CreateTableBegin", "Separator"} /\ tok \in Names   -> "attribute"
      [] s = "KeyListBegin"                                         -> "key"
      [] s = "AttributeName" /\ tok \in {"integer", "char"}         -> "type"
      [] s = "CharBegin"                                            -> "len"
      [] s = "Not"                                                  -> "notNull"
      [] OTHER                                                      -> "nothing"

\* back() of an empty vector.
NothingThere(adds) ==
    /\ adds \notin {"relation", "nothing"}
    /\ schema # << >> => /\ adds \in {"type", "len", "notNull"}
                         /\ Last(schema).attributes = << >>

\* Faulty variant: the last attribute of the name.
Named_Last(attributes, name) ==
    SelectLastInSeq(attributes, LAMBDA a : a.name = name) - 1

\* The number, from 0, of the first attribute of the name, -1 if there is none.
Named(attributes, name) == SelectInSeq(attributes, LAMBDA a : a.name = name) - 1

\* Faulty variant: nobody looks whether the key column is an attribute.
NoSuchKey_Unchecked(adds, tok) == FALSE

\* The key column is not an attribute (yet).
NoSuchKey(adds, tok) == /\ adds = "key" /\ ~NothingThere(adds)
                        /\ Named(Last(schema).attributes, tok) = -1

\* The relation with the token added.
Extended(rel, adds, tok, type) ==
    LET n == Len(rel.attributes) IN
    CASE adds = "attribute" -> [rel EXCEPT !.attributes = Append(@, Attribute(tok, type))]
      [] adds = "key"       -> [rel EXCEPT !.primaryKey = Append(@, Named(rel.attributes, tok))]
      [] adds = "type"      -> [rel EXCEPT !.attributes[n].type =
                                   IF tok = "integer" THEN "Integer" ELSE "Char"]
      [] adds = "len"       -> [rel EXCEPT !.attributes[n].len = Atoi(tok)]
      [] adds = "notNull"   -> [rel EXCEPT !.attributes[n].notNull = TRUE]
      [] OTHER              -> rel

\* nextToken
NextToken(tok) ==
    /\ parse = "reading" /\ tokens < MaxTokens
    /\ tokens' = tokens + 1
    /\ LET adds  == Adds(state, tok)
           wrong == Targets(state, tok) = {} \/ NoSuchKey(adds, tok)
       IN  \/ /\ wrong
              /\ parse' = "thrown" /\ unclosed' = TRUE
              /\ text' = << >> /\ schema' = << >>
              /\ UNCHANGED state
           \/ /\ ~wrong /\ NothingThere(adds)
              /\ parse' = "undefined"
              /\ UNCHANGED <<state, text, schema, unclosed>>
           \/ /\ ~wrong /\ ~NothingThere(adds)
              /\ state' \in Targets(state, tok)
              /\ text' = Append(text, tok)
              /\ \E type \in Leftover :
                   schema' = CASE adds = "relation" -> Append(schema, Relation(tok))
                               [] adds = "nothing"  -> schema
                               [] OTHER -> Front(schema) \o <<Extended(Last(schema), adds, tok, type)>>
              /\ UNCHANGED <<parse, unclosed>>
    /\ UNCHANGED <<fresh, parses>>

\* parse: a new schema, and the file is opened, which may fail.  If it is open
\* still that is not noticed: nothing is read, and the file is closed.
Parse(opens) ==
    /\ parse \in {"idle", "returned", "thrown"} /\ parses < MaxParses
    /\ parses' = parses + 1
    /\ text' = << >> /\ schema' = << >>
    /\ parse' = CASE unclosed -> "returned"
                  [] ~unclosed /\ opens -> "reading"
                  [] OTHER -> "thrown"
    /\ fresh' = (~unclosed /\ opens /\ state \in {"Init", "Semicolon"})
    /\ unclosed' = FALSE
    /\ UNCHANGED <<state, tokens>>

\* The end of the file, wherever the machine stands: parse returns.
EndOfFile ==
    /\ parse = "reading"
    /\ parse' = "returned"
    /\ UNCHANGED <<state, text, schema, unclosed, fresh, tokens, parses>>

ParserNext == \/ \E opens \in BOOLEAN : Parse(opens)
              \/ \E tok \in Tokens : NextToken(tok)
              \/ EndOfFile

-----------------------------------------------------------------------------
(***************************************************************************)
(* What a file says, told from its parentheses and commas: the relations   *)
(* are named after "table", attributes inside one pair of parentheses at   *)
(* its beginning or after a comma, key columns inside those after "key".   *)
(***************************************************************************)
Depth(file, i) == Cardinality({k \in 1..(i - 1) : file[k] = "("})
                    - Cardinality({k \in 1..(i - 1) : file[k] = ")"})

InKeyList(file, i) == \E k \in 2..(i - 1) : /\ file[k] = "(" /\ Depth(file, k) = 1
                                            /\ file[k - 1] = "key"
                                            /\ \A l \in k..(i - 1) : file[l] # ")"

RelationPlaces(file)  == {i \in DOMAIN file : i > 1 /\ file[i - 1] = "table"}
AttributePlaces(file) == {i \in DOMAIN file : /\ file[i] \in Names /\ Depth(file, i) = 1
                                              /\ i > 1 /\ file[i - 1] \in {"(", "comma"}}
KeyPlaces(file)       == {i \in DOMAIN file : /\ file[i] \in Names /\ Depth(file, i) = 2
                                              /\ InKeyList(file, i)}

\* The how manieth of the places is i; those that belong to the k-th relation.
Rank(i, places) == Cardinality({j \in places : j <= i})

PlacesOf(k, places, file) == {i \in places : Rank(i, RelationPlaces(file)) = k}

SaysAttribute(file, i, attr) ==
    LET type == IF i < Len(file) THEN file[i + 1] ELSE "missing" IN
    /\ attr.name = file[i]
    /\ attr.type \in CASE type = "integer" -> {"Integer"}
                       [] type = "char"    -> {"Char"}
                       [] OTHER            -> Leftover
    /\ attr.len = IF type = "char" /\ i + 3 <= Len(file) THEN Atoi(file[i + 3]) ELSE -1

SaysKey(file, i, rel, column) ==
    /\ rel.attributes[column + 1].name = file[i]
    /\ \A j \in 1..column : rel.attributes[j].name # file[i]

SaysRelation(file, k, rel) ==
    LET attr == PlacesOf(k, AttributePlaces(file), file)
        key  == PlacesOf(k, KeyPlaces(file), file)
    IN  /\ \E i \in PlacesOf(k, RelationPlaces(file), file) : rel.name = file[i]
        /\ Len(rel.attributes) = Cardinality(attr)
        /\ \A i \in attr : SaysAttribute(file, i, rel.attributes[Rank(i, attr)])
        /\ Len(rel.primaryKey) = Cardinality(key)
        /\ \A i \in key : SaysKey(file, i, rel, rel.primaryKey[Rank(i, key)])

SaysSchema(file, s) == /\ Len(s) = Cardinality(RelationPlaces(file))
                       /\ \A k \in DOMAIN s : SaysRelation(file, k, s[k])

(***************************************************************************)
(* What parse returns is what the file says, however far into a statement  *)
(* the file ends; key columns are the first attributes of their names.     *)
(***************************************************************************)
SchemaSaysText == parse = "returned" /\ fresh => SaysSchema(text, schema)

(***************************************************************************)
(* Every key column is an attribute of its relation (Schema::toString      *)
(* takes it on trust).                                                     *)
(***************************************************************************)
KeysExist == \A k \in DOMAIN schema : KeysIn(schema[k])

(***************************************************************************)
(* The machine takes back() of an empty vector only if the Parser is used  *)
(* again after a file that ended inside a statement, or after an error.    *)
(***************************************************************************)
BackExists == parse = "undefined" => ~fresh
=============================================================================
