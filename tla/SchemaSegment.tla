--------------------------- MODULE SchemaSegment ----------------------------
(***************************************************************************)
(* The schema segment: the constructor that writes a schema to the page    *)
(* of the segment, the one that loads it from there, and the page in the   *)
(* buffer manager and in the file.  Schemas come from the Parser, or the   *)
(* client has built them.  The page may be thrown out of memory whenever   *)
(* nobody has it fixed, and the program may be restarted (the destructor   *)
(* writes the page back) or killed.                                        *)
(*                                                                         *)
(* Writing and loading are one step each: the page is fixed meanwhile, and *)
(* a kill in the middle leaves the same file as one at the end.  A page is *)
(* a sequence of cells; a name is one cell (its length and its bytes).     *)
(***************************************************************************)
EXTENDS Parser

CONSTANTS Built,      \* schemas the client builds itself
          PageSize,   \* cells of a page
          MaxWrites   \* bound on the segments made from a schema

\* The client's own schemas have keys that exist.
ASSUME BuiltAssumption ==
    \A s \in Built : s \in Seq(Relations) /\ \A k \in DOMAIN s : KeysIn(s[k])

VARIABLES page,    \* the page in memory, or NoPage
          dirty,
          disk,    \* the page in the file; empty before it is first written
          loaded,  \* the schema of a segment loaded since the last write, or None
          writes,
          \* what has happened: the schema written last, or None if that is not
          \* known, and the ones the file may have (None: none)
          written, kept

segmentVars == <<page, dirty, disk, loaded, writes, written, kept>>
vars        == <<parserVars, segmentVars>>

NoPage   == << >>
None     == << >>
Known(s) == <<s>>

Init == /\ ParserInit
        /\ page = NoPage /\ dirty = FALSE
        /\ disk = << >>
        /\ loaded = None
        /\ writes = 0
        /\ written = None /\ kept = {None}

-----------------------------------------------------------------------------
\* writeToDisk: the cells of a schema.
AttributeCells(attr) == <<attr.name, attr.type, attr.len, attr.notNull>>

\* Faulty variant: the size before the id.
RelationCells_SizeFirst(rel) ==
    <<rel.name, rel.size, rel.segmentID, Len(rel.primaryKey)>> \o rel.primaryKey
      \o <<Len(rel.attributes)>>
      \o FlattenSeq([j \in DOMAIN rel.attributes |-> AttributeCells(rel.attributes[j])])

RelationCells(rel) ==
    <<rel.name, rel.segmentID, rel.size, Len(rel.primaryKey)>> \o rel.primaryKey
      \o <<Len(rel.attributes)>>
      \o FlattenSeq([j \in DOMAIN rel.attributes |-> AttributeCells(rel.attributes[j])])

Cells(s) == <<Len(s)>> \o FlattenSeq([i \in DOMAIN s |-> RelationCells(s[i])])

\* loadFromDisk: the relations on a page, the i-th from cell Start(p, i) on.
KeyLen(p, at)    == p[at + 3]
AttrCount(p, at) == p[at + 4 + KeyLen(p, at)]
AttrAt(p, at, j) == at + 5 + KeyLen(p, at) + 4 * (j - 1)

Start(p, i) ==
    LET start[k \in 1..i] == IF k = 1 THEN 2
                             ELSE AttrAt(p, start[k - 1], AttrCount(p, start[k - 1]) + 1)
    IN  start[i]

\* notNull is not read: it keeps the default of the constructor.
AttributeOn(p, at) == [Attribute(p[at], p[at + 1]) EXCEPT !.len = p[at + 2]]

RelationOn(p, at) ==
    [Relation(p[at]) EXCEPT
        !.segmentID  = p[at + 1],
        !.size       = p[at + 2],
        !.primaryKey = SubSeq(p, at + 4, at + 3 + KeyLen(p, at)),
        !.attributes = [j \in 1..AttrCount(p, at) |-> AttributeOn(p, AttrAt(p, at, j))]]

SchemaOn(p) == [i \in 1..p[1] |-> RelationOn(p, Start(p, i))]

\* It is stored to the page instead.
NotNullCells(p) ==
    UNION {{AttrAt(p, Start(p, i), j) + 3 : j \in 1..AttrCount(p, Start(p, i))} : i \in 1..p[1]}

Touched(p) == [c \in DOMAIN p |-> IF c \in NotNullCells(p) THEN TRUE ELSE p[c]]

-----------------------------------------------------------------------------
\* Between two calls of the client (and nothing undefined has happened).
Between == parse \in {"idle", "returned", "built", "thrown"}

InMemory == page # NoPage
Contents == IF InMemory THEN page ELSE disk

\* The client builds a schema.
Build(s) ==
    /\ Between
    /\ schema' = s /\ text' = << >>
    /\ parse' = "built" /\ fresh' = FALSE
    /\ UNCHANGED <<state, unclosed, tokens, parses, segmentVars>>

\* The segment is made from a schema: cells over what the page has (or over
\* anything), flush, which writes a page that was dirty already, and unfix.
Write ==
    /\ parse \in {"returned", "built"} /\ writes < MaxWrites
    /\ writes' = writes + 1
    /\ IF Len(Cells(schema)) > PageSize
       THEN /\ parse' = "overrun"
            /\ UNCHANGED <<page, dirty, disk, written, kept>>
       ELSE /\ page' = Cells(schema) \o SubSeq(Contents, Len(Cells(schema)) + 1, Len(Contents))
            /\ disk' = IF dirty THEN page' ELSE disk
            /\ dirty' = TRUE
            /\ written' = Known(schema)
            /\ kept' = IF dirty THEN {Known(schema)} ELSE kept \cup {Known(schema)}
            /\ UNCHANGED parse
    /\ loaded' = None
    /\ text' = << >> /\ fresh' = FALSE
    /\ UNCHANGED <<state, schema, unclosed, tokens, parses>>

\* The segment is loaded.  Before anything is written to the file or the page
\* that reads uninitialised memory.
Load ==
    /\ Between
    /\ IF Contents = << >>
       THEN /\ parse' = "garbage"
            /\ UNCHANGED <<page, loaded>>
       ELSE /\ loaded' = Known(SchemaOn(Contents))
            /\ page' = Touched(Contents)
            /\ UNCHANGED parse
    /\ UNCHANGED <<state, text, schema, unclosed, fresh, tokens, parses, dirty, disk, writes, written, kept>>

WrittenBack == disk' = IF dirty THEN page ELSE disk

\* The page is thrown out.
Evict ==
    /\ Between /\ InMemory
    /\ WrittenBack
    /\ page' = NoPage /\ dirty' = FALSE
    /\ kept' = IF written = None THEN kept ELSE {written}
    /\ UNCHANGED <<parserVars, loaded, writes, written>>

\* The program ends, with or without the destructor, and is run again.
Restart(killed) ==
    /\ Between
    /\ IF killed \/ ~InMemory THEN UNCHANGED disk ELSE WrittenBack
    /\ page' = NoPage /\ dirty' = FALSE
    /\ loaded' = None
    /\ kept' = IF killed \/ written = None THEN kept ELSE {written}
    /\ written' = IF killed THEN None ELSE written
    /\ state' = "Init" /\ text' = << >> /\ schema' = << >>
    /\ parse' = "idle" /\ unclosed' = FALSE /\ fresh' = FALSE
    /\ UNCHANGED <<tokens, parses, writes>>

\* What is undefined, a store behind the page or a schema read from anything.
Undefined == ~Between /\ parse # "reading" /\ UNCHANGED vars

\* Files are parsed before the first segment is made: the parser knows nothing
\* of segments.  Schemas of later segments are built.
ParserStep == /\ writes = 0
              /\ ParserNext
              /\ UNCHANGED segmentVars

Next == \/ ParserStep
        \/ \E s \in Built : Build(s)
        \/ Write \/ Load \/ Evict
        \/ \E killed \in BOOLEAN : Restart(killed)
        \/ Undefined

Spec == Init /\ [][Next]_vars

-----------------------------------------------------------------------------
States == {a[1] : a \in Arrows} \cup {a[3] : a \in Arrows}

IsSchema(s) == s = None \/ (Len(s) = 1 /\ s[1] \in Seq(Relations))

TypeOK == /\ state \in States
          /\ text \in Seq(Tokens)
          /\ schema \in Seq(Relations)
          /\ parse \in {"idle", "reading", "returned", "built", "thrown",
                        "undefined", "overrun", "garbage"}
          /\ unclosed \in BOOLEAN /\ fresh \in BOOLEAN /\ dirty \in BOOLEAN
          /\ Len(page) \in 0..PageSize
          /\ Len(disk) \in 0..PageSize
          /\ IsSchema(loaded) /\ IsSchema(written) /\ \A s \in kept : IsSchema(s)
          /\ tokens \in 0..MaxTokens /\ parses \in 0..MaxParses /\ writes \in 0..MaxWrites

NotNullAttributes(rel) ==
    [rel EXCEPT !.attributes = [j \in DOMAIN rel.attributes |->
                                  [rel.attributes[j] EXCEPT !.notNull = TRUE]]]

\* The schema with no attribute left that may be null.
NotNull(s) == IF s = None THEN None
              ELSE Known([i \in DOMAIN s[1] |-> NotNullAttributes(s[1][i])])

(***************************************************************************)
(* A segment that is loaded has the schema written last, or after a kill   *)
(* one written since the page was last written back, or the one written    *)
(* back.  It is the same in everything if no attribute of it may be null,  *)
(* as in every schema parse returns, and in everything but notNull         *)
(* otherwise.  A load finds no schema only if none was ever written back.  *)
(***************************************************************************)
Expected == IF written = None THEN kept ELSE {written}

LoadsWhatWasWritten ==
    /\ loaded # None =>
          \E s \in Expected :
              /\ NotNull(loaded) = NotNull(s)
              /\ NotNull(s) = s => loaded = s
    /\ parse = "garbage" => None \in kept

(***************************************************************************)
(* A load finds a schema once a segment has been made: writeToDisk flushes *)
(* its page, "to write back the data" (README.md).  The code does not keep *)
(* to this: the page counts as changed only when it is unfixed.            *)
(***************************************************************************)
FlushedIsKept == writes > 0 => parse # "garbage"
=============================================================================
