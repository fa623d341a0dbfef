--------------------------- MODULE ConfigMeaning ---------------------------
(***************************************************************************)
(* What a config file means: the document its tokens stand for by the      *)
(* grammar of JSON, and the configuration that document stands for, each   *)
(* defined without regard to how the parser and the loader get there; and  *)
(* that they get there.                                                    *)
(*                                                                         *)
(* A value of a text is a record: the position where it begins, the name   *)
(* that it has in an object ("" in an array), and its nesting.             *)
(***************************************************************************)
EXTENDS ConfigLoad

-----------------------------------------------------------------------------
(* TOKENS                                                                  *)

Blanks == {"blank", "NUL"}
Brackets == {"[", "{"}

At(t, i) == IF i \in DOMAIN t THEN t[i] ELSE "NUL"

\* Where the next token is, from position i on; the NUL that ends the text if
\* there is none.
Token(t, i) ==
  LET tokens == {q \in i .. Len(t) : t[q] \notin Blanks}
  IN  IF tokens = {} THEN Len(t) ELSE Min(tokens)

\* Where the value of an element begins that the bracket or comma at i stands
\* before; 0 if an object goes on with no name and colon.
Element(t, i, open) ==
  LET first == Token(t, i + 1)
      colon == Token(t, first + 1)
  IN  IF open = "[" THEN first
      ELSE IF At(t, first) \in Strings /\ At(t, colon) = ":" THEN Token(t, colon + 1)
      ELSE 0

-----------------------------------------------------------------------------
(* THE GRAMMAR                                                             *)

\* Where the value ends that begins at i with nesting d, 0 if there is none, if
\* ends has where each list ends.
EndOf(t, ends, i, d) ==
  LET first == Token(t, i + 1)
  IN  IF At(t, i) \in Scalars THEN i + 1
      ELSE IF At(t, i) \notin Brackets \/ d >= CJSON_NESTING_LIMIT THEN 0
      ELSE IF At(t, first) = Closing(At(t, i)) THEN first + 1
      ELSE ends[i][At(t, i)][d + 1]

\* Where a list ends, 0 if it does not, if the bracket or comma at i stands before
\* an element of it with nesting d: an element comes, and then a comma and the
\* rest of the list, or its end.
ListEndOf(t, ends, i, open, d) ==
  LET end  == EndOf(t, ends, Element(t, i, open), d)
      next == Token(t, end)
  IN  IF end = 0 THEN 0
      ELSE IF At(t, next) = "," THEN ends[next][open][d]
      ELSE IF At(t, next) = Closing(open) THEN next + 1
      ELSE 0

ListEnd(t) ==
  LET ends[i \in DOMAIN t] ==
        [open \in Brackets |-> [d \in 0 .. CJSON_NESTING_LIMIT |->
           ListEndOf(t, ends, i, open, d)]]
  IN  ends

-----------------------------------------------------------------------------
(* VALUES                                                                  *)

\* The element behind the bracket or comma at i.
Behind(t, i, open, d) ==
  [at    |-> Element(t, i, open),
   name  |-> IF open = "[" THEN "" ELSE At(t, Token(t, i + 1)),
   depth |-> d]

\* The value that a text begins with.
Document(t) ==
  [at    |-> Token(t, IF t[1] = "BOM" /\ Len(t) >= 3 THEN 2 ELSE 1),
   name  |-> "",
   depth |-> 0]

End(t, v) == EndOf(t, ListEnd(t), v.at, v.depth)

TypeIs(t, v) ==
  LET x == At(t, v.at)
  IN  IF x \in DOMAIN Literal THEN Literal[x]
      ELSE IF x \in Strings THEN "String"
      ELSE IF x \in Numbers THEN "Number"
      ELSE IF x = "[" THEN "Array"
      ELSE IF x = "{" THEN "Object"
      ELSE "Invalid"

ValueIs(t, v) == IF At(t, v.at) \in Strings \cup Numbers THEN At(t, v.at) ELSE ""

\* The first value in a list, and the one after a value in the same list; sets
\* with one value or none.
FirstIn(t, v) ==
  LET open == At(t, v.at)
  IN  IF open \notin Brackets \/ At(t, Token(t, v.at + 1)) = Closing(open) THEN {}
      ELSE {Behind(t, v.at, open, v.depth + 1)}

NextTo(t, v) ==
  LET next == Token(t, End(t, v))
  IN  IF v.depth = 0 \/ At(t, next) # "," THEN {}
      ELSE {Behind(t, next, IF v.name = "" THEN "[" ELSE "{", v.depth)}

\* An item of the heap has what it stands for.
Shows(i, v) ==
  /\ heap[i].type = TypeIs(text, v)
  /\ heap[i].value = ValueIs(text, v)
  /\ heap[i].string = v.name
  /\ heap[i].child = Null <=> FirstIn(text, v) = {}
  /\ heap[i].next = Null <=> NextTo(text, v) = {}

\* Going on from an item and from what it stands for, to the next item and the
\* next value, or to the child and the first value.
Onward(p) ==
       {<<heap[p[1]].child, v>> : v \in FirstIn(text, p[2])}
  \cup {<<heap[p[1]].next, v>> : v \in NextTo(text, p[2])}

\* The items below the root, each with the value that is found in its place.
Walk ==
  LET walk[n \in 0 .. MaxItems] ==
        IF n = 0 THEN {<<root, Document(text)>>}
        ELSE LET before == walk[n - 1]
             IN  before \cup UNION {Onward(p) : p \in before}
  IN  walk[MaxItems]

-----------------------------------------------------------------------------
(* WHAT A TEXT CONFIGURES                                                  *)

\* The first member of that name, if v is an object: the first member, or if
\* that has another name the one next to it, and so on.
First(t, v, name) ==
  LET search[n \in 0 .. Len(t)] ==
        IF n = 0 THEN FirstIn(t, v)
        ELSE UNION {IF x.name = name THEN {x} ELSE NextTo(t, x) : x \in search[n - 1]}
  IN  IF TypeIs(t, v) # "Object" THEN {} ELSE {x \in search[Len(t)] : x.name = name}

\* The members of that name, the first one of each value.
Named(t, values, name) == UNION {First(t, v, name) : v \in values}

\* The objects that a field is looked for in, if tiers are those of its tier.
Homes(t, tiers, f) == IF f \in ScalingFields THEN Named(t, tiers, "scaling") ELSE tiers

\* What a document says of a field: the first member of its name in its tier.
Says(t, f) ==
  Named(t, Homes(t, Named(t, {Document(t)}, IF f \in StmFields THEN "stm" ELSE "pi"), f), f)

\* The values a field is left if these members are given: none if they are invalid.
Left(t, f, given) ==
  IF given = {} THEN {Defaults[f]}
  ELSE UNION {Converted(f, TypeIs(t, v), ValueIs(t, v)) : v \in given}

\* The configuration a text stands for, as a set: none if it does not begin with
\* a document or leaves a field without a value.
Configures(t) ==
  {[f \in Fields |-> CHOOSE x \in left[f] : TRUE] :
     left \in {l \in {[f \in Fields |-> Left(t, f, Says(t, f))]} :
                 End(t, Document(t)) # 0 /\ \A f \in Fields : l[f] # {}}}

-----------------------------------------------------------------------------
(* PROPERTIES                                                              *)

\* Unless an allocation failed, cJSON_Parse returns a document exactly if one
\* begins the text within the nesting limit, whatever follows it, and what it
\* returns is that document, with all of its members in their order.
ParsesTheText ==
  step = "parsed" =>
    \/ oom /\ root = Null
    \/ /\ ~oom
       /\ (root # Null) <=> (End(text, Document(text)) # 0)
       /\ root # Null => \A p \in Walk : Shows(p[1], p[2])

\* "Range-check EVERY field, then commit.  On any error we leave *out untouched"
\* (config.c:6): a text is accepted exactly if every field it gives is valid,
\* and what is handed out is then all of it, over the defaults.
VerdictIsRight ==
  /\ pc = "commit" => Configures(text) = {staged}
  /\ pc = "bad"    => Configures(text) = {}

\* What a version configures as a whole.
Meaning == [v \in Versions |-> Configures(Append(v, "NUL"))]

\* A text that was read is the beginning of a version.
IsBeginning(t, v) == Len(t) <= Len(v) + 1 /\ \A i \in 1 .. Len(t) - 1 : t[i] = v[i]

\* A file that is loaded while it is being written configures what one of its
\* versions configures as a whole: no beginning of a version is taken for anything
\* else, whether it was cut off by the editor, by a size that was taken of another
\* version, or read in pieces.  A text that begins no version, because the reads
\* got pieces of several, is not excluded by the code: if it is valid it
\* configures what it says itself (VerdictIsRight).
OutIsAVersion ==
  source # <<>> => \A v \in Versions : IsBeginning(source, v) => Meaning[v] = {out}

=============================================================================
