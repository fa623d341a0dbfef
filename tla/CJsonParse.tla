----------------------------- MODULE CJsonParse -----------------------------
(***************************************************************************)
(* The parser of cJSON.c: cJSON_Parse on a NUL-terminated text, with the   *)
(* recursion of parse_value, parse_array and parse_object as an explicit   *)
(* stack, and every allocation failing or not.                             *)
(*                                                                         *)
(* A text is a sequence of tokens that ends in "NUL".  A token is a        *)
(* bracket, a comma, a colon, "blank" (bytes up to 32), "BOM", a literal,  *)
(* a string of Strings, a number of Numbers, "badstring" (one that         *)
(* parse_string rejects), "badnumber" (one that strtod rejects), or "junk" *)
(* (any byte no value begins with).  Like the code, a position may be one  *)
(* past the end of the text, where nothing can be read.                    *)
(***************************************************************************)
EXTENDS CJson, SequencesExt

CONSTANTS
  Strings,               \* string tokens, by what they spell
  Numbers,               \* number tokens
  CJSON_NESTING_LIMIT    \* nesting of arrays and objects (1000)

ASSUME ParserAssumption ==
  /\ "" \notin Strings
  /\ CJSON_NESTING_LIMIT \in Nat

Literal == [null |-> "NULL", false |-> "False", true |-> "True"]
Marks == DOMAIN Literal \cup {"[", "]", "{", "}", ",", ":", "blank", "BOM", "badstring",
                              "badnumber", "junk", "NUL"}
Scalars == DOMAIN Literal \cup Strings \cup Numbers
Tokens == Marks \cup Strings \cup Numbers

\* A token is of one kind.
ASSUME KindsAssumption ==
  Strings \cap Numbers = {} /\ (Strings \cup Numbers) \cap Marks = {}

VARIABLES
  text,      \* the buffer
  offset,    \* where parsing has got to, from 1
  depth,     \* nesting, as the buffer counts it
  stack,     \* the calls of parse_array and parse_object under way
  root,      \* the item of cJSON_ParseWithLengthOpts
  heap,
  step,      \* what the parser does next; "idle" when it is not called
  oom        \* history: an allocation of this parse failed

parserVars == <<text, offset, depth, stack, root, heap, step, oom>>

Closing(open) == IF open = "[" THEN "]" ELSE "}"

Accessible(p) == p <= Len(text)
Reads(p, tokens) == Accessible(p) /\ text[p] \in tokens

\* Fault: the step back from the end is missing.
SkipBlankToEnd(p) == Min({q \in p .. Len(text) + 1 : ~Reads(q, {"blank", "NUL"})})

\* buffer_skip_whitespace.  The terminator counts as a blank, and a skip that
\* reaches the end steps back onto it.
SkipBlank(p) ==
  LET ends == {q \in p .. Len(text) : ~Reads(q, {"blank", "NUL"})}
  IN  CASE ~Accessible(p) -> p
        [] Accessible(p) /\ ends = {} -> Len(text)
        [] OTHER -> Min(ends)

\* skip_utf8_bom: not in a text of fewer than five bytes.
SkipBOM == IF text[1] = "BOM" /\ Len(text) >= 3 THEN 2 ELSE 1

Items == [type : Types, value : Strings \cup Numbers \cup {""}, string : Strings \cup {""},
          next : Ids \cup {Null}, child : Ids \cup {Null}]

Frame == [open : {"[", "{"}, node : Ids, head : Ids \cup {Null}, current : Ids \cup {Null}]

Top == Last(stack)

\* The item parse_value is called for.
Item == IF stack = <<>> THEN root ELSE Top.current

ParserIdle ==
  /\ text = <<>> /\ offset = 1 /\ depth = 0 /\ stack = <<>> /\ root = Null
  /\ heap = EmptyHeap /\ step = "idle" /\ oom = FALSE

\* cJSON_Parse is called on t.
ParseBegin(t) ==
  /\ step = "idle"
  /\ text' = t /\ offset' = 1 /\ depth' = 0 /\ stack' = <<>>
  /\ \/ /\ HasRoom(heap) /\ root' = NewId(heap) /\ heap' = WithNew(heap)
        /\ step' = "begin" /\ oom' = FALSE
     \/ /\ root' = Null /\ heap' = heap
        /\ step' = "parsed" /\ oom' = TRUE

SkipToValue ==
  /\ step = "begin" /\ step' = "value"
  /\ offset' = SkipBlank(SkipBOM)
  /\ UNCHANGED <<text, depth, stack, root, heap, oom>>

Fails == step' = "fail"

OutOfMemory ==
  /\ Fails /\ oom' = TRUE
  /\ UNCHANGED <<text, offset, depth, stack, root, heap>>

-----------------------------------------------------------------------------
(* VALUES                                                                  *)

\* parse_value finds a literal.
ParseLiteral ==
  /\ step = "value" /\ Reads(offset, DOMAIN Literal)
  /\ heap' = [heap EXCEPT ![Item].type = Literal[text[offset]]]
  /\ offset' = offset + 1 /\ step' = "after"
  /\ UNCHANGED <<text, depth, stack, root, oom>>

\* parse_string allocates the value.
ParseString ==
  /\ step = "value" /\ Reads(offset, Strings)
  /\ \/ /\ heap' = [heap EXCEPT ![Item].type = "String", ![Item].value = text[offset]]
        /\ offset' = offset + 1 /\ step' = "after"
        /\ UNCHANGED <<text, depth, stack, root, oom>>
     \/ OutOfMemory

\* parse_number allocates a copy of the digits and frees it again.
ParseNumber ==
  /\ step = "value" /\ Reads(offset, Numbers)
  /\ \/ /\ heap' = [heap EXCEPT ![Item].type = "Number", ![Item].value = text[offset]]
        /\ offset' = offset + 1 /\ step' = "after"
        /\ UNCHANGED <<text, depth, stack, root, oom>>
     \/ OutOfMemory

\* parse_value finds nothing it can parse: no value, or a malformed one.
ParseNothing ==
  /\ step = "value" /\ ~Reads(offset, Scalars \cup {"[", "{"})
  /\ Fails
  /\ UNCHANGED <<text, offset, depth, stack, root, heap, oom>>

-----------------------------------------------------------------------------
(* ARRAYS AND OBJECTS                                                      *)

\* The end of parse_array and parse_object: the list becomes the child.
Close(frame, p) ==
  /\ heap' = [heap EXCEPT
       ![frame.node].type  = IF frame.open = "[" THEN "Array" ELSE "Object",
       ![frame.node].child = frame.head]
  /\ offset' = p + 1 /\ step' = "after"

\* parse_array and parse_object up to the loop.
OpenList ==
  /\ step = "value" /\ Reads(offset, {"[", "{"})
  /\ LET open  == text[offset]
         p     == SkipBlank(offset + 1)
         frame == [open |-> open, node |-> Item, head |-> Null, current |-> Null]
     IN  \/ /\ depth >= CJSON_NESTING_LIMIT
            /\ Fails
            /\ UNCHANGED <<offset, depth, stack, heap>>
         \/ /\ depth < CJSON_NESTING_LIMIT /\ Reads(p, {Closing(open)})
            /\ Close(frame, p)
            /\ UNCHANGED <<depth, stack>>
         \/ /\ depth < CJSON_NESTING_LIMIT /\ ~Reads(p, {Closing(open)})
            /\ depth' = depth + 1
            /\ stack' = Append(stack, frame)
            /\ offset' = p - 1
            /\ step' = IF Accessible(p) THEN "element" ELSE "fail"
            /\ UNCHANGED heap
  /\ UNCHANGED <<text, root, oom>>

\* The loop begins: a new item is attached to the list.
NextElement ==
  /\ step = "element"
  /\ \/ LET new == NewId(heap)
            grown == WithNew(heap)
        IN  /\ HasRoom(heap)
            /\ heap' = IF Top.head = Null THEN grown
                       ELSE [grown EXCEPT ![Top.current].next = new]
            /\ stack' = [stack EXCEPT
                 ![Len(stack)].head    = IF @ = Null THEN new ELSE @,
                 ![Len(stack)].current = new]
            /\ offset' = SkipBlank(offset + 1)
            /\ step' = CASE Top.open = "[" -> "value"
                         [] Top.open = "{" /\ Accessible(offset + 1) -> "name"
                         [] OTHER -> "fail"
            /\ UNCHANGED <<text, depth, root, oom>>
     \/ OutOfMemory

\* The name of a member and the colon after it.
ParseName ==
  /\ step = "name"
  /\ \/ /\ Reads(offset, Strings)
        /\ heap' = [heap EXCEPT ![Item].type = "String", ![Item].string = text[offset]]
        /\ LET p == SkipBlank(offset + 1)
           IN  IF Reads(p, {":"})
               THEN offset' = SkipBlank(p + 1) /\ step' = "value"
               ELSE offset' = p /\ Fails
        /\ UNCHANGED <<text, depth, stack, root, oom>>
     \/ Reads(offset, Strings) /\ OutOfMemory
     \/ /\ ~Reads(offset, Strings)
        /\ Fails
        /\ UNCHANGED <<text, offset, depth, stack, root, heap, oom>>

\* Fault: the end of the text ends a list, too.
ListEndsAtNul(p) == Reads(p, {Closing(Top.open), "NUL"})

ListEnds(p) == Reads(p, {Closing(Top.open)})

\* Fault: closing a list does not give its level back.
AscendedNot == depth

Ascended == depth - 1

\* A value has been parsed: the document is complete, or the list goes on, ends
\* or is malformed.
AfterValue ==
  /\ step = "after"
  /\ LET p == SkipBlank(offset)
     IN  \/ /\ stack = <<>>
            /\ step' = "parsed"
            /\ UNCHANGED <<offset, depth, stack, heap>>
         \/ /\ stack # <<>> /\ Reads(p, {","})
            /\ offset' = p /\ step' = "element"
            /\ UNCHANGED <<depth, stack, heap>>
         \/ /\ stack # <<>> /\ ListEnds(p)
            /\ Close(Top, p)
            /\ depth' = Ascended
            /\ stack' = Front(stack)
         \/ /\ stack # <<>> /\ ~Reads(p, {","}) /\ ~ListEnds(p)
            /\ offset' = p /\ Fails
            /\ UNCHANGED <<depth, stack, heap>>
  /\ UNCHANGED <<text, root, oom>>

\* Fault: the list of a call that fails is left alone.
AbandonedNot(frame) == heap

\* A call of parse_array or parse_object fails: its list is not yet the child
\* of an item, so the call deletes it.
Abandoned(frame) == Deleted(heap, frame.head)

\* parse_value returns false, to the caller of the innermost call or to
\* cJSON_ParseWithLengthOpts, which deletes the root.
Unwind ==
  /\ step = "fail"
  /\ IF stack # <<>>
     THEN heap' = Abandoned(Top) /\ stack' = Front(stack) /\ UNCHANGED <<root, step>>
     ELSE heap' = Deleted(heap, root) /\ root' = Null /\ step' = "parsed"
          /\ UNCHANGED stack
  /\ UNCHANGED <<text, offset, depth, oom>>

Parse ==
  \/ SkipToValue
  \/ ParseLiteral \/ ParseString \/ ParseNumber \/ ParseNothing
  \/ OpenList \/ NextElement \/ ParseName \/ AfterValue
  \/ Unwind

-----------------------------------------------------------------------------
(* PROPERTIES                                                              *)

ParserTypeOK ==
  /\ text \in Seq(Tokens)
  /\ offset \in 1 .. Len(text) + 1
  /\ depth \in 0 .. CJSON_NESTING_LIMIT
  /\ stack \in Seq(Frame)
  /\ root \in Ids \cup {Null}
  /\ DOMAIN heap \subseteq Ids
  /\ heap \in [DOMAIN heap -> Items]
  /\ step \in {"idle", "begin", "value", "after", "element", "name", "fail", "parsed"}
  /\ oom \in BOOLEAN

\* parse_string reads the byte at the offset without asking whether there is
\* one.  Where a name is due there is one, after every skip of blanks up to the
\* end of the text.
NameInBounds == step = "name" => Accessible(offset)

\* Who would free item i: the root, a call under way that holds it as the head
\* of its list, or the item it hangs from.
Owners(i) ==
     {<<"root", 0>> : x \in {root} \cap {i}}
\cup {<<"head", k>> : k \in {k \in DOMAIN stack : stack[k].head = i}}
\cup {<<"next", j>> : j \in {j \in DOMAIN heap : heap[j].next = i}}
\cup {<<"child", j>> : j \in {j \in DOMAIN heap : heap[j].child = i}}

\* Every item alive has exactly one owner and every link leads to an item alive,
\* at each step of a parse, of its failure at any point and of the lookups after
\* it: nothing is freed twice, nothing leaks, and when the document has been
\* deleted nothing is left.
EveryItemOwned ==
  /\ \A i \in DOMAIN heap :
       /\ Cardinality(Owners(i)) = 1
       /\ {heap[i].next, heap[i].child} \subseteq DOMAIN heap \cup {Null}
  /\ {stack[k].head : k \in DOMAIN stack} \cup {root} \subseteq DOMAIN heap \cup {Null}
  /\ step = "idle" => heap = EmptyHeap

=============================================================================
