-------------------------- MODULE ConfigLoadProofs --------------------------
(***************************************************************************)
(* Proofs about the config loader and the parser under it, for every set   *)
(* of texts, strings and numbers, every nesting limit and every size of    *)
(* the memory: parse_string reads inside the text, no item is freed twice  *)
(* or lost, what the parser returns is the document the text begins with,  *)
(* and what the loader hands out is in range and is what that document     *)
(* configures.                                                             *)
(*                                                                         *)
(* That every item has one owner is not inductive.  The items form trees,  *)
(* one below the root and one for each call of parse_array and             *)
(* parse_object under way; a call appends to the end of a list of its own  *)
(* tree, and when it fails it deletes that tree and touches no other.      *)
(*                                                                         *)
(* What an item stands for is a value at a position of the text.  That a   *)
(* document is the right one rests on such positions while the tree still  *)
(* grows; that the loader takes from it what the text says, on following   *)
(* both at once; and that a text that was cut off is not taken for another *)
(* one, on the positions being the same in the whole text.                 *)
(***************************************************************************)
EXTENDS ConfigMeaning, CommonLemmas, FiniteSetTheorems, SequenceTheorems

-----------------------------------------------------------------------------
(* THE HEAP AS A FOREST                                                    *)

\* The live items are linked into trees, whose roots are the set R: every link
\* leads to an item, no item is linked twice, a root not at all, and every item
\* is in the tree of a root.
Forest(h, R) ==
  /\ R \subseteq DOMAIN h
  /\ \A i \in DOMAIN h : /\ h[i].next \in (DOMAIN h \ R) \cup {Null}
                         /\ h[i].child \in (DOMAIN h \ R) \cup {Null}
                         /\ h[i].next = h[i].child => h[i].next = Null
  /\ \A i, j \in DOMAIN h :
       i # j => /\ h[i].next = h[j].next => h[i].next = Null
                /\ h[i].child = h[j].child => h[i].child = Null
                /\ h[i].next = h[j].child => h[i].next = Null
  /\ \A i \in DOMAIN h : \E r \in R : i \in Reach(h, r)

-----------------------------------------------------------------------------
(* THE INDUCTIVE INVARIANT                                                 *)

\* What the parser holds in its hands: the root, and the list of each call under
\* way that has a list.
Hands == ({root} \cup {stack[k].head : k \in DOMAIN stack}) \ {Null}

\* No item is in two hands.
HandsInv ==
  /\ \A k \in DOMAIN stack : stack[k].head = root => root = Null
  /\ \A k, l \in DOMAIN stack : k # l /\ stack[k].head = stack[l].head => stack[k].head = Null

\* A call under way appends to a list that is not yet the child of its item, and
\* the item is the root or the one the calling call has just appended.
FrameInv(k) ==
  /\ stack[k].node = (IF k = 1 THEN root ELSE stack[k - 1].current)
  /\ stack[k].node # Null
  /\ heap[stack[k].node].child = Null
  /\ stack[k].head = Null <=> stack[k].current = Null
  /\ stack[k].current # Null => /\ stack[k].current \in Reach(heap, stack[k].head)
                                /\ heap[stack[k].current].next = Null

\* What the parser is about to do, it can do.
StepInv ==
  /\ step \in {"idle", "begin", "parsed"} => stack = <<>>
  /\ step = "idle" => root = Null
  /\ step \in {"begin", "value", "name"} => Item # Null /\ heap[Item].child = Null
  /\ step = "after" => Item # Null
  /\ step \in {"element", "name"} => stack # <<>> /\ Accessible(offset)
  /\ step # "idle" => text # <<>>
  /\ Len(stack) <= depth

\* The parser is called when a text has been read, and not idle until the
\* document is disposed of.
CallInv ==
  /\ pc \in {"idle", "sized"} <=> step = "idle"
  /\ pc \in {"pi", "stm", "commit", "bad"} => step = "parsed"

HeapInv ==
  /\ Forest(heap, Hands)
  /\ HandsInv
  /\ \A k \in DOMAIN stack : FrameInv(k)

IInv == TypeOK /\ HeapInv /\ StepInv /\ CallInv

-----------------------------------------------------------------------------
(* TREES                                                                   *)

\* What Reach is: a closed set of items with i, and the least one.
LEMMA ReachIs ==
  ASSUME NEW h, NEW i \in DOMAIN h
  PROVE  i \in Reach(h, i) /\ Reach(h, i) \subseteq DOMAIN h /\ Closed(h, Reach(h, i))
BY DEF Reach, Closed

LEMMA ReachLeast ==
  ASSUME NEW h, NEW i \in DOMAIN h, NEW S \in SUBSET DOMAIN h, i \in S, Closed(h, S)
  PROVE  Reach(h, i) \subseteq S
BY DEF Reach

\* An item of a tree other than its root is linked from another item of it.
LEMMA ReachParent ==
  ASSUME NEW h, NEW i \in DOMAIN h, NEW j \in Reach(h, i), j # i
  PROVE  \E k \in Reach(h, i) : h[k].next = j \/ h[k].child = j
<1> SUFFICES ASSUME \A k \in Reach(h, i) : h[k].next # j /\ h[k].child # j
             PROVE  FALSE
  OBVIOUS
<1> DEFINE S == Reach(h, i) \ {j}
<1>1. S \in SUBSET DOMAIN h /\ i \in S
  BY ReachIs
<1>2. Closed(h, S)
  BY ReachIs DEF Closed
<1> QED
  BY <1>1, <1>2, ReachLeast

\* Trees with more links reach at least as far.
LEMMA ReachGrows ==
  ASSUME NEW h, NEW g, DOMAIN h \subseteq DOMAIN g,
         \A i \in DOMAIN h : /\ h[i].next \in DOMAIN h => g[i].next = h[i].next
                             /\ h[i].child \in DOMAIN h => g[i].child = h[i].child,
         NEW r \in DOMAIN h
  PROVE  Reach(h, r) \subseteq Reach(g, r)
<1> DEFINE S == Reach(g, r) \cap DOMAIN h
<1>1. S \in SUBSET DOMAIN h /\ r \in S
  BY ReachIs
<1>2. Closed(h, S)
  BY ReachIs DEF Closed
<1> QED
  BY <1>1, <1>2, ReachLeast

\* Two roots have disjoint trees.
LEMMA TreesDisjoint ==
  ASSUME NEW h, NEW R, Forest(h, R), DOMAIN h \subseteq Ids, NEW r \in R, NEW q \in R, r # q
  PROVE  Reach(h, r) \cap Reach(h, q) = {}
<1> DEFINE S == Reach(h, r) \ Reach(h, q)
<1>1. r \in DOMAIN h /\ q \in DOMAIN h /\ Null \notin DOMAIN h
  BY DEF Forest, Ids, Null
<1>2. ASSUME NEW k \in Reach(h, r), NEW j \in Reach(h, q), h[k].next = j \/ h[k].child = j
      PROVE  k \in Reach(h, q)
  <2>1. k \in DOMAIN h /\ j \in DOMAIN h /\ j # Null
    BY <1>1, ReachIs
  <2>2. j # q
    BY <1>2, <2>1 DEF Forest
  <2>3. PICK m \in Reach(h, q) : h[m].next = j \/ h[m].child = j
    BY <1>1, <2>2, ReachParent
  <2>4. m \in DOMAIN h
    BY <1>1, ReachIs
  <2>5. m = k
    BY <1>2, <2>1, <2>3, <2>4 DEF Forest
  <2> QED
    BY <2>3, <2>5
<1>3. r \in S
  <2>1. ASSUME r \in Reach(h, q) PROVE FALSE
    <3>1. PICK m \in Reach(h, q) : h[m].next = r \/ h[m].child = r
      BY <1>1, <2>1, ReachParent
    <3>2. m \in DOMAIN h
      BY <1>1, ReachIs
    <3> QED
      BY <1>1, <3>1, <3>2 DEF Forest
  <2> QED
    BY <1>1, <2>1, ReachIs
<1>4. S \in SUBSET DOMAIN h
  BY <1>1, ReachIs
<1>5. Closed(h, S)
  BY <1>1, <1>2, ReachIs DEF Closed
<1> QED
  BY <1>1, <1>3, <1>4, <1>5, ReachLeast

\* Only the links matter.
LEMMA SameLinks ==
  ASSUME NEW h, NEW g, DOMAIN g = DOMAIN h,
         \A i \in DOMAIN h : g[i].next = h[i].next /\ g[i].child = h[i].child
  PROVE  /\ \A i : Reach(g, i) = Reach(h, i)
         /\ \A R : Forest(h, R) => Forest(g, R)
<1>1. \A S \in SUBSET DOMAIN h : Closed(g, S) <=> Closed(h, S)
  BY DEF Closed
<1>2. \A i : Reach(g, i) = Reach(h, i)
  BY <1>1 DEF Reach
<1> QED
  BY <1>2 DEF Forest

\* A new item is a tree of its own.
LEMMA ForestNew ==
  ASSUME NEW h, NEW R, Forest(h, R), DOMAIN h \subseteq Ids, HasRoom(h)
  PROVE  /\ NewId(h) \in Ids /\ NewId(h) \notin DOMAIN h
         /\ Forest(WithNew(h), R \cup {NewId(h)})
         /\ DOMAIN WithNew(h) = DOMAIN h \cup {NewId(h)}
         /\ WithNew(h)[NewId(h)] = NewItem
         /\ \A i \in DOMAIN h : WithNew(h)[i] = h[i]
         /\ \A r \in DOMAIN h : Reach(h, r) \subseteq Reach(WithNew(h), r)
<1> DEFINE new == NewId(h)
           g == WithNew(h)
<1>1. new \in Ids /\ new \notin DOMAIN h
  BY DEF HasRoom, NewId
<1>2. /\ DOMAIN g = DOMAIN h \cup {new}
      /\ g[new] = NewItem
      /\ \A i \in DOMAIN h : g[i] = h[i]
  BY <1>1 DEF WithNew
<1> HIDE DEF g, new
<1>3. \A r \in DOMAIN h : Reach(h, r) \subseteq Reach(g, r)
  BY <1>2, ReachGrows
<1>4. Forest(g, R \cup {new})
  <2>1. Null \notin DOMAIN h /\ new # Null
    BY <1>1 DEF Ids, Null
  <2>2. R \cup {new} \subseteq DOMAIN g
    BY <1>2 DEF Forest
  <2>3. g[new].next = Null /\ g[new].child = Null
    <3>1. NewItem.next = Null /\ NewItem.child = Null
      BY DEF NewItem
    <3> QED
      BY <1>2, <3>1
  <2>4. \A i \in DOMAIN g : /\ g[i].next \in (DOMAIN g \ (R \cup {new})) \cup {Null}
                            /\ g[i].child \in (DOMAIN g \ (R \cup {new})) \cup {Null}
                            /\ g[i].next = g[i].child => g[i].next = Null
    BY <1>1, <1>2, <2>1, <2>3 DEF Forest
  <2>5. \A i, j \in DOMAIN g :
          i # j => /\ g[i].next = g[j].next => g[i].next = Null
                   /\ g[i].child = g[j].child => g[i].child = Null
                   /\ g[i].next = g[j].child => g[i].next = Null
    BY <1>2, <2>3 DEF Forest
  <2>6. ASSUME NEW i \in DOMAIN g PROVE \E r \in R \cup {new} : i \in Reach(g, r)
    <3>1. CASE i = new
      BY <3>1, ReachIs
    <3>2. CASE i \in DOMAIN h
      BY <1>3, <3>2 DEF Forest
    <3> QED
      BY <1>2, <3>1, <3>2
  <2> QED
    BY <2>2, <2>4, <2>5, <2>6 DEF Forest
<1> QED
  BY <1>1, <1>2, <1>3, <1>4 DEF g, new

\* A root that is linked from an item of another tree, by a link that led
\* nowhere, joins that tree.
LEMMA ForestJoin ==
  ASSUME NEW h, NEW g, NEW R, Forest(h, R), DOMAIN h \subseteq Ids, DOMAIN g = DOMAIN h,
         NEW c \in R, NEW i \in DOMAIN h, i \notin Reach(h, c),
         \A j \in DOMAIN h \ {i} : g[j].next = h[j].next /\ g[j].child = h[j].child,
         \/ h[i].next = Null /\ g[i].next = c /\ g[i].child = h[i].child
         \/ h[i].child = Null /\ g[i].child = c /\ g[i].next = h[i].next
  PROVE  /\ Forest(g, R \ {c})
         /\ \A r \in DOMAIN h : Reach(h, r) \subseteq Reach(g, r)
<1>1. Null \notin DOMAIN h /\ c \in DOMAIN h /\ c # Null
  BY DEF Forest, Ids, Null
<1>2. \A j \in DOMAIN h : /\ h[j].next \in DOMAIN h => g[j].next = h[j].next
                          /\ h[j].child \in DOMAIN h => g[j].child = h[j].child
  BY <1>1
<1>3. \A r \in DOMAIN h : Reach(h, r) \subseteq Reach(g, r)
  BY <1>2, ReachGrows
<1>4. ASSUME NEW j \in DOMAIN g
      PROVE  /\ g[j].next \in (DOMAIN g \ (R \ {c})) \cup {Null}
             /\ g[j].child \in (DOMAIN g \ (R \ {c})) \cup {Null}
             /\ g[j].next = g[j].child => g[j].next = Null
  BY <1>1 DEF Forest
<1>5. ASSUME NEW j \in DOMAIN g, NEW k \in DOMAIN g, j # k
      PROVE  /\ g[j].next = g[k].next => g[j].next = Null
             /\ g[j].child = g[k].child => g[j].child = Null
             /\ g[j].next = g[k].child => g[j].next = Null
  BY <1>1, <1>5 DEF Forest
<1>6. ASSUME NEW j \in DOMAIN g PROVE \E r \in R \ {c} : j \in Reach(g, r)
  <2>1. PICK r \in R : j \in Reach(h, r)
    BY DEF Forest
  <2>2. r \in DOMAIN h
    BY DEF Forest
  <2>3. CASE r # c
    BY <1>3, <2>1, <2>2, <2>3
  <2>4. CASE r = c
    <3>1. PICK q \in R : i \in Reach(h, q)
      BY DEF Forest
    <3>2. q # c /\ q \in DOMAIN h
      BY <3>1 DEF Forest
    <3>3. i \in Reach(g, q)
      BY <1>3, <3>1, <3>2
    <3>4. c \in Reach(g, q)
      BY <1>1, <3>2, <3>3, ReachIs DEF Closed
    <3> DEFINE S == Reach(g, q) \cap DOMAIN h
    <3>5. S \in SUBSET DOMAIN h /\ c \in S
      BY <1>1, <3>4
    <3>6. Closed(h, S)
      BY <1>2, <3>2, ReachIs DEF Closed
    <3>7. Reach(h, c) \subseteq S
      BY <1>1, <3>5, <3>6, ReachLeast
    <3> QED
      BY <2>1, <2>4, <3>2, <3>7
  <2> QED
    BY <2>3, <2>4
<1>7. R \ {c} \subseteq DOMAIN g
  BY DEF Forest
<1> QED
  BY <1>3, <1>4, <1>5, <1>6, <1>7 DEF Forest

\* Deleting a root takes its tree and leaves all others as they are.
LEMMA ForestDelete ==
  ASSUME NEW h, NEW R, Forest(h, R), DOMAIN h \subseteq Ids, NEW c \in R
  PROVE  /\ Forest(Deleted(h, c), R \ {c})
         /\ DOMAIN Deleted(h, c) \subseteq DOMAIN h
         /\ \A i \in DOMAIN Deleted(h, c) : Deleted(h, c)[i] = h[i]
         /\ \A r \in R \ {c} : /\ Reach(h, r) \subseteq DOMAIN Deleted(h, c)
                               /\ Reach(h, r) \subseteq Reach(Deleted(h, c), r)
<1> DEFINE g == Deleted(h, c)
<1>1. DOMAIN g = DOMAIN h \ Reach(h, c) /\ \A i \in DOMAIN g : g[i] = h[i]
  BY DEF Deleted
<1> HIDE DEF g
<1>2. Null \notin DOMAIN h /\ R \subseteq DOMAIN h
  BY DEF Forest, Ids, Null
<1>3. ASSUME NEW r \in R \ {c} PROVE Reach(h, r) \subseteq DOMAIN g
  BY <1>1, <1>2, ReachIs, TreesDisjoint
<1>4. ASSUME NEW i \in DOMAIN g, NEW j \in DOMAIN h, h[i].next = j \/ h[i].child = j
      PROVE  j \in DOMAIN g
  <2> SUFFICES ASSUME j \in Reach(h, c) PROVE FALSE
    BY <1>1
  <2>1. j # c
    BY <1>1, <1>2, <1>4 DEF Forest
  <2>2. PICK k \in Reach(h, c) : h[k].next = j \/ h[k].child = j
    BY <1>2, <2>1, ReachParent
  <2>3. k \in DOMAIN h /\ i \in DOMAIN h /\ k # i /\ j # Null
    BY <1>1, <1>2, <2>2, ReachIs
  <2> QED
    BY <1>4, <2>2, <2>3 DEF Forest
<1>5. ASSUME NEW r \in R \ {c} PROVE Reach(h, r) \subseteq Reach(g, r)
  <2> DEFINE S == Reach(g, r)
  <2>1. r \in DOMAIN g /\ r \in DOMAIN h
    BY <1>2, <1>3, ReachIs
  <2>2. S \in SUBSET DOMAIN h /\ r \in S
    BY <1>1, <2>1, ReachIs
  <2>3. Closed(g, S) /\ S \subseteq DOMAIN g
    BY <2>1, ReachIs
  <2>4. Closed(h, S)
    <3> HIDE DEF S
    <3> SUFFICES ASSUME NEW i \in S, NEW j \in DOMAIN h, h[i].next = j \/ h[i].child = j
                 PROVE  j \in S
      BY DEF Closed
    <3>1. j \in DOMAIN g
      BY <1>4, <2>3
    <3> QED
      BY <1>1, <2>3, <3>1 DEF Closed
  <2> QED
    BY <2>1, <2>2, <2>4, ReachLeast
<1>6. Forest(g, R \ {c})
  <2>1. R \ {c} \subseteq DOMAIN g
    BY <1>2, <1>3, ReachIs
  <2>2. ASSUME NEW i \in DOMAIN g PROVE \E r \in R \ {c} : i \in Reach(g, r)
    <3>1. PICK r \in R : i \in Reach(h, r)
      BY <1>1 DEF Forest
    <3>2. r # c
      BY <1>1, <3>1
    <3> QED
      BY <1>5, <3>1, <3>2
  <2>3. \A i \in DOMAIN g : /\ g[i].next \in (DOMAIN g \ (R \ {c})) \cup {Null}
                            /\ g[i].child \in (DOMAIN g \ (R \ {c})) \cup {Null}
                            /\ g[i].next = g[i].child => g[i].next = Null
    BY <1>1, <1>4 DEF Forest
  <2>4. \A i, j \in DOMAIN g :
          i # j => /\ g[i].next = g[j].next => g[i].next = Null
                   /\ g[i].child = g[j].child => g[i].child = Null
                   /\ g[i].next = g[j].child => g[i].next = Null
    BY <1>1 DEF Forest
  <2> QED
    BY <2>1, <2>2, <2>3, <2>4 DEF Forest
<1> QED
  BY <1>1, <1>3, <1>5, <1>6 DEF g

\* Without roots there are no items.
LEMMA ForestEmpty == ASSUME NEW h, Forest(h, {}) PROVE DOMAIN h = {}
BY DEF Forest

-----------------------------------------------------------------------------
(* SEQUENCES AND POSITIONS                                                 *)

\* The first n elements of a sequence.
LEMMA PrefixIs ==
  ASSUME NEW S, NEW s \in Seq(S), NEW n \in 0 .. Len(s)
  PROVE  /\ SubSeq(s, 1, n) \in Seq(S)
         /\ Len(SubSeq(s, 1, n)) = n
         /\ \A i \in 1 .. n : SubSeq(s, 1, n)[i] = s[i]
<1>1. Len(s) \in Nat
  BY LenProperties
<1>2. n \in Int /\ \A i \in 1 .. n : s[i] \in S
  BY <1>1, ElementOfSeq
<1> DEFINE m == 1
<1>3. m \in Int /\ \A i \in m .. n : s[i] \in S
  BY <1>2
<1> HIDE DEF m
<1>4. /\ SubSeq(s, m, n) \in Seq(S)
      /\ Len(SubSeq(s, m, n)) = IF m <= n THEN n - m + 1 ELSE 0
      /\ \A i \in 1 .. n - m + 1 : SubSeq(s, m, n)[i] = s[m + i - 1]
  BY <1>2, <1>3, SubSeqProperties
<1> DEFINE f == SubSeq(s, m, n)
<1> HIDE DEF f
<1>5. f \in Seq(S) /\ Len(f) = IF m <= n THEN n - m + 1 ELSE 0
  BY <1>4 DEF f
<1>6. \A i \in 1 .. n - m + 1 : f[i] = s[m + i - 1]
  BY <1>4 DEF f
<1>7. f \in Seq(S) /\ Len(f) = n /\ \A i \in 1 .. n : f[i] = s[i]
  BY <1>1, <1>5, <1>6 DEF m
<1> QED
  BY <1>7 DEF f, m

\* All of a sequence but its last element.
LEMMA FrontIs ==
  ASSUME NEW S, NEW s \in Seq(S), s # <<>>
  PROVE  /\ Front(s) \in Seq(S)
         /\ Len(Front(s)) = Len(s) - 1
         /\ \A i \in 1 .. Len(s) - 1 : Front(s)[i] = s[i]
<1>1. Len(s) - 1 \in 0 .. Len(s)
  BY EmptySeq, LenProperties
<1> QED
  BY <1>1, PrefixIs DEF Front

\* A set of natural numbers has a least one.
LEMMA MinIs == ASSUME NEW S \in SUBSET Nat, S # {} PROVE Min(S) \in S
<1>1. PICK x \in S : \A y \in S : <<y, x>> \notin OpToRel(<, Nat)
  BY NatLessThanWellFounded, WFMin, Zenon
<1>2. ASSUME NEW y \in S, y < x PROVE FALSE
  <2>1. <<y, x>> \in Nat \X Nat /\ <<y, x>>[1] < <<y, x>>[2]
    BY <1>2
  <2>2. <<y, x>> \in OpToRel(<, Nat)
    BY <2>1 DEF OpToRel
  <2> QED
    BY <1>1, <2>2
<1>3. \A y \in S : x <= y
  BY <1>2
<1> QED
  BY <1>3 DEF Min

\* Skipping blanks never goes back, and not past the end of the text.
LEMMA SkipBlankIs ==
  ASSUME Len(text) \in Nat, NEW p \in Nat
  PROVE  /\ Accessible(p) => SkipBlank(p) \in p .. Len(text)
         /\ ~Accessible(p) => SkipBlank(p) = p
<1> DEFINE ends == {q \in p .. Len(text) : ~Reads(q, {"blank", "NUL"})}
<1>1. ends # {} => Min(ends) \in ends
  <2>1. ends \in SUBSET Nat
    OBVIOUS
  <2> QED
    BY <2>1, MinIs
<1>2. SkipBlank(p) = CASE ~Accessible(p) -> p
                       [] Accessible(p) /\ ends = {} -> Len(text)
                       [] OTHER -> Min(ends)
  BY DEF SkipBlank
<1>3. ends \subseteq p .. Len(text)
  OBVIOUS
<1> HIDE DEF ends
<1>4. CASE ~Accessible(p)
  BY <1>2, <1>4
<1>5. CASE Accessible(p) /\ ends = {}
  BY <1>2, <1>5 DEF Accessible
<1>6. CASE Accessible(p) /\ ends # {}
  BY <1>1, <1>2, <1>3, <1>6 DEF Accessible
<1> QED
  BY <1>4, <1>5, <1>6

-----------------------------------------------------------------------------
(* THE PARSER'S TREES                                                      *)

\* What the types say of the parser's stack and heap.
LEMMA ParserTypes ==
  ASSUME ParserTypeOK
  PROVE  /\ Len(stack) \in Nat /\ DOMAIN stack = 1 .. Len(stack)
         /\ stack # <<>> <=> Len(stack) > 0
         /\ \A k \in DOMAIN stack : /\ stack[k].node \in Ids
                                    /\ stack[k].head \in Ids \cup {Null}
                                    /\ stack[k].current \in Ids \cup {Null}
         /\ DOMAIN heap \subseteq Ids /\ Null \notin Ids
         /\ Len(text) \in Nat /\ offset \in Nat \ {0}
<1> USE DEF ParserTypeOK
<1>1. Len(stack) \in Nat /\ DOMAIN stack = 1 .. Len(stack)
  BY LenProperties
<1>2. stack # <<>> <=> Len(stack) > 0
  BY EmptySeq
<1>3. \A k \in DOMAIN stack : stack[k] \in Frame
  BY <1>1, ElementOfSeq
<1>4. \A k \in DOMAIN stack : /\ stack[k].node \in Ids
                             /\ stack[k].head \in Ids \cup {Null}
                             /\ stack[k].current \in Ids \cup {Null}
  BY <1>3 DEF Frame
<1>5. Len(text) \in Nat
  BY LenProperties
<1>6. offset \in Nat \ {0}
  BY <1>5
<1>7. DOMAIN heap \subseteq Ids /\ Null \notin Ids
  BY DEF Ids, Null
<1> QED
  BY <1>1, <1>2, <1>4, <1>5, <1>6, <1>7

\* The tree in which the item of call k hangs: that of the root or of the
\* calling call.
Host(k) == IF k = 1 THEN root ELSE stack[k - 1].head

\* Each call hangs in a tree of its own, which is not that of its own list nor
\* that of a call further up.
LEMMA HostIs ==
  ASSUME ParserTypeOK, HeapInv
  PROVE  \A k \in DOMAIN stack :
           /\ Host(k) \in Hands
           /\ stack[k].node \in Reach(heap, Host(k))
           /\ \A l \in DOMAIN stack : k # l => Host(k) # Host(l)
           /\ \A l \in DOMAIN stack : k <= l => Host(k) # stack[l].head
<1> USE ParserTypes
<1>1. Hands \subseteq DOMAIN heap
  BY DEF HeapInv, Forest
<1>2. \A k \in DOMAIN stack : k # 1 => /\ k - 1 \in DOMAIN stack
                                       /\ stack[k - 1].current # Null
                                       /\ stack[k - 1].head # Null
  BY DEF HeapInv, FrameInv
<1>3. \A k \in DOMAIN stack : 1 \in DOMAIN stack /\ root # Null
  BY DEF HeapInv, FrameInv
<1>4. ASSUME NEW k \in DOMAIN stack
      PROVE  Host(k) \in Hands /\ stack[k].node \in Reach(heap, Host(k))
  <2>1. CASE k = 1
    <3>1. Host(k) = root /\ root \in Hands /\ stack[k].node = root
      BY <1>3, <2>1 DEF Host, Hands, HeapInv, FrameInv
    <3> QED
      BY <1>1, <3>1, ReachIs
  <2>2. CASE k # 1
    <3>1. Host(k) = stack[k - 1].head /\ stack[k].node = stack[k - 1].current
      BY <2>2 DEF Host, HeapInv, FrameInv
    <3>2. stack[k - 1].current \in Reach(heap, stack[k - 1].head)
      BY <1>2, <2>2 DEF HeapInv, FrameInv
    <3>3. stack[k - 1].head \in Hands
      BY <1>2, <2>2 DEF Hands
    <3> QED
      BY <3>1, <3>2, <3>3
  <2> QED
    BY <2>1, <2>2
<1>5. \A k, l \in DOMAIN stack : k # l => Host(k) # Host(l)
  BY <1>2, <1>3 DEF Host, HeapInv, HandsInv
<1>6. \A k, l \in DOMAIN stack : k <= l => Host(k) # stack[l].head
  BY <1>2, <1>3 DEF Host, HeapInv, HandsInv
<1> QED
  BY <1>4, <1>5, <1>6

\* The items of two calls differ, and the item of a call is in no tree that this
\* call or one further up builds.
LEMMA NodesApart ==
  ASSUME ParserTypeOK, HeapInv, NEW k \in DOMAIN stack, NEW l \in DOMAIN stack
  PROVE  /\ stack[k].node \in DOMAIN heap
         /\ k # l => stack[k].node # stack[l].node
         /\ k <= l /\ stack[l].head # Null => stack[k].node \notin Reach(heap, stack[l].head)
<1>1. Host(k) \in Hands /\ stack[k].node \in Reach(heap, Host(k))
      /\ Host(l) \in Hands /\ stack[l].node \in Reach(heap, Host(l))
      /\ (k # l => Host(k) # Host(l))
      /\ (k <= l => Host(k) # stack[l].head)
  BY HostIs
<1>2. Forest(heap, Hands) /\ DOMAIN heap \subseteq Ids /\ Hands \subseteq DOMAIN heap
  BY ParserTypes DEF HeapInv, Forest
<1>3. stack[k].node \in DOMAIN heap
  BY <1>1, <1>2, ReachIs
<1>4. ASSUME k # l PROVE stack[k].node # stack[l].node
  BY <1>1, <1>2, <1>4, TreesDisjoint
<1>5. ASSUME k <= l, stack[l].head # Null PROVE stack[k].node \notin Reach(heap, stack[l].head)
  <2>1. stack[l].head \in Hands
    BY <1>5 DEF Hands
  <2> QED
    BY <1>1, <1>2, <1>5, <2>1, TreesDisjoint
<1> QED
  BY <1>3, <1>4, <1>5

\* So it is with the ends of the lists.
LEMMA CurrentsApart ==
  ASSUME ParserTypeOK, HeapInv, NEW k \in DOMAIN stack, NEW l \in DOMAIN stack, k # l,
         stack[k].current # Null, stack[l].current # Null
  PROVE  /\ stack[k].current \in DOMAIN heap
         /\ stack[k].current # stack[l].current
         /\ stack[k].current \notin Reach(heap, stack[l].head)
<1>1. /\ stack[k].head # Null /\ stack[k].current \in Reach(heap, stack[k].head)
      /\ stack[l].head # Null /\ stack[l].current \in Reach(heap, stack[l].head)
  BY DEF HeapInv, FrameInv
<1>2. stack[k].head # stack[l].head /\ stack[k].head \in Hands /\ stack[l].head \in Hands
  BY <1>1 DEF HeapInv, HandsInv, Hands
<1>3. Forest(heap, Hands) /\ DOMAIN heap \subseteq Ids /\ Hands \subseteq DOMAIN heap
  BY ParserTypes DEF HeapInv, Forest
<1> QED
  BY <1>1, <1>2, <1>3, TreesDisjoint, ReachIs

\* The item a value is parsed into is there.
LEMMA ItemIs ==
  ASSUME ParserTypeOK, HeapInv, Item # Null
  PROVE  Item \in DOMAIN heap
<1> USE ParserTypes
<1>1. CASE stack = <<>>
  BY <1>1 DEF Item, HeapInv, Forest, Hands
<1>2. CASE stack # <<>>
  <2>1. Len(stack) \in DOMAIN stack /\ Item = stack[Len(stack)].current
    BY <1>2 DEF Item, Top, Last
  <2>2. stack[Len(stack)].head \in Hands
    BY <2>1 DEF HeapInv, FrameInv, Hands
  <2>3. Item \in Reach(heap, stack[Len(stack)].head)
    BY <2>1 DEF HeapInv, FrameInv
  <2> QED
    BY <2>2, <2>3, ReachIs DEF HeapInv, Forest
<1> QED
  BY <1>1, <1>2

\* A step that leaves the links alone.
LEMMA LinksKept ==
  ASSUME ParserTypeOK, HeapInv, UNCHANGED <<root, stack>>, DOMAIN heap' = DOMAIN heap,
         \A i \in DOMAIN heap : heap'[i].next = heap[i].next /\ heap'[i].child = heap[i].child
  PROVE  HeapInv'
<1>1. Hands' = Hands
  BY DEF Hands
<1>2. /\ \A i : Reach(heap', i) = Reach(heap, i)
      /\ Forest(heap', Hands)
  BY SameLinks DEF HeapInv
<1>3. HandsInv'
  BY DEF HeapInv, HandsInv
<1>4. ASSUME NEW k \in DOMAIN stack PROVE FrameInv(k)'
  <2>1. FrameInv(k) /\ stack[k].node \in DOMAIN heap
    BY NodesApart DEF HeapInv
  <2>2. stack[k].current # Null => stack[k].current \in DOMAIN heap
    <3> SUFFICES ASSUME stack[k].current # Null PROVE stack[k].current \in DOMAIN heap
      OBVIOUS
    <3>1. stack[k].head \in DOMAIN heap
      BY <2>1, ParserTypes DEF FrameInv, HeapInv, Forest, Hands
    <3> QED
      BY <2>1, <3>1, ReachIs DEF FrameInv
  <2> QED
    BY <1>2, <2>1, <2>2 DEF FrameInv
<1>5. Forest(heap, Hands)' /\ DOMAIN stack' = DOMAIN stack
  BY <1>1, <1>2
<1> QED
  BY <1>3, <1>4, <1>5 DEF HeapInv

\* A call begins: its list is empty.
LEMMA CallBegins ==
  ASSUME ParserTypeOK, HeapInv, Item # Null, heap[Item].child = Null, UNCHANGED <<root, heap>>,
         NEW frame \in Frame, frame.node = Item, frame.head = Null, frame.current = Null,
         stack' = Append(stack, frame)
  PROVE  HeapInv'
<1>1. PICK n \in Nat : n = Len(stack)
  BY ParserTypes
<1>2. n \in Nat /\ DOMAIN stack = 1 .. n /\ (stack # <<>> <=> n > 0)
  BY <1>1, ParserTypes
<1>3. DOMAIN stack' = 1 .. n + 1 /\ stack'[n + 1] = frame /\ \A k \in 1 .. n : stack'[k] = stack[k]
  <2>1. stack \in Seq(Frame)
    BY DEF ParserTypeOK
  <2>2. stack' \in Seq(Frame) /\ Len(stack') = Len(stack) + 1
    BY <2>1, AppendProperties
  <2>3. DOMAIN stack' = 1 .. n + 1
    BY <1>1, <2>2, LenProperties
  <2> QED
    BY <1>1, <2>1, <2>3, AppendProperties
<1>4. n > 0 => Item = stack[n].current
  BY <1>1, <1>2 DEF Item, Top, Last
<1>5. n = 0 => Item = root
  <2>1. n = 0 => stack = <<>>
    BY <1>2
  <2> QED
    BY <2>1 DEF Item
<1>6. Hands' = Hands
  BY <1>2, <1>3 DEF Hands
<1>7. HandsInv'
  BY <1>2, <1>3 DEF HeapInv, HandsInv
<1>8. ASSUME NEW k \in 1 .. n PROVE FrameInv(k)'
  <2>1. stack'[k] = stack[k] /\ (k # 1 => stack'[k - 1] = stack[k - 1])
    BY <1>2, <1>3
  <2>2. FrameInv(k)
    BY <1>2 DEF HeapInv
  <2> QED
    BY <2>1, <2>2 DEF FrameInv
<1>9. FrameInv(n + 1)'
  <2>1. n + 1 # 1 => stack'[n] = stack[n] /\ (n + 1) - 1 = n
    BY <1>2, <1>3
  <2>2. stack'[n + 1].node = (IF n + 1 = 1 THEN root ELSE stack'[(n + 1) - 1].current)
    BY <1>2, <1>3, <1>4, <1>5, <2>1
  <2> QED
    BY <1>3, <2>2 DEF FrameInv
<1>10. \A k \in DOMAIN stack' : FrameInv(k)'
  BY <1>2, <1>3, <1>8, <1>9
<1>11. Forest(heap, Hands)'
  BY <1>6 DEF HeapInv
<1> QED
  BY <1>7, <1>10, <1>11 DEF HeapInv

\* A new item is the first of the innermost list, or is linked to its end.
LEMMA ItemAttached ==
  ASSUME ParserTypeOK, HeapInv, root' = root, HasRoom(heap),
         NEW n \in DOMAIN stack, n = Len(stack), NEW new, new = NewId(heap),
         heap' = IF stack[n].head = Null THEN WithNew(heap)
                 ELSE [WithNew(heap) EXCEPT ![stack[n].current].next = new],
         DOMAIN stack' = DOMAIN stack, \A k \in DOMAIN stack \ {n} : stack'[k] = stack[k],
         stack'[n].node = stack[n].node, stack'[n].current = new,
         stack'[n].head = IF stack[n].head = Null THEN new ELSE stack[n].head
  PROVE  HeapInv' /\ heap'[new].child = Null /\ new # Null
<1> DEFINE g == WithNew(heap)
<1>1. /\ new \in Ids /\ new \notin DOMAIN heap
      /\ Forest(g, Hands \cup {new})
      /\ DOMAIN g = DOMAIN heap \cup {new}
      /\ g[new] = NewItem
      /\ \A i \in DOMAIN heap : g[i] = heap[i]
      /\ \A r \in DOMAIN heap : Reach(heap, r) \subseteq Reach(g, r)
  BY ForestNew, ParserTypes DEF HeapInv
<1>2. heap' = IF stack[n].head = Null THEN g ELSE [g EXCEPT ![stack[n].current].next = new]
  OBVIOUS
<1> HIDE DEF g
<1>3. g[new].next = Null /\ g[new].child = Null
  <2>1. NewItem.next = Null /\ NewItem.child = Null
    BY DEF NewItem
  <2> QED
    BY <1>1, <2>1
<1>4. /\ Hands \subseteq DOMAIN heap /\ new # Null /\ new \notin Hands
      /\ Null \notin DOMAIN heap /\ DOMAIN heap \subseteq Ids
  BY <1>1, ParserTypes DEF HeapInv, Forest
<1>5. \A k \in DOMAIN stack : stack[k].head # Null => stack[k].head \in DOMAIN heap
  BY <1>4 DEF Hands
<1>6. root # Null => root \in DOMAIN heap
  BY <1>4 DEF Hands
<1>7. HandsInv'
  BY <1>1, <1>4, <1>5, <1>6 DEF HeapInv, HandsInv
<1>8. /\ stack[n].node \in DOMAIN heap
      /\ \A k \in DOMAIN stack : /\ FrameInv(k)
                                 /\ stack[k].node \in DOMAIN heap
                                 /\ (k # 1 => k - 1 \in DOMAIN stack \ {n})
  BY NodesApart, ParserTypes DEF HeapInv
<1>9. \A k \in DOMAIN stack :
        stack[k].current # Null => /\ stack[k].current \in Reach(heap, stack[k].head)
                                   /\ stack[k].current \in DOMAIN heap
                                   /\ stack[k].head \in DOMAIN heap
                                   /\ stack[k].head # Null
  <2> SUFFICES ASSUME NEW k \in DOMAIN stack, stack[k].current # Null
               PROVE  /\ stack[k].current \in Reach(heap, stack[k].head)
                      /\ stack[k].current \in DOMAIN heap
                      /\ stack[k].head \in DOMAIN heap
                      /\ stack[k].head # Null
    OBVIOUS
  <2>1. stack[k].current \in Reach(heap, stack[k].head) /\ stack[k].head # Null
    BY <1>8 DEF FrameInv
  <2> QED
    BY <1>5, <2>1, ReachIs
<1>10. CASE stack[n].head = Null
  <2>1. heap' = g
    BY <1>2, <1>10
  <2>2. Hands' = Hands \cup {new}
    BY <1>4, <1>10, ParserTypes DEF Hands
  <2>3. Forest(heap, Hands)'
    BY <1>1, <2>1, <2>2
  <2>4. ASSUME NEW k \in DOMAIN stack, k # n PROVE FrameInv(k)'
    <3>1. FrameInv(k) /\ stack'[k] = stack[k] /\ heap'[stack[k].node] = heap[stack[k].node]
      BY <1>1, <1>8, <2>1, <2>4
    <3>2. stack[k].current # Null => /\ stack[k].current \in Reach(heap', stack[k].head)
                                     /\ heap'[stack[k].current] = heap[stack[k].current]
      BY <1>1, <1>9, <2>1
    <3>3. k # 1 => stack'[k - 1] = stack[k - 1]
      BY <1>8
    <3> QED
      BY <3>1, <3>2, <3>3 DEF FrameInv
  <2>5. FrameInv(n)'
    <3>1. new \in Reach(heap', new)
      BY <1>1, <2>1, ReachIs
    <3>2. stack'[n].head = new /\ stack'[n].current = new
      BY <1>10
    <3>3. stack'[n].node = (IF n = 1 THEN root' ELSE stack'[n - 1].current)
      BY <1>8 DEF FrameInv
    <3>4. stack'[n].node # Null /\ heap'[stack'[n].node].child = Null
      <4>1. heap'[stack[n].node] = heap[stack[n].node]
        BY <1>1, <1>8, <2>1
      <4>2. stack[n].node # Null /\ heap[stack[n].node].child = Null
        BY <1>8 DEF FrameInv
      <4> QED
        BY <4>1, <4>2
    <3> QED
      BY <1>3, <1>4, <2>1, <3>1, <3>2, <3>3, <3>4 DEF FrameInv
  <2>6. \A k \in DOMAIN stack' : FrameInv(k)'
    BY <2>4, <2>5
  <2>7. heap'[new].child = Null
    BY <1>3, <2>1
  <2> QED
    BY <1>4, <1>7, <2>3, <2>6, <2>7 DEF HeapInv
<1>11. CASE stack[n].head # Null
  <2> DEFINE c == stack[n].current
  <2>1. c # Null /\ c \in Reach(heap, stack[n].head) /\ c \in DOMAIN heap /\ heap[c].next = Null
        /\ stack[n].head \in Hands
    BY <1>8, <1>9, <1>11 DEF FrameInv, Hands
  <2>2. heap' = [g EXCEPT ![c].next = new] /\ g[c] \in Items
    BY <1>1, <1>2, <1>11, <2>1 DEF ParserTypeOK
  <2>3. c # new /\ c \in DOMAIN g
    BY <1>1, <2>1
  <2>4. /\ DOMAIN heap' = DOMAIN g
        /\ \A j \in DOMAIN g \ {c} : heap'[j] = g[j]
        /\ heap'[c].next = new /\ heap'[c].child = g[c].child
    <3> HIDE DEF c
    <3> QED
      BY <2>2, <2>3 DEF Items
  <2>5. g[c].next = Null
    BY <1>1, <2>1
  <2>6. c \notin Reach(g, new)
    <3>1. c \in Reach(g, stack[n].head)
      BY <1>1, <1>4, <2>1
    <3>2. DOMAIN g \subseteq Ids /\ stack[n].head # new
      BY <1>1, <1>4, <2>1
    <3> QED
      BY <1>1, <2>1, <3>1, <3>2, TreesDisjoint
  <2>7. /\ Forest(heap', (Hands \cup {new}) \ {new})
        /\ \A r \in DOMAIN g : Reach(g, r) \subseteq Reach(heap', r)
    <3>1. DOMAIN g \subseteq Ids
      BY <1>1, <1>4
    <3> HIDE DEF c
    <3>2. \A j \in DOMAIN g \ {c} : heap'[j].next = g[j].next /\ heap'[j].child = g[j].child
      BY <2>4
    <3>3. new \in Hands \cup {new} /\ Forest(g, Hands \cup {new})
      BY <1>1
    <3>4. /\ c \in DOMAIN g /\ DOMAIN heap' = DOMAIN g
          /\ heap'[c].next = new /\ heap'[c].child = g[c].child
      BY <2>3, <2>4
    <3> DEFINE G == heap'
               R == Hands \cup {new}
    <3>5. /\ Forest(g, R) /\ new \in R /\ DOMAIN G = DOMAIN g /\ c \in DOMAIN g
          /\ \A j \in DOMAIN g \ {c} : G[j].next = g[j].next /\ G[j].child = g[j].child
          /\ g[c].next = Null /\ G[c].next = new /\ G[c].child = g[c].child
      BY <2>5, <3>2, <3>3, <3>4
    <3> HIDE DEF G, R
    <3>6. Forest(G, R \ {new})
      BY <2>6, <3>1, <3>5, ForestJoin
    <3>7. \A r \in DOMAIN g : Reach(g, r) \subseteq Reach(G, r)
      BY <2>6, <3>1, <3>5, ForestJoin
    <3> QED
      BY <3>6, <3>7 DEF G, R
  <2>8. Hands' = Hands
    BY <1>11 DEF Hands
  <2>9. Forest(heap, Hands)'
    <3>1. (Hands \cup {new}) \ {new} = Hands
      BY <1>4
    <3> QED
      BY <2>7, <2>8, <3>1
  <2>10. \A r \in DOMAIN heap : Reach(heap, r) \subseteq Reach(heap', r)
    BY <1>1, <2>7
  <2>11. ASSUME NEW k \in DOMAIN stack
         PROVE  /\ heap'[stack'[k].node].child = Null
                /\ stack'[k].node = stack[k].node /\ stack[k].node # Null
                /\ stack'[k].node = (IF k = 1 THEN root' ELSE stack'[k - 1].current)
    <3>1. stack[k].node \in DOMAIN heap /\ stack'[k].node = stack[k].node
      BY <1>8
    <3>2. heap'[stack[k].node].child = g[stack[k].node].child
      BY <1>1, <2>4, <3>1
    <3> QED
      BY <1>1, <1>8, <3>1, <3>2 DEF FrameInv
  <2>12. ASSUME NEW k \in DOMAIN stack, k # n PROVE FrameInv(k)'
    <3>1. FrameInv(k) /\ stack'[k] = stack[k]
      BY <1>8, <2>12
    <3>2. ASSUME stack[k].current # Null
          PROVE  heap'[stack[k].current].next = Null
      <4>1. stack[k].current # c /\ stack[k].current \in DOMAIN heap
        BY <1>9, <2>1, <2>12, <3>2, CurrentsApart
      <4> HIDE DEF c
      <4>2. heap'[stack[k].current] = heap[stack[k].current]
        BY <1>1, <2>4, <4>1
      <4> QED
        BY <3>1, <3>2, <4>2 DEF FrameInv
    <3> QED
      BY <1>9, <2>10, <2>11, <3>1, <3>2 DEF FrameInv
  <2>13. FrameInv(n)'
    <3>1. stack[n].head \in DOMAIN heap' /\ c \in Reach(heap', stack[n].head)
      BY <1>1, <1>4, <2>1, <2>4, <2>10
    <3>2. new \in DOMAIN heap'
      BY <1>1, <2>4
    <3>3. new \in Reach(heap', stack[n].head)
      <4> DEFINE S == Reach(heap', stack[n].head)
      <4>1. c \in S /\ Closed(heap', S)
        BY <3>1, ReachIs
      <4> HIDE DEF c, S
      <4>2. new \in S
        BY <2>4, <3>2, <4>1 DEF Closed
      <4> QED
        BY <4>2 DEF S
    <3>4. heap'[new].next = Null
      BY <1>1, <1>3, <2>3, <2>4
    <3>5. stack'[n].head = stack[n].head /\ stack'[n].current = new
      BY <1>11
    <3> QED
      BY <1>4, <1>11, <2>11, <3>3, <3>4, <3>5 DEF FrameInv
  <2>14. \A k \in DOMAIN stack' : FrameInv(k)'
    BY <2>12, <2>13
  <2>15. heap'[new].child = Null
    BY <1>1, <1>3, <2>3, <2>4
  <2> QED
    BY <1>4, <1>7, <2>9, <2>14, <2>15 DEF HeapInv
<1> QED
  BY <1>10, <1>11

\* What is left of the stack when the innermost call returns.
LEMMA CallReturns ==
  ASSUME ParserTypeOK, NEW n \in DOMAIN stack, n = Len(stack), stack' = Front(stack)
  PROVE  /\ stack' \in Seq(Frame) /\ DOMAIN stack' = (DOMAIN stack) \ {n}
         /\ Len(stack') = n - 1
         /\ \A k \in DOMAIN stack' : /\ stack'[k] = stack[k] /\ k < n
                                     /\ (k # 1 => k - 1 \in DOMAIN stack')
<1>1. stack \in Seq(Frame) /\ stack # <<>> /\ n \in Nat \ {0} /\ DOMAIN stack = 1 .. n
  BY ParserTypes DEF ParserTypeOK
<1>2. /\ stack' \in Seq(Frame) /\ Len(stack') = n - 1
      /\ \A k \in 1 .. n - 1 : stack'[k] = stack[k]
  BY <1>1, FrontIs
<1>3. DOMAIN stack' = 1 .. n - 1
  BY <1>2, LenProperties
<1> QED
  BY <1>1, <1>2, <1>3

\* It has put its list down.
LEMMA HandReleased ==
  ASSUME ParserTypeOK, HandsInv, root' = root,
         NEW n \in DOMAIN stack, n = Len(stack), stack' = Front(stack)
  PROVE  Hands' = Hands \ {stack[n].head}
<1>1. /\ DOMAIN stack' = (DOMAIN stack) \ {n}
      /\ \A k \in DOMAIN stack' : stack'[k] = stack[k]
  BY CallReturns
<1>2. Hands' = ({root} \cup {stack[k].head : k \in (DOMAIN stack) \ {n}}) \ {Null}
  <2>1. {stack'[k].head : k \in DOMAIN stack'} = {stack[k].head : k \in (DOMAIN stack) \ {n}}
    BY <1>1
  <2> QED
    BY <2>1 DEF Hands
<1>3. /\ stack[n].head = root => root = Null
      /\ \A k \in (DOMAIN stack) \ {n} : stack[k].head = stack[n].head => stack[k].head = Null
  BY DEF HandsInv
<1>4. Hands = ({root} \cup {stack[k].head : k \in DOMAIN stack}) \ {Null}
  BY DEF Hands
<1> QED
  BY <1>2, <1>3, <1>4

\* The innermost list becomes the child of its item.
LEMMA CallEnds ==
  ASSUME ParserTypeOK, HeapInv, root' = root,
         NEW n \in DOMAIN stack, n = Len(stack), stack[n].current # Null, NEW type,
         heap' = [heap EXCEPT ![stack[n].node].type = type, ![stack[n].node].child = stack[n].head],
         stack' = Front(stack)
  PROVE  HeapInv'
<1> DEFINE c == stack[n].head
           i == stack[n].node
<1>1. /\ DOMAIN stack' = (DOMAIN stack) \ {n}
      /\ \A k \in DOMAIN stack' : /\ stack'[k] = stack[k] /\ k \in DOMAIN stack /\ k # n
                                  /\ (k # 1 => stack'[k - 1] = stack[k - 1])
  BY CallReturns
<1>2. FrameInv(n) /\ Forest(heap, Hands) /\ HandsInv /\ DOMAIN heap \subseteq Ids
  BY ParserTypes DEF HeapInv
<1>3. c # Null /\ c \in Hands
  BY <1>2 DEF FrameInv, Hands
<1>4. i \in DOMAIN heap /\ i \notin Reach(heap, c)
  BY <1>3, NodesApart, ParserTypes
<1>5. heap[i].child = Null /\ heap[i] \in Items
  BY <1>2, <1>4 DEF FrameInv, ParserTypeOK
<1>6. heap' = [heap EXCEPT ![i].type = type, ![i].child = c]
  OBVIOUS
<1> HIDE DEF c, i
<1>7. /\ DOMAIN heap' = DOMAIN heap
      /\ \A j \in DOMAIN heap \ {i} : heap'[j] = heap[j]
      /\ heap'[i].child = c /\ heap'[i].next = heap[i].next
  <2>1. DOMAIN heap' = DOMAIN heap /\ \A j \in DOMAIN heap \ {i} : heap'[j] = heap[j]
    BY <1>4, <1>6
  <2>2. heap'[i] = [[heap[i] EXCEPT !.type = type] EXCEPT !.child = c]
    BY <1>4, <1>6
  <2>3. heap'[i].child = c /\ heap'[i].next = heap[i].next
    BY <1>5, <2>2 DEF Items
  <2> QED
    BY <2>1, <2>3
<1>8. Forest(heap', Hands \ {c}) /\ \A r \in DOMAIN heap : Reach(heap, r) \subseteq Reach(heap', r)
  <2> DEFINE G == heap'
  <2>1. /\ DOMAIN G = DOMAIN heap
        /\ \A j \in DOMAIN heap \ {i} : G[j].next = heap[j].next /\ G[j].child = heap[j].child
        /\ heap[i].child = Null /\ G[i].child = c /\ G[i].next = heap[i].next
    BY <1>5, <1>7
  <2> HIDE DEF G
  <2>2. Forest(G, Hands \ {c})
    BY <1>2, <1>3, <1>4, <2>1, ForestJoin
  <2>3. \A r \in DOMAIN heap : Reach(heap, r) \subseteq Reach(G, r)
    BY <1>2, <1>3, <1>4, <2>1, ForestJoin
  <2> QED
    BY <2>2, <2>3 DEF G
<1>9. Hands' = Hands \ {c}
  BY <1>2, HandReleased DEF c
<1>10. Forest(heap, Hands)'
  BY <1>8, <1>9
<1>11. HandsInv'
  BY <1>1, <1>2 DEF HandsInv
<1>12. ASSUME NEW k \in DOMAIN stack' PROVE FrameInv(k)'
  <2>1. FrameInv(k) /\ stack'[k] = stack[k] /\ (k # 1 => stack'[k - 1] = stack[k - 1])
        /\ k \in DOMAIN stack
    BY <1>1 DEF HeapInv
  <2>2. stack[k].node \in DOMAIN heap /\ stack[k].node # i
    BY <1>1, NodesApart DEF i
  <2>3. heap'[stack[k].node] = heap[stack[k].node]
    BY <1>7, <2>2
  <2>4. ASSUME stack[k].current # Null
        PROVE  /\ stack[k].current \in Reach(heap', stack[k].head)
               /\ heap'[stack[k].current].next = Null
    <3>1. stack[k].current \in DOMAIN heap
      BY <1>1, <2>4, CurrentsApart
    <3>2. stack[k].head \in DOMAIN heap /\ stack[k].current \in Reach(heap, stack[k].head)
          /\ heap[stack[k].current].next = Null
      BY <1>2, <2>1, <2>4 DEF FrameInv, Forest, Hands
    <3>3. heap'[stack[k].current].next = heap[stack[k].current].next
      BY <1>7, <3>1
    <3> QED
      BY <1>8, <3>2, <3>3
  <2> QED
    BY <2>1, <2>3, <2>4 DEF FrameInv
<1> QED
  BY <1>10, <1>11, <1>12 DEF HeapInv

\* A tree is deleted, or nothing if there is none.
LEMMA TreeDeleted ==
  ASSUME NEW h, NEW R, Forest(h, R), DOMAIN h \subseteq Ids, NEW c \in R \cup {Null}
  PROVE  /\ Forest(Deleted(h, c), R \ {c})
         /\ DOMAIN Deleted(h, c) \subseteq DOMAIN h
         /\ \A i \in DOMAIN Deleted(h, c) : Deleted(h, c)[i] = h[i]
         /\ \A r \in R \ {c} : /\ Reach(h, r) \subseteq DOMAIN Deleted(h, c)
                               /\ Reach(h, r) \subseteq Reach(Deleted(h, c), r)
<1>1. CASE c \in R
  BY <1>1, ForestDelete
<1>2. CASE c = Null
  <2> DEFINE g == Deleted(h, c)
  <2>1. Null \notin DOMAIN h /\ Null \notin R
    BY DEF Forest, Ids, Null
  <2>2. Reach(h, c) = {}
    BY <1>2, <2>1 DEF Reach
  <2>3. DOMAIN g = DOMAIN h /\ \A i \in DOMAIN h : g[i] = h[i]
    BY <2>2 DEF Deleted
  <2> HIDE DEF g
  <2>4. (\A i : Reach(g, i) = Reach(h, i)) /\ Forest(g, R)
    BY <2>3, SameLinks
  <2>5. R \ {c} = R /\ \A r \in R : Reach(h, r) \subseteq DOMAIN h
    BY <1>2, <2>1, ReachIs DEF Forest
  <2> QED
    BY <2>3, <2>4, <2>5 DEF g
<1> QED
  BY <1>1, <1>2

\* The innermost call fails and deletes its list.
LEMMA CallFails ==
  ASSUME ParserTypeOK, HeapInv, root' = root,
         NEW n \in DOMAIN stack, n = Len(stack),
         heap' = Deleted(heap, stack[n].head), stack' = Front(stack)
  PROVE  HeapInv'
<1> DEFINE c == stack[n].head
<1>1. /\ DOMAIN stack' = (DOMAIN stack) \ {n}
      /\ \A k \in DOMAIN stack' : /\ stack'[k] = stack[k] /\ k \in DOMAIN stack /\ k # n /\ k < n
                                  /\ (k # 1 => stack'[k - 1] = stack[k - 1])
  BY CallReturns
<1>2. Forest(heap, Hands) /\ HandsInv /\ DOMAIN heap \subseteq Ids
  BY ParserTypes DEF HeapInv
<1>3. c \in Hands \cup {Null}
  BY DEF Hands
<1>4. /\ Forest(heap', Hands \ {c})
      /\ \A i \in DOMAIN heap' : heap'[i] = heap[i]
      /\ \A r \in Hands \ {c} : /\ Reach(heap, r) \subseteq DOMAIN heap'
                                /\ Reach(heap, r) \subseteq Reach(heap', r)
  <2> HIDE DEF c
  <2> DEFINE G == Deleted(heap, c)
  <2>1. heap' = G
    BY DEF c
  <2>2. Forest(G, Hands \ {c}) /\ \A i \in DOMAIN G : G[i] = heap[i]
    BY <1>2, <1>3, TreeDeleted
  <2>3. \A r \in Hands \ {c} : /\ Reach(heap, r) \subseteq DOMAIN G
                                /\ Reach(heap, r) \subseteq Reach(G, r)
    BY <1>2, <1>3, TreeDeleted
  <2> HIDE DEF G
  <2> QED
    BY <2>1, <2>2, <2>3
<1>5. Hands' = Hands \ {c}
  BY <1>2, HandReleased
<1>6. Forest(heap, Hands)'
  BY <1>4, <1>5
<1>7. HandsInv'
  BY <1>1, <1>2 DEF HandsInv
<1>8. ASSUME NEW k \in DOMAIN stack' PROVE FrameInv(k)'
  <2>1. FrameInv(k) /\ stack'[k] = stack[k] /\ (k # 1 => stack'[k - 1] = stack[k - 1])
        /\ k \in DOMAIN stack /\ k # n /\ k <= n
    BY <1>1, ParserTypes DEF HeapInv
  <2>2. heap'[stack[k].node] = heap[stack[k].node]
    <3>1. Host(k) \in Hands \ {c} /\ stack[k].node \in Reach(heap, Host(k))
      BY <2>1, HostIs
    <3> QED
      BY <1>4, <3>1
  <2>3. ASSUME stack[k].current # Null
        PROVE  /\ stack[k].current \in Reach(heap', stack[k].head)
               /\ heap'[stack[k].current] = heap[stack[k].current]
    <3>1. stack[k].head \in Hands /\ stack[k].current \in Reach(heap, stack[k].head)
      BY <2>1, <2>3 DEF FrameInv, Hands
    <3>2. stack[k].head # c
      BY <1>2, <2>1, <3>1 DEF HandsInv, Hands
    <3> QED
      BY <1>4, <3>1, <3>2
  <2> QED
    BY <2>1, <2>2, <2>3 DEF FrameInv
<1> QED
  BY <1>6, <1>7, <1>8 DEF HeapInv

\* No call is under way and the root is deleted.
LEMMA RootDeleted ==
  ASSUME ParserTypeOK, HeapInv, stack = <<>>,
         heap' = Deleted(heap, root), root' = Null, stack' = <<>>
  PROVE  HeapInv'
<1>1. Forest(heap, Hands) /\ DOMAIN heap \subseteq Ids /\ Hands = {root} \ {Null}
      /\ DOMAIN stack' = {} /\ Hands' = {}
  BY ParserTypes DEF HeapInv, Hands
<1>2. Forest(heap', Hands \ {root})
  BY <1>1, TreeDeleted
<1>3. Forest(heap, Hands)'
  BY <1>1, <1>2
<1> QED
  BY <1>1, <1>3 DEF HeapInv, HandsInv

\* No call is under way and a root is made.
LEMMA RootMade ==
  ASSUME ParserTypeOK, HeapInv, stack = <<>>, root = Null, HasRoom(heap),
         root' = NewId(heap), heap' = WithNew(heap), stack' = <<>>
  PROVE  HeapInv' /\ root' # Null /\ heap'[root'].child = Null
<1>1. Forest(heap, Hands) /\ DOMAIN heap \subseteq Ids /\ Hands = {} /\ DOMAIN stack' = {}
  BY ParserTypes DEF HeapInv, Hands
<1>2. /\ root' \in Ids /\ Forest(heap', Hands \cup {root'})
      /\ heap'[root'] = NewItem
  BY <1>1, ForestNew
<1>3. root' # Null /\ Hands' = {root'}
  BY <1>1, <1>2, ParserTypes DEF Hands
<1>4. Forest(heap, Hands)'
  BY <1>1, <1>2, <1>3
<1>5. NewItem.child = Null
  BY DEF NewItem
<1> QED
  BY <1>1, <1>2, <1>3, <1>4, <1>5 DEF HeapInv, HandsInv

-----------------------------------------------------------------------------
(* THE PARSER'S STEPS                                                      *)

\* The part of the invariant that is about the parser.
PInv == ParserTypeOK /\ HeapInv /\ StepInv

\* Type, value and name of the item are written, its links are left alone.
LEMMA ItemWritten ==
  ASSUME ParserTypeOK, HeapInv, Item # Null, UNCHANGED <<root, stack>>,
         NEW x \in Items, x.next = heap[Item].next, x.child = heap[Item].child,
         heap' = [heap EXCEPT ![Item] = x]
  PROVE  /\ HeapInv' /\ heap' \in [DOMAIN heap -> Items]
         /\ Item' = Item /\ heap'[Item].child = heap[Item].child
<1>1. Item \in DOMAIN heap
  BY ItemIs
<1>2. Item' = Item
  BY DEF Item, Top, Last
<1> DEFINE i == Item
<1>3. heap' = [heap EXCEPT ![i] = x] /\ i \in DOMAIN heap /\ x.next = heap[i].next
      /\ x.child = heap[i].child
  BY <1>1
<1> HIDE DEF i
<1>4. heap' \in [DOMAIN heap -> Items]
  BY <1>3 DEF ParserTypeOK
<1>5. \A j \in DOMAIN heap : heap'[j].next = heap[j].next /\ heap'[j].child = heap[j].child
  BY <1>3
<1>6. DOMAIN heap' = DOMAIN heap
  BY <1>3
<1> QED
  BY <1>1, <1>2, <1>4, <1>5, <1>6, LinksKept

LEMMA ScalarStep ==
  ASSUME PInv, ParseLiteral \/ ParseString \/ ParseNumber \/ ParseNothing
  PROVE  PInv'
<1> USE DEF PInv
<1>1. ASSUME step = "value", OutOfMemory PROVE PInv'
  <2>1. HeapInv'
    BY <1>1, LinksKept DEF OutOfMemory
  <2>2. ParserTypeOK'
    BY <1>1 DEF OutOfMemory, Fails, ParserTypeOK
  <2>3. StepInv'
    BY <1>1 DEF OutOfMemory, Fails, StepInv, Item, Top, Last
  <2> QED
    BY <2>1, <2>2, <2>3
<1>2. ASSUME step = "value", Accessible(offset), offset' = offset + 1, step' = "after",
             UNCHANGED <<text, depth, stack, root, oom>>,
             NEW x \in Items, x.next = heap[Item].next, x.child = heap[Item].child,
             heap' = [heap EXCEPT ![Item] = x]
      PROVE  PInv'
  <2>1. Item # Null
    BY <1>2 DEF StepInv
  <2>2. /\ HeapInv' /\ heap' \in [DOMAIN heap -> Items]
        /\ Item' = Item
    BY <1>2, <2>1, ItemWritten
  <2>3. Len(text) \in Nat /\ offset \in Nat \ {0}
    BY ParserTypes
  <2>4. offset' \in 1 .. Len(text') + 1
    BY <1>2, <2>3 DEF Accessible
  <2>5. ParserTypeOK'
    BY <1>2, <2>2, <2>4 DEF ParserTypeOK
  <2>6. StepInv'
    BY <1>2, <2>1, <2>2 DEF StepInv
  <2> QED
    BY <2>2, <2>5, <2>6
<1>3. step = "value" => Item \in DOMAIN heap /\ heap[Item] \in Items
  BY ItemIs DEF StepInv, ParserTypeOK
<1>4. CASE ParseLiteral
  <2> DEFINE x == [heap[Item] EXCEPT !.type = Literal[text[offset]]]
  <2>1. step = "value" /\ Accessible(offset) /\ text[offset] \in DOMAIN Literal
    BY <1>4 DEF ParseLiteral, Reads
  <2>2. Literal[text[offset]] \in Types
    BY <2>1 DEF Literal, Types
  <2>3. x \in Items /\ x.next = heap[Item].next /\ x.child = heap[Item].child
    BY <1>3, <2>1, <2>2 DEF Items
  <2>4. heap' = [heap EXCEPT ![Item] = x]
    BY <1>4 DEF ParseLiteral
  <2> HIDE DEF x
  <2> QED
    BY <1>2, <1>4, <2>1, <2>3, <2>4 DEF ParseLiteral
<1>5. CASE ParseString
  <2> DEFINE x == [heap[Item] EXCEPT !.type = "String", !.value = text[offset]]
  <2>1. step = "value" /\ Accessible(offset) /\ text[offset] \in Strings
    BY <1>5 DEF ParseString, Reads
  <2>2. CASE OutOfMemory
    BY <1>1, <2>1, <2>2
  <2>3. CASE /\ heap' = [heap EXCEPT ![Item].type = "String", ![Item].value = text[offset]]
             /\ offset' = offset + 1 /\ step' = "after"
             /\ UNCHANGED <<text, depth, stack, root, oom>>
    <3>1. x \in Items /\ x.next = heap[Item].next /\ x.child = heap[Item].child
      BY <1>3, <2>1 DEF Items, Types
    <3>2. heap' = [heap EXCEPT ![Item] = x]
      BY <1>3, <2>1, <2>3
    <3> HIDE DEF x
    <3> QED
      BY <1>2, <2>1, <2>3, <3>1, <3>2
  <2> QED
    BY <1>5, <2>2, <2>3 DEF ParseString
<1>6. CASE ParseNumber
  <2> DEFINE x == [heap[Item] EXCEPT !.type = "Number", !.value = text[offset]]
  <2>1. step = "value" /\ Accessible(offset) /\ text[offset] \in Numbers
    BY <1>6 DEF ParseNumber, Reads
  <2>2. CASE OutOfMemory
    BY <1>1, <2>1, <2>2
  <2>3. CASE /\ heap' = [heap EXCEPT ![Item].type = "Number", ![Item].value = text[offset]]
             /\ offset' = offset + 1 /\ step' = "after"
             /\ UNCHANGED <<text, depth, stack, root, oom>>
    <3>1. x \in Items /\ x.next = heap[Item].next /\ x.child = heap[Item].child
      BY <1>3, <2>1 DEF Items, Types
    <3>2. heap' = [heap EXCEPT ![Item] = x]
      BY <1>3, <2>1, <2>3
    <3> HIDE DEF x
    <3> QED
      BY <1>2, <2>1, <2>3, <3>1, <3>2
  <2> QED
    BY <1>6, <2>2, <2>3 DEF ParseNumber
<1>7. CASE ParseNothing
  <2>1. HeapInv'
    BY <1>7, LinksKept DEF ParseNothing
  <2>2. ParserTypeOK'
    BY <1>7 DEF ParseNothing, Fails, ParserTypeOK
  <2>3. StepInv'
    BY <1>7 DEF ParseNothing, Fails, StepInv, Item, Top, Last
  <2> QED
    BY <2>1, <2>2, <2>3
<1> QED
  BY <1>4, <1>5, <1>6, <1>7

LEMMA SkipToValueStep == ASSUME PInv, SkipToValue PROVE PInv'
<1> USE DEF PInv
<1>1. HeapInv'
  BY LinksKept DEF SkipToValue
<1>2. Len(text) \in Nat \ {0}
  BY EmptySeq, ParserTypes DEF SkipToValue, StepInv, ParserTypeOK
<1>3. SkipBOM \in Nat /\ SkipBOM \in 1 .. Len(text)
  BY <1>2 DEF SkipBOM
<1>4. offset' \in 1 .. Len(text)
  <2>1. Accessible(SkipBOM)
    BY <1>3 DEF Accessible
  <2>2. SkipBlank(SkipBOM) \in SkipBOM .. Len(text)
    BY <1>2, <1>3, <2>1, SkipBlankIs
  <2> QED
    BY <1>3, <2>2 DEF SkipToValue
<1>5. ParserTypeOK'
  BY <1>4, <1>2 DEF SkipToValue, ParserTypeOK
<1>6. StepInv'
  BY DEF SkipToValue, StepInv, Item, Top, Last
<1> QED
  BY <1>1, <1>5, <1>6

LEMMA ParseNameStep == ASSUME PInv, ParseName PROVE PInv'
<1> USE DEF PInv
<1>1. step = "name" /\ Item # Null /\ heap[Item].child = Null /\ stack # <<>>
  BY DEF ParseName, StepInv
<1>2. Len(text) \in Nat /\ offset \in Nat \ {0}
  BY ParserTypes
<1>3. ASSUME Reads(offset, Strings),
             heap' = [heap EXCEPT ![Item].type = "String", ![Item].string = text[offset]],
             LET p == SkipBlank(offset + 1)
             IN  IF Reads(p, {":"}) THEN offset' = SkipBlank(p + 1) /\ step' = "value"
                 ELSE offset' = p /\ Fails,
             UNCHANGED <<text, depth, stack, root, oom>>
      PROVE  PInv'
  <2> DEFINE x == [heap[Item] EXCEPT !.type = "String", !.string = text[offset]]
  <2>1. heap[Item] \in Items /\ text[offset] \in Strings
    BY <1>1, <1>3, ItemIs DEF ParserTypeOK, Reads
  <2>2. x \in Items /\ x.next = heap[Item].next /\ x.child = heap[Item].child
    BY <2>1 DEF Items, Types
  <2>3. heap' = [heap EXCEPT ![Item] = x]
    BY <1>1, <1>3, <2>1
  <2> HIDE DEF x
  <2>4. /\ HeapInv' /\ heap' \in [DOMAIN heap -> Items]
        /\ Item' = Item /\ heap'[Item].child = heap[Item].child
    BY <1>1, <1>3, <2>2, <2>3, ItemWritten
  <2>5. Accessible(offset)
    BY <1>3 DEF Reads
  <2>6. SkipBlank(offset + 1) \in 2 .. Len(text) + 1
    BY <1>2, <2>5, SkipBlankIs DEF Accessible
  <2>7. offset' \in 1 .. Len(text) + 1 /\ step' \in {"value", "fail"}
    <3>1. CASE Reads(SkipBlank(offset + 1), {":"})
      <4> DEFINE p == SkipBlank(offset + 1)
      <4>1. p \in 2 .. Len(text) /\ offset' = SkipBlank(p + 1) /\ step' = "value"
        BY <1>2, <1>3, <2>6, <3>1 DEF Reads, Accessible
      <4> HIDE DEF p
      <4>2. SkipBlank(p + 1) \in 1 .. Len(text) + 1
        BY <1>2, <4>1, SkipBlankIs DEF Accessible
      <4> QED
        BY <4>1, <4>2
    <3>2. CASE ~Reads(SkipBlank(offset + 1), {":"})
      BY <1>2, <1>3, <2>6, <3>2 DEF Fails
    <3> QED
      BY <3>1, <3>2
  <2>8. ParserTypeOK'
    BY <1>3, <2>4, <2>7 DEF ParserTypeOK
  <2>9. StepInv'
    BY <1>1, <1>3, <2>4, <2>7 DEF StepInv
  <2> QED
    BY <2>4, <2>8, <2>9
<1>4. ASSUME Fails, UNCHANGED <<text, offset, depth, stack, root, heap>>, oom' \in BOOLEAN
      PROVE  PInv'
  <2>1. HeapInv'
    BY <1>4, LinksKept
  <2>2. ParserTypeOK'
    BY <1>4 DEF Fails, ParserTypeOK
  <2>3. StepInv'
    BY <1>1, <1>4 DEF Fails, StepInv, Item, Top, Last
  <2> QED
    BY <2>1, <2>2, <2>3
<1>5. oom \in BOOLEAN
  BY DEF ParserTypeOK
<1> QED
  BY <1>3, <1>4, <1>5 DEF ParseName, OutOfMemory

LEMMA OpenListStep == ASSUME PInv, OpenList PROVE PInv'
<1> USE DEF PInv
<1>1. /\ step = "value" /\ Item # Null /\ heap[Item].child = Null /\ Accessible(offset)
      /\ text[offset] \in {"[", "{"} /\ UNCHANGED <<text, root, oom>>
  BY DEF OpenList, StepInv, Reads
<1>2. Len(text) \in Nat /\ offset \in 1 .. Len(text) /\ Item \in DOMAIN heap /\ Item \in Ids
  <2>1. Len(text) \in Nat /\ offset \in Nat \ {0}
    BY ParserTypes
  <2>2. offset \in 1 .. Len(text)
    <3>1. Accessible(offset)
      BY <1>1
    <3> QED
      BY <2>1, <3>1 DEF Accessible
  <2>3. Item \in DOMAIN heap
    BY <1>1, ItemIs
  <2> QED
    BY <2>1, <2>2, <2>3, ParserTypes
<1> DEFINE open == text[offset]
           p == SkipBlank(offset + 1)
           frame == [open |-> open, node |-> Item, head |-> Null, current |-> Null]
<1>3. p \in 2 .. Len(text) + 1 /\ (Accessible(p) <=> p <= Len(text))
  BY <1>2, SkipBlankIs DEF Accessible
<1>4. /\ frame \in Frame
      /\ frame.open = open /\ frame.node = Item /\ frame.head = Null /\ frame.current = Null
  BY <1>1, <1>2 DEF Frame
<1>5. \/ Fails /\ UNCHANGED <<offset, depth, stack, heap>>
      \/ Reads(p, {Closing(open)}) /\ Close(frame, p) /\ UNCHANGED <<depth, stack>>
      \/ /\ depth < CJSON_NESTING_LIMIT
         /\ depth' = depth + 1
         /\ stack' = Append(stack, frame)
         /\ offset' = p - 1
         /\ step' = IF Accessible(p) THEN "element" ELSE "fail"
         /\ UNCHANGED heap
  BY DEF OpenList
<1> HIDE DEF open, p, frame
<1>6. CASE Fails /\ UNCHANGED <<offset, depth, stack, heap>>
  <2>1. HeapInv'
    BY <1>1, <1>6, LinksKept
  <2>2. ParserTypeOK'
    BY <1>1, <1>6 DEF Fails, ParserTypeOK
  <2>3. StepInv'
    BY <1>1, <1>6 DEF Fails, StepInv, Item, Top, Last
  <2> QED
    BY <2>1, <2>2, <2>3
<1>7. CASE Reads(p, {Closing(open)}) /\ Close(frame, p) /\ UNCHANGED <<depth, stack>>
  <2> DEFINE x == [heap[Item] EXCEPT !.type = IF open = "[" THEN "Array" ELSE "Object",
                                     !.child = Null]
  <2>1. heap[Item] \in Items
    BY <1>2 DEF ParserTypeOK
  <2>2. x \in Items /\ x.next = heap[Item].next /\ x.child = heap[Item].child
    BY <1>1, <2>1 DEF Items, Types
  <2>3. heap' = [heap EXCEPT ![Item] = x]
    <3>1. heap' = [heap EXCEPT ![Item].type = IF open = "[" THEN "Array" ELSE "Object",
                               ![Item].child = Null]
      BY <1>4, <1>7 DEF Close
    <3> QED
      BY <1>2, <2>1, <3>1
  <2>4. /\ HeapInv' /\ heap' \in [DOMAIN heap -> Items]
        /\ Item' = Item
    <3> HIDE DEF x
    <3> QED
      BY <1>1, <1>7, <2>2, <2>3, ItemWritten
  <2>5. offset' \in 1 .. Len(text) + 1 /\ step' = "after"
    BY <1>3, <1>7 DEF Close, Reads
  <2> HIDE DEF x
  <2>6. ParserTypeOK'
    BY <1>1, <1>7, <2>4, <2>5 DEF ParserTypeOK
  <2>7. StepInv'
    BY <1>1, <1>7, <2>4, <2>5 DEF StepInv
  <2> QED
    BY <2>4, <2>6, <2>7
<1>8. CASE /\ depth < CJSON_NESTING_LIMIT
           /\ depth' = depth + 1
           /\ stack' = Append(stack, frame)
           /\ offset' = p - 1
           /\ step' = IF Accessible(p) THEN "element" ELSE "fail"
           /\ UNCHANGED heap
  <2>1. HeapInv'
    BY <1>1, <1>4, <1>8, CallBegins
  <2>2. stack \in Seq(Frame) /\ Len(stack) \in Nat
    BY ParserTypes DEF ParserTypeOK
  <2>3. stack' \in Seq(Frame) /\ Len(stack') = Len(stack) + 1
    BY <1>4, <1>8, <2>2, AppendProperties
  <2>4. stack' # <<>>
    BY <1>4, <1>8, <2>2, AppendProperties
  <2>5. depth' \in 0 .. CJSON_NESTING_LIMIT /\ depth \in Nat
    <3>1. depth \in 0 .. CJSON_NESTING_LIMIT
      BY DEF ParserTypeOK
    <3>2. depth < CJSON_NESTING_LIMIT
      BY <1>8
    <3>3. depth' = depth + 1
      BY <1>8
    <3>4. CJSON_NESTING_LIMIT \in Nat
      BY ParserAssumption
    <3> QED
      BY <3>1, <3>2, <3>3, <3>4
  <2>6. offset' \in 1 .. Len(text) + 1 /\ step' \in {"element", "fail"}
        /\ (step' = "element" => offset' <= Len(text))
    BY <1>2, <1>3, <1>8
  <2>7. ParserTypeOK'
    BY <1>1, <1>8, <2>3, <2>5, <2>6 DEF ParserTypeOK
  <2>8. StepInv'
    <3>1. Len(stack') <= depth' /\ text' # <<>>
      <4>1. Len(stack) <= depth /\ text # <<>> /\ depth' = depth + 1
        BY <1>1, <1>8 DEF StepInv
      <4>2. text' = text
        BY <1>1
      <4> QED
        BY <2>2, <2>3, <2>5, <4>1, <4>2
    <3>2. step' = "element" => Accessible(offset)'
      BY <1>1, <2>6 DEF Accessible
    <3> QED
      BY <1>1, <2>4, <2>6, <3>1, <3>2 DEF StepInv
  <2> QED
    BY <2>1, <2>7, <2>8
<1> QED
  BY <1>5, <1>6, <1>7, <1>8

LEMMA NextElementStep == ASSUME PInv, NextElement PROVE PInv'
<1> USE DEF PInv
<1>1. step = "element" /\ stack # <<>> /\ Accessible(offset)
  BY DEF NextElement, StepInv
<1>2. Len(text) \in Nat /\ offset \in 1 .. Len(text)
  BY <1>1, ParserTypes DEF Accessible
<1>3. ASSUME OutOfMemory PROVE PInv'
  <2>1. HeapInv'
    BY <1>3, LinksKept DEF OutOfMemory
  <2>2. ParserTypeOK'
    BY <1>3 DEF OutOfMemory, Fails, ParserTypeOK
  <2>3. StepInv'
    BY <1>1, <1>3 DEF OutOfMemory, Fails, StepInv, Item, Top, Last
  <2> QED
    BY <2>1, <2>2, <2>3
<1>4. ASSUME NEW new, new = NewId(heap), HasRoom(heap),
             heap' = IF Top.head = Null THEN WithNew(heap)
                     ELSE [WithNew(heap) EXCEPT ![Top.current].next = new],
             stack' = [stack EXCEPT ![Len(stack)].head = IF @ = Null THEN new ELSE @,
                                    ![Len(stack)].current = new],
             offset' = SkipBlank(offset + 1),
             step' = CASE Top.open = "[" -> "value"
                       [] Top.open = "{" /\ Accessible(offset + 1) -> "name"
                       [] OTHER -> "fail",
             UNCHANGED <<text, depth, root, oom>>
      PROVE  PInv'
  <2>1. PICK n \in DOMAIN stack : n = Len(stack) /\ n > 0
    BY <1>1, ParserTypes
  <2>2. Top = stack[n] /\ stack[n] \in Frame /\ stack \in Seq(Frame)
    BY <2>1, ParserTypes, ElementOfSeq DEF Top, Last, ParserTypeOK
  <2>3. new \in Ids /\ new \notin DOMAIN heap
    BY <1>4, ForestNew, ParserTypes DEF HeapInv
  <2> DEFINE f == [stack[n] EXCEPT !.head = IF @ = Null THEN new ELSE @, !.current = new]
  <2>4. /\ f \in Frame /\ f.node = stack[n].node /\ f.current = new
        /\ f.head = IF stack[n].head = Null THEN new ELSE stack[n].head
    BY <2>2, <2>3 DEF Frame
  <2>5. stack' = [stack EXCEPT ![n] = f]
    BY <1>4, <2>1, <2>2
  <2> HIDE DEF f
  <2>6. stack' \in Seq(Frame) /\ Len(stack') = n /\ DOMAIN stack' = DOMAIN stack
        /\ stack'[n] = f /\ \A k \in DOMAIN stack \ {n} : stack'[k] = stack[k]
    BY <2>1, <2>2, <2>4, <2>5, ExceptSeq
  <2>7. heap' = IF stack[n].head = Null THEN WithNew(heap)
                ELSE [WithNew(heap) EXCEPT ![stack[n].current].next = new]
    BY <1>4, <2>2
  <2>8. HeapInv' /\ heap'[new].child = Null /\ new # Null
    BY <1>4, <2>1, <2>4, <2>6, <2>7, ItemAttached
  <2>9. DOMAIN heap' \subseteq Ids /\ heap' \in [DOMAIN heap' -> Items]
    <3> DEFINE g == WithNew(heap)
    <3>1. DOMAIN g \subseteq Ids /\ g \in [DOMAIN g -> Items]
      <4>1. NewItem \in Items
        BY DEF NewItem, Items, Types
      <4> QED
        BY <1>4, <2>3, <4>1 DEF WithNew, ParserTypeOK
    <3>2. heap' = IF stack[n].head = Null THEN g ELSE [g EXCEPT ![stack[n].current].next = new]
      BY <2>7
    <3> HIDE DEF g
    <3>3. CASE stack[n].current \notin DOMAIN g
      BY <3>1, <3>2, <3>3
    <3>4. CASE stack[n].current \in DOMAIN g
      <4> DEFINE x == [g[stack[n].current] EXCEPT !.next = new]
      <4>1. x \in Items
        BY <2>3, <3>1, <3>4 DEF Items
      <4>2. heap' = IF stack[n].head = Null THEN g ELSE [g EXCEPT ![stack[n].current] = x]
        BY <3>2
      <4> HIDE DEF x
      <4> QED
        BY <3>1, <4>1, <4>2
    <3> QED
      BY <3>3, <3>4
  <2>10. /\ offset' \in 1 .. Len(text) + 1
         /\ step' \in {"value", "name", "fail"}
         /\ step' = "name" => offset' <= Len(text)
    <3> DEFINE q == SkipBlank(offset + 1)
    <3>1. q \in 1 .. Len(text) + 1
      BY <1>2, SkipBlankIs DEF Accessible
    <3>2. Accessible(offset + 1) => q <= Len(text)
      BY <1>2, SkipBlankIs DEF Accessible
    <3>3. offset' = q
      BY <1>4
    <3> HIDE DEF q
    <3>4. /\ step' \in {"value", "name", "fail"}
          /\ step' = "name" => Accessible(offset + 1)
      BY <1>4
    <3> QED
      BY <3>1, <3>2, <3>3, <3>4
  <2>11. ParserTypeOK'
    BY <1>4, <2>6, <2>9, <2>10 DEF ParserTypeOK
  <2>12. stack' # <<>> /\ Item' = new
    <3>1. stack' # <<>>
      BY <2>1, <2>6, EmptySeq
    <3> QED
      BY <2>4, <2>6, <3>1 DEF Item, Top, Last
  <2>13. StepInv'
    BY <1>4, <2>1, <2>6, <2>8, <2>10, <2>12, <1>1 DEF StepInv, Accessible
  <2> QED
    BY <2>8, <2>11, <2>13
<1> QED
  BY <1>3, <1>4 DEF NextElement

LEMMA AfterValueStep == ASSUME PInv, AfterValue PROVE PInv'
<1> USE DEF PInv
<1> DEFINE p == SkipBlank(offset)
<1>1. step = "after" /\ Item # Null /\ UNCHANGED <<text, root, oom>>
  BY DEF AfterValue, StepInv
<1>2. Len(text) \in Nat /\ p \in 1 .. Len(text) + 1
  <2>1. Len(text) \in Nat /\ offset \in 1 .. Len(text) + 1
    BY ParserTypes DEF ParserTypeOK
  <2> QED
    BY <2>1, SkipBlankIs DEF Accessible
<1>3. \/ stack = <<>> /\ step' = "parsed" /\ UNCHANGED <<offset, depth, stack, heap>>
      \/ /\ stack # <<>> /\ Accessible(p)
         /\ offset' = p /\ step' = "element" /\ UNCHANGED <<depth, stack, heap>>
      \/ /\ stack # <<>> /\ Accessible(p) /\ Close(Top, p)
         /\ depth' = depth - 1 /\ stack' = Front(stack)
      \/ /\ stack # <<>>
         /\ offset' = p /\ Fails /\ UNCHANGED <<depth, stack, heap>>
  BY DEF AfterValue, Reads, ListEnds, Ascended
<1> HIDE DEF p
<1>4. CASE stack = <<>> /\ step' = "parsed" /\ UNCHANGED <<offset, depth, stack, heap>>
  <2>1. HeapInv'
    BY <1>1, <1>4, LinksKept
  <2>2. ParserTypeOK'
    BY <1>1, <1>4 DEF ParserTypeOK
  <2>3. StepInv'
    BY <1>1, <1>4 DEF StepInv
  <2> QED
    BY <2>1, <2>2, <2>3
<1>5. ASSUME stack # <<>>, (step' = "element" /\ Accessible(p)) \/ step' = "fail",
             offset' = p, UNCHANGED <<depth, stack, heap>>
      PROVE  PInv'
  <2>1. HeapInv'
    BY <1>1, <1>5, LinksKept
  <2>2. ParserTypeOK'
    BY <1>1, <1>2, <1>5 DEF ParserTypeOK
  <2>3. StepInv'
    BY <1>1, <1>5 DEF StepInv, Accessible
  <2> QED
    BY <2>1, <2>2, <2>3
<1>6. CASE /\ stack # <<>> /\ Accessible(p) /\ Close(Top, p)
           /\ depth' = depth - 1 /\ stack' = Front(stack)
  <2>1. PICK n \in DOMAIN stack : n = Len(stack) /\ n > 0
    BY <1>6, ParserTypes
  <2>2. Top = stack[n] /\ Item = stack[n].current
    BY <1>6, <2>1 DEF Item, Top, Last
  <2>3. /\ heap' = [heap EXCEPT
             ![stack[n].node].type = IF stack[n].open = "[" THEN "Array" ELSE "Object",
             ![stack[n].node].child = stack[n].head]
        /\ offset' = p + 1 /\ step' = "after"
    BY <1>6, <2>2 DEF Close
  <2> DEFINE type == IF stack[n].open = "[" THEN "Array" ELSE "Object"
             i == stack[n].node
             c == stack[n].head
  <2>4. heap' = [heap EXCEPT ![i].type = type, ![i].child = c] /\ type \in Types
    BY <2>3 DEF Types
  <2>5. HeapInv'
    <3> HIDE DEF type
    <3> QED
      BY <1>1, <1>6, <2>1, <2>2, <2>4, CallEnds
  <2>6. i \in DOMAIN heap /\ heap[i] \in Items /\ c \in Ids \cup {Null}
    BY <2>1, NodesApart, ParserTypes DEF ParserTypeOK
  <2> HIDE DEF type, i, c
  <2>7. DOMAIN heap' = DOMAIN heap /\ heap' \in [DOMAIN heap -> Items]
    <3> DEFINE x == [heap[i] EXCEPT !.type = type, !.child = c]
    <3>1. x \in Items
      BY <2>4, <2>6 DEF Items
    <3>2. heap' = [heap EXCEPT ![i] = x]
      BY <2>4, <2>6
    <3>3. heap \in [DOMAIN heap -> Items]
      BY DEF ParserTypeOK
    <3> HIDE DEF x
    <3> QED
      BY <2>6, <3>1, <3>2, <3>3
  <2>8. offset' \in 1 .. Len(text) + 1
    BY <1>2, <1>6, <2>3 DEF Accessible
  <2>9. /\ stack' \in Seq(Frame) /\ DOMAIN stack' = (DOMAIN stack) \ {n} /\ Len(stack') = n - 1
        /\ \A k \in DOMAIN stack' : stack'[k] = stack[k]
    BY <1>6, <2>1, CallReturns
  <2>10. n <= depth /\ depth \in 0 .. CJSON_NESTING_LIMIT /\ n \in Nat \ {0}
    BY <2>1, ParserTypes DEF StepInv, ParserTypeOK
  <2>11. depth' \in 0 .. CJSON_NESTING_LIMIT /\ Len(stack') <= depth'
    <3>1. depth' = depth - 1
      BY <1>6
    <3>2. CJSON_NESTING_LIMIT \in Nat
      BY ParserAssumption
    <3> QED
      BY <2>9, <2>10, <3>1, <3>2
  <2>12. ParserTypeOK'
    BY <1>1, <2>3, <2>7, <2>8, <2>9, <2>11 DEF ParserTypeOK
  <2>13. Item' # Null
    <3>1. FrameInv(n) /\ DOMAIN stack = 1 .. n
      BY <2>1, ParserTypes DEF HeapInv
    <3>2. CASE n = 1
      <4>1. stack' = <<>>
        BY <2>9, <3>2, EmptySeq
      <4> QED
        BY <1>1, <3>1, <3>2, <4>1 DEF Item, FrameInv
    <3>3. CASE n # 1
      <4>1. stack' # <<>>
        BY <2>9, <2>10, <3>3, EmptySeq
      <4>2. n - 1 \in DOMAIN stack'
        BY <2>9, <2>10, <3>1, <3>3
      <4>3. Item' = stack'[n - 1].current
        BY <2>9, <4>1 DEF Item, Top, Last
      <4> QED
        BY <2>9, <3>1, <3>3, <4>2, <4>3 DEF FrameInv
    <3> QED
      BY <3>2, <3>3
  <2>14. StepInv'
    BY <1>1, <2>3, <2>11, <2>13 DEF StepInv
  <2> QED
    BY <2>5, <2>12, <2>14
<1> QED
  BY <1>3, <1>4, <1>5, <1>6 DEF Fails

LEMMA UnwindStep == ASSUME PInv, Unwind PROVE PInv'
<1> USE DEF PInv
<1>1. step = "fail" /\ UNCHANGED <<text, offset, depth, oom>>
  BY DEF Unwind
<1>2. ASSUME NEW c \in Ids \cup {Null}, heap' = Deleted(heap, c)
      PROVE  DOMAIN heap' \subseteq Ids /\ heap' \in [DOMAIN heap' -> Items]
  BY <1>2 DEF Deleted, ParserTypeOK
<1>3. CASE stack # <<>>
  <2>1. PICK n \in DOMAIN stack : n = Len(stack) /\ n > 0
    BY <1>3, ParserTypes
  <2>2. /\ heap' = Deleted(heap, stack[n].head) /\ stack' = Front(stack)
        /\ root' = root /\ step' = step
    BY <1>3, <2>1 DEF Unwind, Abandoned, Top, Last
  <2>3. HeapInv'
    BY <2>1, <2>2, CallFails
  <2>4. DOMAIN heap' \subseteq Ids /\ heap' \in [DOMAIN heap' -> Items]
    BY <1>2, <2>1, <2>2, ParserTypes
  <2>5. stack' \in Seq(Frame) /\ Len(stack') = n - 1
    BY <2>1, <2>2, CallReturns
  <2>6. ParserTypeOK'
    BY <1>1, <2>2, <2>4, <2>5 DEF ParserTypeOK
  <2>7. Len(stack') <= depth'
    <3>1. n <= depth /\ depth' = depth /\ n \in Nat /\ depth \in Nat
      BY <1>1, <2>1, ParserTypes DEF StepInv, ParserTypeOK
    <3> QED
      BY <2>5, <3>1
  <2>8. StepInv'
    BY <1>1, <2>2, <2>7 DEF StepInv
  <2> QED
    BY <2>3, <2>6, <2>8
<1>4. CASE stack = <<>>
  <2>1. heap' = Deleted(heap, root) /\ root' = Null /\ step' = "parsed" /\ stack' = <<>>
    BY <1>4 DEF Unwind
  <2>2. HeapInv'
    BY <1>4, <2>1, RootDeleted
  <2>3. DOMAIN heap' \subseteq Ids /\ heap' \in [DOMAIN heap' -> Items]
    BY <1>2, <2>1 DEF ParserTypeOK
  <2>4. ParserTypeOK'
    BY <1>1, <1>4, <2>1, <2>3 DEF ParserTypeOK
  <2>5. StepInv'
    BY <1>1, <1>4, <2>1 DEF StepInv
  <2> QED
    BY <2>2, <2>4, <2>5
<1> QED
  BY <1>3, <1>4

LEMMA ParseStep == ASSUME PInv, Parse PROVE PInv' /\ step' # "idle"
<1>1. PInv'
  BY SkipToValueStep, ScalarStep, OpenListStep, NextElementStep, ParseNameStep,
     AfterValueStep, UnwindStep DEF Parse
<1>2. step' # "idle"
  BY DEF Parse, SkipToValue, ParseLiteral, ParseString, ParseNumber, ParseNothing, OpenList,
         NextElement, ParseName, AfterValue, Unwind, OutOfMemory, Fails, Close
<1> QED
  BY <1>1, <1>2

-----------------------------------------------------------------------------
(* CONFIGURATIONS                                                          *)

\* A configuration with every field in its range.
InRange(cfg) == DOMAIN cfg = Fields /\ \A f \in Fields : cfg[f] \in Allowed[f]

\* The ranges, one by one.
LEMMA PiRanges ==
  /\ Allowed["spi_bus"] = 0 .. 7
  /\ Allowed["spi_dev"] = 0 .. 7
  /\ Allowed["spi_mode"] = 0 .. 3
  /\ Allowed["spi_clock_hz"] = SlowestClock .. FastestClock
  /\ Allowed["spi_cpha"] = 0 .. 1
  /\ Allowed["spi_word_width"] = {8, 16, 32}
  /\ Allowed["spi_idle_insert"] = 0 .. 1
  /\ Allowed["rt_priority"] = 1 .. 63
  /\ Allowed["cpu_affinity"] = -1 .. 7
  /\ Allowed["dataready_pin"] = 0 .. 27
BY SMT DEF Allowed

LEMMA ScalingRanges ==
  /\ Allowed["current_scale"] = Calibration
  /\ Allowed["current_offset"] = Calibration
  /\ Allowed["vib_scale"] = Calibration
  /\ Allowed["vib_offset"] = Calibration
  /\ Allowed["rpm_scale"] = Calibration
  /\ Allowed["rpm_offset"] = Calibration
BY SMT DEF Allowed

LEMMA StmRanges ==
  /\ Allowed["block_rows"] = 1 .. MaxRows
  /\ Allowed["source"] = {1}
  /\ Allowed["run_state"] = {0, 1}
  /\ Allowed["sample_rate_hz"] = {0} \cup 100 .. FastestSampling
  /\ Allowed["imu_rate_hz"] = {0} \cup 10 .. 1000
BY SMT DEF Allowed

\* The defaults are in range.
LEMMA DefaultsInRange == InRange(Defaults)
<1>1. MaxRows \in 1 .. MaxRows
  BY LoaderAssumption
<1>2. DOMAIN Defaults = Fields
  BY SMT DEF Defaults, Fields, PiFields, ScalingFields, StmFields
<1>3. \A f \in PiFields : Defaults[f] \in Allowed[f]
  <2>1. 4000000 \in SlowestClock .. FastestClock
    <3>1. /\ SlowestClock \in Int /\ FastestClock \in Int
          /\ SlowestClock <= 4000000 /\ 4000000 <= FastestClock
      BY SMT DEF SlowestClock, FastestClock
    <3> QED
      BY <3>1, SMT
  <2>2. Defaults["spi_clock_hz"] \in Allowed["spi_clock_hz"]
    <3>1. Defaults["spi_clock_hz"] = 4000000
      BY SMT DEF Defaults
    <3> QED
      BY <2>1, <3>1, PiRanges, SMT
  <2>3. \A f \in PiFields \ {"spi_clock_hz"} : Defaults[f] \in Allowed[f]
    BY PiRanges, SMT DEF Defaults, PiFields
  <2> QED
    BY <2>2, <2>3
<1>4. \A f \in ScalingFields : Defaults[f] \in Allowed[f]
  <2>1. 0 \in Calibration /\ 1 \in Calibration
    <3>1. LargestScale \in Nat /\ 1 <= LargestScale
      BY SMT DEF LargestScale
    <3> QED
      BY <3>1, SMT DEF Calibration
  <2>2. \A f \in ScalingFields : Defaults[f] \in {0, 1} /\ Allowed[f] = Calibration
    BY ScalingRanges, SMT DEF Defaults, ScalingFields
  <2> QED
    BY <2>1, <2>2
<1>5. \A f \in StmFields : Defaults[f] \in Allowed[f]
  <2>1. 20000 \in 100 .. FastestSampling
    <3>1. FastestSampling \in Int /\ 20000 <= FastestSampling
      BY SMT DEF FastestSampling
    <3> QED
      BY <3>1, SMT
  <2> QED
    BY <1>1, <2>1, StmRanges, SMT DEF Defaults, StmFields
<1> QED
  BY <1>2, <1>3, <1>4, <1>5 DEF InRange, Fields

\* What a member is converted to is in the range of the field.
LEMMA ConvertedIs ==
  ASSUME NEW f \in Fields, NEW type, NEW value
  PROVE  Converted(f, type, value) \subseteq Allowed[f]
<1>1. CASE type = "Number"
  BY <1>1 DEF Converted
<1>2. CASE type = "String" /\ f \in DOMAIN Spelled
  <2>1. f \in {"source", "run_state"}
    BY <1>2 DEF Spelled
  <2>2. \A v \in DOMAIN Spelled[f] : Spelled[f][v] \in Allowed[f]
    BY <2>1, StmRanges, SMT DEF Spelled
  <2> QED
    BY <1>2, <2>2 DEF Converted
<1>3. CASE type # "Number" /\ ~(type = "String" /\ f \in DOMAIN Spelled)
  BY <1>3 DEF Converted
<1> QED
  BY <1>1, <1>2, <1>3

LEMMA TakenIs ==
  ASSUME NEW cfg, InRange(cfg), NEW object, NEW fields
  PROVE  InRange(Taken(cfg, object, fields))
<1>1. DOMAIN Taken(cfg, object, fields) = Fields
  BY DEF Taken, InRange
<1>2. ASSUME NEW f \in Fields PROVE Taken(cfg, object, fields)[f] \in Allowed[f]
  <2> DEFINE i == IF object = Null \/ f \notin fields THEN Null
                  ELSE GetObjectItem(heap, object, f)
             v == IF i = Null THEN {} ELSE Converted(f, heap[i].type, heap[i].value)
  <2>1. Taken(cfg, object, fields)[f] = IF v = {} THEN cfg[f] ELSE CHOOSE x \in v : TRUE
    BY DEF Taken, InRange
  <2>2. v \subseteq Allowed[f]
    BY ConvertedIs
  <2> HIDE DEF v
  <2> QED
    BY <2>1, <2>2 DEF InRange
<1> QED
  BY <1>1, <1>2 DEF InRange

\* The file is the text its editor writes, as far as it has been written.
FileInv ==
  /\ target \in Versions \cup FixedTexts
  /\ Len(file) <= Len(target) /\ file = SubSeq(target, 1, Len(file))

\* What has been read of it, and been taken.
ReadInv ==
  /\ size \in Nat /\ buf \in Seq(Tokens) /\ Len(buf) <= size
  /\ pc # "sized" => buf = <<>>
  /\ source \in Seq(Tokens)

LEMMA TypeOKIs ==
  TypeOK <=> /\ ParserTypeOK /\ FileInv /\ ReadInv
             /\ pc \in {"idle", "sized", "parse", "pi", "stm", "commit", "bad"}
             /\ InRange(out) /\ InRange(staged)
BY DEF TypeOK, FileInv, ReadInv, InRange

\* A text is a sequence of tokens, and so is a file.
LEMMA FileIs ==
  ASSUME FileInv
  PROVE  /\ file \in Seq(Tokens) /\ target \in Seq(Tokens)
         /\ Len(file) \in Nat /\ Len(target) \in Nat /\ Len(file) <= Len(target)
<1>1. target \in Seq(Tokens)
  BY LoaderAssumption DEF FileInv
<1>2. Len(target) \in Nat
  BY <1>1, LenProperties
<1> QED
  BY <1>1, <1>2, PrefixIs DEF FileInv

\* A read appends as much to what has been read as it goes on in the file.
LEMMA ReadToIs ==
  ASSUME FileInv, ReadInv, NEW n \in Nat, Len(buf) <= n, n <= Len(file)
  PROVE  ReadTo(n) \in Seq(Tokens) /\ Len(ReadTo(n)) = n
<1> DEFINE rest == SubSeq(file, Len(buf) + 1, n)
<1>1. Len(buf) \in Nat /\ Len(file) \in Nat /\ buf \in Seq(Tokens) /\ file \in Seq(Tokens)
  BY FileIs, LenProperties DEF ReadInv
<1>2. \A i \in Len(buf) + 1 .. n : file[i] \in Tokens
  <2> TAKE i \in Len(buf) + 1 .. n
  <2>1. i \in 1 .. Len(file)
    BY <1>1
  <2> QED BY <1>1, <2>1, ElementOfSeq
<1>3. rest \in Seq(Tokens) /\ Len(rest) = n - Len(buf)
  <2>1. /\ SubSeq(file, Len(buf) + 1, n) \in Seq(Tokens)
        /\ Len(SubSeq(file, Len(buf) + 1, n))
             = IF Len(buf) + 1 <= n THEN n - (Len(buf) + 1) + 1 ELSE 0
    BY <1>1, <1>2, SubSeqProperties
  <2> QED BY <1>1, <2>1
<1> HIDE DEF rest
<1>4. buf \o rest \in Seq(Tokens) /\ Len(buf \o rest) = Len(buf) + Len(rest)
  BY <1>1, <1>3, ConcatProperties
<1>5. ReadTo(n) = buf \o rest
  BY DEF ReadTo, rest
<1> QED
  BY <1>1, <1>3, <1>4, <1>5

\* What the parser is given: the tokens end with a NUL.
IsText(t) == t \in Seq(Tokens) /\ t # <<>> /\ t[Len(t)] = "NUL"

\* What the reads have returned when they end is made one.
LEMMA TextRead ==
  ASSUME FileInv, ReadInv, Len(file) >= size
  PROVE  IsText(Append(ReadTo(size), "NUL"))
<1> PICK s : s = ReadTo(size)
  OBVIOUS
<1>1. size \in Nat /\ Len(buf) <= size /\ Len(file) \in Nat
  BY FileIs DEF ReadInv
<1>2. s \in Seq(Tokens) /\ "NUL" \in Tokens
  BY <1>1, ReadToIs DEF Tokens, Marks
<1> PICK t : t = Append(s, "NUL")
  OBVIOUS
<1>3. t \in Seq(Tokens) /\ t # <<>> /\ Len(t) = Len(s) + 1 /\ t[Len(s) + 1] = "NUL"
  BY <1>2, AppendProperties
<1> QED
  BY <1>3 DEF IsText

-----------------------------------------------------------------------------
(* THE LOADER'S STEPS                                                      *)

LEMMA InitInv == ASSUME Init PROVE IInv
<1> USE DEF Init, ParserIdle
<1>1. stack = <<>> /\ DOMAIN stack = {} /\ Len(stack) = 0
  OBVIOUS
<1>2. DOMAIN heap = {} /\ heap \in [{} -> Items]
  BY DEF EmptyHeap
<1>3. ParserTypeOK
  <2>1. text \in Seq(Tokens) /\ Len(text) = 0 /\ stack \in Seq(Frame)
    OBVIOUS
  <2>2. CJSON_NESTING_LIMIT \in Nat
    BY ParserAssumption
  <2>3. offset \in 1 .. Len(text) + 1 /\ depth \in 0 .. CJSON_NESTING_LIMIT
    BY <2>1, <2>2
  <2> QED
    BY <1>2, <2>1, <2>3 DEF ParserTypeOK
<1>4. FileInv
  <2>1. target \in Seq(Tokens)
    BY LoaderAssumption
  <2> QED
    BY <2>1, SubSeqFull, LenProperties DEF FileInv
<1>5. TypeOK
  <2>1. ReadInv
    BY DEF ReadInv
  <2> QED BY <1>3, <1>4, <2>1, DefaultsInRange, TypeOKIs
<1>6. HeapInv
  <2>1. Hands = {}
    BY <1>1 DEF Hands
  <2>2. Forest(heap, {})
    BY <1>2 DEF Forest
  <2> QED
    BY <1>1, <2>1, <2>2 DEF HeapInv, HandsInv
<1>7. StepInv /\ CallInv
  BY <1>1 DEF StepInv, CallInv
<1> QED
  BY <1>5, <1>6, <1>7 DEF IInv

LEMMA EditStep == ASSUME IInv, Edit PROVE IInv'
<1> USE DEF IInv
<1>1. ParserTypeOK /\ FileInv /\ InRange(out) /\ InRange(staged)
  BY TypeOKIs
<1>2. UNCHANGED <<parserVars, loaderVars>>
  BY DEF Edit, Replace, Truncate, WriteOn
<1>3. FileInv'
  <2>1. CASE Replace
    <3>1. PICK v \in Versions : file' = v /\ target' = v
      BY <2>1 DEF Replace
    <3>2. v \in Seq(Tokens)
      BY LoaderAssumption
    <3> QED
      BY <3>1, <3>2, SubSeqFull, LenProperties DEF FileInv
  <2>2. CASE Truncate
    <3>1. file' = <<>> /\ Len(file') = 0 /\ target' \in Versions
      BY <2>2 DEF Truncate
    <3>2. Len(target') \in Nat
      BY <3>1, LoaderAssumption, LenProperties
    <3>3. SubSeq(target', 1, 0) = <<>>
      BY SubSeqEmpty
    <3> QED
      BY <3>1, <3>2, <3>3 DEF FileInv
  <2>3. CASE WriteOn
    <3> DEFINE n == Len(file) + 1
    <3>1. file' = SubSeq(target, 1, n) /\ target' = target /\ Len(file) < Len(target)
      BY <2>3 DEF WriteOn
    <3>2. n \in 0 .. Len(target) /\ target \in Seq(Tokens) /\ Len(target) \in Nat
      BY <1>1, <3>1, FileIs
    <3>3. Len(file') = n
      BY <3>1, <3>2, PrefixIs
    <3> HIDE DEF n
    <3> QED
      BY <1>1, <3>1, <3>2, <3>3 DEF FileInv
  <2> QED
    BY <2>1, <2>2, <2>3 DEF Edit
<1>4. ParserTypeOK' /\ HeapInv' /\ StepInv'
  <2>1. HeapInv'
    BY <1>1, <1>2, LinksKept DEF parserVars
  <2> QED
    BY <1>1, <1>2, <2>1
       DEF ParserTypeOK, StepInv, Item, Top, Last, Accessible, parserVars
<1>5. CallInv'
  BY <1>2 DEF CallInv, parserVars, loaderVars
<1>6. ReadInv' /\ InRange(out)' /\ InRange(staged)'
      /\ pc' \in {"idle", "sized", "parse", "pi", "stm", "commit", "bad"}
  BY <1>2, TypeOKIs DEF loaderVars, InRange, ReadInv
<1> QED
  BY <1>3, <1>4, <1>5, <1>6 DEF TypeOK, FileInv, ReadInv, InRange

\* A step that leaves the parser alone.
LEMMA ParserUnchanged ==
  ASSUME IInv, UNCHANGED <<parserVars, fileVars>>
  PROVE  ParserTypeOK' /\ HeapInv' /\ StepInv' /\ FileInv'
<1>1. ParserTypeOK /\ HeapInv /\ StepInv /\ FileInv
  BY TypeOKIs DEF IInv
<1>2. HeapInv'
  BY <1>1, LinksKept DEF parserVars
<1>3. ParserTypeOK' /\ StepInv'
  BY <1>1 DEF ParserTypeOK, StepInv, Item, Top, Last, Accessible, parserVars
<1>4. FileInv'
  BY <1>1 DEF FileInv, fileVars
<1> QED
  BY <1>2, <1>3, <1>4

LEMMA LoadStep == ASSUME IInv, Load PROVE IInv'
<1> USE DEF IInv
<1>1. /\ ParserTypeOK /\ HeapInv /\ StepInv /\ CallInv /\ FileInv /\ ReadInv
      /\ InRange(out) /\ InRange(staged)
  BY TypeOKIs
<1> DEFINE Rest == /\ FileInv /\ ReadInv
                   /\ pc \in {"idle", "sized", "parse", "pi", "stm", "commit", "bad"}
                   /\ InRange(out) /\ InRange(staged)
<1>2. ASSUME ParserTypeOK', HeapInv', StepInv', CallInv', Rest' PROVE IInv'
  BY <1>2 DEF TypeOK, FileInv, ReadInv, InRange
<1> HIDE DEF IInv
<1>3. CASE TakeSize
  <2>1. ParserTypeOK' /\ HeapInv' /\ StepInv' /\ FileInv'
    BY <1>3, ParserUnchanged DEF TakeSize
  <2>2. CallInv'
    BY <1>1, <1>3 DEF TakeSize, CallInv, parserVars
  <2>3. Rest'
    <3>1. Len(file) \in Nat /\ buf = <<>> /\ Len(buf) = 0
      BY <1>1, <1>3, FileIs DEF TakeSize, ReadInv
    <3>2. ReadInv'
      BY <1>1, <1>3, <3>1 DEF TakeSize, ReadInv
    <3> QED BY <1>1, <1>3, <2>1, <3>2 DEF TakeSize, InRange
  <2> QED
    BY <1>2, <2>1, <2>2, <2>3
<1>4. CASE ReadShort
  <2>1. ParserTypeOK' /\ HeapInv' /\ StepInv' /\ FileInv'
    BY <1>4, ParserUnchanged DEF ReadShort
  <2>2. CallInv'
    BY <1>1, <1>4 DEF ReadShort, CallInv, parserVars
  <2>3. Rest'
    <3>1. ReadInv'
      BY <1>1, <1>4 DEF ReadShort, ReadInv
    <3> QED BY <1>1, <1>4, <2>1, <3>1 DEF ReadShort, InRange
  <2> QED
    BY <1>2, <2>1, <2>2, <2>3
<1>10. CASE ReadSome
  <2>1. ParserTypeOK' /\ HeapInv' /\ StepInv' /\ FileInv'
    BY <1>10, ParserUnchanged DEF ReadSome
  <2>2. CallInv'
    BY <1>1, <1>10 DEF ReadSome, CallInv, parserVars
  <2>3. PICK n \in ShortReads : Len(buf) < n /\ n < size /\ n <= Len(file) /\ buf' = ReadTo(n)
    BY <1>10 DEF ReadSome
  <2>4. n \in Nat /\ Len(buf) \in Nat /\ size \in Nat
    BY <1>1, <2>3, LoaderAssumption, LenProperties DEF ReadInv
  <2>5. buf' \in Seq(Tokens) /\ Len(buf') = n
    BY <1>1, <2>3, <2>4, ReadToIs
  <2>6. ReadInv'
    BY <1>1, <1>10, <2>3, <2>4, <2>5 DEF ReadSome, ReadInv
  <2>7. Rest'
    BY <1>1, <1>10, <2>1, <2>6 DEF ReadSome, InRange
  <2> QED
    BY <1>2, <2>1, <2>2, <2>7
<1>5. CASE ReadAll
  <2> DEFINE t == Append(ReadTo(size), "NUL")
  <2>1. ParseBegin(t) /\ pc' = "parse" /\ size' = 0 /\ buf' = <<>>
        /\ UNCHANGED <<staged, out, source, fileVars>> /\ Len(file) >= size
    BY <1>5 DEF ReadAll
  <2>2. t \in Seq(Tokens) /\ t # <<>>
    BY <1>1, <2>1, TextRead DEF IsText
  <2> HIDE DEF t
  <2>3. /\ step = "idle" /\ stack = <<>> /\ root = Null
        /\ text' = t /\ offset' = 1 /\ depth' = 0 /\ stack' = <<>>
    BY <1>1, <2>1 DEF ParseBegin, StepInv
  <2>4. Len(text') \in Nat /\ text' \in Seq(Tokens) /\ text' # <<>>
        /\ stack' \in Seq(Frame) /\ Len(stack') = 0
    BY <2>2, <2>3, LenProperties
  <2>5. offset' \in 1 .. Len(text') + 1 /\ depth' \in 0 .. CJSON_NESTING_LIMIT
    <3>1. CJSON_NESTING_LIMIT \in Nat
      BY ParserAssumption
    <3> QED
      BY <2>3, <2>4, <3>1
  <2>6. ParserTypeOK' /\ HeapInv' /\ StepInv' /\ step' # "idle" /\ step' \in {"begin", "parsed"}
    <3>1. CASE /\ HasRoom(heap) /\ root' = NewId(heap) /\ heap' = WithNew(heap)
               /\ step' = "begin" /\ oom' = FALSE
      <4>1. HeapInv' /\ root' # Null /\ heap'[root'].child = Null
        BY <1>1, <2>3, <3>1, RootMade
      <4>2. NewId(heap) \in Ids /\ NewId(heap) \notin DOMAIN heap
        BY <1>1, <3>1, ForestNew, ParserTypes DEF HeapInv
      <4>3. DOMAIN heap' \subseteq Ids /\ heap' \in [DOMAIN heap' -> Items]
        <5>1. NewItem \in Items
          BY DEF NewItem, Items, Types
        <5> QED
          BY <1>1, <3>1, <4>2, <5>1 DEF WithNew, ParserTypeOK
      <4>4. ParserTypeOK'
        BY <2>4, <2>5, <3>1, <4>2, <4>3 DEF ParserTypeOK
      <4>5. StepInv'
        BY <2>3, <2>4, <3>1, <4>1 DEF StepInv, Item
      <4> QED
        BY <3>1, <4>1, <4>4, <4>5
    <3>2. CASE root' = Null /\ heap' = heap /\ step' = "parsed" /\ oom' = TRUE
      <4>1. HeapInv'
        BY <1>1, <2>3, <3>2, LinksKept
      <4>2. ParserTypeOK'
        BY <1>1, <2>4, <2>5, <3>2 DEF ParserTypeOK
      <4>3. StepInv'
        BY <2>3, <2>4, <3>2 DEF StepInv
      <4> QED
        BY <3>2, <4>1, <4>2, <4>3
    <3> QED
      BY <2>1, <3>1, <3>2 DEF ParseBegin
  <2>7. CallInv'
    BY <2>1, <2>6 DEF CallInv
  <2>8. FileInv'
    BY <1>1, <2>1 DEF FileInv, fileVars
  <2>9. Rest'
    <3>1. ReadInv'
      BY <1>1, <2>1 DEF ReadInv
    <3> QED BY <1>1, <2>1, <2>8, <3>1 DEF InRange
  <2> QED
    BY <1>2, <2>6, <2>7, <2>9
<1>6. CASE ParserStep
  <2>1. pc = "parse" /\ Parse /\ UNCHANGED <<loaderVars, fileVars>>
    BY <1>6 DEF ParserStep
  <2>2. ParserTypeOK' /\ HeapInv' /\ StepInv' /\ step' # "idle"
    BY <1>1, <2>1, ParseStep DEF PInv
  <2>3. CallInv'
    BY <2>1, <2>2 DEF CallInv, loaderVars
  <2>4. FileInv'
    BY <1>1, <2>1 DEF FileInv, fileVars
  <2>5. Rest'
    BY <1>1, <2>1, <2>4 DEF InRange, ReadInv, loaderVars
  <2> QED
    BY <1>2, <2>2, <2>3, <2>5
<1>7. CASE ParseFailed
  <2>1. /\ step = "parsed" /\ root = Null /\ pc' = "idle" /\ step' = "idle" /\ ParserDone
        /\ UNCHANGED <<root, heap, size, buf, staged, out, source, fileVars>>
    BY <1>7 DEF ParseFailed
  <2>2. stack = <<>> /\ stack' = <<>> /\ text' = <<>> /\ offset' = 1 /\ depth' = 0 /\ oom' = FALSE
    BY <1>1, <2>1 DEF ParserDone, StepInv
  <2>3. HeapInv'
    BY <1>1, <2>1, <2>2, LinksKept
  <2>4. ParserTypeOK' /\ StepInv'
    <3>1. CJSON_NESTING_LIMIT \in Nat
      BY ParserAssumption
    <3>2. /\ text' \in Seq(Tokens) /\ stack' \in Seq(Frame) /\ Len(stack') = 0
          /\ offset' \in 1 .. Len(text') + 1 /\ depth' \in 0 .. CJSON_NESTING_LIMIT
      BY <2>2, <3>1
    <3>3. ParserTypeOK'
      BY <1>1, <2>1, <2>2, <3>2 DEF ParserTypeOK
    <3>4. StepInv'
      BY <2>1, <2>2, <3>2 DEF StepInv
    <3> QED
      BY <3>3, <3>4
  <2>5. CallInv'
    BY <2>1 DEF CallInv
  <2>6. FileInv'
    BY <1>1, <2>1 DEF FileInv, fileVars
  <2>7. Rest'
    <3>1. buf = <<>>
      BY <1>1, <1>7 DEF ParseFailed, ReadInv
    <3>2. ReadInv'
      BY <1>1, <2>1, <3>1 DEF ReadInv
    <3> QED BY <1>1, <2>1, <2>6, <3>2 DEF InRange
  <2> QED
    BY <1>2, <2>3, <2>4, <2>5, <2>7
<1>8. CASE ParseSucceeded \/ LoadPi \/ LoadStm
  <2>1. UNCHANGED <<size, buf, out, source, parserVars, fileVars>>
    BY <1>8 DEF ParseSucceeded, LoadPi, LoadStm
  <2>2. ParserTypeOK' /\ HeapInv' /\ StepInv' /\ FileInv'
    BY <2>1, ParserUnchanged
  <2>3. pc' \in {"pi", "stm", "commit", "bad"} /\ step = "parsed"
    BY <1>1, <1>8 DEF ParseSucceeded, LoadPi, LoadStm, CallInv
  <2>4. CallInv'
    BY <2>1, <2>3 DEF CallInv, parserVars
  <2>5. InRange(staged')
    <3>1. CASE ParseSucceeded
      BY <3>1, DefaultsInRange DEF ParseSucceeded
    <3>2. CASE LoadPi
      BY <1>1, <3>2, TakenIs DEF LoadPi
    <3>3. CASE LoadStm
      BY <1>1, <3>3, TakenIs DEF LoadStm
    <3> QED
      BY <1>8, <3>1, <3>2, <3>3
  <2>6. Rest'
    <3>1. buf = <<>>
      BY <1>1, <1>8 DEF ParseSucceeded, LoadPi, LoadStm, ReadInv
    <3>2. ReadInv'
      BY <1>1, <2>1, <3>1 DEF ReadInv
    <3> QED BY <1>1, <2>1, <2>2, <2>3, <2>5, <3>2 DEF InRange
  <2> QED
    BY <1>2, <2>2, <2>4, <2>6
<1>9. CASE Return
  <2>1. /\ pc \in {"commit", "bad"} /\ pc' = "idle" /\ step' = "idle" /\ ParserDone
        /\ heap' = Deleted(heap, root) /\ root' = Null
        /\ out' = (IF pc = "commit" THEN staged ELSE out) /\ staged' = Defaults
        /\ source' \in {source, text} /\ UNCHANGED <<size, buf, fileVars>>
    BY <1>9 DEF Return
  <2>2. stack = <<>> /\ stack' = <<>> /\ text' = <<>> /\ offset' = 1 /\ depth' = 0 /\ oom' = FALSE
    BY <1>1, <2>1 DEF ParserDone, StepInv, CallInv
  <2>3. HeapInv'
    BY <1>1, <2>1, <2>2, RootDeleted
  <2>4. DOMAIN heap' \subseteq Ids /\ heap' \in [DOMAIN heap' -> Items]
    BY <1>1, <2>1 DEF Deleted, ParserTypeOK
  <2>5. ParserTypeOK' /\ StepInv'
    <3>1. CJSON_NESTING_LIMIT \in Nat
      BY ParserAssumption
    <3>2. /\ text' \in Seq(Tokens) /\ stack' \in Seq(Frame) /\ Len(stack') = 0
          /\ offset' \in 1 .. Len(text') + 1 /\ depth' \in 0 .. CJSON_NESTING_LIMIT
      BY <2>2, <3>1
    <3>3. ParserTypeOK'
      BY <2>1, <2>2, <2>4, <3>2 DEF ParserTypeOK
    <3>4. StepInv'
      BY <2>1, <2>2, <3>2 DEF StepInv
    <3> QED
      BY <3>3, <3>4
  <2>6. CallInv'
    BY <2>1 DEF CallInv
  <2>7. FileInv'
    BY <1>1, <2>1 DEF FileInv, fileVars
  <2>8. InRange(out') /\ InRange(staged')
    BY <1>1, <2>1, DefaultsInRange
  <2>9. Rest'
    <3>1. ReadInv'
      BY <1>1, <2>1 DEF ReadInv, ParserTypeOK
    <3> QED BY <1>1, <2>1, <2>7, <2>8, <3>1 DEF InRange
  <2> QED
    BY <1>2, <2>3, <2>5, <2>6, <2>9
<1> QED
  BY <1>3, <1>4, <1>5, <1>6, <1>7, <1>8, <1>9, <1>10 DEF Load

LEMMA InvStep == ASSUME IInv, [Next]_vars PROVE IInv'
<1>1. CASE Next
  BY <1>1, EditStep, LoadStep DEF Next
<1>2. CASE UNCHANGED vars
  <2>1. UNCHANGED <<parserVars, fileVars>> /\ UNCHANGED <<pc, size, buf, staged, out, source>>
    BY <1>2 DEF vars, loaderVars
  <2>2. ParserTypeOK' /\ HeapInv' /\ StepInv' /\ FileInv'
    BY <2>1, ParserUnchanged
  <2>3. CallInv'
    BY <2>1 DEF IInv, CallInv, parserVars
  <2>4. ReadInv' /\ InRange(out)' /\ InRange(staged)'
        /\ pc' \in {"idle", "sized", "parse", "pi", "stm", "commit", "bad"}
    BY <2>1, TypeOKIs DEF IInv, InRange, ReadInv
  <2> QED
    BY <2>2, <2>3, <2>4 DEF IInv, TypeOK, FileInv, ReadInv, InRange
<1> QED
  BY <1>1, <1>2

-----------------------------------------------------------------------------
(* WHAT IT IMPLIES                                                         *)

\* Every item is in the hand of the parser that is the root of its tree, or is
\* linked from exactly one other item.
LEMMA OneOwner ==
  ASSUME ParserTypeOK, HeapInv, NEW i \in DOMAIN heap
  PROVE  \E o : Owners(i) = {o}
<1> DEFINE isRoot == {<<"root", 0>> : x \in {root} \cap {i}}
           isHead == {<<"head", k>> : k \in {k \in DOMAIN stack : stack[k].head = i}}
           isNext == {<<"next", j>> : j \in {j \in DOMAIN heap : heap[j].next = i}}
           isChild == {<<"child", j>> : j \in {j \in DOMAIN heap : heap[j].child = i}}
<1>1. Owners(i) = isRoot \cup isHead \cup isNext \cup isChild
  BY DEF Owners
<1>2. i # Null /\ Forest(heap, Hands) /\ HandsInv
  BY ParserTypes DEF HeapInv
<1>3. i \in Hands => isNext = {} /\ isChild = {}
  BY <1>2 DEF Forest
<1>4. i \notin Hands => isRoot = {} /\ isHead = {}
  BY <1>2 DEF Hands
<1>5. CASE i = root
  <2>1. isRoot = {<<"root", 0>>}
    BY <1>5
  <2>2. isHead = {}
    BY <1>2, <1>5 DEF HandsInv
  <2>3. i \in Hands
    BY <1>2, <1>5 DEF Hands
  <2> QED
    BY <1>1, <1>3, <2>1, <2>2, <2>3
<1>6. CASE i \in Hands /\ i # root
  <2>1. isRoot = {}
    BY <1>6
  <2>2. PICK k \in DOMAIN stack : stack[k].head = i
    BY <1>6 DEF Hands
  <2>3. isHead = {<<"head", k>>}
    BY <1>2, <2>2 DEF HandsInv
  <2> QED
    BY <1>1, <1>3, <1>6, <2>1, <2>3
<1>7. CASE i \notin Hands
  <2>1. PICK r \in Hands : i \in Reach(heap, r)
    BY <1>2 DEF Forest
  <2>2. PICK j \in Reach(heap, r) : heap[j].next = i \/ heap[j].child = i
    BY <1>7, <2>1, <1>2, ReachParent DEF Forest
  <2>3. j \in DOMAIN heap
    BY <1>2, <2>1, <2>2, ReachIs DEF Forest
  <2>4. CASE heap[j].next = i
    <3>1. isNext = {<<"next", j>>}
      BY <1>2, <2>3, <2>4 DEF Forest
    <3>2. isChild = {}
      BY <1>2, <2>3, <2>4 DEF Forest
    <3> QED
      BY <1>1, <1>4, <1>7, <3>1, <3>2
  <2>5. CASE heap[j].child = i
    <3>1. isChild = {<<"child", j>>}
      BY <1>2, <2>3, <2>5 DEF Forest
    <3>2. isNext = {}
      BY <1>2, <2>3, <2>5 DEF Forest
    <3> QED
      BY <1>1, <1>4, <1>7, <3>1, <3>2
  <2> QED
    BY <2>2, <2>4, <2>5
<1> QED
  BY <1>5, <1>6, <1>7

LEMMA InvImpliesOwned == ASSUME IInv PROVE EveryItemOwned
<1>1. ParserTypeOK /\ HeapInv /\ StepInv
  BY TypeOKIs DEF IInv
<1>2. ASSUME NEW i \in DOMAIN heap
      PROVE  /\ Cardinality(Owners(i)) = 1
             /\ {heap[i].next, heap[i].child} \subseteq DOMAIN heap \cup {Null}
  <2>1. PICK o : Owners(i) = {o}
    BY <1>1, OneOwner
  <2>2. Cardinality(Owners(i)) = 1
    BY <2>1, FS_Singleton
  <2> QED
    BY <1>1, <2>2 DEF HeapInv, Forest
<1>3. {stack[k].head : k \in DOMAIN stack} \cup {root} \subseteq DOMAIN heap \cup {Null}
  BY <1>1 DEF HeapInv, Forest, Hands
<1>4. step = "idle" => heap = EmptyHeap
  <2> SUFFICES ASSUME step = "idle" PROVE heap = EmptyHeap
    OBVIOUS
  <2>1. Hands = {}
    BY <1>1 DEF StepInv, Hands
  <2>2. DOMAIN heap = {}
    BY <1>1, <2>1, ForestEmpty DEF HeapInv
  <2> QED
    BY <1>1, <2>2 DEF ParserTypeOK, EmptyHeap
<1> QED
  BY <1>2, <1>3, <1>4 DEF EveryItemOwned

-----------------------------------------------------------------------------
(* TOKENS OF A TEXT                                                        *)

\* What a text is.
LEMMA TextIs ==
  ASSUME NEW t, IsText(t)
  PROVE  /\ Len(t) \in Nat \ {0} /\ DOMAIN t = 1 .. Len(t)
         /\ \A i \in 1 .. Len(t) : t[i] \in Tokens
         /\ At(t, Len(t)) = "NUL" /\ At(t, 0) = "NUL"
         /\ \A i : At(t, i) # "NUL" => i \in 1 .. Len(t) - 1
<1>1. Len(t) \in Nat \ {0} /\ DOMAIN t = 1 .. Len(t)
  BY EmptySeq, LenProperties DEF IsText
<1>2. \A i \in 1 .. Len(t) : t[i] \in Tokens
  BY <1>1, ElementOfSeq DEF IsText
<1>3. At(t, Len(t)) = "NUL" /\ At(t, 0) = "NUL"
  BY <1>1 DEF IsText, At
<1>4. \A i : At(t, i) # "NUL" => i \in 1 .. Len(t) - 1
  BY <1>1, <1>3 DEF At
<1> QED
  BY <1>1, <1>2, <1>3, <1>4

\* The least of a set of numbers is not above any of them.
LEMMA MinLeast == ASSUME NEW S \in SUBSET Nat, S # {} PROVE \A q \in S : Min(S) <= q
<1>1. PICK x \in S : \A y \in S : <<y, x>> \notin OpToRel(<, Nat)
  BY NatLessThanWellFounded, WFMin, Zenon
<1>2. ASSUME NEW y \in S, y < x PROVE FALSE
  <2>1. <<y, x>> \in Nat \X Nat /\ <<y, x>>[1] < <<y, x>>[2]
    BY <1>2
  <2>2. <<y, x>> \in OpToRel(<, Nat)
    BY <2>1 DEF OpToRel
  <2> QED
    BY <1>1, <2>2
<1>3. \A y \in S : x <= y
  BY <1>2
<1> QED
  BY <1>3 DEF Min

\* The next token is the first position that is not blank, or the end.
LEMMA TokenIs ==
  ASSUME NEW t, IsText(t), NEW i \in Nat \ {0}
  PROVE  /\ Token(t, i) \in 1 .. Len(t)
         /\ i <= Len(t) => i <= Token(t, i)
         /\ At(t, Token(t, i)) # "NUL" => i <= Token(t, i) /\ Token(t, i) < Len(t)
         /\ At(t, Token(t, i)) # "blank"
         /\ At(t, Token(t, i)) = "NUL" => Token(t, i) = Len(t)
         /\ \A q \in i .. Token(t, i) - 1 : At(t, q) \in Blanks
<1> DEFINE tokens == {q \in i .. Len(t) : t[q] \notin Blanks}
<1>1. /\ Len(t) \in Nat \ {0} /\ DOMAIN t = 1 .. Len(t)
      /\ At(t, Len(t)) = "NUL"
  BY TextIs
<1>2. Token(t, i) = IF tokens = {} THEN Len(t) ELSE Min(tokens)
  BY DEF Token
<1>3. CASE tokens = {}
  <2>1. Token(t, i) = Len(t)
    BY <1>2, <1>3
  <2>2. \A q \in i .. Len(t) : t[q] \in Blanks
    BY <1>3
  <2>3. \A q \in i .. Token(t, i) - 1 : At(t, q) \in Blanks
    BY <1>1, <2>1, <2>2 DEF At
  <2> QED
    BY <1>1, <2>1, <2>3
<1>4. CASE tokens # {}
  <2>1. tokens \in SUBSET Nat
    OBVIOUS
  <2>2. Min(tokens) \in tokens /\ \A q \in tokens : Min(tokens) <= q
    <3> HIDE DEF tokens
    <3> QED BY <1>4, <2>1, MinIs, MinLeast
  <2> DEFINE m == Min(tokens)
  <2>3. m \in i .. Len(t) /\ t[m] \notin Blanks /\ Token(t, i) = m
    BY <1>2, <1>4, <2>2
  <2>4. \A q \in i .. m - 1 : q \in i .. Len(t) /\ ~(m <= q)
    BY <1>1, <2>3
  <2>5. \A q \in i .. m - 1 : t[q] \in Blanks
    BY <2>2, <2>4
  <2> HIDE DEF m
  <2>6. \A q \in i .. m - 1 : At(t, q) \in Blanks
    BY <1>1, <2>3, <2>5 DEF At
  <2>7. At(t, m) = t[m] /\ At(t, m) \notin Blanks
    BY <1>1, <2>3 DEF At
  <2>8. m # Len(t)
    BY <1>1, <2>7 DEF Blanks
  <2>9. At(t, m) # "NUL" /\ At(t, m) # "blank"
    BY <2>7 DEF Blanks
  <2>10. m \in 1 .. Len(t) /\ i <= m /\ m < Len(t)
    <3>1. m \in i .. Len(t) /\ m # Len(t)
      BY <1>1, <2>3, <2>8
    <3>2. PICK n \in Nat : n = Len(t)
      BY <1>1
    <3>3. PICK k : k = m
      OBVIOUS
    <3>4. k \in i .. n /\ k # n
      BY <3>1, <3>2, <3>3, Zenon
    <3>5. k \in 1 .. n /\ i <= k /\ k < n
      BY <3>4
    <3> QED BY <3>2, <3>3, <3>5, Zenon
  <2> QED
    BY <2>3, <2>6, <2>9, <2>10
<1> QED
  BY <1>3, <1>4

\* An element begins behind what stands before it.
LEMMA ElementIs ==
  ASSUME NEW t, IsText(t), NEW i \in 1 .. Len(t), NEW open \in Brackets
  PROVE  /\ Element(t, i, open) \in 0 .. Len(t)
         /\ At(t, Element(t, i, open)) # "NUL" => i < Element(t, i, open)
<1> DEFINE first == Token(t, i + 1)
           colon == Token(t, first + 1)
<1>1. Len(t) \in Nat \ {0} /\ i + 1 \in Nat \ {0} /\ i \in Nat
  BY TextIs
<1>2. first \in 1 .. Len(t) /\ (At(t, first) # "NUL" => i + 1 <= first)
  BY <1>1, TokenIs
<1>3. first + 1 \in Nat \ {0}
  BY <1>1, <1>2
<1> HIDE DEF first
<1>4. colon \in 1 .. Len(t) /\ (At(t, colon) # "NUL" => first + 1 <= colon)
  BY <1>3, TokenIs
<1>5. colon + 1 \in Nat \ {0}
  BY <1>1, <1>4
<1> DEFINE value == Token(t, colon + 1)
<1> HIDE DEF colon
<1>6. value \in 1 .. Len(t) /\ (At(t, value) # "NUL" => colon + 1 <= value)
  BY <1>5, TokenIs
<1> HIDE DEF value
<1>7. Element(t, i, open) = IF open = "[" THEN first
                            ELSE IF At(t, first) \in Strings /\ At(t, colon) = ":" THEN value
                            ELSE 0
  BY DEF Element, first, colon, value
<1>8. CASE open = "["
  BY <1>1, <1>2, <1>7, <1>8
<1>9. CASE open # "[" /\ At(t, first) \in Strings /\ At(t, colon) = ":"
  <2>1. At(t, first) # "NUL"
    BY <1>9, KindsAssumption DEF Marks
  <2>2. Element(t, i, open) = value
    BY <1>7, <1>9
  <2>3. i + 1 <= first /\ first + 1 <= colon
    BY <1>2, <1>4, <1>9, <2>1
  <2>4. PICK n \in Nat : n = Len(t)
    BY <1>1
  <2>5. PICK f \in Nat : f = first
    BY <1>2
  <2>6. PICK c \in Nat : c = colon
    BY <1>4
  <2>7. PICK v \in 1 .. n : v = value
    BY <1>6, <2>4
  <2>8. v \in 0 .. n /\ (c + 1 <= v => i < v)
    BY <1>1, <2>3, <2>5, <2>6, <2>7
  <2> QED BY <1>6, <2>2, <2>4, <2>6, <2>7, <2>8
<1>10. CASE open # "[" /\ ~(At(t, first) \in Strings /\ At(t, colon) = ":")
  <2>1. Element(t, i, open) = 0
    BY <1>7, <1>10
  <2>2. At(t, 0) = "NUL"
    BY TextIs
  <2> QED BY <1>1, <2>1, <2>2
<1> QED
  BY <1>8, <1>9, <1>10

\* A list ends behind the bracket or comma, or nowhere.
Ahead(t, i, e) == e \in Nat /\ (e # 0 => i < e /\ e <= Len(t))

Nesting == 0 .. CJSON_NESTING_LIMIT

\* ends has where lists end, from position m on.
EndsFrom(t, ends, m) ==
  \A i \in 1 .. Len(t) : m <= i =>
    \A open \in Brackets, d \in Nesting :
      /\ ends[i][open][d] = ListEndOf(t, ends, i, open, d)
      /\ Ahead(t, i, ends[i][open][d])

\* A nesting is below the limit or not.
LEMMA NestingIs ==
  ASSUME NEW d \in Nesting
  PROVE  /\ d \in Nat /\ (d < CJSON_NESTING_LIMIT <=> ~(d >= CJSON_NESTING_LIMIT))
         /\ d < CJSON_NESTING_LIMIT => d + 1 \in Nesting
<1>1. CJSON_NESTING_LIMIT \in Nat
  BY ParserAssumption
<1> QED
  BY <1>1 DEF Nesting

\* A list does not end with a comma or a NUL.
LEMMA ClosingIs ==
  ASSUME NEW open
  PROVE  Closing(open) \in {"]", "}"} /\ Closing(open) # "NUL" /\ Closing(open) # ","
BY DEF Closing

\* A value ends behind where it begins.
LEMMA EndAhead ==
  ASSUME NEW t, IsText(t), NEW ends, NEW i \in 0 .. Len(t), NEW d \in Nesting,
         At(t, i) # "NUL" => \A open \in Brackets, e \in Nesting : Ahead(t, i, ends[i][open][e])
  PROVE  /\ Ahead(t, i, EndOf(t, ends, i, d))
         /\ At(t, i) = "NUL" => EndOf(t, ends, i, d) = 0
<1>1. Len(t) \in Nat \ {0} /\ At(t, 0) = "NUL"
  BY TextIs
<1>2. "NUL" \notin Scalars /\ "NUL" \notin Brackets
  BY KindsAssumption DEF Scalars, Marks, Brackets, Literal
<1>3. PICK n \in Nat \ {0} : n = Len(t)
  BY <1>1
<1>4. CASE At(t, i) = "NUL"
  BY <1>2, <1>4 DEF EndOf, Ahead
<1>5. CASE At(t, i) # "NUL"
  <2>1. i \in 1 .. Len(t) - 1
    BY <1>5, TextIs
  <2>2. i \in Nat /\ i >= 1 /\ i < n
    BY <1>3, <2>1
  <2> DEFINE first == Token(t, i + 1)
  <2>3. /\ first \in 1 .. Len(t)
        /\ At(t, first) # "NUL" => i + 1 <= first /\ first < Len(t)
    BY <2>2, TokenIs
  <2>8. EndOf(t, ends, i, d) =
           IF At(t, i) \in Scalars THEN i + 1
           ELSE IF At(t, i) \notin Brackets \/ d >= CJSON_NESTING_LIMIT THEN 0
           ELSE IF At(t, first) = Closing(At(t, i)) THEN first + 1
           ELSE ends[i][At(t, i)][d + 1]
    BY DEF EndOf
  <2>9. d < CJSON_NESTING_LIMIT <=> ~(d >= CJSON_NESTING_LIMIT)
    BY NestingIs
  <2> HIDE DEF first
  <2>4. PICK f \in Nat : f = first
    BY <2>3
  <2>5. CASE At(t, i) \in Scalars
    <3>1. EndOf(t, ends, i, d) = i + 1
      BY <2>5, <2>8
    <3>2. i + 1 \in Nat /\ i < i + 1 /\ i + 1 <= n
      BY <2>2
    <3> QED BY <1>3, <1>5, <3>1, <3>2 DEF Ahead
  <2>6. CASE At(t, i) \notin Scalars /\ At(t, i) \in Brackets /\ d < CJSON_NESTING_LIMIT
    <3>1. CASE At(t, first) = Closing(At(t, i))
      <4>1. At(t, first) # "NUL"
        BY <3>1, ClosingIs
      <4>2. i + 1 <= f /\ f < n
        BY <1>3, <2>3, <2>4, <4>1
      <4>3. EndOf(t, ends, i, d) = first + 1
        BY <2>6, <2>8, <2>9, <3>1
      <4>4. f + 1 # 0 /\ i < f + 1 /\ f + 1 <= n /\ f + 1 \in Nat
        BY <2>2, <4>2
      <4> QED BY <1>3, <1>5, <2>4, <4>3, <4>4 DEF Ahead
    <3>2. CASE At(t, first) # Closing(At(t, i))
      <4>1. EndOf(t, ends, i, d) = ends[i][At(t, i)][d + 1]
        BY <2>6, <2>8, <2>9, <3>2
      <4>2. d + 1 \in Nesting
        BY <2>6, NestingIs
      <4> QED BY <1>5, <2>2, <2>6, <4>1, <4>2
    <3> QED BY <3>1, <3>2
  <2>7. CASE At(t, i) \notin Scalars /\ ~(At(t, i) \in Brackets /\ d < CJSON_NESTING_LIMIT)
    <3>1. EndOf(t, ends, i, d) = 0
      <4>1. At(t, i) \notin Brackets \/ d >= CJSON_NESTING_LIMIT
        BY <2>7, <2>9
      <4> QED BY <2>7, <2>8, <4>1
    <3> QED BY <1>5, <3>1 DEF Ahead
  <2> QED BY <2>5, <2>6, <2>7
<1> QED
  BY <1>4, <1>5

\* Two that say where lists end agree behind position i.
Agree(t, f, g, i) ==
  \A j \in 1 .. Len(t) : i < j =>
    \A open \in Brackets, d \in Nesting :
      Ahead(t, j, f[j][open][d]) /\ g[j][open][d] = f[j][open][d]

\* Where a list ends that goes on at i depends on what is behind i only.
LEMMA ListEndAhead ==
  ASSUME NEW t, IsText(t), NEW f, NEW g, NEW i \in 1 .. Len(t), Agree(t, f, g, i),
         NEW open \in Brackets, NEW d \in Nesting
  PROVE  /\ ListEndOf(t, g, i, open, d) = ListEndOf(t, f, i, open, d)
         /\ Ahead(t, i, ListEndOf(t, f, i, open, d))
<1> DEFINE q == Element(t, i, open)
           e == EndOf(t, f, q, d)
           next == Token(t, e)
<1>1. PICK n \in Nat \ {0} : n = Len(t)
  BY TextIs
<1>2. q \in 0 .. n /\ (At(t, q) # "NUL" => i < q) /\ (At(t, q) # "NUL" => q \in 1 .. n - 1)
  BY <1>1, ElementIs, TextIs
<1> HIDE DEF q
<1>3. At(t, q) # "NUL" => \A b \in Brackets, x \in Nesting : Ahead(t, q, f[q][b][x])
                                                           /\ g[q][b][x] = f[q][b][x]
  <2> SUFFICES ASSUME At(t, q) # "NUL" PROVE q \in 1 .. n /\ i < q
    BY <1>1 DEF Agree
  <2> QED BY <1>2
<1>4. Ahead(t, q, e) /\ (At(t, q) = "NUL" => e = 0)
  BY <1>1, <1>2, <1>3, EndAhead
<1>5. EndOf(t, g, q, d) = e
  <2>1. CASE At(t, q) = "NUL"
    <3>1. EndOf(t, g, q, d) = 0
      BY <1>1, <1>2, <2>1, EndAhead
    <3> QED BY <1>4, <2>1, <3>1
  <2>2. CASE At(t, q) # "NUL"
    <3>1. d < CJSON_NESTING_LIMIT => d + 1 \in Nesting
      BY NestingIs
    <3>2. d < CJSON_NESTING_LIMIT <=> ~(d >= CJSON_NESTING_LIMIT)
      BY NestingIs
    <3>3. At(t, q) \in Brackets /\ d < CJSON_NESTING_LIMIT =>
            g[q][At(t, q)][d + 1] = f[q][At(t, q)][d + 1]
      BY <1>3, <2>2, <3>1
    <3> QED BY <3>2, <3>3, Zenon DEF EndOf
  <2> QED BY <2>1, <2>2
<1>6. ListEndOf(t, f, i, open, d) =
        IF e = 0 THEN 0 ELSE IF At(t, next) = "," THEN f[next][open][d]
        ELSE IF At(t, next) = Closing(open) THEN next + 1 ELSE 0
  BY DEF ListEndOf, q
<1>7. ListEndOf(t, g, i, open, d) =
        IF e = 0 THEN 0 ELSE IF At(t, next) = "," THEN g[next][open][d]
        ELSE IF At(t, next) = Closing(open) THEN next + 1 ELSE 0
  BY <1>5 DEF ListEndOf, q
<1> HIDE DEF e
<1>8. CASE e = 0
  BY <1>6, <1>7, <1>8 DEF Ahead
<1>9. CASE e # 0
  <2>1. e \in Nat \ {0} /\ i < e
    <3>1. At(t, q) # "NUL" /\ q < e /\ e \in Nat
      BY <1>4, <1>9 DEF Ahead
    <3>2. PICK k \in Nat : k = e
      BY <3>1
    <3>3. i < k
      BY <1>2, <3>1, <3>2
    <3> QED BY <1>9, <3>2, <3>3
  <2>2. /\ next \in 1 .. Len(t)
        /\ At(t, next) # "NUL" => e <= next /\ next < Len(t)
    BY <2>1, TokenIs
  <2> HIDE DEF next
  <2>3. PICK k \in Nat : k = next
    BY <2>2
  <2>4. At(t, next) # "NUL" => i < k /\ k + 1 <= n
    BY <1>1, <2>1, <2>2, <2>3
  <2>5. CASE At(t, next) = ","
    <3>1. next \in 1 .. Len(t) /\ i < next
      BY <2>2, <2>3, <2>4, <2>5
    <3>2. Ahead(t, next, f[next][open][d]) /\ g[next][open][d] = f[next][open][d]
      BY <3>1 DEF Agree
    <3>3. Ahead(t, i, f[next][open][d])
      <4>1. PICK x \in Nat : x = f[next][open][d]
        BY <3>2 DEF Ahead
      <4>2. x # 0 => i < x /\ x <= Len(t)
        BY <2>3, <3>1, <3>2, <4>1 DEF Ahead
      <4> QED BY <4>1, <4>2 DEF Ahead
    <3> QED BY <1>6, <1>7, <1>9, <2>5, <3>2, <3>3
  <2>6. CASE At(t, next) # "," /\ At(t, next) = Closing(open)
    <3>1. ListEndOf(t, f, i, open, d) = k + 1 /\ ListEndOf(t, g, i, open, d) = k + 1
      BY <1>6, <1>7, <1>9, <2>3, <2>6
    <3>2. i < k /\ k + 1 <= n
      BY <2>4, <2>6, ClosingIs
    <3>3. i < k + 1 /\ k + 1 \in Nat
      BY <3>2
    <3> QED BY <1>1, <3>1, <3>2, <3>3 DEF Ahead
  <2>7. CASE At(t, next) # "," /\ At(t, next) # Closing(open)
    <3>1. ListEndOf(t, f, i, open, d) = 0 /\ ListEndOf(t, g, i, open, d) = 0
      BY <1>6, <1>7, <1>9, <2>7
    <3> QED BY <3>1 DEF Ahead
  <2> QED BY <2>5, <2>6, <2>7
<1> QED
  BY <1>8, <1>9

\* Every list has an end or none: what ListEnd says is well defined.
LEMMA ListEndExists ==
  ASSUME NEW t, IsText(t)
  PROVE  \E f : f = [i \in DOMAIN t |-> [open \in Brackets |-> [d \in Nesting |->
                       ListEndOf(t, f, i, open, d)]]]
<1>1. PICK n \in Nat \ {0} : n = Len(t) /\ DOMAIN t = 1 .. n
  BY TextIs
<1> DEFINE X == [1 .. n -> [Brackets -> [Nesting -> Nat]]]
           Good(f, m) == f \in X /\ EndsFrom(t, f, m)
           Has(m) == \E f : Good(f, m)
           S == {k \in Nat : k <= n => Has(n + 1 - k)}
<1>2. 0 \in S
  <2> DEFINE f == [i \in 1 .. n |-> [open \in Brackets |-> [d \in Nesting |-> 0]]]
  <2>1. f \in X
    OBVIOUS
  <2>2. EndsFrom(t, f, n + 1 - 0)
    <3>1. \A i \in 1 .. Len(t) : ~(n + 1 - 0 <= i)
      BY <1>1
    <3> QED BY <3>1 DEF EndsFrom
  <2> QED BY <2>1, <2>2
<1>3. ASSUME NEW k \in Nat, k \in S PROVE k + 1 \in S
  <2> SUFFICES ASSUME k + 1 <= n PROVE Has(n + 1 - (k + 1))
    OBVIOUS
  <2>0. Has(n + 1 - k)
    <3> HIDE DEF Has
    <3> QED BY <1>3
  <2>1. PICK f : Good(f, n + 1 - k)
    BY <2>0, Zenon
  <2>2. PICK m \in 1 .. n : m = n - k /\ n + 1 - k = m + 1 /\ n + 1 - (k + 1) = m
    OBVIOUS
  <2>3. f \in X /\ EndsFrom(t, f, m + 1)
    BY <2>1, <2>2
  <2> DEFINE v == [open \in Brackets |-> [d \in Nesting |-> ListEndOf(t, f, m, open, d)]]
             g == [f EXCEPT ![m] = v]
  <2>4. Agree(t, f, g, m)
    <3> SUFFICES ASSUME NEW j \in 1 .. Len(t), m < j, NEW open \in Brackets, NEW d \in Nesting
                 PROVE  Ahead(t, j, f[j][open][d]) /\ g[j][open][d] = f[j][open][d]
      BY DEF Agree
    <3>1. m + 1 <= j /\ j # m /\ j \in 1 .. n
      BY <1>1
    <3>2. g[j] = f[j]
      BY <2>3, <3>1
    <3> QED BY <2>3, <3>1, <3>2 DEF EndsFrom
  <2>5. \A open \in Brackets, d \in Nesting :
          /\ ListEndOf(t, g, m, open, d) = ListEndOf(t, f, m, open, d)
          /\ Ahead(t, m, ListEndOf(t, f, m, open, d))
    BY <1>1, <2>4, ListEndAhead
  <2>6. g \in X
    <3>1. v \in [Brackets -> [Nesting -> Nat]]
      BY <2>5 DEF Ahead
    <3> HIDE DEF v
    <3> QED BY <2>3, <3>1
  <2>7. EndsFrom(t, g, m)
    <3> SUFFICES ASSUME NEW i \in 1 .. Len(t), m <= i, NEW open \in Brackets, NEW d \in Nesting
                 PROVE  /\ g[i][open][d] = ListEndOf(t, g, i, open, d)
                        /\ Ahead(t, i, g[i][open][d])
      BY DEF EndsFrom
    <3>1. CASE i = m
      <4>1. g[i] = v
        BY <2>3, <3>1
      <4>2. v[open][d] = ListEndOf(t, f, m, open, d)
        OBVIOUS
      <4> HIDE DEF g, v
      <4> QED BY <2>5, <3>1, <4>1, <4>2
    <3>2. CASE i # m
      <4>1. m + 1 <= i /\ i \in 1 .. n
        BY <1>1, <3>2
      <4>2. f[i][open][d] = ListEndOf(t, f, i, open, d) /\ Ahead(t, i, f[i][open][d])
        BY <2>3, <4>1 DEF EndsFrom
      <4>3. Agree(t, f, g, i)
        <5>1. \A j \in 1 .. Len(t) : i < j => m < j
          BY <1>1
        <5> QED BY <2>4, <5>1 DEF Agree
      <4>4. ListEndOf(t, g, i, open, d) = ListEndOf(t, f, i, open, d)
        BY <4>3, ListEndAhead
      <4>5. g[i] = f[i]
        BY <2>3, <3>2, <4>1
      <4> QED BY <4>2, <4>4, <4>5
    <3> QED BY <3>1, <3>2
  <2> HIDE DEF g
  <2> QED BY <2>2, <2>6, <2>7
<1> HIDE DEF S
<1>4. Nat \subseteq S
  BY <1>2, <1>3, SetInduction
<1>5. n \in S
  BY <1>4
<1>10. Has(n + 1 - n)
  <2> HIDE DEF Has
  <2> QED BY <1>5 DEF S
<1>6. PICK f : Good(f, n + 1 - n)
  BY <1>10, Zenon
<1>7. f \in X /\ EndsFrom(t, f, 1)
  <2>1. n + 1 - n = 1
    OBVIOUS
  <2> QED BY <1>6, <2>1
<1>8. ASSUME NEW i \in 1 .. n
      PROVE  f[i] = [open \in Brackets |-> [d \in Nesting |-> ListEndOf(t, f, i, open, d)]]
  <2>1. \A open \in Brackets, d \in Nesting : f[i][open][d] = ListEndOf(t, f, i, open, d)
    BY <1>1, <1>7 DEF EndsFrom
  <2>2. f[i] \in [Brackets -> [Nesting -> Nat]]
    BY <1>7
  <2>3. \A open \in Brackets : f[i][open] = [d \in Nesting |-> ListEndOf(t, f, i, open, d)]
    BY <2>1, <2>2
  <2> QED BY <2>2, <2>3
<1>9. f = [i \in DOMAIN t |-> [open \in Brackets |-> [d \in Nesting |->
                       ListEndOf(t, f, i, open, d)]]]
  BY <1>1, <1>7, <1>8
<1> QED
  BY <1>9

\* And it says of each list, with a view to the lists behind it, what it means.
LEMMA ListEndIs ==
  ASSUME NEW t, IsText(t)
  PROVE  EndsFrom(t, ListEnd(t), 1)
<1>1. PICK n \in Nat \ {0} : n = Len(t) /\ DOMAIN t = 1 .. n
  BY TextIs
<1> DEFINE f == ListEnd(t)
<1>2. f = [i \in DOMAIN t |-> [open \in Brackets |-> [d \in Nesting |->
                       ListEndOf(t, f, i, open, d)]]]
  BY ListEndExists DEF ListEnd, Nesting
<1> HIDE DEF f
<1>3. \A i \in 1 .. n : \A open \in Brackets, d \in Nesting :
        f[i][open][d] = ListEndOf(t, f, i, open, d)
  <2> TAKE i \in 1 .. n
  <2>1. f[i] = [open \in Brackets |-> [d \in Nesting |-> ListEndOf(t, f, i, open, d)]]
    BY <1>1, <1>2
  <2> QED BY <2>1
<1> DEFINE S == {k \in Nat : k <= n => EndsFrom(t, f, n + 1 - k)}
<1>4. 0 \in S
  <2>1. \A i \in 1 .. Len(t) : ~(n + 1 - 0 <= i)
    BY <1>1
  <2> QED BY <2>1 DEF EndsFrom
<1>5. ASSUME NEW k \in Nat, k \in S PROVE k + 1 \in S
  <2> SUFFICES ASSUME k + 1 <= n PROVE EndsFrom(t, f, n + 1 - (k + 1))
    OBVIOUS
  <2>1. PICK m \in 1 .. n : m = n - k /\ n + 1 - k = m + 1 /\ n + 1 - (k + 1) = m
    OBVIOUS
  <2>2. EndsFrom(t, f, m + 1)
    BY <1>5, <2>1
  <2>3. Agree(t, f, f, m)
    <3>1. \A j \in 1 .. Len(t) : m < j => m + 1 <= j
      BY <1>1
    <3> QED BY <2>2, <3>1 DEF Agree, EndsFrom
  <2>4. \A open \in Brackets, d \in Nesting : Ahead(t, m, ListEndOf(t, f, m, open, d))
    BY <1>1, <2>3, ListEndAhead
  <2>5. \A i \in 1 .. Len(t) : m <= i => i = m \/ m + 1 <= i
    BY <1>1
  <2>6. EndsFrom(t, f, m)
    BY <1>1, <1>3, <2>2, <2>4, <2>5 DEF EndsFrom
  <2> QED BY <2>1, <2>6
<1> HIDE DEF S
<1>6. Nat \subseteq S
  BY <1>4, <1>5, SetInduction
<1>7. n \in S
  BY <1>6
<1>8. EndsFrom(t, f, 1)
  <2>1. EndsFrom(t, f, n + 1 - n)
    BY <1>7 DEF S
  <2>2. n + 1 - n = 1
    OBVIOUS
  <2> QED BY <2>1, <2>2
<1> QED
  BY <1>8 DEF f

\* Where a value may be.
IsPlace(t, v) == v.at \in 0 .. Len(t) /\ v.depth \in Nesting

\* A token is of one kind.
LEMMA BracketsAreNoScalars ==
  /\ Scalars \cap Brackets = {} /\ "NUL" \notin Scalars \cup Brackets
  /\ DOMAIN Literal \cap (Strings \cup Numbers) = {} /\ Strings \cap Numbers = {}
  /\ Brackets \cap (DOMAIN Literal \cup Strings \cup Numbers) = {}
  /\ "," \notin Strings /\ ":" \notin Strings /\ "NUL" \notin Strings
BY KindsAssumption DEF Scalars, Brackets, Literal, Marks

\* Where values end, and what is first in them.
LEMMA EndIs ==
  ASSUME NEW t, IsText(t), NEW v, IsPlace(t, v)
  PROVE  /\ Ahead(t, v.at, End(t, v))
         /\ At(t, v.at) \in Scalars => End(t, v) = v.at + 1
         /\ At(t, v.at) \notin Scalars \cup Brackets => End(t, v) = 0
         /\ At(t, v.at) \in Brackets /\ v.depth >= CJSON_NESTING_LIMIT => End(t, v) = 0
         /\ At(t, v.at) \in Brackets /\ v.depth < CJSON_NESTING_LIMIT =>
              LET first == Token(t, v.at + 1)
              IN  IF At(t, first) = Closing(At(t, v.at)) THEN End(t, v) = first + 1
                  ELSE End(t, v) = ListEnd(t)[v.at][At(t, v.at)][v.depth + 1]
<1>1. \A i \in 1 .. Len(t) : \A open \in Brackets, d \in Nesting :
        Ahead(t, i, ListEnd(t)[i][open][d])
  <2>1. \A i \in 1 .. Len(t) : 1 <= i
    BY TextIs
  <2> QED BY <2>1, ListEndIs DEF EndsFrom
<1>2. Ahead(t, v.at, End(t, v))
  <2>1. At(t, v.at) # "NUL" => v.at \in 1 .. Len(t)
    BY TextIs
  <2> QED BY <1>1, <2>1, EndAhead DEF End, IsPlace
<1>3. v.depth < CJSON_NESTING_LIMIT <=> ~(v.depth >= CJSON_NESTING_LIMIT)
  BY NestingIs DEF IsPlace
<1>4. At(t, v.at) \in Brackets => At(t, v.at) \notin Scalars
  BY BracketsAreNoScalars
<1> QED
  BY <1>2, <1>3, <1>4, Zenon DEF End, EndOf

\* The element behind a bracket or comma has a place.
LEMMA BehindIs ==
  ASSUME NEW t, IsText(t), NEW i \in 1 .. Len(t), NEW open \in Brackets, NEW d \in Nesting
  PROVE  LET v == Behind(t, i, open, d)
         IN  IsPlace(t, v) /\ v.depth = d /\ v.at = Element(t, i, open)
<1> DEFINE v == Behind(t, i, open, d)
<1>1. v.depth = d /\ v.at = Element(t, i, open)
  BY DEF Behind
<1>2. IsPlace(t, v)
  BY <1>1, ElementIs DEF IsPlace
<1> QED
  BY <1>1, <1>2

\* The token (its literal is not one for the SMT solver).
Comma == ","

\* Where a list ends follows from what comes after an element of it.
LEMMA ListGoesOn ==
  ASSUME NEW t, IsText(t), NEW i \in 1 .. Len(t), NEW open \in Brackets, NEW d \in Nesting,
         NEW v, v = Behind(t, i, open, d), NEW p, p = Token(t, End(t, v)),
         NEW end, end = ListEnd(t)[i][open][d]
  PROVE  /\ End(t, v) = 0 => end = 0
         /\ End(t, v) # 0 /\ At(t, p) = Comma => end = ListEnd(t)[p][open][d]
         /\ End(t, v) # 0 /\ At(t, p) = Closing(open) => end = p + 1
         /\ End(t, v) # 0 /\ At(t, p) \notin {Comma, Closing(open)} => end = 0
<1>1. end = ListEndOf(t, ListEnd(t), i, open, d)
  <2>1. 1 <= i
    BY TextIs
  <2> QED BY <2>1, ListEndIs DEF EndsFrom
<1>2. EndOf(t, ListEnd(t), Element(t, i, open), d) = End(t, v)
  <2>1. v.depth = d /\ v.at = Element(t, i, open)
    BY DEF Behind
  <2> QED BY <2>1 DEF End
<1>3. end = IF End(t, v) = 0 THEN 0 ELSE IF At(t, p) = Comma THEN ListEnd(t)[p][open][d]
            ELSE IF At(t, p) = Closing(open) THEN p + 1 ELSE 0
  BY <1>1, <1>2, Zenon DEF ListEndOf, Comma
<1>4. Closing(open) # Comma
  BY ClosingIs, Zenon DEF Comma
<1> QED
  BY <1>3, <1>4

\* A value that has no name.
Nameless(v) == v.name = ""

\* An element has a name in an object, and in an object only.
LEMMA MemberNamed ==
  ASSUME NEW t, IsText(t), NEW i \in 1 .. Len(t), NEW open \in Brackets, NEW d \in Nesting,
         NEW v, v = Behind(t, i, open, d), End(t, v) # 0
  PROVE  Nameless(v) <=> open = "["
<1>1. IsPlace(t, v) /\ v.at = Element(t, i, open)
  <2>1. LET w == Behind(t, i, open, d) IN IsPlace(t, w) /\ w.at = Element(t, i, open)
    BY BehindIs
  <2> QED BY <2>1
<1>2. ASSUME open # "[" PROVE ~Nameless(v)
  <2>1. At(t, v.at) # "NUL"
    BY <1>1, EndIs, BracketsAreNoScalars
  <2>2. At(t, Token(t, i + 1)) \in Strings
    BY <1>1, <1>2, <2>1, TextIs DEF Element
  <2>3. v.name = At(t, Token(t, i + 1))
    BY <1>2, Zenon DEF Behind
  <2> QED BY <2>2, <2>3, ParserAssumption DEF Nameless
<1>3. open = "[" => v.name = ""
  BY DEF Behind
<1> QED
  BY <1>2, <1>3, Zenon DEF Nameless

\* No element, no list.
LEMMA NoElement ==
  ASSUME NEW t, IsText(t), NEW i \in 1 .. Len(t), NEW open \in Brackets, NEW d \in Nesting,
         End(t, Behind(t, i, open, d)) = 0
  PROVE  ListEnd(t)[i][open][d] = 0
BY ListGoesOn, Zenon

\* What buffer_skip_whitespace finds is the next token.
LEMMA SkipBlankFinds ==
  ASSUME IsText(text), NEW p \in 1 .. Len(text)
  PROVE  SkipBlank(p) = Token(text, p)
<1>1. Len(text) \in Nat \ {0} /\ DOMAIN text = 1 .. Len(text)
  BY TextIs
<1> DEFINE A == {q \in p .. Len(text) : ~Reads(q, {"blank", "NUL"})}
           B == {q \in p .. Len(text) : text[q] \notin Blanks}
<1>2. A = B
  BY <1>1 DEF Reads, Accessible, Blanks
<1>3. Accessible(p)
  BY <1>1 DEF Accessible
<1>4. SkipBlank(p) = IF A = {} THEN Len(text) ELSE Min(A)
  BY <1>3, Zenon DEF SkipBlank
<1>5. Token(text, p) = IF B = {} THEN Len(text) ELSE Min(B)
  BY DEF Token
<1> QED
  BY <1>2, <1>4, <1>5, Zenon

\* What the parser reads inside the text.
LEMMA ReadsIs ==
  ASSUME IsText(text), NEW p \in 1 .. Len(text), NEW S
  PROVE  Accessible(p) /\ (Reads(p, S) <=> At(text, p) \in S) /\ At(text, p) = text[p]
<1>1. Len(text) \in Nat \ {0} /\ DOMAIN text = 1 .. Len(text)
  BY TextIs
<1> QED
  BY <1>1 DEF Reads, Accessible, At

-----------------------------------------------------------------------------
(* WHAT THE ITEMS STAND FOR                                                *)

\* A link leads to what stands for the one value of a set, or nowhere if there is
\* none.
LinksTo(link, values, pos) == IF link = Null THEN values = {} ELSE values = {pos[link]}

Open(i) == \E k \in DOMAIN stack : stack[k].node = i
Growing(i) == \E k \in DOMAIN stack : stack[k].current = i
Pending(i) == i = Item /\ step \in {"begin", "value", "name"}

\* Item i stands for the value pos[i]: it has its name, unless that comes next,
\* its type, its value and its first member, unless these are to come, and what is
\* next to it, unless the list goes on behind it.
ItemMeans(i, pos) ==
  /\ IsPlace(text, pos[i])
  /\ (i = Item /\ step = "name") \/ heap[i].string = pos[i].name
  /\ IF Open(i) \/ Pending(i) THEN heap[i].value = ""
     ELSE /\ heap[i].type = TypeIs(text, pos[i])
          /\ heap[i].value = ValueIs(text, pos[i])
          /\ LinksTo(heap[i].child, FirstIn(text, pos[i]), pos)
  /\ Growing(i) \/ LinksTo(heap[i].next, NextTo(text, pos[i]), pos)

\* Call k parses the list of its item.  The last bracket or comma it has come by
\* is at sep[k]: the value ends where the list does that goes on there.
FrameMeans(k, pos, sep) ==
  LET frame == stack[k]
      v     == pos[frame.node]
      next  == Behind(text, sep[k], frame.open, k)
  IN  /\ frame.open = At(text, v.at) /\ v.depth = k - 1
      /\ sep[k] \in 1 .. Len(text)
      /\ FirstIn(text, v) = {Behind(text, v.at, frame.open, k)}
      /\ frame.head # Null => pos[frame.head] = Behind(text, v.at, frame.open, k)
      /\ End(text, v) = ListEnd(text)[sep[k]][frame.open][k]
      /\ IF k = Len(stack) /\ step = "element"
         THEN IF frame.current = Null THEN sep[k] = v.at
              ELSE NextTo(text, pos[frame.current]) = {next}
         ELSE frame.current # Null => pos[frame.current] = next

\* Where the parser is in the text.
PlaceMeans(pos, sep) ==
  /\ step = "value" => offset = pos[Item].at
  /\ step = "after" => offset = End(text, pos[Item])
  /\ step = "name" => /\ Top.open = "{"
                      /\ offset = Token(text, sep[Len(stack)] + 1)
  /\ step = "element" => /\ offset < Len(text)
                         /\ Token(text, offset + 1) = Token(text, sep[Len(stack)] + 1)

Meant(pos, sep) ==
  /\ pos[root] = Document(text) /\ root # Null /\ depth = Len(stack)
  /\ \A i \in DOMAIN heap : ItemMeans(i, pos)
  /\ \A k \in DOMAIN stack : FrameMeans(k, pos, sep)
  /\ PlaceMeans(pos, sep)

\* Every item stands for a value.
Matches == \E pos, sep : Meant(pos, sep)

\* The parser is on its way, or has a document.
Live == \/ step \in {"begin", "value", "name", "element", "after"}
        \/ step = "parsed" /\ root # Null

\* The text begins with a document.
Begins == End(text, Document(text)) # 0

MeaningInv ==
  /\ step # "idle" => IsText(text)
  /\ Live => Matches
  /\ oom => step = "fail" \/ (step = "parsed" /\ root = Null)
  /\ step = "fail" /\ ~oom => ~Begins
  /\ step = "parsed" /\ ~oom => (root # Null <=> Begins)

\* The document is at a place of the text.
LEMMA DocumentIs ==
  ASSUME NEW t, IsText(t)
  PROVE  IsPlace(t, Document(t)) /\ Document(t).name = "" /\ Document(t).depth = 0
<1> DEFINE i == IF t[1] = "BOM" /\ Len(t) >= 3 THEN 2 ELSE 1
<1>1. Token(t, i) \in 1 .. Len(t)
  <2>1. i \in Nat \ {0}
    OBVIOUS
  <2> HIDE DEF i
  <2> QED BY <2>1, TokenIs
<1>2. Document(t).at = Token(t, i) /\ Document(t).name = "" /\ Document(t).depth = 0
  BY DEF Document
<1>3. 0 \in Nesting
  <2>1. CJSON_NESTING_LIMIT \in Nat
    BY ParserAssumption
  <2> QED BY <2>1 DEF Nesting
<1>4. Document(t).at \in 0 .. Len(t)
  <2>1. Len(t) \in Nat
    BY TextIs
  <2> HIDE DEF i
  <2>2. Token(t, i) \in 0 .. Len(t)
    BY <1>1, <2>1
  <2> QED BY <1>2, <2>2
<1> QED
  BY <1>2, <1>3, <1>4 DEF IsPlace

\* The innermost call, if there is one.
LEMMA InnermostIs ==
  ASSUME ParserTypeOK, stack # <<>>
  PROVE  \E n \in DOMAIN stack : n = Len(stack) /\ n \in Nat \ {0} /\ Top = stack[n]
                                 /\ Item = stack[n].current /\ DOMAIN stack = 1 .. n
BY ParserTypes DEF Item, Top, Last

\* The bracket of a call, and its nesting.
LEMMA FrameIs ==
  ASSUME ParserTypeOK, depth = Len(stack), NEW k \in DOMAIN stack
  PROVE  stack[k].open \in Brackets /\ k \in Nesting /\ k - 1 \in Nesting /\ k \in Nat \ {0}
<1>1. stack[k] \in Frame
  BY ParserTypes, ElementOfSeq DEF ParserTypeOK
<1>2. k \in 1 .. depth /\ depth \in 0 .. CJSON_NESTING_LIMIT
  BY ParserTypes DEF ParserTypeOK
<1>3. CJSON_NESTING_LIMIT \in Nat
  BY ParserAssumption
<1>4. stack[k].open \in Brackets
  BY <1>1 DEF Frame, Brackets
<1>5. k \in Nat \ {0} /\ k <= CJSON_NESTING_LIMIT
  BY <1>2, <1>3
<1> QED
  BY <1>3, <1>4, <1>5 DEF Nesting

\* If a list that is being parsed does not end, no document begins the text.
LEMMA DeadEnd ==
  ASSUME PInv, IsText(text), NEW pos, NEW sep, Meant(pos, sep),
         NEW n \in DOMAIN stack, n = Len(stack),
         ListEnd(text)[sep[n]][stack[n].open][n] = 0
  PROVE  ~Begins
<1> DEFINE Dead(k) == End(text, pos[stack[k].node]) = 0
           S == {j \in Nat : j < n => Dead(n - j)}
<1>1. n \in Nat \ {0} /\ DOMAIN stack = 1 .. n
  BY ParserTypes DEF PInv
<1>2. \A k \in 1 .. n : FrameMeans(k, pos, sep) /\ FrameInv(k) /\ stack[k].open \in Brackets
                        /\ k \in Nesting
  BY <1>1, FrameIs DEF Meant, PInv, HeapInv
<1>3. 0 \in S
  <2>1. Dead(n)
    BY <1>2 DEF FrameMeans
  <2>2. n - 0 = n
    BY <1>1
  <2> HIDE DEF Dead
  <2> QED BY <2>1, <2>2
<1>4. ASSUME NEW j \in Nat, j \in S PROVE j + 1 \in S
  <2> SUFFICES ASSUME j + 1 < n PROVE Dead(n - (j + 1))
    OBVIOUS
  <2>1. PICK k \in 1 .. n - 1 : k = n - (j + 1) /\ n - j = k + 1 /\ k + 1 \in 1 .. n
    BY <1>1
  <2>2. Dead(k + 1)
    <3>1. Dead(n - j)
      <4> HIDE DEF Dead
      <4> QED BY <1>1, <1>4
    <3> QED BY <2>1, <3>1
  <2>3. k \in 1 .. n /\ k # n /\ k + 1 # 1 /\ (k + 1) - 1 = k
    BY <1>1, <2>1
  <2>4. stack[k + 1].node = stack[k].current /\ stack[k].current # Null
    BY <1>2, <2>1, <2>3 DEF FrameInv
  <2>5. pos[stack[k].current] = Behind(text, sep[k], stack[k].open, k)
    BY <1>2, <2>3, <2>4 DEF FrameMeans
  <2>6. End(text, Behind(text, sep[k], stack[k].open, k)) = 0
    BY <2>2, <2>4, <2>5
  <2>7. ListEnd(text)[sep[k]][stack[k].open][k] = 0
    BY <1>2, <2>3, <2>6, NoElement DEF FrameMeans
  <2>8. Dead(k)
    BY <1>2, <2>3, <2>7 DEF FrameMeans
  <2> QED BY <2>1, <2>8
<1> HIDE DEF S
<1>5. Nat \subseteq S
  BY <1>3, <1>4, SetInduction
<1>6. n - 1 \in S /\ n - 1 < n /\ n - (n - 1) = 1
  BY <1>1, <1>5
<1>7. Dead(1)
  <2> HIDE DEF Dead
  <2> QED BY <1>6 DEF S
<1>8. stack[1].node = root
  BY <1>1, <1>2 DEF FrameInv
<1> QED
  BY <1>7, <1>8 DEF Meant, Begins

\* Nor if the value that is being parsed does not end.
LEMMA DeadItem ==
  ASSUME PInv, IsText(text), NEW pos, NEW sep, Meant(pos, sep),
         step \in {"value", "name", "after"}, End(text, pos[Item]) = 0
  PROVE  ~Begins
<1>1. CASE stack = <<>>
  BY <1>1 DEF Item, Meant, Begins
<1>2. CASE stack # <<>>
  <2>1. PICK n \in DOMAIN stack : n = Len(stack) /\ Item = stack[n].current
    BY <1>2, InnermostIs DEF PInv
  <2>2. Item # Null
    BY DEF PInv, StepInv
  <2>3. pos[Item] = Behind(text, sep[n], stack[n].open, n) /\ sep[n] \in 1 .. Len(text)
    BY <2>1, <2>2 DEF Meant, FrameMeans
  <2>4. stack[n].open \in Brackets /\ n \in Nesting
    BY FrameIs DEF PInv, Meant
  <2>5. ListEnd(text)[sep[n]][stack[n].open][n] = 0
    BY <2>3, <2>4, NoElement
  <2> QED BY <2>1, <2>5, DeadEnd
<1> QED
  BY <1>1, <1>2

-----------------------------------------------------------------------------
(* THE PARSER'S STEPS THROUGH THE TEXT                                     *)

\* The item that is being parsed is not that of a call under way.
LEMMA ItemNotOpen ==
  ASSUME PInv, Item # Null
  PROVE  /\ Item \in DOMAIN heap /\ ~Open(Item)
         /\ stack # <<>> => Growing(Item)
<1>1. Item \in DOMAIN heap
  BY ItemIs DEF PInv
<1>2. CASE stack = <<>>
  <2>1. DOMAIN stack = {}
    BY <1>2
  <2> QED BY <1>1, <1>2, <2>1 DEF Open
<1>3. CASE stack # <<>>
  <2>1. PICK n \in DOMAIN stack : n = Len(stack) /\ Item = stack[n].current
                                  /\ DOMAIN stack = 1 .. n /\ n \in Nat
    BY <1>3, InnermostIs DEF PInv
  <2>2. stack[n].head # Null /\ Item \in Reach(heap, stack[n].head)
    BY <2>1 DEF PInv, HeapInv, FrameInv
  <2>3. ASSUME NEW k \in DOMAIN stack PROVE stack[k].node # Item
    <3>1. k <= n
      BY <2>1
    <3> QED BY <2>1, <2>2, <3>1, NodesApart DEF PInv
  <2> QED BY <1>1, <2>1, <2>3 DEF Open, Growing
<1> QED
  BY <1>2, <1>3

\* The parser gives up, for want of memory or of a document.
LEMMA GivesUp ==
  ASSUME MeaningInv, step # "idle", text' = text, step' = "fail", oom' \/ ~Begins
  PROVE  MeaningInv'
<1>1. IsText(text)' /\ ~Live'
  BY DEF MeaningInv, Live
<1>2. oom' \/ ~Begins'
  BY DEF Begins
<1>3. step' # "parsed"
  OBVIOUS
<1>4. (Live => Matches)'
  BY <1>1
<1>5. (oom => step = "fail" \/ (step = "parsed" /\ root = Null))'
  OBVIOUS
<1>6. (step = "fail" /\ ~oom => ~Begins)'
  BY <1>2
<1> QED
  BY <1>1, <1>3, <1>4, <1>5, <1>6 DEF MeaningInv

\* A value without members has been parsed into the item.
LEMMA ItemFilled ==
  ASSUME PInv, MeaningInv, NEW pos, NEW sep, Meant(pos, sep),
         step = "value", step' = "after", UNCHANGED <<text, depth, stack, root, oom>>,
         NEW x, heap' = [heap EXCEPT ![Item] = x],
         x.type = TypeIs(text, pos[Item]), x.value = ValueIs(text, pos[Item]),
         x.string = heap[Item].string, x.next = heap[Item].next, x.child = Null,
         FirstIn(text, pos[Item]) = {}, offset' = End(text, pos[Item])
  PROVE  MeaningInv'
<1>1. Item # Null /\ Item \in DOMAIN heap /\ ~Open(Item) /\ Item' = Item
  BY ItemNotOpen DEF PInv, StepInv, Item, Top, Last
<1>2. /\ DOMAIN heap' = DOMAIN heap /\ heap'[Item] = x
      /\ \A i \in DOMAIN heap \ {Item} : heap'[i] = heap[i]
  BY <1>1
<1>3. \A i : (Open(i)' <=> Open(i)) /\ (Growing(i)' <=> Growing(i)) /\ ~Pending(i)'
  BY DEF Open, Growing, Pending
<1>4. ASSUME NEW i \in DOMAIN heap' PROVE ItemMeans(i, pos)'
  <2>1. ItemMeans(i, pos) /\ i \in DOMAIN heap
    BY <1>2 DEF Meant
  <2>2. CASE i = Item
    BY <1>1, <1>2, <1>3, <2>1, <2>2 DEF ItemMeans, LinksTo
  <2>3. CASE i # Item
    <3>1. ~Pending(i)
      BY <2>3 DEF Pending
    <3> QED BY <1>1, <1>2, <1>3, <2>1, <2>3, <3>1 DEF ItemMeans, LinksTo
  <2> QED BY <2>2, <2>3
<1>5. ASSUME NEW k \in DOMAIN stack' PROVE FrameMeans(k, pos, sep)'
  <2>1. FrameMeans(k, pos, sep)
    BY DEF Meant
  <2> QED BY <2>1 DEF FrameMeans
<1>6. PlaceMeans(pos, sep)'
  BY <1>1 DEF PlaceMeans
<1>7. Meant(pos, sep)'
  BY <1>4, <1>5, <1>6 DEF Meant
<1> QED
  BY <1>7 DEF MeaningInv, Matches

\* What stands at the offset when a value is due.
LEMMA ValueDue ==
  ASSUME PInv, MeaningInv, NEW pos, NEW sep, Meant(pos, sep), step = "value"
  PROVE  /\ IsText(text) /\ Item # Null /\ ItemMeans(Item, pos) /\ IsPlace(text, pos[Item])
         /\ heap[Item].value = "" /\ heap[Item].child = Null /\ ~oom
         /\ offset = pos[Item].at /\ offset \in 1 .. Len(text)
         /\ \A S : Reads(offset, S) <=> At(text, pos[Item].at) \in S
         /\ text[offset] = At(text, pos[Item].at)
<1>1. IsText(text) /\ ~oom
  BY DEF MeaningInv
<1>2. Item # Null /\ heap[Item].child = Null /\ Item \in DOMAIN heap
  BY ItemNotOpen DEF PInv, StepInv
<1>3. ItemMeans(Item, pos) /\ offset = pos[Item].at
  BY <1>2 DEF Meant, PlaceMeans
<1>4. IsPlace(text, pos[Item]) /\ heap[Item].value = ""
  BY <1>3 DEF ItemMeans, Pending
<1>5. offset \in 1 .. Len(text)
  <2>1. offset \in Nat \ {0} /\ offset \in 0 .. Len(text)
    BY <1>3, <1>4, ParserTypes DEF IsPlace, PInv
  <2> QED BY <2>1
<1> QED
  BY <1>1, <1>2, <1>3, <1>4, <1>5, ReadsIs

\* A value that is no list, or none.
LEMMA ScalarMeans ==
  ASSUME PInv, MeaningInv, ParseLiteral \/ ParseString \/ ParseNumber \/ ParseNothing
  PROVE  MeaningInv'
<1>1. step = "value" /\ text' = text
  BY DEF ParseLiteral, ParseString, ParseNumber, ParseNothing, OutOfMemory
<1>2. CASE OutOfMemory
  BY <1>1, <1>2, GivesUp DEF OutOfMemory, Fails
<1>3. PICK pos, sep : Meant(pos, sep)
  BY <1>1 DEF MeaningInv, Live, Matches
<1> DEFINE v == pos[Item]
           tok == At(text, v.at)
<1>4. /\ IsText(text) /\ Item # Null /\ IsPlace(text, v)
      /\ heap[Item].value = "" /\ heap[Item].child = Null /\ ~oom
      /\ offset = v.at /\ text[offset] = tok
      /\ \A S : Reads(offset, S) <=> tok \in S
  BY <1>1, <1>3, ValueDue
<1>5. /\ tok \in Scalars => End(text, v) = offset + 1 /\ FirstIn(text, v) = {}
      /\ tok \notin Scalars \cup Brackets => End(text, v) = 0
  <2>1. tok \in Scalars => tok \notin Brackets
    BY BracketsAreNoScalars
  <2> QED BY <1>4, <2>1, EndIs DEF FirstIn
<1>6. /\ tok \in DOMAIN Literal => TypeIs(text, v) = Literal[tok] /\ ValueIs(text, v) = ""
      /\ tok \in Strings => TypeIs(text, v) = "String" /\ ValueIs(text, v) = tok
      /\ tok \in Numbers => TypeIs(text, v) = "Number" /\ ValueIs(text, v) = tok
  BY BracketsAreNoScalars DEF TypeIs, ValueIs
<1>7. heap[Item] \in Items /\ Item \in DOMAIN heap
  BY <1>4, ItemIs DEF PInv, ParserTypeOK
<1> HIDE DEF v, tok
<1>8. ASSUME NEW x, heap' = [heap EXCEPT ![Item] = x],
             offset' = offset + 1, step' = "after", UNCHANGED <<text, depth, stack, root, oom>>,
             tok \in Scalars, x.type = TypeIs(text, v), x.value = ValueIs(text, v),
             x.string = heap[Item].string, x.next = heap[Item].next, x.child = Null
      PROVE  MeaningInv'
  BY <1>1, <1>3, <1>5, <1>8, ItemFilled DEF v
<1>9. CASE ParseLiteral
  <2> DEFINE x == [heap[Item] EXCEPT !.type = Literal[text[offset]]]
  <2>1. tok \in DOMAIN Literal /\ tok \in Scalars
    BY <1>4, <1>9 DEF ParseLiteral, Scalars
  <2>2. /\ x.type = TypeIs(text, v) /\ x.value = ValueIs(text, v)
        /\ x.string = heap[Item].string /\ x.next = heap[Item].next /\ x.child = Null
    BY <1>4, <1>6, <1>7, <2>1 DEF Items
  <2>3. /\ heap' = [heap EXCEPT ![Item] = x]
        /\ offset' = offset + 1 /\ step' = "after" /\ UNCHANGED <<text, depth, stack, root, oom>>
    BY <1>9 DEF ParseLiteral
  <2> HIDE DEF x
  <2> QED BY <1>8, <2>1, <2>2, <2>3
<1>10. CASE ParseString /\ ~OutOfMemory
  <2> DEFINE x == [heap[Item] EXCEPT !.type = "String", !.value = text[offset]]
  <2>1. tok \in Strings /\ tok \in Scalars
    BY <1>4, <1>10 DEF ParseString, Scalars
  <2>2. /\ x.type = TypeIs(text, v) /\ x.value = ValueIs(text, v)
        /\ x.string = heap[Item].string /\ x.next = heap[Item].next /\ x.child = Null
    BY <1>4, <1>6, <1>7, <2>1 DEF Items
  <2>3. /\ heap' = [heap EXCEPT ![Item].type = "String", ![Item].value = text[offset]]
        /\ offset' = offset + 1 /\ step' = "after" /\ UNCHANGED <<text, depth, stack, root, oom>>
    BY <1>10 DEF ParseString
  <2>4. heap' = [heap EXCEPT ![Item] = x]
    BY <1>7, <2>3
  <2> HIDE DEF x
  <2> QED BY <1>8, <2>1, <2>2, <2>3, <2>4
<1>11. CASE ParseNumber /\ ~OutOfMemory
  <2> DEFINE x == [heap[Item] EXCEPT !.type = "Number", !.value = text[offset]]
  <2>1. tok \in Numbers /\ tok \in Scalars
    BY <1>4, <1>11 DEF ParseNumber, Scalars
  <2>2. /\ x.type = TypeIs(text, v) /\ x.value = ValueIs(text, v)
        /\ x.string = heap[Item].string /\ x.next = heap[Item].next /\ x.child = Null
    BY <1>4, <1>6, <1>7, <2>1 DEF Items
  <2>3. /\ heap' = [heap EXCEPT ![Item].type = "Number", ![Item].value = text[offset]]
        /\ offset' = offset + 1 /\ step' = "after" /\ UNCHANGED <<text, depth, stack, root, oom>>
    BY <1>11 DEF ParseNumber
  <2>4. heap' = [heap EXCEPT ![Item] = x]
    BY <1>7, <2>3
  <2> HIDE DEF x
  <2> QED BY <1>8, <2>1, <2>2, <2>3, <2>4
<1>12. CASE ParseNothing
  <2>1. tok \notin Scalars \cup Brackets /\ step' = "fail"
    BY <1>4, <1>12 DEF ParseNothing, Fails, Brackets
  <2>2. ~Begins
    BY <1>1, <1>3, <1>4, <1>5, <2>1, DeadItem DEF v
  <2> QED BY <1>1, <2>1, <2>2, GivesUp
<1> QED
  BY <1>2, <1>9, <1>10, <1>11, <1>12

\* Parsing begins at the document.
LEMMA SkipToValueMeans == ASSUME PInv, MeaningInv, SkipToValue PROVE MeaningInv'
<1>1. /\ step = "begin" /\ step' = "value" /\ offset' = SkipBlank(SkipBOM)
      /\ UNCHANGED <<text, depth, stack, root, heap, oom>>
  BY DEF SkipToValue
<1>2. PICK pos, sep : Meant(pos, sep)
  BY <1>1 DEF MeaningInv, Live, Matches
<1>3. IsText(text) /\ ~oom
  BY <1>1 DEF MeaningInv
<1>4. stack = <<>> /\ Item = root /\ Item' = Item
  BY <1>1 DEF PInv, StepInv, Item
<1>5. offset' = Document(text).at
  <2>1. PICK n \in Nat \ {0} : n = Len(text)
    BY <1>3, TextIs
  <2>2. SkipBOM \in 1 .. n
    BY <2>1 DEF SkipBOM
  <2>3. SkipBlank(SkipBOM) = Token(text, SkipBOM)
    BY <1>3, <2>1, <2>2, SkipBlankFinds
  <2> QED BY <1>1, <2>3 DEF SkipBOM, Document
<1>6. \A i : (Open(i)' <=> Open(i)) /\ (Growing(i)' <=> Growing(i)) /\ (Pending(i)' <=> Pending(i))
  BY <1>1, <1>4 DEF Open, Growing, Pending
<1>7. ASSUME NEW i \in DOMAIN heap' PROVE ItemMeans(i, pos)'
  <2>1. ItemMeans(i, pos)
    BY <1>1, <1>2 DEF Meant
  <2> QED BY <1>1, <1>6, <2>1 DEF ItemMeans, LinksTo
<1>8. \A k \in DOMAIN stack' : FrameMeans(k, pos, sep)'
  BY <1>1, <1>4
<1>9. PlaceMeans(pos, sep)'
  BY <1>1, <1>2, <1>4, <1>5 DEF PlaceMeans, Meant
<1>10. Meant(pos, sep)'
  BY <1>1, <1>2, <1>7, <1>8, <1>9 DEF Meant
<1> QED
  BY <1>1, <1>3, <1>10 DEF MeaningInv, Matches

\* The next token from a token on is that token.
LEMMA TokenAgain ==
  ASSUME NEW t, IsText(t), NEW i \in Nat \ {0}
  PROVE  Token(t, Token(t, i)) = Token(t, i)
<1>1. PICK n \in Nat \ {0} : n = Len(t)
  BY TextIs
<1>2. PICK q \in 1 .. n : q = Token(t, i)
  BY <1>1, TokenIs
<1>3. PICK r \in 1 .. n : r = Token(t, q)
  BY <1>1, <1>2, TokenIs
<1>4. q <= r /\ \A x \in q .. r - 1 : At(t, x) \in Blanks
  BY <1>1, <1>2, <1>3, TokenIs
<1>5. CASE At(t, q) \in Blanks
  <2>1. q = n
    BY <1>1, <1>2, <1>5, TokenIs DEF Blanks
  <2> QED BY <1>2, <1>3, <1>4, <2>1
<1>6. CASE At(t, q) \notin Blanks
  <2>1. q \notin q .. r - 1
    BY <1>4, <1>6
  <2> QED BY <1>2, <1>3, <1>4, <2>1
<1> QED
  BY <1>5, <1>6

\* The nesting of the item that is being parsed is what the buffer counts.
LEMMA ItemDepth ==
  ASSUME PInv, IsText(text), NEW pos, NEW sep, Meant(pos, sep), Item # Null,
         step # "element"
  PROVE  pos[Item].depth = depth
<1>1. CASE stack = <<>>
  BY <1>1, DocumentIs, LenProperties, EmptySeq DEF Item, Meant
<1>2. CASE stack # <<>>
  <2>1. PICK n \in DOMAIN stack : n = Len(stack) /\ Item = stack[n].current
    BY <1>2, InnermostIs DEF PInv
  <2>2. pos[Item] = Behind(text, sep[n], stack[n].open, n)
    BY <2>1 DEF Meant, FrameMeans
  <2>3. depth = n
    BY <2>1 DEF Meant
  <2>4. Behind(text, sep[n], stack[n].open, n).depth = n
    BY DEF Behind
  <2> QED BY <2>2, <2>3, <2>4
<1> QED
  BY <1>1, <1>2

\* A list is opened: it is empty, or the call for it is under way.
LEMMA OpenListMeans == ASSUME PInv, MeaningInv, OpenList PROVE MeaningInv'
<1>1. step = "value" /\ UNCHANGED <<text, root, oom>> /\ Reads(offset, {"[", "{"})
  BY DEF OpenList
<1>2. PICK pos, sep : Meant(pos, sep)
  BY <1>1 DEF MeaningInv, Live, Matches
<1> DEFINE v == pos[Item]
           open == At(text, v.at)
           p == SkipBlank(offset + 1)
           frame == [open |-> open, node |-> Item, head |-> Null, current |-> Null]
<1>3. /\ IsText(text) /\ Item # Null /\ IsPlace(text, v) /\ ~oom
      /\ heap[Item].value = "" /\ heap[Item].child = Null
      /\ offset = v.at /\ text[offset] = open
      /\ \A S : Reads(offset, S) <=> open \in S
  BY <1>1, <1>2, ValueDue
<1>4. v.depth = depth /\ depth = Len(stack)
  BY <1>1, <1>2, <1>3, ItemDepth DEF Meant
<1>5. PICK m \in Nat \ {0} : m = Len(text)
  BY <1>3, TextIs
<1>6. open \in Brackets /\ open # "NUL" /\ open \notin Scalars
      /\ open \notin Strings \cup Numbers /\ open \notin DOMAIN Literal
  BY <1>1, <1>3, BracketsAreNoScalars DEF Brackets
<1>7. offset \in 1 .. m - 1 /\ offset + 1 \in 1 .. m
  <2>1. offset \in 1 .. m - 1
    BY <1>3, <1>5, <1>6, TextIs
  <2> QED BY <2>1
<1>8. p = Token(text, offset + 1) /\ p \in 1 .. m
  <2>1. offset + 1 \in 1 .. Len(text) /\ offset + 1 \in Nat \ {0}
    BY <1>5, <1>7
  <2>2. p = Token(text, offset + 1)
    BY <1>3, <2>1, SkipBlankFinds
  <2> HIDE DEF p
  <2> QED BY <1>3, <1>5, <2>1, <2>2, TokenIs
<1>9. Reads(p, {Closing(open)}) <=> At(text, p) = Closing(open)
  BY <1>3, <1>5, <1>8, ReadsIs
<1>10. Accessible(p)
  BY <1>3, <1>5, <1>8, ReadsIs
<1>11. \/ depth >= CJSON_NESTING_LIMIT /\ step' = "fail"
       \/ /\ depth < CJSON_NESTING_LIMIT /\ Reads(p, {Closing(open)})
          /\ Close(frame, p)
          /\ UNCHANGED <<depth, stack>>
       \/ /\ depth < CJSON_NESTING_LIMIT /\ ~Reads(p, {Closing(open)})
          /\ depth' = depth + 1 /\ stack' = Append(stack, frame)
          /\ offset' = p - 1 /\ step' = "element" /\ UNCHANGED heap
  BY <1>3, <1>10 DEF OpenList, Fails
<1>12. depth \in Nesting /\ (depth < CJSON_NESTING_LIMIT <=> ~(depth >= CJSON_NESTING_LIMIT))
  BY <1>3, <1>4, NestingIs DEF IsPlace
<1> HIDE DEF p, v, open, frame
<1>13. ASSUME depth >= CJSON_NESTING_LIMIT, step' = "fail" PROVE MeaningInv'
  <2>1. End(text, v) = 0
    BY <1>3, <1>4, <1>6, <1>13, EndIs DEF open
  <2>2. ~Begins
    BY <1>1, <1>2, <1>3, <2>1, DeadItem DEF v
  <2> QED BY <1>1, <1>13, <2>2, GivesUp
<1>14. ASSUME depth < CJSON_NESTING_LIMIT, At(text, p) = Closing(open), Close(frame, p),
              UNCHANGED <<depth, stack>>
       PROVE  MeaningInv'
  <2>1. FirstIn(text, v) = {} /\ End(text, v) = p + 1
    BY <1>3, <1>4, <1>6, <1>8, <1>14, EndIs DEF open, FirstIn
  <2> DEFINE x == [heap[Item] EXCEPT !.type = IF open = "[" THEN "Array" ELSE "Object",
                                     !.child = Null]
  <2>2. heap[Item] \in Items /\ Item \in DOMAIN heap
    BY <1>3, ItemIs DEF PInv, ParserTypeOK
  <2>3. heap' = [heap EXCEPT ![Item] = x] /\ offset' = p + 1 /\ step' = "after"
    <3>1. frame.node = Item /\ frame.head = Null /\ frame.open = open
      BY DEF frame
    <3>2. heap' = [heap EXCEPT ![Item].type = IF open = "[" THEN "Array" ELSE "Object",
                               ![Item].child = Null]
      BY <1>14, <3>1 DEF Close
    <3> QED BY <1>14, <2>2, <3>2 DEF Close
  <2>4. TypeIs(text, v) = IF open = "[" THEN "Array" ELSE "Object"
    BY <1>6 DEF TypeIs, open, Brackets
  <2>5. ValueIs(text, v) = ""
    BY <1>6 DEF ValueIs, open
  <2>6. /\ x.type = TypeIs(text, v) /\ x.value = ValueIs(text, v)
        /\ x.string = heap[Item].string /\ x.next = heap[Item].next /\ x.child = Null
    BY <1>3, <2>2, <2>4, <2>5 DEF Items
  <2> HIDE DEF x
  <2> QED BY <1>1, <1>2, <1>14, <2>1, <2>3, <2>6, ItemFilled DEF v
<1>15. ASSUME depth < CJSON_NESTING_LIMIT, At(text, p) # Closing(open),
              depth' = depth + 1, stack' = Append(stack, frame),
              offset' = p - 1, step' = "element", UNCHANGED heap
       PROVE  MeaningInv'
  <2>1. PICK n \in Nat : n = Len(stack) /\ DOMAIN stack = 1 .. n /\ stack \in Seq(Frame)
    BY ParserTypes DEF PInv, ParserTypeOK
  <2>2. /\ Len(stack') = n + 1 /\ DOMAIN stack' = 1 .. n + 1
        /\ stack'[n + 1] = frame /\ \A k \in 1 .. n : stack'[k] = stack[k]
    BY <1>15, <2>1, AppendProperties, LenProperties
  <2>3. frame.node = Item /\ frame.head = Null /\ frame.open = open /\ frame.current = Null
    BY DEF frame
  <2>4. Item \in DOMAIN heap /\ Null \notin DOMAIN heap
    BY <1>3, ItemNotOpen, ParserTypes DEF PInv, Ids, Null
  <2>5. PICK s : s[n + 1] = offset /\ \A k \in 1 .. n : s[k] = sep[k]
    <3> DEFINE r == [k \in 1 .. n + 1 |-> IF k = n + 1 THEN offset ELSE sep[k]]
    <3>1. r[n + 1] = offset /\ \A k \in 1 .. n : r[k] = sep[k]
      BY <2>1
    <3> QED BY <3>1
  <2>6. ASSUME NEW i \in DOMAIN heap'
        PROVE  /\ Open(i)' <=> Open(i) \/ i = Item
               /\ Growing(i)' <=> Growing(i)
               /\ ~Pending(i)' /\ (Pending(i) <=> i = Item)
    <3>1. i # Null
      BY <1>15, <2>4
    <3>2. Open(i)' <=> Open(i) \/ i = Item
      BY <2>1, <2>2, <2>3 DEF Open
    <3>3. Growing(i)' <=> Growing(i)
      BY <2>1, <2>2, <2>3, <3>1 DEF Growing
    <3>4. ~Pending(i)' /\ (Pending(i) <=> i = Item)
      BY <1>1, <1>15 DEF Pending
    <3> QED BY <3>2, <3>3, <3>4
  <2>7. ASSUME NEW i \in DOMAIN heap' PROVE ItemMeans(i, pos)'
    <3>1. ItemMeans(i, pos)
      BY <1>2, <1>15 DEF Meant
    <3>2. /\ IsPlace(text, pos[i]) /\ heap[i].string = pos[i].name
          /\ Open(i) \/ i = Item => heap[i].value = ""
          /\ ~(Open(i) \/ i = Item) =>
               /\ heap[i].type = TypeIs(text, pos[i])
               /\ heap[i].value = ValueIs(text, pos[i])
               /\ LinksTo(heap[i].child, FirstIn(text, pos[i]), pos)
          /\ Growing(i) \/ LinksTo(heap[i].next, NextTo(text, pos[i]), pos)
      BY <1>1, <2>6, <3>1 DEF ItemMeans
    <3>3. heap' = heap /\ text' = text
      BY <1>1, <1>15
    <3> QED BY <2>6, <3>2, <3>3, Zenon DEF ItemMeans, LinksTo
  <2>8. ASSUME NEW k \in DOMAIN stack' PROVE FrameMeans(k, pos, s)'
    <3>1. CASE k \in 1 .. n
      <4>1. FrameMeans(k, pos, sep) /\ stack'[k] = stack[k] /\ s[k] = sep[k] /\ k # Len(stack')
        BY <1>2, <2>1, <2>2, <2>5, <3>1 DEF Meant
      <4> QED BY <1>1, <1>15, <4>1 DEF FrameMeans
    <3>2. CASE k = n + 1
      <4>1. k - 1 = n /\ k = depth + 1
        BY <1>4, <2>1, <3>2
      <4>2. FirstIn(text, v) = {Behind(text, v.at, open, k)}
        <5>1. At(text, Token(text, v.at + 1)) # Closing(open)
          BY <1>3, <1>8, <1>15
        <5> QED BY <1>4, <1>6, <4>1, <5>1 DEF FirstIn, open
      <4>3. End(text, v) = ListEnd(text)[v.at][open][k]
        <5>1. At(text, Token(text, v.at + 1)) # Closing(open)
          BY <1>3, <1>8, <1>15
        <5> QED BY <1>3, <1>4, <1>6, <1>15, <4>1, <5>1, EndIs DEF open
      <4>4. stack'[k] = frame /\ s[k] = v.at /\ s[k] \in 1 .. Len(text) /\ k = Len(stack')
        <5>1. offset \in 1 .. m
          BY <1>7
        <5> QED BY <1>3, <1>5, <2>2, <2>5, <3>2, <5>1
      <4>5. v.depth = k - 1
        BY <1>4, <2>1, <4>1
      <4> QED BY <1>1, <1>15, <2>3, <4>2, <4>3, <4>4, <4>5 DEF FrameMeans, v, open
    <3> QED BY <2>2, <3>1, <3>2
  <2>9. PlaceMeans(pos, s)'
    <3>1. PICK q \in 1 .. m : q = p
      BY <1>8
    <3>2. p - 1 < m /\ p - 1 + 1 = p
      BY <3>1
    <3>3. Token(text, p) = p
      <4>1. offset + 1 \in Nat \ {0}
        BY <1>7
      <4> QED BY <1>3, <1>8, <4>1, TokenAgain
    <3>4. offset' < Len(text') /\ Token(text', offset' + 1) = Token(text', s[Len(stack')] + 1)
      BY <1>1, <1>5, <1>8, <1>15, <2>2, <2>5, <3>2, <3>3
    <3> QED BY <1>15, <3>4 DEF PlaceMeans
  <2>10. depth' = Len(stack')
    BY <1>4, <1>15, <2>1, <2>2
  <2>11. Meant(pos, s)'
    BY <1>1, <1>2, <2>7, <2>8, <2>9, <2>10 DEF Meant
  <2>12. Matches'
    BY <2>11 DEF Matches
  <2> QED BY <1>1, <1>3, <1>15, <2>12 DEF MeaningInv
<1> QED
  BY <1>9, <1>11, <1>13, <1>14, <1>15

\* What is linked or held is an item alive.
LEMMA LinksLead ==
  ASSUME PInv
  PROVE  /\ Null \notin DOMAIN heap /\ root \in DOMAIN heap \cup {Null}
         /\ \A i \in DOMAIN heap : /\ heap[i].next \in DOMAIN heap \cup {Null}
                                   /\ heap[i].child \in DOMAIN heap \cup {Null}
         /\ \A k \in DOMAIN stack : /\ stack[k].node \in DOMAIN heap
                                    /\ stack[k].head \in DOMAIN heap \cup {Null}
                                    /\ stack[k].current \in DOMAIN heap \cup {Null}
<1>1. Null \notin DOMAIN heap /\ Hands \subseteq DOMAIN heap
  BY ParserTypes DEF PInv, HeapInv, Forest
<1>2. root \in DOMAIN heap \cup {Null}
  BY <1>1 DEF Hands
<1>3. \A i \in DOMAIN heap : /\ heap[i].next \in DOMAIN heap \cup {Null}
                             /\ heap[i].child \in DOMAIN heap \cup {Null}
  BY DEF PInv, HeapInv, Forest
<1>4. ASSUME NEW k \in DOMAIN stack
      PROVE  /\ stack[k].node \in DOMAIN heap
             /\ stack[k].head \in DOMAIN heap \cup {Null}
             /\ stack[k].current \in DOMAIN heap \cup {Null}
  <2>1. stack[k].head \in DOMAIN heap \cup {Null}
    BY <1>1 DEF Hands
  <2>2. stack[k].current # Null =>
          stack[k].head # Null /\ stack[k].current \in Reach(heap, stack[k].head)
    BY DEF PInv, HeapInv, FrameInv
  <2> QED BY <2>1, <2>2, NodesApart, ReachIs DEF PInv
<1> QED
  BY <1>1, <1>2, <1>3, <1>4

\* The list goes on with a new item, for what is behind the last bracket or
\* comma.
LEMMA NextElementMeans == ASSUME PInv, MeaningInv, NextElement PROVE MeaningInv'
<1>1. step = "element" /\ stack # <<>> /\ text' = text
  BY DEF NextElement, PInv, StepInv, OutOfMemory
<1>2. CASE OutOfMemory
  BY <1>1, <1>2, GivesUp DEF OutOfMemory, Fails
<1>3. PICK pos, sep : Meant(pos, sep)
  BY <1>1 DEF MeaningInv, Live, Matches
<1>4. IsText(text) /\ ~oom
  BY <1>1 DEF MeaningInv
<1>5. PICK n \in DOMAIN stack : n = Len(stack) /\ Top = stack[n] /\ DOMAIN stack = 1 .. n
                                /\ n \in Nat \ {0}
  BY <1>1, InnermostIs DEF PInv
<1>6. FrameMeans(n, pos, sep) /\ FrameInv(n)
  BY <1>3 DEF Meant, PInv, HeapInv
<1>7. PICK m \in Nat \ {0} : m = Len(text)
  BY <1>4, TextIs
<1>8. offset \in 1 .. m - 1 /\ Token(text, offset + 1) = Token(text, sep[n] + 1)
  <2>1. offset < m /\ Token(text, offset + 1) = Token(text, sep[n] + 1)
    BY <1>1, <1>3, <1>5, <1>7 DEF Meant, PlaceMeans
  <2> QED BY <1>7, <2>1, ParserTypes DEF PInv
<1>9. stack[n].open \in Brackets /\ n \in Nesting /\ depth = n
  BY <1>3, <1>5, FrameIs DEF PInv, Meant
<1>10. stack[n] \in Frame /\ stack \in Seq(Frame)
  BY <1>5, ElementOfSeq DEF PInv, ParserTypeOK
<1>11. ASSUME NEW new, new = NewId(heap), HasRoom(heap),
              heap' = IF Top.head = Null THEN WithNew(heap)
                      ELSE [WithNew(heap) EXCEPT ![Top.current].next = new],
              stack' = [stack EXCEPT ![Len(stack)].head = IF @ = Null THEN new ELSE @,
                                     ![Len(stack)].current = new],
              offset' = SkipBlank(offset + 1),
              step' = CASE Top.open = "[" -> "value"
                        [] Top.open = "{" /\ Accessible(offset + 1) -> "name"
                        [] OTHER -> "fail",
              UNCHANGED <<text, depth, root, oom>>
       PROVE  MeaningInv'
  <2> DEFINE c == stack[n].current
             element == Behind(text, sep[n], stack[n].open, n)
             g == WithNew(heap)
  <2>1. /\ new \notin DOMAIN heap /\ DOMAIN g = DOMAIN heap \cup {new} /\ g[new] = NewItem
        /\ \A i \in DOMAIN heap : g[i] = heap[i]
        /\ new \in Ids /\ new # Null
    BY <1>11, ForestNew, ParserTypes DEF PInv, HeapInv
  <2>2. /\ stack'[n].node = stack[n].node /\ stack'[n].open = stack[n].open
        /\ stack'[n].current = new
        /\ stack'[n].head = IF stack[n].head = Null THEN new ELSE stack[n].head
        /\ \A k \in DOMAIN stack \ {n} : stack'[k] = stack[k]
        /\ DOMAIN stack' = DOMAIN stack /\ Len(stack') = n
    <3> DEFINE f == [stack[n] EXCEPT !.head = IF @ = Null THEN new ELSE @, !.current = new]
    <3>1. /\ f \in Frame /\ f.node = stack[n].node /\ f.current = new
          /\ f.open = stack[n].open
          /\ f.head = IF stack[n].head = Null THEN new ELSE stack[n].head
      BY <1>10, <2>1 DEF Frame
    <3>2. stack' = [stack EXCEPT ![n] = f]
      BY <1>5, <1>11
    <3> HIDE DEF f
    <3> QED BY <1>5, <1>10, <3>1, <3>2, ExceptSeq
  <2>3. (c = Null <=> stack[n].head = Null) /\ (c # Null => c \in DOMAIN heap)
    BY <1>6, LinksLead DEF FrameInv
  <2>4. /\ DOMAIN heap' = DOMAIN heap \cup {new} /\ heap'[new] = NewItem
        /\ \A i \in DOMAIN heap \ {c} : heap'[i] = heap[i]
        /\ c # Null => heap'[c] = [heap[c] EXCEPT !.next = new]
    <3>1. heap' = IF c = Null THEN g ELSE [g EXCEPT ![c].next = new]
      BY <1>5, <1>11, <2>3
    <3> HIDE DEF g, c
    <3>2. c # Null => c # new /\ c \in DOMAIN g /\ g[c] = heap[c]
      BY <2>1, <2>3
    <3> QED BY <2>1, <3>1, <3>2
  <2>5. \A i \in DOMAIN heap : /\ heap'[i].type = heap[i].type
                               /\ heap'[i].value = heap[i].value
                               /\ heap'[i].string = heap[i].string
                               /\ heap'[i].child = heap[i].child
                               /\ heap'[i].next = IF i = c THEN new ELSE heap[i].next
    <3> TAKE i \in DOMAIN heap
    <3> HIDE DEF c
    <3>1. heap[i] \in Items /\ i # Null
      BY LinksLead DEF PInv, ParserTypeOK
    <3>2. CASE i # c
      BY <2>4, <3>2
    <3>3. CASE i = c
      <4>1. heap'[i] = [heap[i] EXCEPT !.next = new]
        BY <2>4, <3>1, <3>3
      <4> QED BY <3>1, <3>3, <4>1 DEF Items
    <3> QED BY <3>2, <3>3
  <2>6. PICK pos2 : pos2[new] = element /\ \A i \in DOMAIN heap : pos2[i] = pos[i]
    <3> DEFINE r == [i \in DOMAIN heap \cup {new} |-> IF i = new THEN element ELSE pos[i]]
    <3>1. r[new] = element /\ \A i \in DOMAIN heap : r[i] = pos[i]
      BY <2>1
    <3> QED BY <3>1
  <2> HIDE DEF g
  <2>7. Item' = new /\ stack' # <<>>
    <3>1. stack' # <<>>
      BY <1>5, <2>2, EmptySeq
    <3> QED BY <2>2, <3>1 DEF Item, Top, Last
  <2>8. step' = (IF stack[n].open = "[" THEN "value" ELSE "name")
    <3>1. Accessible(offset + 1)
      BY <1>7, <1>8 DEF Accessible
    <3> QED BY <1>5, <1>9, <1>11, <3>1 DEF Brackets
  <2>9. sep[n] \in 1 .. Len(text) /\ IsPlace(text, element)
    BY <1>4, <1>6, <1>9, BehindIs DEF FrameMeans
  <2>10. c # Null => NextTo(text, pos[c]) = {element}
    BY <1>1, <1>5, <1>6 DEF FrameMeans
  <2>11. c = Null => element = Behind(text, pos[stack[n].node].at, stack[n].open, n)
    BY <1>1, <1>5, <1>6 DEF FrameMeans
  <2>12. offset' = Token(text, sep[n] + 1)
    <3>1. offset + 1 \in 1 .. Len(text)
      BY <1>7, <1>8
    <3> QED BY <1>4, <1>8, <1>11, <3>1, SkipBlankFinds
  <2>13. ASSUME NEW i \in DOMAIN heap' PROVE ItemMeans(i, pos2)'
    <3>1. CASE i = new
      <4>1. Growing(i)' /\ Pending(i)'
        BY <1>5, <2>2, <2>7, <2>8, <3>1 DEF Growing, Pending
      <4>2. heap'[i].value = "" /\ heap'[i].string = ""
        <5>1. NewItem.value = "" /\ NewItem.string = ""
          BY DEF NewItem
        <5> QED BY <2>4, <3>1, <5>1
      <4>3. stack[n].open = "[" => element.name = ""
        BY DEF Behind
      <4>4. pos2[i] = element
        BY <2>6, <3>1
      <4> HIDE DEF element
      <4>5. (i = Item /\ step = "name")' \/ heap'[i].string = pos2[i].name
        BY <2>7, <2>8, <3>1, <4>2, <4>3, <4>4
      <4> QED BY <1>11, <2>9, <4>1, <4>2, <4>4, <4>5 DEF ItemMeans
    <3>2. CASE i # new
      <4>1. i \in DOMAIN heap /\ ItemMeans(i, pos) /\ i # Null
        BY <1>3, <2>4, <3>2, LinksLead DEF Meant
      <4>2. (Open(i)' <=> Open(i)) /\ ~Pending(i)' /\ ~Pending(i) /\ i # Item'
        <5>1. Open(i)' <=> Open(i)
          BY <2>2 DEF Open
        <5> QED BY <1>1, <2>7, <3>2, <5>1 DEF Pending
      <4>3. i # c => (Growing(i)' <=> Growing(i))
        BY <2>2, <3>2 DEF Growing
      <4>4. pos2[i] = pos[i]
        BY <2>6, <4>1
      <4>5. /\ IsPlace(text, pos[i]) /\ heap[i].string = pos[i].name
            /\ Open(i) => heap[i].value = ""
            /\ ~Open(i) => /\ heap[i].type = TypeIs(text, pos[i])
                           /\ heap[i].value = ValueIs(text, pos[i])
                           /\ LinksTo(heap[i].child, FirstIn(text, pos[i]), pos)
            /\ Growing(i) \/ LinksTo(heap[i].next, NextTo(text, pos[i]), pos)
        BY <1>1, <4>1, <4>2 DEF ItemMeans
      <4>6. /\ heap[i].child \in DOMAIN heap \cup {Null}
            /\ heap[i].next \in DOMAIN heap \cup {Null}
        BY <4>1, LinksLead
      <4>7. LinksTo(heap[i].child, FirstIn(text, pos[i]), pos) =>
              LinksTo(heap'[i].child, FirstIn(text, pos[i]), pos2)
        BY <2>5, <2>6, <4>1, <4>6 DEF LinksTo
      <4>8. i # c /\ LinksTo(heap[i].next, NextTo(text, pos[i]), pos) =>
              LinksTo(heap'[i].next, NextTo(text, pos[i]), pos2)
        BY <2>5, <2>6, <4>1, <4>6 DEF LinksTo
      <4>9. i = c => LinksTo(heap'[i].next, NextTo(text, pos[i]), pos2)
        BY <2>1, <2>5, <2>6, <2>10, <4>1 DEF LinksTo
      <4>10. /\ IsPlace(text, pos2[i])
             /\ heap'[i].string = pos2[i].name
             /\ Open(i)' => heap'[i].value = ""
             /\ ~Open(i)' => /\ heap'[i].type = TypeIs(text, pos2[i])
                             /\ heap'[i].value = ValueIs(text, pos2[i])
                             /\ LinksTo(heap'[i].child, FirstIn(text, pos2[i]), pos2)
             /\ Growing(i)' \/ LinksTo(heap'[i].next, NextTo(text, pos2[i]), pos2)
        BY <2>5, <4>1, <4>2, <4>3, <4>4, <4>5, <4>7, <4>8, <4>9, Zenon
      <4> HIDE DEF c, element
      <4> QED BY <1>11, <4>2, <4>10 DEF ItemMeans
    <3> QED BY <3>1, <3>2
  <2>14. ASSUME NEW k \in DOMAIN stack' PROVE FrameMeans(k, pos2, sep)'
    <3>1. FrameMeans(k, pos, sep) /\ k \in DOMAIN stack /\ FrameInv(k)
      BY <1>3, <2>2 DEF Meant, PInv, HeapInv
    <3>2. /\ stack[k].node \in DOMAIN heap
          /\ stack[k].head \in DOMAIN heap \cup {Null}
          /\ stack[k].current \in DOMAIN heap \cup {Null}
      BY <3>1, LinksLead
    <3>3. step' # "element" /\ pos2[stack[k].node] = pos[stack[k].node]
          /\ (stack[k].head # Null => pos2[stack[k].head] = pos[stack[k].head])
          /\ (stack[k].current # Null => pos2[stack[k].current] = pos[stack[k].current])
      BY <2>6, <2>8, <3>2
    <3>4. CASE k # n
      <4>1. stack'[k] = stack[k]
        BY <2>2, <3>1, <3>4
      <4> QED BY <1>5, <1>11, <3>1, <3>3, <3>4, <4>1 DEF FrameMeans
    <3>5. CASE k = n
      <4>1. stack'[k].open = stack[k].open /\ stack'[k].node = stack[k].node
        BY <2>2, <3>5
      <4>2. stack'[k].head # Null =>
              pos2[stack'[k].head] = Behind(text, pos[stack[k].node].at, stack[k].open, k)
        <5>1. CASE c = Null
          BY <2>2, <2>3, <2>6, <2>11, <3>5, <5>1
        <5>2. CASE c # Null
          BY <2>2, <2>3, <3>1, <3>3, <3>5, <5>2 DEF FrameMeans
        <5> QED BY <5>1, <5>2
      <4>3. pos2[stack'[k].current] = Behind(text, sep[k], stack[k].open, k)
        BY <2>2, <2>6, <3>5
      <4> HIDE DEF c, element
      <4> QED BY <1>11, <3>1, <3>3, <4>1, <4>2, <4>3 DEF FrameMeans
    <3> QED BY <3>4, <3>5
  <2>15. PlaceMeans(pos2, sep)'
    <3>1. pos2[Item'].at = Element(text, sep[n], stack[n].open)
      <4>1. element.at = Element(text, sep[n], stack[n].open)
        BY DEF Behind
      <4> QED BY <2>6, <2>7, <4>1
    <3>2. stack[n].open = "[" => pos2[Item'].at = offset'
      BY <2>12, <3>1 DEF Element
    <3>3. Top' = stack'[n] /\ Len(stack') = n
      BY <2>2 DEF Top, Last
    <3>4. stack[n].open # "[" => stack[n].open = "{"
      BY <1>9 DEF Brackets
    <3> QED BY <1>11, <2>2, <2>8, <2>12, <3>2, <3>3, <3>4 DEF PlaceMeans
  <2>16. Meant(pos2, sep)'
    <3>1. pos2[root] = Document(text) /\ root # Null /\ depth = Len(stack)
      BY <1>3, <2>6, LinksLead DEF Meant
    <3> QED BY <1>5, <1>11, <2>2, <2>13, <2>14, <2>15, <3>1 DEF Meant
  <2>17. Matches'
    BY <2>16 DEF Matches
  <2>18. step' \in {"value", "name"}
    BY <2>8
  <2> HIDE DEF c, element
  <2> QED BY <1>4, <1>11, <2>17, <2>18 DEF MeaningInv
<1> QED
  BY <1>2, <1>11 DEF NextElement

\* The name of a member is read, and the colon behind it.
LEMMA ParseNameMeans == ASSUME PInv, MeaningInv, ParseName PROVE MeaningInv'
<1>1. step = "name" /\ text' = text /\ stack # <<>> /\ Item # Null
  BY DEF ParseName, PInv, StepInv, OutOfMemory
<1>2. CASE OutOfMemory
  BY <1>1, <1>2, GivesUp DEF OutOfMemory, Fails
<1>3. PICK pos, sep : Meant(pos, sep)
  BY <1>1 DEF MeaningInv, Live, Matches
<1>4. IsText(text) /\ ~oom
  BY <1>1 DEF MeaningInv
<1>5. PICK n \in DOMAIN stack : n = Len(stack) /\ Top = stack[n] /\ Item = stack[n].current
  BY <1>1, InnermostIs DEF PInv
<1>6. PICK m \in Nat \ {0} : m = Len(text)
  BY <1>4, TextIs
<1> DEFINE v == pos[Item]
           name == At(text, offset)
           colon == Token(text, offset + 1)
<1>7. stack[n].open = "{" /\ offset = Token(text, sep[n] + 1) /\ sep[n] \in 1 .. m
      /\ v = Behind(text, sep[n], "{", n)
  BY <1>1, <1>3, <1>5, <1>6 DEF Meant, PlaceMeans, FrameMeans
<1>8. v.name = name /\ v.at = Element(text, sep[n], "{")
  <2>1. LET w == Behind(text, sep[n], "{", n)
        IN  w.name = At(text, Token(text, sep[n] + 1)) /\ w.at = Element(text, sep[n], "{")
    BY DEF Behind
  <2> QED BY <1>7, <2>1
<1>9. offset \in 1 .. m
  <2>1. sep[n] \in 1 .. m
    BY <1>7
  <2>2. sep[n] + 1 \in Nat \ {0}
    BY <1>6, <2>1
  <2> QED BY <1>4, <1>6, <1>7, <2>2, TokenIs
<1>10. /\ Reads(offset, Strings) <=> name \in Strings
       /\ text[offset] = name
  BY <1>4, <1>6, <1>9, ReadsIs
<1>11. name \in Strings => /\ offset + 1 \in 1 .. m /\ SkipBlank(offset + 1) = colon
                           /\ colon \in 1 .. m
  <2> SUFFICES ASSUME name \in Strings
               PROVE  offset + 1 \in 1 .. m /\ SkipBlank(offset + 1) = colon /\ colon \in 1 .. m
    OBVIOUS
  <2>1. name # "NUL"
    BY BracketsAreNoScalars
  <2>2. offset \in 1 .. m - 1
    BY <1>4, <1>6, <2>1, TextIs
  <2>3. offset + 1 \in 1 .. m /\ offset + 1 \in Nat \ {0}
    BY <2>2
  <2> QED BY <1>4, <1>6, <2>3, SkipBlankFinds, TokenIs
<1>12. v.at = IF name \in Strings /\ At(text, colon) = ":" THEN Token(text, colon + 1) ELSE 0
  BY <1>7, <1>8 DEF Element
<1>13. IsPlace(text, v)
  <2>1. Item \in DOMAIN heap
    BY <1>1, ItemIs DEF PInv
  <2> QED BY <1>3, <2>1 DEF Meant, ItemMeans
<1>14. ASSUME v.at = 0, step' = "fail" PROVE MeaningInv'
  <2>1. At(text, v.at) = "NUL"
    BY <1>4, <1>14, TextIs
  <2>2. End(text, v) = 0
    BY <1>4, <1>13, <2>1, EndIs, BracketsAreNoScalars
  <2>3. ~Begins
    BY <1>1, <1>3, <1>4, <2>2, DeadItem
  <2> QED BY <1>1, <1>14, <2>3, GivesUp
<1>15. CASE ~Reads(offset, Strings)
  <2>1. v.at = 0
    BY <1>10, <1>12, <1>15
  <2>2. step' = "fail"
    BY <1>15 DEF ParseName, Fails
  <2> QED BY <1>14, <2>1, <2>2
<1>16. CASE Reads(offset, Strings) /\ ~OutOfMemory
  <2>1. /\ heap' = [heap EXCEPT ![Item].type = "String", ![Item].string = text[offset]]
        /\ UNCHANGED <<text, depth, stack, root, oom>>
        /\ IF Reads(colon, {":"}) THEN offset' = SkipBlank(colon + 1) /\ step' = "value"
           ELSE step' = "fail"
    <3> HIDE DEF colon
    <3>1. SkipBlank(offset + 1) = colon
      BY <1>10, <1>11, <1>16
    <3> QED BY <1>16, <3>1, Zenon DEF ParseName, Fails
  <2>2. name \in Strings /\ colon \in 1 .. m
    BY <1>10, <1>11, <1>16
  <2>3. Reads(colon, {":"}) <=> At(text, colon) = ":"
    BY <1>4, <1>6, <2>2, ReadsIs
  <2>4. CASE At(text, colon) # ":"
    BY <1>12, <1>14, <2>1, <2>3, <2>4
  <2>5. CASE At(text, colon) = ":"
    <3>1. step' = "value" /\ offset' = v.at
      <4>1. colon \in 1 .. m - 1
        BY <1>4, <1>6, <2>5, TextIs
      <4>2. colon + 1 \in 1 .. m
        BY <4>1
      <4>3. SkipBlank(colon + 1) = Token(text, colon + 1)
        BY <1>4, <1>6, <4>2, SkipBlankFinds
      <4> QED BY <1>12, <2>1, <2>2, <2>3, <2>5, <4>3
    <3>2. Item \in DOMAIN heap /\ heap[Item] \in Items /\ Item' = Item
      BY <1>1, <2>1, ItemIs DEF PInv, ParserTypeOK, Item, Top, Last
    <3>3. /\ DOMAIN heap' = DOMAIN heap
          /\ \A i \in DOMAIN heap \ {Item} : heap'[i] = heap[i]
          /\ heap'[Item] = [heap[Item] EXCEPT !.type = "String", !.string = name]
      BY <1>10, <2>1, <3>2
    <3>4. /\ heap'[Item].value = heap[Item].value /\ heap'[Item].string = name
          /\ heap'[Item].next = heap[Item].next
      BY <3>2, <3>3 DEF Items
    <3>5. \A i : /\ Open(i)' <=> Open(i)
                 /\ Growing(i)' <=> Growing(i)
                 /\ Pending(i)' <=> Pending(i)
                 /\ Pending(i) <=> i = Item
      BY <1>1, <2>1, <3>1, <3>2 DEF Open, Growing, Pending
    <3>6. ASSUME NEW i \in DOMAIN heap' PROVE ItemMeans(i, pos)'
      <4>1. ItemMeans(i, pos)
        BY <1>3, <3>3 DEF Meant
      <4>2. CASE i = Item
        BY <1>8, <2>1, <3>4, <3>5, <4>1, <4>2 DEF ItemMeans, LinksTo
      <4>3. CASE i # Item
        <5>1. heap'[i] = heap[i]
          BY <3>3, <4>3
        <5> QED BY <2>1, <3>2, <3>5, <4>1, <4>3, <5>1 DEF ItemMeans, LinksTo
      <4> QED BY <4>2, <4>3
    <3>7. ASSUME NEW k \in DOMAIN stack' PROVE FrameMeans(k, pos, sep)'
      <4>1. FrameMeans(k, pos, sep)
        BY <1>3, <2>1 DEF Meant
      <4> QED BY <1>1, <2>1, <3>1, <4>1 DEF FrameMeans
    <3>8. PlaceMeans(pos, sep)'
      BY <3>1, <3>2 DEF PlaceMeans
    <3>9. Meant(pos, sep)'
      BY <1>3, <2>1, <3>6, <3>7, <3>8 DEF Meant
    <3> QED BY <1>4, <2>1, <3>1, <3>9 DEF MeaningInv, Matches
  <2> QED BY <2>4, <2>5
<1> QED
  BY <1>2, <1>15, <1>16

\* A step that leaves the items, the calls and their meaning alone.
LEMMA SameMeaning ==
  ASSUME NEW pos, NEW sep, NEW s, Meant(pos, sep), step = "after", step' # "name",
         step' \notin {"begin", "value"}, UNCHANGED <<text, depth, stack, root, heap>>,
         \A k \in DOMAIN stack : FrameMeans(k, pos, s)', PlaceMeans(pos, s)'
  PROVE  Matches'
<1>1. \A i : /\ Open(i)' <=> Open(i)
             /\ Growing(i)' <=> Growing(i)
             /\ ~Pending(i)' /\ ~Pending(i)
  BY DEF Open, Growing, Pending
<1>2. ASSUME NEW i \in DOMAIN heap' PROVE ItemMeans(i, pos)'
  <2>1. ItemMeans(i, pos)
    BY DEF Meant
  <2> QED BY <1>1, <2>1 DEF ItemMeans, LinksTo
<1>3. Meant(pos, s)'
  BY <1>2 DEF Meant
<1> QED
  BY <1>3 DEF Matches

\* A value has been parsed: the list goes on or ends, or the document does.
LEMMA AfterValueMeans == ASSUME PInv, MeaningInv, AfterValue PROVE MeaningInv'
<1>1. step = "after" /\ Item # Null /\ UNCHANGED <<text, root, oom>>
  BY DEF AfterValue, PInv, StepInv
<1>2. PICK pos, sep : Meant(pos, sep)
  BY <1>1 DEF MeaningInv, Live, Matches
<1>3. IsText(text) /\ ~oom
  BY <1>1 DEF MeaningInv
<1>4. PICK m \in Nat \ {0} : m = Len(text)
  BY <1>3, TextIs
<1> DEFINE v == pos[Item]
           p == SkipBlank(offset)
<1>5. Item \in DOMAIN heap /\ IsPlace(text, v)
  <2>1. Item \in DOMAIN heap
    BY <1>1, ItemIs DEF PInv
  <2> QED BY <1>2, <2>1 DEF Meant, ItemMeans
<1>6. offset = End(text, v) /\ offset \in 1 .. m /\ End(text, v) # 0
  <2>1. offset = End(text, v) /\ offset \in Nat \ {0}
    BY <1>1, <1>2, ParserTypes DEF Meant, PlaceMeans, PInv
  <2>2. offset <= m
    BY <1>3, <1>4, <1>5, <2>1, EndIs DEF Ahead
  <2> QED BY <1>4, <2>1, <2>2
<1>7. p = Token(text, offset) /\ p \in 1 .. m
  <2>1. p = Token(text, offset)
    BY <1>3, <1>4, <1>6, SkipBlankFinds
  <2>2. offset \in Nat \ {0}
    BY <1>4, <1>6
  <2> HIDE DEF p
  <2> QED BY <1>3, <1>4, <2>1, <2>2, TokenIs
<1> HIDE DEF p
<1>8. \A S : Reads(p, S) <=> At(text, p) \in S
  BY <1>3, <1>4, <1>7, ReadsIs
<1>9. CASE stack = <<>>
  <2>1. step' = "parsed" /\ UNCHANGED <<offset, depth, stack, heap>>
    BY <1>9 DEF AfterValue
  <2>2. DOMAIN stack = {}
    BY <1>9
  <2>3. Matches'
    BY <1>1, <1>2, <2>1, <2>2, SameMeaning DEF PlaceMeans
  <2>4. Begins' /\ root' # Null
    BY <1>1, <1>2, <1>6, <1>9 DEF Meant, Item, Begins
  <2> QED BY <1>1, <1>3, <2>1, <2>3, <2>4 DEF MeaningInv
<1>10. ASSUME stack # <<>> PROVE MeaningInv'
  <2>1. PICK n \in DOMAIN stack : n = Len(stack) /\ n \in Nat \ {0} /\ Top = stack[n]
                                  /\ Item = stack[n].current /\ DOMAIN stack = 1 .. n
    BY <1>10, InnermostIs DEF PInv
  <2> DEFINE open == stack[n].open
  <2>2. open \in Brackets /\ n \in Nesting /\ depth = n
    BY <1>2, <2>1, FrameIs DEF PInv, Meant
  <2>3. FrameMeans(n, pos, sep) /\ FrameInv(n)
    BY <1>2 DEF Meant, PInv, HeapInv
  <2>4. v = Behind(text, sep[n], open, n) /\ sep[n] \in 1 .. Len(text)
    BY <1>1, <2>1, <2>3 DEF FrameMeans
  <2>5. /\ IsText(text) /\ sep[n] \in 1 .. Len(text) /\ open \in Brackets /\ n \in Nesting
        /\ v = Behind(text, sep[n], open, n) /\ End(text, v) # 0
    BY <1>3, <1>6, <2>2, <2>4
  <2>6. LET end == ListEnd(text)[sep[n]][open][n]
        IN  /\ At(text, p) = Comma => end = ListEnd(text)[p][open][n]
            /\ At(text, p) = Closing(open) => end = p + 1
            /\ At(text, p) \notin {Comma, Closing(open)} => end = 0
    <3>1. p = Token(text, End(text, v))
      BY <1>6, <1>7
    <3> HIDE DEF v, open
    <3> QED BY <2>5, <3>1, ListGoesOn
  <2>7. NextTo(text, v) = IF At(text, p) # Comma THEN {} ELSE {Behind(text, p, open, n)}
    <3> HIDE DEF v, open
    <3>1. v.depth = n
      <4>1. Behind(text, sep[n], open, n).depth = n
        BY <2>5, BehindIs
      <4> QED BY <2>5, <4>1
    <3>2. Nameless(v) <=> open = "["
      BY <2>5, MemberNamed
    <3>3. v.depth # 0 /\ (IF Nameless(v) THEN "[" ELSE "{") = open
      BY <2>1, <2>5, <3>1, <3>2 DEF Brackets
    <3>4. Token(text, End(text, v)) = p
      BY <1>6, <1>7
    <3>5. NextTo(text, v) =
            IF v.depth = 0 \/ At(text, Token(text, End(text, v))) # Comma THEN {}
            ELSE {Behind(text, Token(text, End(text, v)), IF Nameless(v) THEN "[" ELSE "{", v.depth)}
      BY Zenon DEF NextTo, Nameless, Comma
    <3> QED BY <3>1, <3>3, <3>4, <3>5
  <2>8. Closing(open) # Comma
    BY ClosingIs, Zenon DEF Comma
  <2>9. CASE At(text, p) = Comma
    <3>1. offset' = p /\ step' = "element" /\ UNCHANGED <<depth, stack, heap>>
      BY <1>8, <1>10, <2>1, <2>8, <2>9 DEF AfterValue, ListEnds, Comma, p
    <3>2. PICK s : s[n] = p /\ \A k \in DOMAIN stack \ {n} : s[k] = sep[k]
      <4> DEFINE r == [k \in DOMAIN stack |-> IF k = n THEN p ELSE sep[k]]
      <4>1. r[n] = p /\ \A k \in DOMAIN stack \ {n} : r[k] = sep[k]
        OBVIOUS
      <4> QED BY <4>1
    <3>3. ASSUME NEW k \in DOMAIN stack PROVE FrameMeans(k, pos, s)'
      <4>1. FrameMeans(k, pos, sep)
        BY <1>2 DEF Meant
      <4>2. CASE k # n
        <5>1. s[k] = sep[k] /\ k # Len(stack)
          BY <2>1, <3>2, <4>2
        <5> QED BY <1>1, <3>1, <4>1, <5>1 DEF FrameMeans
      <4>3. CASE k = n
        <5>1. s[k] \in 1 .. Len(text) /\ s[k] = p
          BY <1>4, <1>7, <3>2, <4>3
        <5>2. NextTo(text, pos[stack[k].current]) = {Behind(text, s[k], stack[k].open, k)}
          BY <2>1, <2>7, <2>9, <4>3, <5>1
        <5>3. ListEnd(text)[sep[k]][stack[k].open][k] = ListEnd(text)[s[k]][stack[k].open][k]
          BY <2>6, <2>9, <4>3, <5>1
        <5>4. k = Len(stack) /\ stack[k].current # Null
          BY <1>1, <2>1, <4>3
        <5> HIDE DEF v, open
        <5> QED BY <1>1, <3>1, <4>1, <5>1, <5>2, <5>3, <5>4 DEF FrameMeans
      <4> QED BY <4>2, <4>3
    <3>4. PlaceMeans(pos, s)'
      <4>1. p \in 1 .. m - 1
        <5>1. At(text, p) # "NUL"
          <6>1. Comma # "NUL"
            BY Zenon DEF Comma
          <6> QED BY <2>9, <6>1
        <5> QED BY <1>3, <1>4, <5>1, TextIs
      <4>2. p < Len(text)
        BY <1>4, <4>1
      <4>3. Len(stack') = n /\ s[n] = p
        BY <2>1, <3>1, <3>2
      <4> QED BY <1>1, <3>1, <4>2, <4>3 DEF PlaceMeans
    <3>5. Matches'
      BY <1>1, <1>2, <3>1, <3>3, <3>4, SameMeaning
    <3> QED BY <1>1, <1>3, <3>1, <3>5 DEF MeaningInv
  <2>10. CASE At(text, p) # Comma /\ At(text, p) # Closing(open)
    <3>1. step' = "fail"
      BY <1>8, <1>10, <2>1, <2>10 DEF AfterValue, ListEnds, Fails, Comma, p
    <3>2. ListEnd(text)[sep[n]][stack[n].open][n] = 0
      BY <2>6, <2>10
    <3>3. ~Begins
      BY <1>2, <1>3, <2>1, <3>2, DeadEnd
    <3> QED BY <1>1, <3>1, <3>3, GivesUp
  <2>11. CASE At(text, p) = Closing(open)
    <3>1. Close(stack[n], p) /\ depth' = depth - 1 /\ stack' = Front(stack)
      BY <1>8, <1>10, <2>1, <2>8, <2>11 DEF AfterValue, ListEnds, Ascended, Comma, p
    <3>0. PICK node : node = stack[n].node
      OBVIOUS
    <3>2. /\ Len(stack') = n - 1 /\ DOMAIN stack' = DOMAIN stack \ {n}
          /\ \A k \in DOMAIN stack' : stack'[k] = stack[k]
      BY <2>1, <3>1, CallReturns DEF PInv
    <3>3. /\ step' = "after" /\ offset' = p + 1
          /\ heap' = [heap EXCEPT ![node].type = IF open = "[" THEN "Array" ELSE "Object",
                                  ![node].child = stack[n].head]
      BY <3>0, <3>1 DEF Close
    <3>4. /\ node \in DOMAIN heap /\ node # Item /\ node # Null
          /\ stack[n].head # Null /\ heap[Item].next = Null
          /\ node = (IF n = 1 THEN root ELSE stack[n - 1].current)
          /\ stack[n].head \in DOMAIN heap
      BY <1>1, <2>1, <2>3, <3>0, ItemNotOpen, LinksLead DEF FrameInv, Open
    <3>5. /\ DOMAIN heap' = DOMAIN heap
          /\ \A i \in DOMAIN heap \ {node} : heap'[i] = heap[i]
          /\ heap'[node].type = IF open = "[" THEN "Array" ELSE "Object"
          /\ heap'[node].child = stack[n].head
          /\ heap'[node].next = heap[node].next /\ heap'[node].value = heap[node].value
          /\ heap'[node].string = heap[node].string
      <4>1. heap[node] \in Items
        BY <3>4 DEF PInv, ParserTypeOK
      <4>2. heap' = [heap EXCEPT ![node] = [heap[node] EXCEPT
                       !.type = IF open = "[" THEN "Array" ELSE "Object", !.child = stack[n].head]]
        BY <3>3, <3>4
      <4> HIDE DEF open
      <4> QED BY <3>4, <4>1, <4>2 DEF Items
    <3>6. Item' = node
      <4>1. CASE n = 1
        <5>1. stack' = <<>>
          BY <2>1, <3>1, <3>2, <4>1, EmptySeq, CallReturns DEF PInv
        <5> QED BY <1>1, <3>4, <4>1, <5>1 DEF Item
      <4>2. CASE n # 1
        <5>1. n - 1 \in DOMAIN stack' /\ stack' # <<>>
          BY <2>1, <3>2, <4>2
        <5>2. Item' = stack'[n - 1].current
          BY <3>2, <5>1 DEF Item, Top, Last
        <5> QED BY <3>2, <3>4, <4>2, <5>1, <5>2
      <4> QED BY <4>1, <4>2
    <3>7. \A i : ~Pending(i)' /\ ~Pending(i)
      BY <1>1, <3>3 DEF Pending
    <3>8. ASSUME NEW i \in DOMAIN heap
          PROVE  /\ i # node => (Open(i)' <=> Open(i))
                 /\ i # Item => (Growing(i)' <=> Growing(i))
                 /\ ~Open(node)' /\ Open(node)
      <4>1. \A k \in DOMAIN stack : k # n => stack[k].node # node
        BY <2>1, <3>0, NodesApart DEF PInv
      <4> QED BY <2>1, <3>0, <3>2, <4>1 DEF Open, Growing
    <3>9. ASSUME NEW i \in DOMAIN heap' PROVE ItemMeans(i, pos)'
      <4>1. ItemMeans(i, pos) /\ i \in DOMAIN heap
        BY <1>2, <3>5 DEF Meant
      <4>2. IsPlace(text, pos[i]) /\ heap[i].string = pos[i].name
        BY <1>1, <4>1 DEF ItemMeans
      <4>3. CASE i = node
        <5>1. heap[i].value = "" /\ (Growing(i) \/ LinksTo(heap[i].next, NextTo(text, pos[i]), pos))
          BY <3>8, <4>1, <4>3 DEF ItemMeans
        <5>2. /\ At(text, pos[i].at) = open
              /\ FirstIn(text, pos[i]) = {pos[stack[n].head]}
          BY <2>3, <3>0, <3>4, <4>3 DEF FrameMeans
        <5>3. TypeIs(text, pos[i]) = IF open = "[" THEN "Array" ELSE "Object"
          BY <2>2, <5>2, BracketsAreNoScalars DEF TypeIs, Brackets
        <5>4. ValueIs(text, pos[i]) = ""
          BY <2>2, <5>2, BracketsAreNoScalars DEF ValueIs
        <5>5. LinksTo(heap'[i].child, FirstIn(text, pos[i]), pos)
          BY <3>4, <3>5, <4>3, <5>2 DEF LinksTo
        <5>6. heap'[i].type = TypeIs(text, pos[i]) /\ heap'[i].value = ValueIs(text, pos[i])
          BY <3>5, <4>3, <5>1, <5>3, <5>4
        <5>7. Growing(i)' \/ LinksTo(heap'[i].next, NextTo(text, pos[i]), pos)
          BY <3>4, <3>5, <3>8, <4>1, <4>3, <5>1
        <5>8. ~Open(i)' /\ heap'[i].string = pos[i].name
          BY <3>5, <3>8, <4>1, <4>2, <4>3
        <5> HIDE DEF open
        <5> QED BY <1>1, <3>7, <4>2, <5>5, <5>6, <5>7, <5>8 DEF ItemMeans
      <4>4. CASE i # node
        <5>1. heap'[i] = heap[i] /\ (Open(i)' <=> Open(i))
          BY <3>5, <3>8, <4>1, <4>4
        <5>2. Growing(i)' \/ LinksTo(heap[i].next, NextTo(text, pos[i]), pos)
          <6>1. CASE i = Item
            BY <2>7, <2>8, <2>11, <3>4, <6>1 DEF LinksTo
          <6>2. CASE i # Item
            BY <3>8, <4>1, <6>2 DEF ItemMeans
          <6> QED BY <6>1, <6>2
        <5> HIDE DEF open
        <5> QED BY <1>1, <3>7, <4>1, <4>2, <5>1, <5>2 DEF ItemMeans
      <4> QED BY <4>3, <4>4
    <3>10. ASSUME NEW k \in DOMAIN stack' PROVE FrameMeans(k, pos, sep)'
      <4>1. FrameMeans(k, pos, sep) /\ stack'[k] = stack[k] /\ k # n
        BY <1>2, <3>2 DEF Meant
      <4> QED BY <1>1, <2>1, <3>3, <4>1 DEF FrameMeans
    <3>11. PlaceMeans(pos, sep)'
      <4>1. End(text, pos[node]) = p + 1
        BY <2>3, <2>6, <2>8, <2>11, <3>0 DEF FrameMeans
      <4> QED BY <1>1, <3>3, <3>6, <4>1 DEF PlaceMeans
    <3>12. Meant(pos, sep)'
      <4>1. depth' = Len(stack')
        BY <2>1, <2>2, <3>1, <3>2
      <4> QED BY <1>1, <1>2, <3>9, <3>10, <3>11, <4>1 DEF Meant
    <3>13. Matches'
      BY <3>12 DEF Matches
    <3> HIDE DEF open
    <3> QED BY <1>1, <1>3, <3>3, <3>13 DEF MeaningInv
  <2> QED BY <2>9, <2>10, <2>11
<1> QED
  BY <1>9, <1>10

\* A call that fails is followed by the failure of its caller, up to the root.
LEMMA UnwindMeans == ASSUME PInv, MeaningInv, Unwind PROVE MeaningInv'
<1>1. step = "fail" /\ UNCHANGED <<text, oom>>
  BY DEF Unwind
<1>2. oom \/ ~Begins
  BY <1>1 DEF MeaningInv
<1>3. CASE stack # <<>>
  BY <1>1, <1>2, <1>3, GivesUp DEF Unwind
<1>4. CASE stack = <<>>
  <2>1. root' = Null /\ step' = "parsed"
    BY <1>4 DEF Unwind
  <2>2. ~Live'
    BY <2>1 DEF Live
  <2>3. IsText(text)'
    BY <1>1 DEF MeaningInv
  <2>4. oom' \/ ~Begins'
    BY <1>1, <1>2 DEF Begins
  <2> QED BY <2>1, <2>2, <2>3, <2>4 DEF MeaningInv
<1> QED
  BY <1>3, <1>4

\* Any step of the parser.
LEMMA ParseMeans == ASSUME PInv, MeaningInv, Parse PROVE MeaningInv'
BY SkipToValueMeans, ScalarMeans, OpenListMeans, NextElementMeans, ParseNameMeans,
   AfterValueMeans, UnwindMeans DEF Parse

\* Where the parser does nothing, the items stand for what they did.
LEMMA MeaningKept == ASSUME MeaningInv, UNCHANGED parserVars PROVE MeaningInv'
<1>1. UNCHANGED <<text, offset, depth, stack, root, heap, step, oom>>
  BY DEF parserVars
<1>2. ASSUME NEW pos, NEW sep, Meant(pos, sep) PROVE Meant(pos, sep)'
  <2>1. \A i : /\ Open(i)' <=> Open(i)
               /\ Growing(i)' <=> Growing(i)
               /\ Pending(i)' <=> Pending(i)
    BY <1>1 DEF Open, Growing, Pending, Item, Top, Last
  <2>2. Item' = Item /\ Top' = Top
    BY <1>1 DEF Item, Top, Last
  <2>3. ASSUME NEW i \in DOMAIN heap' PROVE ItemMeans(i, pos)'
    <3>1. ItemMeans(i, pos)
      BY <1>1, <1>2 DEF Meant
    <3> QED BY <1>1, <2>1, <2>2, <3>1 DEF ItemMeans, LinksTo
  <2>4. ASSUME NEW k \in DOMAIN stack' PROVE FrameMeans(k, pos, sep)'
    <3>1. FrameMeans(k, pos, sep)
      BY <1>1, <1>2 DEF Meant
    <3> QED BY <1>1, <3>1 DEF FrameMeans
  <2>5. PlaceMeans(pos, sep)'
    BY <1>1, <1>2, <2>2 DEF Meant, PlaceMeans
  <2> QED BY <1>1, <1>2, <2>3, <2>4, <2>5 DEF Meant
<1>3. Matches => Matches'
  BY <1>2 DEF Matches
<1>4. (Live' <=> Live) /\ (Begins' <=> Begins)
  BY <1>1 DEF Live, Begins
<1> QED
  BY <1>1, <1>3, <1>4 DEF MeaningInv

\* The root is what the document is parsed into.
LEMMA ReadAllMeans == ASSUME IInv, ReadAll PROVE MeaningInv'
<1>1. FileInv /\ ReadInv /\ ParserTypeOK /\ HeapInv /\ StepInv
  BY TypeOKIs DEF IInv
<1>2. PICK t : t = Append(ReadTo(size), "NUL")
  OBVIOUS
<1>3. ParseBegin(t) /\ IsText(t) /\ text' = t
  BY <1>1, <1>2, TextRead DEF ReadAll, ParseBegin
<1>4. /\ step = "idle" /\ stack = <<>> /\ root = Null /\ stack' = <<>> /\ depth' = 0
  BY <1>1, <1>3 DEF ParseBegin, StepInv
<1>5. IsText(text)'
  BY <1>3
<1>6. CASE root' = Null /\ step' = "parsed" /\ oom' = TRUE
  <2>1. ~Live'
    BY <1>6 DEF Live
  <2> QED BY <1>5, <1>6, <2>1 DEF MeaningInv
<1>7. CASE /\ HasRoom(heap) /\ root' = NewId(heap) /\ heap' = WithNew(heap)
           /\ step' = "begin" /\ oom' = FALSE
  <2>1. /\ Forest(heap, Hands) /\ DOMAIN heap \subseteq Ids /\ Hands = {}
    BY <1>1, <1>4, ParserTypes DEF HeapInv, Hands
  <2>2. DOMAIN heap = {}
    BY <2>1, ForestEmpty
  <2>3. /\ root' # Null /\ DOMAIN heap' = {root'} /\ heap'[root'] = NewItem
    <3>1. /\ NewId(heap) \in Ids /\ DOMAIN WithNew(heap) = DOMAIN heap \cup {NewId(heap)}
          /\ WithNew(heap)[NewId(heap)] = NewItem
      BY <1>7, <2>1, ForestNew
    <3> QED BY <1>1, <1>7, <2>2, <3>1, ParserTypes
  <2>0. PICK r : r = root'
    OBVIOUS
  <2> DEFINE d == Document(t)
  <2>4. IsPlace(t, d) /\ d.depth = 0
    BY <1>3, DocumentIs
  <2>5. d.name = "" /\ NewItem.value = "" /\ NewItem.string = "" /\ NewItem.next = Null
    BY DEF Document, NewItem
  <2>6. NextTo(t, d) = {}
    BY <2>4 DEF NextTo
  <2> HIDE DEF d
  <2>7. PICK pos : pos = [i \in {r} |-> d]
    OBVIOUS
  <2>8. pos[r] = d
    BY <2>7
  <2>9. Item' = r /\ Pending(r)'
    BY <1>4, <1>7, <2>0 DEF Item, Pending
  <2>10. ASSUME NEW i \in DOMAIN heap' PROVE ItemMeans(i, pos)'
    <3>1. i = r /\ heap'[i] = NewItem
      BY <2>0, <2>3
    <3>2. LinksTo(heap'[i].next, NextTo(t, pos[i]), pos)
      BY <2>5, <2>6, <2>8, <3>1 DEF LinksTo
    <3> QED BY <1>3, <1>7, <2>4, <2>5, <2>8, <2>9, <3>1, <3>2 DEF ItemMeans
  <2>11. PICK sep : sep = <<>>
    OBVIOUS
  <2>12. \A k \in DOMAIN stack' : FrameMeans(k, pos, sep)'
    <3>1. DOMAIN stack' = {}
      BY <1>4
    <3> QED BY <3>1
  <2>13. PlaceMeans(pos, sep)'
    BY <1>7 DEF PlaceMeans
  <2>14. depth' = Len(stack')
    BY <1>4
  <2>15. Meant(pos, sep)'
    BY <1>3, <2>0, <2>3, <2>8, <2>10, <2>12, <2>13, <2>14 DEF Meant, d
  <2> QED BY <1>5, <1>7, <2>15 DEF MeaningInv, Matches
<1> QED
  BY <1>3, <1>6, <1>7 DEF ParseBegin

\* Any step of the system.
LEMMA MeaningStep == ASSUME IInv, MeaningInv, [Next]_vars PROVE MeaningInv'
<1>1. PInv
  BY TypeOKIs DEF IInv, PInv
<1>2. CASE ParserStep
  BY <1>1, <1>2, ParseMeans DEF ParserStep
<1>3. CASE ReadAll
  BY <1>3, ReadAllMeans
<1>4. CASE ParseFailed \/ Return
  <2>1. step' = "idle" /\ oom' = FALSE
    BY <1>4 DEF ParseFailed, Return, ParserDone
  <2>2. ~Live'
    BY <2>1 DEF Live
  <2> QED BY <2>1, <2>2 DEF MeaningInv
<1>5. CASE UNCHANGED parserVars
  BY <1>5, MeaningKept
<1> QED
  BY <1>2, <1>3, <1>4, <1>5
     DEF Next, Load, Edit, Replace, Truncate, WriteOn, TakeSize, ReadSome, ReadShort,
         ParseSucceeded, LoadPi, LoadStm, vars

-----------------------------------------------------------------------------
(* THE DOCUMENT THAT IS RETURNED                                           *)

\* When parsing has come to its end, every item is what it stands for.
Stands(pos) ==
  /\ root \in DOMAIN heap /\ pos[root] = Document(text)
  /\ \A i \in DOMAIN heap : /\ IsPlace(text, pos[i])
                            /\ Shows(i, pos[i])
                            /\ LinksTo(heap[i].child, FirstIn(text, pos[i]), pos)
                            /\ LinksTo(heap[i].next, NextTo(text, pos[i]), pos)

\* A document that is returned stands for what begins the text.
LEMMA ParsedStands ==
  ASSUME PInv, MeaningInv, step = "parsed", root # Null
  PROVE  /\ ~oom /\ Begins /\ IsText(text)
         /\ \E pos : Stands(pos)
<1>1. ~oom /\ Begins /\ IsText(text)
  BY DEF MeaningInv
<1>2. PICK pos, sep : Meant(pos, sep)
  BY DEF MeaningInv, Live, Matches
<1>3. DOMAIN stack = {}
  BY DEF PInv, StepInv
<1>4. \A i : ~Open(i) /\ ~Growing(i) /\ ~Pending(i)
  BY <1>3 DEF Open, Growing, Pending
<1>5. ASSUME NEW i \in DOMAIN heap
      PROVE  /\ IsPlace(text, pos[i])
             /\ Shows(i, pos[i])
             /\ LinksTo(heap[i].child, FirstIn(text, pos[i]), pos)
             /\ LinksTo(heap[i].next, NextTo(text, pos[i]), pos)
  <2>1. ItemMeans(i, pos)
    BY <1>2 DEF Meant
  <2>2. /\ IsPlace(text, pos[i]) /\ heap[i].string = pos[i].name
        /\ heap[i].type = TypeIs(text, pos[i])
        /\ heap[i].value = ValueIs(text, pos[i])
        /\ LinksTo(heap[i].child, FirstIn(text, pos[i]), pos)
        /\ LinksTo(heap[i].next, NextTo(text, pos[i]), pos)
    BY <1>4, <2>1 DEF ItemMeans
  <2>3. (heap[i].child = Null <=> FirstIn(text, pos[i]) = {})
        /\ (heap[i].next = Null <=> NextTo(text, pos[i]) = {})
    BY <2>2 DEF LinksTo
  <2> QED BY <2>2, <2>3 DEF Shows
<1>6. root \in DOMAIN heap /\ pos[root] = Document(text)
  BY <1>2, LinksLead DEF Meant
<1> QED
  BY <1>1, <1>5, <1>6 DEF Stands

\* Whatever is found on the way from the root is what the item stands for.
LEMMA WalkStands ==
  ASSUME PInv, NEW pos, Stands(pos)
  PROVE  \A p \in Walk : Shows(p[1], p[2])
<1> DEFINE P == {<<i, pos[i]>> : i \in DOMAIN heap}
           Further(S) == S \cup UNION {Onward(p) : p \in S}
           start == {<<root, Document(text)>>}
           W == CHOOSE w : w = [n \in 0 .. MaxItems |-> IF n = 0 THEN start ELSE Further(w[n - 1])]
<1>1. Walk = W[MaxItems] /\ MaxItems \in Nat
  BY MaxItemsAssumption DEF Walk
<1>2. ASSUME NEW p \in P PROVE Onward(p) \subseteq P
  <2>1. PICK i \in DOMAIN heap : p = <<i, pos[i]>>
    OBVIOUS
  <2>2. p[1] = i /\ p[2] = pos[i]
    BY <2>1
  <2>3. /\ LinksTo(heap[i].child, FirstIn(text, pos[i]), pos)
        /\ LinksTo(heap[i].next, NextTo(text, pos[i]), pos)
        /\ heap[i].child \in DOMAIN heap \cup {Null}
        /\ heap[i].next \in DOMAIN heap \cup {Null}
    BY LinksLead DEF Stands
  <2>4. ASSUME NEW v \in FirstIn(text, pos[i]) PROVE <<heap[i].child, v>> \in P
    BY <2>3, <2>4 DEF LinksTo
  <2>5. ASSUME NEW v \in NextTo(text, pos[i]) PROVE <<heap[i].next, v>> \in P
    BY <2>3, <2>5 DEF LinksTo
  <2> HIDE DEF P
  <2> QED BY <2>2, <2>4, <2>5 DEF Onward
<1>3. start \in SUBSET P
  BY DEF Stands
<1>4. ASSUME NEW S \in SUBSET P PROVE Further(S) \in SUBSET P
  <2> HIDE DEF P
  <2> QED BY <1>2
<1> HIDE DEF P, Further, start
<1>5. PICK f \in [0 .. MaxItems -> SUBSET P] :
        f = [n \in 0 .. MaxItems |-> IF n = 0 THEN start ELSE Further(f[n - 1])]
  <2> DEFINE s == [n \in 1 .. MaxItems |-> [S \in SUBSET P |-> Further(S)]]
  <2>1. s \in [1 .. MaxItems -> [SUBSET P -> SUBSET P]]
    BY <1>4
  <2>2. \A n \in 1 .. MaxItems, S \in SUBSET P : s[n][S] = Further(S)
    OBVIOUS
  <2> HIDE DEF s
  <2>3. PICK f \in [0 .. MaxItems -> SUBSET P] : Goes(f, MaxItems, start, s)
    BY <1>1, <1>3, <2>1, Recursion, Zenon
  <2>4. ASSUME NEW n \in 0 .. MaxItems
        PROVE  f[n] = IF n = 0 THEN start ELSE Further(f[n - 1])
    <3>1. CASE n = 0
      BY <2>3, <3>1 DEF Goes
    <3>2. CASE n # 0
      <4>1. n \in 1 .. MaxItems /\ n - 1 \in 0 .. MaxItems
        BY <1>1, <3>2
      <4> QED BY <2>2, <2>3, <3>2, <4>1 DEF Goes
    <3> QED BY <3>1, <3>2
  <2> QED BY <2>3, <2>4
<1>6. W = [n \in 0 .. MaxItems |-> IF n = 0 THEN start ELSE Further(W[n - 1])]
  BY <1>5
<1> HIDE DEF W
<1> DEFINE T == {n \in Nat : n <= MaxItems => W[n] \in SUBSET P}
<1>7. 0 \in T
  BY <1>1, <1>3, <1>6
<1>8. ASSUME NEW n \in Nat, n \in T PROVE n + 1 \in T
  <2> SUFFICES ASSUME n + 1 <= MaxItems PROVE W[n + 1] \in SUBSET P
    OBVIOUS
  <2>1. n + 1 \in 0 .. MaxItems /\ n + 1 # 0 /\ (n + 1) - 1 = n
    BY <1>1
  <2>2. W[n + 1] = Further(W[n])
    BY <1>6, <2>1
  <2>3. W[n] \in SUBSET P
    BY <1>1, <1>8, <2>1
  <2> QED BY <1>4, <2>2, <2>3
<1> HIDE DEF T
<1>9. Nat \subseteq T
  BY <1>7, <1>8, SetInduction
<1>10. Walk \in SUBSET P
  BY <1>1, <1>9 DEF T
<1>11. ASSUME NEW p \in P PROVE Shows(p[1], p[2])
  BY DEF P, Stands
<1> QED
  BY <1>10, <1>11

\* What the invariant says of a document that is returned.
LEMMA MeansWhatItSays == ASSUME PInv, MeaningInv PROVE ParsesTheText
<1> SUFFICES ASSUME step = "parsed"
             PROVE  \/ oom /\ root = Null
                    \/ /\ ~oom
                       /\ (root # Null) <=> (End(text, Document(text)) # 0)
                       /\ root # Null => \A p \in Walk : Shows(p[1], p[2])
  BY DEF ParsesTheText
<1>1. oom => root = Null
  BY DEF MeaningInv
<1>2. ~oom => ((root # Null) <=> (End(text, Document(text)) # 0))
  BY DEF MeaningInv, Begins
<1>3. root # Null => \A p \in Walk : Shows(p[1], p[2])
  BY ParsedStands, WalkStands
<1> QED
  BY <1>1, <1>2, <1>3

\* Nothing has been parsed at the beginning.
LEMMA MeaningInit == ASSUME Init PROVE MeaningInv
<1>1. step = "idle" /\ ~oom
  BY DEF Init, ParserIdle
<1> QED
  BY <1>1 DEF MeaningInv, Live

-----------------------------------------------------------------------------
(* MEMBERS OF A DOCUMENT                                                   *)

\* A value that stands behind a bracket or comma of a list that ends.
Ending(t, v) ==
  \E i \in 1 .. Len(t), open \in Brackets, d \in Nesting :
    v = Behind(t, i, open, d) /\ ListEnd(t)[i][open][d] # 0

\* Such a value ends, too.
LEMMA EndingIs ==
  ASSUME NEW t, IsText(t), NEW v, Ending(t, v)
  PROVE  IsPlace(t, v) /\ End(t, v) # 0
<1>1. PICK i \in 1 .. Len(t), open \in Brackets, d \in Nesting :
        v = Behind(t, i, open, d) /\ ListEnd(t)[i][open][d] # 0
  BY DEF Ending
<1>2. IsPlace(t, Behind(t, i, open, d))
  BY BehindIs, Zenon
<1>3. End(t, Behind(t, i, open, d)) # 0
  BY <1>1, NoElement
<1> QED
  BY <1>1, <1>2, <1>3

\* The first value of a list that ends.
LEMMA FirstEnds ==
  ASSUME NEW t, IsText(t), NEW v, IsPlace(t, v), End(t, v) # 0, NEW w \in FirstIn(t, v)
  PROVE  Ending(t, w) /\ (Nameless(w) <=> TypeIs(t, v) # "Object")
<1> PICK open : open = At(t, v.at)
  OBVIOUS
<1>1. /\ open \in Brackets /\ At(t, Token(t, v.at + 1)) # Closing(open)
      /\ w = Behind(t, v.at, open, v.depth + 1)
  BY Zenon DEF FirstIn
<1>2. v.at \in 1 .. Len(t)
  <2>1. open # "NUL"
    BY <1>1 DEF Brackets
  <2> QED BY <2>1, TextIs
<1>3. v.depth < CJSON_NESTING_LIMIT /\ v.depth + 1 \in Nesting
  <2>1. ~(v.depth >= CJSON_NESTING_LIMIT)
    BY <1>1, EndIs
  <2> QED BY <2>1, NestingIs DEF IsPlace
<1>4. End(t, v) = ListEnd(t)[v.at][open][v.depth + 1]
  BY <1>1, <1>3, EndIs, Zenon
<1>5. Ending(t, w)
  BY <1>1, <1>2, <1>3, <1>4 DEF Ending
<1>6. Nameless(w) <=> open = "["
  <2>1. End(t, w) # 0
    BY <1>5, EndingIs
  <2> QED BY <1>1, <1>2, <1>3, <2>1, MemberNamed
<1>7. TypeIs(t, v) = IF open = "[" THEN "Array" ELSE "Object"
  <2>1. open \notin DOMAIN Literal /\ open \notin Strings /\ open \notin Numbers
    BY <1>1, BracketsAreNoScalars
  <2> QED BY <1>1, <2>1 DEF TypeIs, Brackets
<1> QED
  BY <1>5, <1>6, <1>7

\* A list goes on behind a value.
LEMMA NextIs ==
  ASSUME NEW t, IsText(t), NEW v, IsPlace(t, v), End(t, v) # 0, NEW w \in NextTo(t, v),
         NEW p, p = Token(t, End(t, v))
  PROVE  /\ v.depth # 0 /\ At(t, p) = Comma /\ p \in 1 .. Len(t) /\ v.at < p
         /\ \E open \in Brackets : (open = "[" <=> Nameless(v)) /\ w = Behind(t, p, open, v.depth)
<1>1. v.depth # 0 /\ At(t, p) = Comma
  BY Zenon DEF NextTo, Comma
<1>2. w = Behind(t, p, IF v.name = "" THEN "[" ELSE "{", v.depth)
  BY Zenon DEF NextTo
<1>3. \E open \in Brackets : (open = "[" <=> Nameless(v)) /\ w = Behind(t, p, open, v.depth)
  <2>1. CASE Nameless(v)
    BY <1>2, <2>1, Zenon DEF Nameless, Brackets
  <2>2. CASE ~Nameless(v)
    <3>1. w = Behind(t, p, "{", v.depth)
      BY <1>2, <2>2, Zenon DEF Nameless
    <3>2. "{" \in Brackets /\ "{" # "["
      BY DEF Brackets
    <3> QED BY <2>2, <3>1, <3>2
  <2> QED BY <2>1, <2>2
<1>4. v.at \in Nat /\ End(t, v) \in Nat /\ v.at < End(t, v)
  BY EndIs DEF Ahead, IsPlace
<1>5. End(t, v) \in Nat \ {0}
  BY <1>4
<1>6. p \in 1 .. Len(t) /\ (At(t, p) # "NUL" => End(t, v) <= p)
  BY <1>5, TokenIs
<1>7. At(t, p) # "NUL"
  BY <1>1, Zenon DEF Comma
<1> QED
  BY <1>1, <1>3, <1>4, <1>6, <1>7

\* The value next to another comes later in the text.
LEMMA NextAhead ==
  ASSUME NEW t, IsText(t), NEW v, IsPlace(t, v), End(t, v) # 0,
         NEW w \in NextTo(t, v), IsPlace(t, w), End(t, w) # 0
  PROVE  v.at < w.at
<1> PICK p : p = Token(t, End(t, v))
  OBVIOUS
<1>1. p \in 1 .. Len(t) /\ v.at < p
  BY NextIs
<1>2. PICK open \in Brackets : w = Behind(t, p, open, v.depth)
  BY NextIs
<1>3. w.at = Element(t, p, open)
  BY <1>2 DEF Behind
<1>4. At(t, w.at) # "NUL"
  BY EndIs, BracketsAreNoScalars
<1>5. p < w.at
  BY <1>1, <1>3, <1>4, ElementIs
<1> QED
  BY <1>1, <1>5, TextIs DEF IsPlace

\* The value next to one in a list that ends.
LEMMA NextEnds ==
  ASSUME NEW t, IsText(t), NEW v, Ending(t, v), NEW w \in NextTo(t, v)
  PROVE  Ending(t, w) /\ (Nameless(w) <=> Nameless(v))
<1> PICK p : p = Token(t, End(t, v))
  OBVIOUS
<1>1. PICK i \in 1 .. Len(t), open \in Brackets, d \in Nesting :
        v = Behind(t, i, open, d) /\ ListEnd(t)[i][open][d] # 0
  BY DEF Ending
<1>2. IsPlace(t, v) /\ End(t, v) # 0
  BY EndingIs
<1>3. At(t, p) = Comma /\ p \in 1 .. Len(t)
  BY <1>2, NextIs
<1>4. PICK o \in Brackets : (o = "[" <=> Nameless(v)) /\ w = Behind(t, p, o, v.depth)
  BY <1>2, NextIs
<1>5. Nameless(v) <=> open = "["
  BY <1>1, <1>2, MemberNamed
<1>6. o = open /\ v.depth = d
  BY <1>1, <1>4, <1>5 DEF Brackets, Behind
<1>7. ListEnd(t)[p][open][d] # 0
  BY <1>1, <1>2, <1>3, ListGoesOn
<1>8. Ending(t, w)
  BY <1>3, <1>4, <1>6, <1>7 DEF Ending
<1>9. End(t, w) # 0
  BY <1>8, EndingIs
<1>10. Nameless(w) <=> open = "["
  BY <1>3, <1>4, <1>6, <1>9, MemberNamed
<1> QED
  BY <1>5, <1>8, <1>10

\* Item i stands for a value of a text t, and its members for those of the value.
ItemStands(t, i, pos) ==
  /\ IsPlace(t, pos[i]) /\ End(t, pos[i]) # 0 /\ (pos[i].depth = 0 \/ Ending(t, pos[i]))
  /\ heap[i].type = TypeIs(t, pos[i]) /\ heap[i].value = ValueIs(t, pos[i])
  /\ heap[i].string = pos[i].name
  /\ LinksTo(heap[i].child, FirstIn(t, pos[i]), pos)
  /\ LinksTo(heap[i].next, NextTo(t, pos[i]), pos)
  /\ heap[i].child # Null => (Nameless(pos[heap[i].child]) <=> heap[i].type # "Object")
  /\ heap[i].next # Null => (Nameless(pos[heap[i].next]) <=> Nameless(pos[i]))

\* The items are the document that t begins with.
DocumentStands(t, pos) ==
  /\ IsText(t) /\ root \in DOMAIN heap /\ pos[root] = Document(t)
  /\ \A i \in DOMAIN heap : ItemStands(t, i, pos)

\* What is returned is the document that begins the text.
LEMMA ReturnedStands ==
  ASSUME PInv, MeaningInv, step = "parsed", root # Null
  PROVE  \E pos : DocumentStands(text, pos)
<1> PICK t : t = text
  OBVIOUS
<1>1. Begins /\ IsText(t) /\ \E pos : Stands(pos)
  BY ParsedStands
<1>2. PICK pos : Stands(pos)
  BY <1>1
<1>3. /\ root \in DOMAIN heap /\ pos[root] = Document(t)
      /\ \A i \in DOMAIN heap : /\ IsPlace(t, pos[i]) /\ Shows(i, pos[i])
                                /\ LinksTo(heap[i].child, FirstIn(t, pos[i]), pos)
                                /\ LinksTo(heap[i].next, NextTo(t, pos[i]), pos)
  BY <1>2 DEF Stands
<1> DEFINE Good(i) == pos[i] = Document(t) \/ Ending(t, pos[i])
           S == {i \in DOMAIN heap : Good(i)}
<1>4. ASSUME NEW i \in S
      PROVE  /\ IsPlace(t, pos[i]) /\ End(t, pos[i]) # 0
             /\ pos[i].depth = 0 \/ Ending(t, pos[i])
             /\ pos[i] = Document(t) => heap[i].next = Null
    <2>1. CASE pos[i] = Document(t)
      <3>1. IsPlace(t, pos[i]) /\ pos[i].depth = 0
        BY <2>1, <1>1, DocumentIs
      <3>2. End(t, pos[i]) # 0
        BY <2>1, <1>1 DEF Begins
      <3>3. NextTo(t, pos[i]) = {}
        BY <3>1, Zenon DEF NextTo
      <3> QED BY <1>3, <3>1, <3>2, <3>3 DEF LinksTo
    <2>2. CASE Ending(t, pos[i])
      <3>1. IsPlace(t, pos[i]) /\ End(t, pos[i]) # 0
        BY <2>2, <1>1, EndingIs
      <3>2. pos[i] # Document(t) \/ pos[i] = Document(t)
        OBVIOUS
      <3>3. pos[i] = Document(t) => NextTo(t, pos[i]) = {}
        <4>1. pos[i] = Document(t) => pos[i].depth = 0
          BY <1>1, DocumentIs
        <4> QED BY <4>1, Zenon DEF NextTo
      <3> QED BY <1>3, <2>2, <3>1, <3>3 DEF LinksTo
    <2> QED BY <2>1, <2>2
<1>5. ASSUME NEW i \in S, heap[i].child # Null
      PROVE  /\ heap[i].child \in S
             /\ Nameless(pos[heap[i].child]) <=> heap[i].type # "Object"
  <2>1. heap[i].child \in DOMAIN heap /\ heap[i].type = TypeIs(t, pos[i])
    BY <1>3, <1>5, LinksLead DEF Shows
  <2>2. pos[heap[i].child] \in FirstIn(t, pos[i])
    BY <1>3, <1>5 DEF LinksTo
  <2>3. Ending(t, pos[heap[i].child])
        /\ (Nameless(pos[heap[i].child]) <=> TypeIs(t, pos[i]) # "Object")
    BY <1>1, <1>4, <2>2, FirstEnds
  <2> QED BY <2>1, <2>3
<1>6. ASSUME NEW i \in S, heap[i].next # Null
      PROVE  /\ heap[i].next \in S
             /\ Nameless(pos[heap[i].next]) <=> Nameless(pos[i])
  <2>1. heap[i].next \in DOMAIN heap /\ Ending(t, pos[i])
    BY <1>4, <1>6, LinksLead
  <2>2. pos[heap[i].next] \in NextTo(t, pos[i])
    BY <1>3, <1>6 DEF LinksTo
  <2>3. Ending(t, pos[heap[i].next]) /\ (Nameless(pos[heap[i].next]) <=> Nameless(pos[i]))
    BY <1>1, <2>1, <2>2, NextEnds
  <2> QED BY <2>1, <2>3
<1>7. DOMAIN heap \subseteq S
  <2>1. S \in SUBSET DOMAIN heap /\ root \in S /\ root \in DOMAIN heap
    BY <1>3
  <2>2. Closed(heap, S)
    <3>1. Null \notin DOMAIN heap
      BY LinksLead
    <3> HIDE DEF S
    <3> QED BY <1>5, <1>6, <3>1 DEF Closed
  <2>3. Reach(heap, root) \subseteq S
    BY <2>1, <2>2, ReachLeast
  <2>4. Hands \subseteq {root}
    <3>1. DOMAIN stack = {}
      BY DEF PInv, StepInv
    <3> QED BY <3>1 DEF Hands
  <2>5. \A i \in DOMAIN heap : i \in Reach(heap, root)
    BY <2>4 DEF PInv, HeapInv, Forest
  <2> QED BY <2>3, <2>5
<1>8. ASSUME NEW i \in DOMAIN heap PROVE ItemStands(t, i, pos)
  <2>1. i \in S
    BY <1>7
  <2> HIDE DEF S
  <2>2. /\ IsPlace(t, pos[i]) /\ End(t, pos[i]) # 0
        /\ pos[i].depth = 0 \/ Ending(t, pos[i])
        /\ heap[i].child # Null => (Nameless(pos[heap[i].child]) <=> heap[i].type # "Object")
        /\ heap[i].next # Null => (Nameless(pos[heap[i].next]) <=> Nameless(pos[i]))
    BY <1>4, <1>5, <1>6, <2>1
  <2>3. /\ heap[i].type = TypeIs(t, pos[i]) /\ heap[i].value = ValueIs(t, pos[i])
        /\ heap[i].string = pos[i].name
    BY <1>3 DEF Shows
  <2> QED BY <1>3, <2>2, <2>3 DEF ItemStands
<1>9. DocumentStands(t, pos)
  BY <1>1, <1>3, <1>8 DEF DocumentStands
<1> QED
  BY <1>9

-----------------------------------------------------------------------------
(* LOOKING A MEMBER UP                                                     *)

\* Items each of which is next to the one before.
IsChain(c) ==
  /\ c \in Seq(DOMAIN heap)
  /\ \A k \in 1 .. Len(c) - 1 : c[k + 1] = heap[c[k]].next

\* Where there are more pigeons than holes, two of them share one.
LEMMA Pigeons ==
  ASSUME NEW n \in Nat, NEW m \in Nat, m < n, NEW f \in [1 .. n -> 1 .. m]
  PROVE  \E x, y \in 1 .. n : x # y /\ f[x] = f[y]
<1>1. ASSUME NEW k \in Nat PROVE IsFiniteSet(1 .. k) /\ Cardinality(1 .. k) = k
  <2>1. IsFiniteSet(1 .. k) /\ Cardinality(1 .. k) = IF 1 > k THEN 0 ELSE k - 1 + 1
    <3>1. 1 \in Int /\ k \in Int
      OBVIOUS
    <3> QED BY <3>1, FS_Interval, Zenon
  <2> QED BY <2>1
<1> PICK S : S = 1 .. n
  OBVIOUS
<1> PICK T : T = 1 .. m
  OBVIOUS
<1>2. IsFiniteSet(S) /\ IsFiniteSet(T) /\ Cardinality(T) < Cardinality(S)
  BY <1>1
<1>3. f \in [S -> T]
  OBVIOUS
<1>4. \E x, y \in S : x # y /\ f[x] = f[y]
  BY <1>2, <1>3, FS_PigeonHole, Zenon
<1> QED
  BY <1>4

\* They come one behind the other in the text; hence there are no more of them
\* than the text is long and the memory holds.
LEMMA ChainIs ==
  ASSUME PInv, NEW t, NEW pos, DocumentStands(t, pos), NEW c, IsChain(c)
  PROVE  Len(c) <= Len(t) /\ Len(c) <= MaxItems
<1> PICK n \in Nat : n = Len(c) /\ \A k \in 1 .. n : c[k] \in DOMAIN heap
  BY LenProperties, ElementOfSeq DEF IsChain
<1>1. IsText(t) /\ \A i \in DOMAIN heap : ItemStands(t, i, pos)
  BY DEF DocumentStands
<1> DEFINE at(k) == pos[c[k]].at
<1>2. \A k \in 1 .. n : at(k) \in 1 .. Len(t)
  <2> SUFFICES ASSUME NEW k \in 1 .. n PROVE at(k) \in 1 .. Len(t)
    OBVIOUS
  <2>1. IsPlace(t, pos[c[k]]) /\ End(t, pos[c[k]]) # 0
    BY <1>1 DEF ItemStands
  <2>2. At(t, at(k)) # "NUL"
    BY <1>1, <2>1, EndIs, BracketsAreNoScalars
  <2> QED BY <1>1, <2>2, TextIs
<1>3. \A k \in 1 .. n : k + 1 <= n => at(k) < at(k + 1)
  <2> SUFFICES ASSUME NEW k \in 1 .. n, k + 1 <= n PROVE at(k) < at(k + 1)
    OBVIOUS
  <2>1. k + 1 \in 1 .. n /\ k \in 1 .. n - 1
    OBVIOUS
  <2>2. c[k + 1] = heap[c[k]].next /\ c[k] \in DOMAIN heap /\ c[k + 1] \in DOMAIN heap
    BY <2>1 DEF IsChain
  <2>3. heap[c[k]].next # Null
    BY <2>2, LinksLead
  <2>4. pos[c[k + 1]] \in NextTo(t, pos[c[k]])
    BY <1>1, <2>2, <2>3 DEF ItemStands, LinksTo
  <2>5. /\ IsPlace(t, pos[c[k]]) /\ End(t, pos[c[k]]) # 0
        /\ IsPlace(t, pos[c[k + 1]]) /\ End(t, pos[c[k + 1]]) # 0
    BY <1>1, <2>2 DEF ItemStands
  <2> QED BY <1>1, <2>4, <2>5, NextAhead
<1> HIDE DEF at
<1> DEFINE S == {k \in Nat : k \in 1 .. n => k <= at(k) /\ \A j \in 1 .. k - 1 : at(j) < at(k)}
<1>4. 0 \in S
  OBVIOUS
<1>5. ASSUME NEW k \in Nat, k \in S PROVE k + 1 \in S
  <2> SUFFICES ASSUME k + 1 <= n
               PROVE  k + 1 <= at(k + 1) /\ \A j \in 1 .. k : at(j) < at(k + 1)
    OBVIOUS
  <2>1. CASE k = 0
    BY <1>2, <2>1, <1>1, TextIs
  <2>2. CASE k # 0
    <3>1. /\ k \in 1 .. n /\ k + 1 \in 1 .. n
          /\ k <= at(k) /\ \A j \in 1 .. k - 1 : at(j) < at(k)
      BY <1>5, <2>2
    <3>2. at(k) < at(k + 1)
      BY <1>3, <3>1
    <3>3. at(k) \in Nat /\ at(k + 1) \in Nat /\ \A j \in 1 .. k : at(j) \in Nat
      BY <1>1, <1>2, <3>1, TextIs
    <3> QED BY <3>1, <3>2, <3>3
  <2> QED BY <2>1, <2>2
<1> HIDE DEF S
<1>6. Nat \subseteq S
  BY <1>4, <1>5, SetInduction
<1>7. \A k \in 1 .. n : k <= at(k) /\ \A j \in 1 .. k - 1 : at(j) < at(k)
  BY <1>6 DEF S
<1>8. n <= Len(t)
  BY <1>1, <1>2, <1>7, TextIs
<1>9. n <= MaxItems
  <2> SUFFICES ASSUME ~(n <= MaxItems) PROVE FALSE
    OBVIOUS
  <2>1. MaxItems \in Nat /\ DOMAIN heap \subseteq 1 .. MaxItems
    BY MaxItemsAssumption DEF PInv, ParserTypeOK, Ids
  <2> DEFINE f == [k \in 1 .. n |-> c[k]]
  <2>2. f \in [1 .. n -> 1 .. MaxItems]
    BY <2>1
  <2>3. MaxItems < n
    BY <2>1
  <2> HIDE DEF f
  <2>4. \E x, y \in 1 .. n : x # y /\ f[x] = f[y]
    BY <2>1, <2>2, <2>3, Pigeons
  <2>5. PICK x \in 1 .. n, y \in 1 .. n : x < y /\ f[x] = f[y]
    BY <2>4
  <2>6. at(x) = at(y)
    BY <2>5 DEF f, at
  <2>7. x \in 1 .. y - 1 /\ at(x) \in Nat
    BY <1>1, <1>2, <2>5, TextIs
  <2> QED BY <1>7, <2>6, <2>7
<1> QED
  BY <1>8, <1>9

\* What the walk over a list comes to behind the items l, if the list begins with i.
Following(l, i) == IF l = <<>> THEN i ELSE heap[l[Len(l)]].next

\* A chain goes on with what follows it.
LEMMA ChainGrows ==
  ASSUME NEW l, IsChain(l), NEW i, NEW x \in DOMAIN heap, x = Following(l, i)
  PROVE  IsChain(Append(l, x)) /\ Len(Append(l, x)) = Len(l) + 1
         /\ Append(l, x)[1] = IF l = <<>> THEN i ELSE l[1]
<1> PICK n \in Nat : n = Len(l)
  BY LenProperties DEF IsChain
<1> PICK m : m = Append(l, x)
  OBVIOUS
<1>1. l \in Seq(DOMAIN heap)
  BY DEF IsChain
<1>2. /\ m \in Seq(DOMAIN heap) /\ Len(m) = n + 1 /\ m[n + 1] = x
      /\ \A k \in 1 .. n : m[k] = l[k]
  BY <1>1, AppendProperties
<1>3. l = <<>> <=> n = 0
  BY <1>1, EmptySeq
<1>4. ASSUME NEW k \in 1 .. (n + 1) - 1 PROVE m[k + 1] = heap[m[k]].next
  <2>1. k \in 1 .. n /\ m[k] = l[k]
    BY <1>2
  <2>2. CASE k = n
    BY <1>2, <1>3, <2>1, <2>2 DEF Following
  <2>3. CASE k # n
    <3>1. k \in 1 .. n - 1 /\ k + 1 \in 1 .. n
      BY <2>1, <2>3
    <3> QED BY <1>2, <2>1, <3>1 DEF IsChain
  <2> QED BY <2>2, <2>3
<1>5. m[1] = IF l = <<>> THEN i ELSE l[1]
  <2>1. CASE n = 0
    BY <1>2, <1>3, <2>1 DEF Following
  <2>2. CASE n # 0
    BY <1>2, <1>3, <2>2
  <2> QED BY <2>1, <2>2
<1> QED
  BY <1>2, <1>4, <1>5 DEF IsChain

\* The list of items that the walk comes by, from the first to the last.
LEMMA ListIs ==
  ASSUME PInv, NEW t, NEW pos, DocumentStands(t, pos), NEW i \in DOMAIN heap \cup {Null},
         NEW c, c = ListFrom(heap, i)
  PROVE  IsChain(c) /\ Following(c, i) = Null /\ (c # <<>> => c[1] = i)
<1> DEFINE X == Seq(DOMAIN heap)
           Longer(l) == IF Following(l, i) = Null THEN l ELSE Append(l, Following(l, i))
           W == CHOOSE w : w = [n \in 0 .. MaxItems |-> IF n = 0 THEN <<>> ELSE Longer(w[n - 1])]
<1>1. c = W[MaxItems] /\ MaxItems \in Nat
  BY MaxItemsAssumption DEF ListFrom, Following
<1>2. ASSUME NEW l \in X PROVE Following(l, i) \in DOMAIN heap \cup {Null}
  <2>1. CASE l = <<>>
    BY <2>1 DEF Following
  <2>2. CASE l # <<>>
    <3>1. l[Len(l)] \in DOMAIN heap
      BY <2>2, ElementOfSeq, EmptySeq, LenProperties
    <3> QED BY <2>2, <3>1, LinksLead DEF Following
  <2> QED BY <2>1, <2>2
<1>3. ASSUME NEW l \in X PROVE Longer(l) \in X
  BY <1>2, AppendProperties
<1>4. <<>> \in X
  BY EmptySeq
<1> HIDE DEF X, Longer
<1>5. PICK f \in [0 .. MaxItems -> X] :
        f = [n \in 0 .. MaxItems |-> IF n = 0 THEN <<>> ELSE Longer(f[n - 1])]
  <2> DEFINE s == [n \in 1 .. MaxItems |-> [l \in X |-> Longer(l)]]
  <2>1. s \in [1 .. MaxItems -> [X -> X]]
    BY <1>3
  <2>2. \A n \in 1 .. MaxItems, l \in X : s[n][l] = Longer(l)
    OBVIOUS
  <2> HIDE DEF s
  <2>3. PICK f \in [0 .. MaxItems -> X] : Goes(f, MaxItems, <<>>, s)
    BY <1>1, <1>4, <2>1, Recursion, Zenon
  <2>4. ASSUME NEW n \in 0 .. MaxItems
        PROVE  f[n] = IF n = 0 THEN <<>> ELSE Longer(f[n - 1])
    <3>1. CASE n = 0
      BY <2>3, <3>1 DEF Goes
    <3>2. CASE n # 0
      <4>1. n \in 1 .. MaxItems /\ n - 1 \in 0 .. MaxItems
        BY <1>1, <3>2
      <4> QED BY <2>2, <2>3, <3>2, <4>1 DEF Goes
    <3> QED BY <3>1, <3>2
  <2> QED BY <2>3, <2>4
<1>6. W = [n \in 0 .. MaxItems |-> IF n = 0 THEN <<>> ELSE Longer(W[n - 1])]
  BY <1>5
<1> HIDE DEF W
<1> DEFINE Good(l, n) == /\ IsChain(l) /\ (l # <<>> => l[1] = i)
                         /\ Len(l) = n \/ Following(l, i) = Null
           T == {n \in Nat : n <= MaxItems => Good(W[n], n)}
<1>7. 0 \in T
  <2>1. W[0] = <<>>
    BY <1>1, <1>6
  <2>2. Len(<<>>) = 0 /\ <<>> \in Seq(DOMAIN heap)
    BY EmptySeq
  <2>3. Good(<<>>, 0)
    BY <2>2 DEF IsChain
  <2> QED BY <2>1, <2>3
<1>8. ASSUME NEW n \in Nat, n \in T PROVE n + 1 \in T
  <2> SUFFICES ASSUME n + 1 <= MaxItems PROVE Good(W[n + 1], n + 1)
    OBVIOUS
  <2>1. n + 1 \in 0 .. MaxItems /\ n + 1 # 0 /\ (n + 1) - 1 = n
    BY <1>1
  <2> PICK l : l = W[n]
    OBVIOUS
  <2>2. W[n + 1] = Longer(l)
    BY <1>6, <2>1
  <2>3. IsChain(l) /\ (l # <<>> => l[1] = i) /\ (Len(l) = n \/ Following(l, i) = Null)
    BY <1>1, <1>8, <2>1
  <2>4. CASE Following(l, i) = Null
    BY <2>2, <2>3, <2>4 DEF Longer
  <2>5. CASE Following(l, i) # Null
    <3> PICK x : x = Following(l, i)
      OBVIOUS
    <3>1. x \in DOMAIN heap
      BY <1>2, <2>3, <2>5 DEF IsChain, X
    <3>2. W[n + 1] = Append(l, x) /\ Len(l) = n
      BY <2>2, <2>3, <2>5 DEF Longer
    <3>3. IsChain(Append(l, x)) /\ Len(Append(l, x)) = Len(l) + 1
          /\ Append(l, x)[1] = IF l = <<>> THEN i ELSE l[1]
      BY <2>3, <3>1, ChainGrows
    <3> QED BY <2>3, <3>2, <3>3
  <2> QED BY <2>4, <2>5
<1> HIDE DEF T
<1>9. Nat \subseteq T
  BY <1>7, <1>8, SetInduction
<1>10. Good(c, MaxItems)
  BY <1>1, <1>9 DEF T
<1> HIDE DEF T
<1>11. Following(c, i) = Null
  <2> SUFFICES ASSUME Following(c, i) # Null PROVE FALSE
    OBVIOUS
  <2> PICK x : x = Following(c, i)
    OBVIOUS
  <2>1. x \in DOMAIN heap /\ IsChain(c) /\ Len(c) = MaxItems
    BY <1>2, <1>10 DEF IsChain, X
  <2>2. IsChain(Append(c, x)) /\ Len(Append(c, x)) = MaxItems + 1
    BY <2>1, ChainGrows
  <2>3. Len(Append(c, x)) <= MaxItems
    BY <2>2, ChainIs
  <2> QED BY <1>1, <2>2, <2>3
<1> QED
  BY <1>10, <1>11

\* found is the value of the first item of that name in the list c, or nothing.
IsFirst(found, c, pos, name) ==
  /\ \A h \in 1 .. Len(c) :
       (pos[c[h]].name = name /\ \A k \in 1 .. h - 1 : pos[c[k]].name # name)
       => found = {pos[c[h]]}
  /\ (\A k \in 1 .. Len(c) : pos[c[k]].name # name) => found = {}

\* A search goes along the list of an object to the first member of the name.
LEMMA SearchIs ==
  ASSUME PInv, NEW t, NEW pos, DocumentStands(t, pos), NEW i \in DOMAIN heap,
         TypeIs(t, pos[i]) = "Object", NEW name, NEW c, c = ListFrom(heap, heap[i].child)
  PROVE  IsFirst(First(t, pos[i], name), c, pos, name)
<1> DEFINE X == SUBSET {pos[k] : k \in DOMAIN heap}
           Onwards(S) == UNION {IF x.name = name THEN {x} ELSE NextTo(t, x) : x \in S}
           start == FirstIn(t, pos[i])
           W == CHOOSE w : w = [m \in 0 .. Len(t) |-> IF m = 0 THEN start ELSE Onwards(w[m - 1])]
           Hit(k) == pos[c[k]].name = name
           First0 == First(t, pos[i], name)
<1> PICK length \in Nat : length = Len(t)
  BY TextIs DEF DocumentStands
<1>1. /\ heap[i].child \in DOMAIN heap \cup {Null} /\ Null \notin DOMAIN heap
      /\ \A k \in DOMAIN heap : ItemStands(t, k, pos) /\ heap[k].next \in DOMAIN heap \cup {Null}
  BY LinksLead DEF DocumentStands
<1>2. IsChain(c) /\ Following(c, heap[i].child) = Null /\ (c # <<>> => c[1] = heap[i].child)
  BY <1>1, ListIs
<1> PICK n \in Nat : n = Len(c) /\ (\A k \in 1 .. n : c[k] \in DOMAIN heap) /\ (c = <<>> <=> n = 0)
  BY <1>2, LenProperties, ElementOfSeq, EmptySeq DEF IsChain
<1>3. n <= length
  BY <1>2, ChainIs
<1>4. start = IF n = 0 THEN {} ELSE {pos[c[1]]}
  <2>1. LinksTo(heap[i].child, start, pos)
    BY <1>1 DEF ItemStands
  <2>2. CASE n = 0
    BY <1>2, <2>1, <2>2 DEF Following, LinksTo
  <2>3. CASE n # 0
    <3>1. c[1] = heap[i].child /\ c[1] \in DOMAIN heap
      BY <1>2, <2>3
    <3> QED BY <1>1, <2>1, <2>3, <3>1 DEF LinksTo
  <2> QED BY <2>2, <2>3
<1>5. ASSUME NEW k \in 1 .. n
      PROVE  NextTo(t, pos[c[k]]) = IF k = n THEN {} ELSE {pos[c[k + 1]]}
  <2>1. c[k] \in DOMAIN heap /\ LinksTo(heap[c[k]].next, NextTo(t, pos[c[k]]), pos)
    BY <1>1 DEF ItemStands
  <2>2. CASE k = n
    <3>1. heap[c[k]].next = Null
      BY <1>2, <2>2 DEF Following
    <3> QED BY <2>1, <2>2, <3>1 DEF LinksTo
  <2>3. CASE k # n
    <3>1. c[k + 1] = heap[c[k]].next /\ c[k + 1] \in DOMAIN heap
      BY <1>2, <2>3 DEF IsChain
    <3> QED BY <1>1, <2>1, <2>3, <3>1 DEF LinksTo
  <2> QED BY <2>2, <2>3
<1>6. \A x : Onwards({x}) = IF x.name = name THEN {x} ELSE NextTo(t, x)
  OBVIOUS
<1>7. Onwards({}) = {}
  OBVIOUS
<1>8. start \in X
  <2>1. LinksTo(heap[i].child, start, pos)
    BY <1>1 DEF ItemStands
  <2> QED BY <1>1, <2>1 DEF LinksTo
<1>9. ASSUME NEW S \in X PROVE Onwards(S) \in X
  <2>1. ASSUME NEW k \in DOMAIN heap PROVE NextTo(t, pos[k]) \in X
    <3>1. LinksTo(heap[k].next, NextTo(t, pos[k]), pos)
      BY <1>1 DEF ItemStands
    <3> QED BY <1>1, <3>1 DEF LinksTo
  <2>2. ASSUME NEW x \in S PROVE (IF x.name = name THEN {x} ELSE NextTo(t, x)) \in X
    <3>1. PICK k \in DOMAIN heap : x = pos[k]
      OBVIOUS
    <3> QED BY <2>1, <3>1
  <2> QED BY <2>2
<1> HIDE DEF X, Onwards, start
<1>10. PICK f \in [0 .. length -> X] :
         f = [m \in 0 .. length |-> IF m = 0 THEN start ELSE Onwards(f[m - 1])]
  <2> DEFINE s == [m \in 1 .. length |-> [S \in X |-> Onwards(S)]]
  <2>1. s \in [1 .. length -> [X -> X]]
    BY <1>9
  <2>2. \A m \in 1 .. length, S \in X : s[m][S] = Onwards(S)
    OBVIOUS
  <2> HIDE DEF s
  <2>3. PICK f \in [0 .. length -> X] : Goes(f, length, start, s)
    BY <1>8, <2>1, Recursion, Zenon
  <2>4. ASSUME NEW m \in 0 .. length
        PROVE  f[m] = IF m = 0 THEN start ELSE Onwards(f[m - 1])
    <3>1. CASE m = 0
      BY <2>3, <3>1 DEF Goes
    <3>2. CASE m # 0
      <4>1. m \in 1 .. length /\ m - 1 \in 0 .. length
        BY <3>2
      <4> QED BY <2>2, <2>3, <3>2, <4>1 DEF Goes
    <3> QED BY <3>1, <3>2
  <2> QED BY <2>3, <2>4
<1>11. W = [m \in 0 .. length |-> IF m = 0 THEN start ELSE Onwards(W[m - 1])]
  BY <1>10
<1>12. First0 = {x \in W[length] : x.name = name}
  BY DEF First, Onwards, start
<1> HIDE DEF W, First0
<1> DEFINE NoHit(m) == \A k \in 1 .. m : ~Hit(k)
           A(m) == m + 1 <= n /\ NoHit(m) => W[m] = {pos[c[m + 1]]}
           B(m) == n <= m /\ NoHit(n) => W[m] = {}
           C(m) == \A h \in 1 .. n : h <= m /\ Hit(h) /\ NoHit(h - 1) => W[m] = {pos[c[h]]}
           T == {m \in Nat : m <= length => A(m) /\ B(m) /\ C(m)}
<1>13. 0 \in T
  <2>1. W[0] = start
    BY <1>11
  <2> QED BY <1>4, <2>1
<1> HIDE DEF A, B, C
<1>14. ASSUME NEW m \in Nat, m \in T PROVE m + 1 \in T
  <2> SUFFICES ASSUME m + 1 <= length PROVE A(m + 1) /\ B(m + 1) /\ C(m + 1)
    OBVIOUS
  <2>1. /\ m + 1 <= n /\ NoHit(m) => W[m] = {pos[c[m + 1]]}
        /\ n <= m /\ NoHit(n) => W[m] = {}
        /\ \A h \in 1 .. n : h <= m /\ Hit(h) /\ NoHit(h - 1) => W[m] = {pos[c[h]]}
    <3>1. A(m) /\ B(m) /\ C(m)
      BY <1>14
    <3> QED BY <3>1 DEF A, B, C
  <2>2. W[m + 1] = Onwards(W[m])
    <3>1. m + 1 \in 0 .. length /\ m + 1 # 0 /\ (m + 1) - 1 = m
      OBVIOUS
    <3> QED BY <1>11, <3>1
  <2>3. ASSUME NEW k \in 1 .. n, W[m] = {pos[c[k]]}
        PROVE  W[m + 1] = IF Hit(k) THEN {pos[c[k]]} ELSE IF k = n THEN {} ELSE {pos[c[k + 1]]}
    <3>1. W[m + 1] = IF Hit(k) THEN {pos[c[k]]} ELSE NextTo(t, pos[c[k]])
      BY <1>6, <2>2, <2>3
    <3> QED BY <1>5, <3>1
  <2> HIDE DEF Hit
  <2>4. A(m + 1)
    <3> SUFFICES ASSUME m + 2 <= n, NoHit(m + 1) PROVE W[m + 1] = {pos[c[m + 2]]}
      BY DEF A
    <3>1. m + 1 \in 1 .. n /\ m + 1 # n /\ NoHit(m) /\ ~Hit(m + 1) /\ (m + 1) + 1 = m + 2
      OBVIOUS
    <3>2. W[m] = {pos[c[m + 1]]}
      BY <2>1, <3>1
    <3> QED BY <2>3, <3>1, <3>2
  <2>5. B(m + 1)
    <3> SUFFICES ASSUME n <= m + 1, NoHit(n) PROVE W[m + 1] = {}
      BY DEF B
    <3>1. CASE n <= m
      BY <1>7, <2>1, <2>2, <3>1
    <3>2. CASE n = m + 1
      <4>1. n \in 1 .. n /\ NoHit(m) /\ ~Hit(n) /\ m + 1 <= n
        BY <3>2
      <4>2. W[m] = {pos[c[n]]}
        BY <2>1, <3>2, <4>1
      <4> QED BY <2>3, <4>1, <4>2
    <3> QED BY <3>1, <3>2
  <2>6. C(m + 1)
    <3> SUFFICES ASSUME NEW h \in 1 .. n, h <= m + 1, Hit(h), NoHit(h - 1)
                 PROVE  W[m + 1] = {pos[c[h]]}
      BY DEF C
    <3>1. W[m] = {pos[c[h]]}
      <4>1. CASE h <= m
        BY <2>1, <4>1
      <4>2. CASE h = m + 1
        <5>1. m + 1 <= n /\ NoHit(m)
          BY <4>2
        <5> QED BY <2>1, <4>2, <5>1
      <4> QED BY <4>1, <4>2
    <3> QED BY <2>3, <3>1
  <2> QED BY <2>4, <2>5, <2>6
<1> HIDE DEF T
<1>15. Nat \subseteq T
  BY <1>13, <1>14, SetInduction
<1>16. A(length) /\ B(length) /\ C(length)
  BY <1>15 DEF T
<1> USE DEF B, C
<1>17. ASSUME NEW h \in 1 .. n, Hit(h), NoHit(h - 1) PROVE First0 = {pos[c[h]]}
  BY <1>3, <1>12, <1>16, <1>17
<1>18. ASSUME NoHit(n) PROVE First0 = {}
  BY <1>3, <1>12, <1>16, <1>18
<1> QED
  BY <1>17, <1>18 DEF First0, IsFirst

\* No name.
Unnamed == ""

\* get_object_item finds the first member of the name, and none in what is no object.
LEMMA LookupIs ==
  ASSUME PInv, NEW t, NEW pos, DocumentStands(t, pos), NEW i \in DOMAIN heap,
         NEW name, name # Unnamed, NEW j, j = GetObjectItem(heap, i, name)
  PROVE  /\ j \in DOMAIN heap \cup {Null}
         /\ j = Null => First(t, pos[i], name) = {}
         /\ j # Null => First(t, pos[i], name) = {pos[j]}
<1> PICK c : c = ListFrom(heap, heap[i].child)
  OBVIOUS
<1>1. /\ heap[i].child \in DOMAIN heap \cup {Null} /\ Null \notin DOMAIN heap
      /\ \A k \in DOMAIN heap : ItemStands(t, k, pos)
  BY LinksLead DEF DocumentStands
<1>2. IsChain(c) /\ Following(c, heap[i].child) = Null /\ (c # <<>> => c[1] = heap[i].child)
  BY <1>1, ListIs
<1> PICK n \in Nat : /\ n = Len(c) /\ (\A k \in 1 .. n : c[k] \in DOMAIN heap)
                     /\ (c = <<>> <=> n = 0) /\ DOMAIN c = 1 .. n
  BY <1>2, LenProperties, ElementOfSeq, EmptySeq DEF IsChain
<1> DEFINE ends == {k \in 1 .. n : pos[c[k]].name \in {name, Unnamed}}
<1>3. ends \in SUBSET Nat /\ (ends # {} => Min(ends) \in ends /\ \A k \in ends : Min(ends) <= k)
  <2>1. ends \in SUBSET Nat
    OBVIOUS
  <2> HIDE DEF ends
  <2> QED BY <2>1, MinIs, MinLeast
<1>4. j = IF ends = {} \/ pos[c[Min(ends)]].name = Unnamed THEN Null ELSE c[Min(ends)]
  <2>1. \A k \in 1 .. n : heap[c[k]].string = pos[c[k]].name
    BY <1>1 DEF ItemStands
  <2>2. ends = {k \in DOMAIN c : heap[c[k]].string \in {name, Unnamed}}
    BY <2>1
  <2>3. ends # {} => heap[c[Min(ends)]].string = pos[c[Min(ends)]].name
    BY <1>3, <2>1
  <2>4. j = LET e == {k \in DOMAIN c : heap[c[k]].string \in {name, Unnamed}}
            IN  IF e = {} \/ heap[c[Min(e)]].string = Unnamed THEN Null ELSE c[Min(e)]
    BY Zenon DEF GetObjectItem, Unnamed
  <2> HIDE DEF ends
  <2> QED BY <2>2, <2>3, <2>4
<1> HIDE DEF ends
<1>5. \A v : Nameless(v) <=> v.name = Unnamed
  BY Zenon DEF Nameless, Unnamed
<1>6. CASE TypeIs(t, pos[i]) # "Object"
  <2>1. First(t, pos[i], name) = {}
    BY <1>6 DEF First
  <2>2. ASSUME ends # {} PROVE pos[c[Min(ends)]].name = Unnamed
    <3>1. n # 0 /\ 1 \in 1 .. n
      BY <2>2 DEF ends
    <3>2. c[1] = heap[i].child /\ c[1] \in DOMAIN heap
      BY <1>2, <3>1
    <3>3. Nameless(pos[c[1]])
      BY <1>1, <1>6, <3>2 DEF ItemStands
    <3>4. 1 \in ends
      BY <1>5, <3>1, <3>3 DEF ends
    <3>5. Min(ends) = 1
      <4>1. \A k \in ends : k \in Nat /\ k >= 1
        BY DEF ends
      <4>2. Min(ends) \in ends /\ Min(ends) <= 1
        BY <1>3, <3>4
      <4> QED BY <4>1, <4>2
    <3> QED BY <1>5, <3>3, <3>5
  <2> QED BY <1>4, <2>1, <2>2
<1>7. CASE TypeIs(t, pos[i]) = "Object"
  <2> DEFINE S == {k \in Nat : k \in 1 .. n => ~Nameless(pos[c[k]])}
  <2>1. 0 \in S
    OBVIOUS
  <2>2. ASSUME NEW k \in Nat, k \in S PROVE k + 1 \in S
    <3> SUFFICES ASSUME k + 1 <= n PROVE ~Nameless(pos[c[k + 1]])
      OBVIOUS
    <3>1. CASE k = 0
      <4>1. c[1] = heap[i].child /\ c[1] \in DOMAIN heap
        BY <1>2, <3>1
      <4>2. ~Nameless(pos[c[1]])
        BY <1>1, <1>7, <4>1 DEF ItemStands
      <4> QED BY <3>1, <4>2
    <3>2. CASE k # 0
      <4>1. k \in 1 .. n - 1 /\ k \in 1 .. n /\ k + 1 \in 1 .. n
        BY <3>2
      <4>2. c[k + 1] = heap[c[k]].next /\ c[k] \in DOMAIN heap /\ c[k + 1] \in DOMAIN heap
        BY <1>2, <4>1 DEF IsChain
      <4>3. ~Nameless(pos[c[k]])
        BY <2>2, <4>1
      <4> QED BY <1>1, <4>2, <4>3 DEF ItemStands
    <3> QED BY <3>1, <3>2
  <2> HIDE DEF S
  <2>3. Nat \subseteq S
    BY <2>1, <2>2, SetInduction
  <2>4. \A k \in 1 .. n : pos[c[k]].name # Unnamed
    BY <1>5, <2>3 DEF S
  <2> DEFINE Hit(k) == pos[c[k]].name = name
  <2>7. /\ \A h \in 1 .. n : (Hit(h) /\ \A k \in 1 .. h - 1 : ~Hit(k))
                              => First(t, pos[i], name) = {pos[c[h]]}
        /\ (\A k \in 1 .. n : ~Hit(k)) => First(t, pos[i], name) = {}
    <3>1. IsFirst(First(t, pos[i], name), c, pos, name)
      BY <1>7, SearchIs, Zenon
    <3> QED BY <3>1 DEF IsFirst
  <2> HIDE DEF Hit
  <2>8. ends = {k \in 1 .. n : Hit(k)}
    BY <2>4 DEF ends, Hit
  <2>5. CASE ends = {}
    <3>1. \A k \in 1 .. n : ~Hit(k)
      BY <2>5, <2>8
    <3>2. First(t, pos[i], name) = {}
      BY <2>7, <3>1
    <3> QED BY <1>4, <2>5, <3>2
  <2>6. CASE ends # {}
    <3> PICK h : h = Min(ends)
      OBVIOUS
    <3>1. h \in 1 .. n /\ Hit(h) /\ \A k \in 1 .. h - 1 : ~Hit(k)
      <4>1. h \in ends /\ \A k \in ends : h <= k
        BY <1>3, <2>6
      <4>2. h \in 1 .. n /\ Hit(h)
        BY <2>8, <4>1
      <4>3. ASSUME NEW k \in 1 .. h - 1, Hit(k) PROVE FALSE
        <5>1. k \in 1 .. n /\ k < h
          BY <4>2
        <5> QED BY <2>8, <4>1, <4>3, <5>1
      <4> QED BY <4>2, <4>3
    <3>2. First(t, pos[i], name) = {pos[c[h]]}
      BY <2>7, <3>1
    <3>3. j = c[h] /\ c[h] \in DOMAIN heap
      BY <1>4, <2>4, <2>6, <3>1
    <3> QED BY <1>1, <3>2, <3>3
  <2> QED BY <2>5, <2>6
<1> QED
  BY <1>6, <1>7

-----------------------------------------------------------------------------
(* WHAT IS TAKEN FROM A DOCUMENT                                           *)

\* The objects that an item is: it alone, or none.
Objects(i, pos) == IF i = Null THEN {} ELSE {pos[i]}

\* The section of that name, if there is one.
LEMMA SectionIs ==
  ASSUME PInv, NEW t, NEW pos, DocumentStands(t, pos), NEW i \in DOMAIN heap \cup {Null},
         NEW name, name # Unnamed, NEW f, f # Unnamed,
         NEW s, i = Null => s = Null, i # Null => s = Section(i, name)
  PROVE  /\ s \in DOMAIN heap \cup {Null}
         /\ Named(t, Named(t, Objects(i, pos), name), f) = Named(t, Objects(s, pos), f)
<1>1. /\ Null \notin DOMAIN heap
      /\ \A k \in DOMAIN heap : ItemStands(t, k, pos)
  BY LinksLead DEF DocumentStands
<1>2. CASE i = Null
  BY <1>2 DEF Named, Objects
<1>3. CASE i # Null
  <2> PICK j : j = GetObjectItem(heap, i, name)
    OBVIOUS
  <2>1. /\ j \in DOMAIN heap \cup {Null}
        /\ j = Null => First(t, pos[i], name) = {}
        /\ j # Null => First(t, pos[i], name) = {pos[j]}
    BY <1>3, LookupIs
  <2>2. s = IF j # Null /\ heap[j].type = "Object" THEN j ELSE Null
    BY <1>3 DEF Section
  <2>3. Named(t, Objects(i, pos), name) = First(t, pos[i], name)
    BY <1>3 DEF Named, Objects
  <2>4. CASE j = Null
    <3>1. s = Null /\ First(t, pos[i], name) = {}
      BY <2>1, <2>2, <2>4
    <3> QED BY <2>3, <3>1 DEF Named, Objects
  <2>5. CASE j # Null /\ heap[j].type = "Object"
    <3>1. s = j /\ First(t, pos[i], name) = Objects(s, pos)
      BY <2>1, <2>2, <2>5 DEF Objects
    <3> QED BY <2>1, <2>3, <3>1
  <2>6. CASE j # Null /\ heap[j].type # "Object"
    <3>1. s = Null /\ First(t, pos[i], name) = {pos[j]} /\ TypeIs(t, pos[j]) # "Object"
      BY <1>1, <2>1, <2>2, <2>6 DEF ItemStands
    <3>2. First(t, pos[j], f) = {}
      BY <3>1 DEF First
    <3> QED BY <2>3, <3>1, <3>2 DEF Named, Objects
  <2> QED BY <2>4, <2>5, <2>6
<1> QED
  BY <1>2, <1>3

\* Every field has a name.
LEMMA FieldsNamed == Unnamed \notin Fields \cup {"pi", "scaling", "stm"}
<1>1. Unnamed \notin PiFields
  BY Zenon DEF Unnamed, PiFields
<1>2. Unnamed \notin ScalingFields
  BY Zenon DEF Unnamed, ScalingFields
<1>3. Unnamed \notin StmFields
  BY Zenon DEF Unnamed, StmFields
<1>4. Unnamed \notin {"pi", "scaling", "stm"}
  BY Zenon DEF Unnamed
<1> QED
  BY <1>1, <1>2, <1>3, <1>4 DEF Fields

\* The tiers have no field in common.
LEMMA TiersApart ==
  /\ PiFields \cap ScalingFields = {} /\ PiFields \cap StmFields = {}
  /\ ScalingFields \cap StmFields = {}
BY DEF PiFields, ScalingFields, StmFields

\* The loader looks for each field where the document has it.
LEMMA HomeIs ==
  ASSUME PInv, NEW t, NEW pos, DocumentStands(t, pos),
         NEW pi, pi = Section(root, "pi"),
         NEW sc, sc = IF pi = Null THEN Null ELSE Section(pi, "scaling"),
         NEW stm, stm = Section(root, "stm")
  PROVE  /\ {pi, sc, stm} \subseteq DOMAIN heap \cup {Null}
         /\ \A f \in PiFields : Says(t, f) = Named(t, Objects(pi, pos), f)
         /\ \A f \in ScalingFields : Says(t, f) = Named(t, Objects(sc, pos), f)
         /\ \A f \in StmFields : Says(t, f) = Named(t, Objects(stm, pos), f)
<1>1. /\ root \in DOMAIN heap /\ root # Null /\ Objects(root, pos) = {Document(t)}
      /\ Unnamed \notin Fields /\ "pi" # Unnamed /\ "scaling" # Unnamed /\ "stm" # Unnamed
  BY LinksLead, FieldsNamed DEF DocumentStands, Objects
<1> PICK doc : doc = Objects(root, pos)
  OBVIOUS
<1>2. ASSUME NEW f, f # Unnamed
      PROVE  /\ pi \in DOMAIN heap \cup {Null}
             /\ Named(t, Named(t, doc, "pi"), f) = Named(t, Objects(pi, pos), f)
  <2>1. (root = Null => pi = Null) /\ (root # Null => pi = Section(root, "pi"))
    BY <1>1
  <2>2. root \in DOMAIN heap \cup {Null} /\ "pi" # Unnamed
    BY <1>1
  <2>3. /\ pi \in DOMAIN heap \cup {Null}
        /\ Named(t, Named(t, Objects(root, pos), "pi"), f) = Named(t, Objects(pi, pos), f)
    BY <1>2, <2>1, <2>2, SectionIs
  <2> QED BY <2>3
<1>3. ASSUME NEW f, f # Unnamed
      PROVE  /\ stm \in DOMAIN heap \cup {Null}
             /\ Named(t, Named(t, doc, "stm"), f) = Named(t, Objects(stm, pos), f)
  <2>1. (root = Null => stm = Null) /\ (root # Null => stm = Section(root, "stm"))
    BY <1>1
  <2>2. root \in DOMAIN heap \cup {Null} /\ "stm" # Unnamed
    BY <1>1
  <2>3. /\ stm \in DOMAIN heap \cup {Null}
        /\ Named(t, Named(t, Objects(root, pos), "stm"), f) = Named(t, Objects(stm, pos), f)
    BY <1>3, <2>1, <2>2, SectionIs
  <2> QED BY <2>3
<1>4. ASSUME NEW f, f # Unnamed
      PROVE  /\ sc \in DOMAIN heap \cup {Null}
             /\ Named(t, Named(t, Objects(pi, pos), "scaling"), f) = Named(t, Objects(sc, pos), f)
  <2>1. pi \in DOMAIN heap \cup {Null}
    BY <1>1, <1>2
  <2>2. "scaling" # Unnamed
    BY <1>1
  <2>3. (pi = Null => sc = Null) /\ (pi # Null => sc = Section(pi, "scaling"))
    OBVIOUS
  <2> QED BY <1>4, <2>1, <2>2, <2>3, SectionIs
<1>5. {pi, sc, stm} \subseteq DOMAIN heap \cup {Null}
  BY <1>1, <1>2, <1>3, <1>4
<1>6. \A f \in Fields : f # Unnamed
  BY <1>1
<1>7. ASSUME NEW f \in PiFields PROVE Says(t, f) = Named(t, Objects(pi, pos), f)
  <2>1. Says(t, f) = Named(t, Named(t, doc, "pi"), f)
    BY <1>1, TiersApart DEF Says, Homes
  <2> QED BY <1>2, <1>6, <2>1 DEF Fields
<1>8. ASSUME NEW f \in ScalingFields PROVE Says(t, f) = Named(t, Objects(sc, pos), f)
  <2>1. Says(t, f) = Named(t, Named(t, Named(t, doc, "pi"), "scaling"), f)
    BY <1>1, TiersApart DEF Says, Homes
  <2>2. Named(t, Named(t, doc, "pi"), "scaling") = Named(t, Objects(pi, pos), "scaling")
    BY <1>1, <1>2
  <2> QED BY <1>4, <1>6, <2>1, <2>2 DEF Fields
<1>9. ASSUME NEW f \in StmFields PROVE Says(t, f) = Named(t, Objects(stm, pos), f)
  <2>1. Says(t, f) = Named(t, Named(t, doc, "stm"), f)
    BY <1>1, TiersApart DEF Says, Homes
  <2> QED BY <1>3, <1>6, <2>1 DEF Fields
<1> QED
  BY <1>5, <1>7, <1>8, <1>9

\* What a text leaves to a field.
Leaves(t, f) == Left(t, f, Says(t, f))

\* These fields have been set as the text says.
SetAs(t, cfg, fields) ==
  \A f \in fields : Leaves(t, f) # {} /\ cfg[f] = CHOOSE x \in Leaves(t, f) : TRUE

\* The fields of one object are taken over, unless there is a bad one.
LEMMA TierTaken ==
  ASSUME PInv, NEW t, NEW pos, DocumentStands(t, pos), NEW o \in DOMAIN heap \cup {Null},
         NEW fields \in SUBSET Fields, NEW cfg, DOMAIN cfg = Fields,
         \A f \in fields : Says(t, f) = Named(t, Objects(o, pos), f),
         \A f \in fields : cfg[f] = Defaults[f]
  PROVE  /\ Bad(o, fields) => \E f \in fields : Leaves(t, f) = {}
         /\ ~Bad(o, fields) => SetAs(t, Taken(cfg, o, fields), fields)
         /\ Taken(cfg, o, fields) = [f \in Fields |-> Taken(cfg, o, fields)[f]]
         /\ \A f \in Fields \ fields : Taken(cfg, o, fields)[f] = cfg[f]
<1> DEFINE item(f) == IF o = Null THEN Null ELSE GetObjectItem(heap, o, f)
           conv(f) == Converted(f, heap[item(f)].type, heap[item(f)].value)
<1>1. ASSUME NEW f \in fields
      PROVE  Leaves(t, f) = IF item(f) = Null THEN {Defaults[f]} ELSE conv(f)
  <2>1. f # Unnamed
    BY FieldsNamed
  <2>2. Says(t, f) = IF item(f) = Null THEN {} ELSE {pos[item(f)]}
    <3>1. CASE o = Null
      BY <3>1 DEF Named, Objects
    <3>2. CASE o # Null
      <4>1. Says(t, f) = First(t, pos[o], f)
        <5>1. Says(t, f) = Named(t, Objects(o, pos), f) /\ Objects(o, pos) = {pos[o]}
          BY <3>2 DEF Objects
        <5>2. Named(t, {pos[o]}, f) = First(t, pos[o], f)
          BY DEF Named
        <5> QED BY <5>1, <5>2
      <4>2. item(f) = GetObjectItem(heap, o, f)
        BY <3>2
      <4> HIDE DEF item
      <4>3. /\ item(f) = Null => First(t, pos[o], f) = {}
            /\ item(f) # Null => First(t, pos[o], f) = {pos[item(f)]}
        BY <2>1, <3>2, <4>2, LookupIs
      <4> QED BY <4>1, <4>3
    <3> QED BY <3>1, <3>2
  <2>3. item(f) # Null => item(f) \in DOMAIN heap
    <3>1. CASE o = Null
      BY <3>1
    <3>2. CASE o # Null
      BY <2>1, <3>2, LookupIs
    <3> QED BY <3>1, <3>2
  <2> HIDE DEF item
  <2>4. CASE item(f) = Null
    BY <2>2, <2>4 DEF Leaves, Left
  <2>5. CASE item(f) # Null
    <3> PICK v : v = pos[item(f)]
      OBVIOUS
    <3>1. heap[item(f)].type = TypeIs(t, v) /\ heap[item(f)].value = ValueIs(t, v)
      BY <2>3, <2>5 DEF DocumentStands, ItemStands
    <3>2. Leaves(t, f) = Converted(f, TypeIs(t, v), ValueIs(t, v))
      BY <2>2, <2>5 DEF Leaves, Left
    <3> QED BY <2>5, <3>1, <3>2
  <2> QED BY <2>4, <2>5
<1>2. Bad(o, fields) <=> \E f \in fields : item(f) # Null /\ conv(f) = {}
  BY DEF Bad
<1> PICK cfg1 : cfg1 = Taken(cfg, o, fields)
  OBVIOUS
<1>3. cfg1 = [f \in Fields |->
        IF f \notin fields \/ item(f) = Null \/ conv(f) = {} THEN cfg[f]
        ELSE CHOOSE x \in conv(f) : TRUE]
  <2>1. ASSUME NEW f \in Fields
        PROVE  cfg1[f] = IF f \notin fields \/ item(f) = Null \/ conv(f) = {} THEN cfg[f]
                         ELSE CHOOSE x \in conv(f) : TRUE
    <3> DEFINE i == IF o = Null \/ f \notin fields THEN Null ELSE GetObjectItem(heap, o, f)
               v == IF i = Null THEN {} ELSE Converted(f, heap[i].type, heap[i].value)
    <3>1. cfg1[f] = IF v = {} THEN cfg[f] ELSE CHOOSE x \in v : TRUE
      BY DEF Taken
    <3>2. CASE f \notin fields
      BY <3>1, <3>2
    <3>3. CASE f \in fields
      <4>1. i = item(f)
        BY <3>3
      <4>2. v = IF item(f) = Null THEN {} ELSE conv(f)
        BY <4>1
      <4> HIDE DEF i, v, item, conv
      <4> QED BY <3>1, <3>3, <4>2
    <3> QED BY <3>2, <3>3
  <2>2. cfg1 = [f \in Fields |-> cfg1[f]]
    BY DEF Taken
  <2> HIDE DEF item, conv
  <2> QED BY <2>1, <2>2
<1> HIDE DEF item, conv
<1>4. ASSUME ~Bad(o, fields) PROVE SetAs(t, cfg1, fields)
  <2> SUFFICES ASSUME NEW f \in fields
               PROVE  Leaves(t, f) # {} /\ cfg1[f] = CHOOSE x \in Leaves(t, f) : TRUE
    BY DEF SetAs
  <2>1. CASE item(f) = Null
    BY <1>1, <1>3, <2>1
  <2>2. CASE item(f) # Null
    BY <1>1, <1>2, <1>3, <1>4, <2>2
  <2> QED BY <2>1, <2>2
<1> QED
  BY <1>1, <1>2, <1>3, <1>4

\* What a text configures, if it begins with a document.
LEMMA ConfiguresIs ==
  ASSUME NEW t, End(t, Document(t)) # 0
  PROVE  /\ (\E f \in Fields : Leaves(t, f) = {}) => Configures(t) = {}
         /\ \A cfg : cfg = [f \in Fields |-> cfg[f]] /\ SetAs(t, cfg, Fields)
                     => Configures(t) = {cfg}
<1> DEFINE L == [f \in Fields |-> Left(t, f, Says(t, f))]
           Chosen(l) == [f \in Fields |-> CHOOSE x \in l[f] : TRUE]
           Good == {l \in {L} : \A f \in Fields : l[f] # {}}
<1>1. Configures(t) = {Chosen(l) : l \in Good}
  BY DEF Configures
<1>2. \A f \in Fields : L[f] = Leaves(t, f)
  BY DEF Leaves
<1> HIDE DEF L
<1>3. ASSUME NEW f \in Fields, Leaves(t, f) = {} PROVE Configures(t) = {}
  <2>1. Good = {}
    BY <1>2, <1>3
  <2> HIDE DEF Good
  <2> QED BY <1>1, <2>1
<1>4. ASSUME NEW cfg, cfg = [f \in Fields |-> cfg[f]], SetAs(t, cfg, Fields)
      PROVE  Configures(t) = {cfg}
  <2>1. Good = {L}
    BY <1>2, <1>4 DEF SetAs
  <2>2. Chosen(L) = cfg
    BY <1>2, <1>4 DEF SetAs
  <2> HIDE DEF Good, Chosen
  <2> QED BY <1>1, <2>1, <2>2
<1> QED
  BY <1>3, <1>4

-----------------------------------------------------------------------------
(* A TEXT THAT HAS BEEN CUT OFF                                            *)

\* t is the text u, or its beginning.
Begun(t, u) ==
  /\ IsText(t) /\ IsText(u) /\ Len(t) <= Len(u)
  /\ \A i \in 1 .. Len(t) - 1 : u[i] = t[i]

\* What can be read in the beginning is the same in the whole text.
LEMMA AtSame ==
  ASSUME NEW t, NEW u, Begun(t, u), NEW i, At(t, i) # "NUL"
  PROVE  At(u, i) = At(t, i) /\ i \in 1 .. Len(t) - 1
<1>1. i \in 1 .. Len(t) - 1
  BY TextIs DEF Begun
<1>2. DOMAIN t = 1 .. Len(t) /\ DOMAIN u = 1 .. Len(u) /\ Len(t) \in Nat /\ Len(u) \in Nat
  BY TextIs DEF Begun
<1> QED
  BY <1>1, <1>2 DEF Begun, At

\* So is the next token.
LEMMA TokenSame ==
  ASSUME NEW t, NEW u, Begun(t, u), NEW i \in Nat \ {0}, At(t, Token(t, i)) # "NUL"
  PROVE  Token(u, i) = Token(t, i) /\ At(u, Token(u, i)) = At(t, Token(t, i))
<1> PICK q : q = Token(t, i)
  OBVIOUS
<1> PICK r : r = Token(u, i)
  OBVIOUS
<1>1. IsText(t) /\ IsText(u) /\ Len(t) <= Len(u) /\ Len(t) \in Nat /\ Len(u) \in Nat
  BY TextIs DEF Begun
<1>2. /\ q \in 1 .. Len(t) /\ i <= q /\ q < Len(t) /\ At(t, q) \notin Blanks
      /\ \A k \in i .. q - 1 : At(t, k) \in Blanks
  BY <1>1, TokenIs DEF Blanks
<1>3. /\ r \in 1 .. Len(u) /\ (i <= Len(u) => i <= r)
      /\ At(u, r) # "blank" /\ (At(u, r) = "NUL" => r = Len(u))
      /\ \A k \in i .. r - 1 : At(u, k) \in Blanks
  BY <1>1, TokenIs
<1>4. \A k \in 1 .. Len(t) - 1 : At(u, k) = At(t, k)
  BY <1>1, TextIs DEF Begun, At
<1>5. ~(r < q)
  <2> SUFFICES ASSUME r < q PROVE FALSE
    OBVIOUS
  <2>1. r \in i .. q - 1 /\ r \in 1 .. Len(t) - 1 /\ r # Len(u)
    BY <1>1, <1>2, <1>3
  <2>2. At(u, r) \in Blanks
    BY <1>2, <1>4, <2>1
  <2> QED BY <1>3, <2>1, <2>2 DEF Blanks
<1>6. ~(q < r)
  <2> SUFFICES ASSUME q < r PROVE FALSE
    OBVIOUS
  <2>1. q \in i .. r - 1 /\ q \in 1 .. Len(t) - 1
    BY <1>1, <1>2, <1>3
  <2> QED BY <1>2, <1>3, <1>4, <2>1
<1>7. q = r
  BY <1>1, <1>2, <1>3, <1>5, <1>6
<1> QED
  BY <1>7, AtSame

\* So is an element, if there is one.
LEMMA BehindSame ==
  ASSUME NEW t, NEW u, Begun(t, u), NEW i \in 1 .. Len(t), NEW open \in Brackets, NEW d,
         At(t, Element(t, i, open)) # "NUL"
  PROVE  /\ Behind(u, i, open, d) = Behind(t, i, open, d)
         /\ At(t, Token(t, i + 1)) # "NUL"
<1>1. IsText(t) /\ IsText(u) /\ Len(t) \in Nat /\ i + 1 \in Nat \ {0}
  BY TextIs DEF Begun
<1> PICK first : first = Token(t, i + 1)
  OBVIOUS
<1>2. first + 1 \in Nat \ {0}
  <2>1. first \in 1 .. Len(t)
    BY <1>1, TokenIs
  <2> QED BY <1>1, <2>1
<1> PICK colon : colon = Token(t, first + 1)
  OBVIOUS
<1>3. colon + 1 \in Nat \ {0}
  <2>1. colon \in 1 .. Len(t)
    BY <1>1, <1>2, TokenIs
  <2> QED BY <1>1, <2>1
<1>4. CASE open = "["
  <2>1. Element(t, i, open) = first /\ Element(u, i, open) = Token(u, i + 1)
    BY <1>4 DEF Element
  <2>2. At(t, first) # "NUL"
    BY <2>1
  <2>3. Token(u, i + 1) = first
    BY <1>1, <2>2, TokenSame
  <2> QED BY <1>4, <2>1, <2>2, <2>3, Zenon DEF Behind
<1>5. CASE open # "["
  <2>1. /\ At(t, first) \in Strings /\ At(t, colon) = ":"
        /\ Element(t, i, open) = Token(t, colon + 1)
    <3>1. At(t, 0) = "NUL"
      BY <1>1, TextIs
    <3> QED BY <1>5, <3>1 DEF Element
  <2>2. At(t, first) # "NUL" /\ At(t, colon) # "NUL" /\ At(t, Token(t, colon + 1)) # "NUL"
    BY <2>1, BracketsAreNoScalars
  <2>3. Token(u, i + 1) = first /\ At(u, first) = At(t, first)
    BY <1>1, <2>2, TokenSame
  <2>4. Token(u, first + 1) = colon /\ At(u, colon) = At(t, colon)
    BY <1>2, <2>2, TokenSame
  <2>5. Token(u, colon + 1) = Token(t, colon + 1)
    BY <1>3, <2>2, TokenSame
  <2>6. Element(u, i, open) = Element(t, i, open)
    BY <1>5, <2>1, <2>3, <2>4, <2>5 DEF Element
  <2> QED BY <1>5, <2>2, <2>3, <2>6, Zenon DEF Behind
<1> QED
  BY <1>4, <1>5

\* Where lists end that begin at i.
ListEndSame(t, u, i) ==
  \A open \in Brackets, d \in Nesting :
    ListEnd(t)[i][open][d] # 0 => ListEnd(u)[i][open][d] = ListEnd(t)[i][open][d]

\* A value that ends goes as far in the whole text.
LEMMA EndSame ==
  ASSUME NEW t, NEW u, Begun(t, u), NEW v, IsPlace(t, v), End(t, v) # 0,
         ListEndSame(t, u, v.at)
  PROVE  End(u, v) = End(t, v) /\ IsPlace(u, v) /\ FirstIn(u, v) = FirstIn(t, v)
<1> PICK x : x = At(t, v.at)
  OBVIOUS
<1> PICK first : first = Token(t, v.at + 1)
  OBVIOUS
<1>1. IsText(t) /\ IsText(u) /\ Len(t) \in Nat /\ Len(u) \in Nat /\ Len(t) <= Len(u)
  BY TextIs DEF Begun
<1>2. x \in Scalars \cup Brackets /\ x # "NUL" /\ (x \in Brackets => x \notin Scalars)
  BY <1>1, EndIs, BracketsAreNoScalars
<1>3. At(u, v.at) = x /\ v.at \in 1 .. Len(t) - 1
  BY <1>2, AtSame
<1>4. IsPlace(u, v)
  BY <1>1 DEF IsPlace
<1>5. CASE x \in Scalars
  <2>1. End(t, v) = v.at + 1 /\ End(u, v) = v.at + 1
    BY <1>1, <1>3, <1>4, <1>5, EndIs
  <2>2. FirstIn(t, v) = {} /\ FirstIn(u, v) = {}
    BY <1>2, <1>3, <1>5 DEF FirstIn
  <2> QED BY <1>4, <2>1, <2>2
<1>6. CASE x \in Brackets
  <2>1. v.depth < CJSON_NESTING_LIMIT /\ v.depth + 1 \in Nesting
    <3>1. ~(v.depth >= CJSON_NESTING_LIMIT)
      BY <1>1, <1>6, EndIs
    <3> QED BY <3>1, NestingIs DEF IsPlace
  <2>2. v.at \in 1 .. Len(t) /\ v.at + 1 \in Nat \ {0}
    BY <1>1, <1>3
  <2>3. /\ At(t, first) = Closing(x) => End(t, v) = first + 1
        /\ At(t, first) # Closing(x) => End(t, v) = ListEnd(t)[v.at][x][v.depth + 1]
    BY <1>1, <1>6, <2>1, EndIs
  <2> PICK g : g = Token(u, v.at + 1)
    OBVIOUS
  <2>4. /\ At(u, g) = Closing(x) => End(u, v) = g + 1
        /\ At(u, g) # Closing(x) => End(u, v) = ListEnd(u)[v.at][x][v.depth + 1]
    BY <1>1, <1>3, <1>4, <1>6, <2>1, EndIs
  <2>5. CASE At(t, first) = Closing(x)
    <3>1. g = first /\ At(u, g) = At(t, first)
      BY <2>2, <2>5, ClosingIs, TokenSame
    <3>2. FirstIn(t, v) = {} /\ FirstIn(u, v) = {}
      BY <1>3, <2>5, <3>1, Zenon DEF FirstIn
    <3> QED BY <1>4, <2>3, <2>4, <2>5, <3>1, <3>2
  <2>6. CASE At(t, first) # Closing(x)
    <3> PICK e : e = ListEnd(t)[v.at][x][v.depth + 1]
      OBVIOUS
    <3>1. e # 0
      BY <2>3, <2>6
    <3>2. ListEnd(u)[v.at][x][v.depth + 1] = e
      BY <1>6, <2>1, <3>1 DEF ListEndSame
    <3>3. End(t, Behind(t, v.at, x, v.depth + 1)) # 0
      BY <1>1, <1>6, <2>1, <2>2, <3>1, NoElement
    <3>4. At(t, Element(t, v.at, x)) # "NUL"
      <4>1. LET w == Behind(t, v.at, x, v.depth + 1) IN IsPlace(t, w) /\ w.at = Element(t, v.at, x)
        BY <1>1, <1>6, <2>1, <2>2, BehindIs
      <4> QED BY <1>1, <3>3, <4>1, EndIs, BracketsAreNoScalars
    <3>5. /\ Behind(u, v.at, x, v.depth + 1) = Behind(t, v.at, x, v.depth + 1)
          /\ At(t, first) # "NUL"
      BY <1>6, <2>2, <3>4, BehindSame
    <3>6. g = first /\ At(u, g) = At(t, first)
      BY <2>2, <3>5, TokenSame
    <3>7. FirstIn(u, v) = FirstIn(t, v)
      BY <1>3, <1>6, <2>6, <3>5, <3>6, Zenon DEF FirstIn
    <3> QED BY <1>4, <2>3, <2>4, <2>6, <3>2, <3>6, <3>7
  <2> QED BY <2>5, <2>6
<1> QED
  BY <1>2, <1>5, <1>6


\* A value that ends is there to be read.
LEMMA PlaceRead ==
  ASSUME NEW t, IsText(t), NEW v, IsPlace(t, v), End(t, v) # 0
  PROVE  At(t, v.at) # "NUL" /\ v.at \in 1 .. Len(t) - 1
<1>1. At(t, v.at) # "NUL"
  BY EndIs, BracketsAreNoScalars
<1> QED
  BY <1>1, TextIs

\* Nor does it matter for an element of a list that ends whether the text goes on.
LEMMA ElementSame ==
  ASSUME NEW t, NEW u, Begun(t, u), NEW i \in 1 .. Len(t), NEW open \in Brackets,
         NEW d \in Nesting, NEW v, v = Behind(t, i, open, d), ListEnd(t)[i][open][d] # 0
  PROVE  /\ v = Behind(u, i, open, d) /\ IsPlace(t, v) /\ End(t, v) # 0
         /\ v.depth = d /\ i < v.at /\ v.at \in 1 .. Len(t) - 1
<1>1. IsText(t)
  BY DEF Begun
<1>2. End(t, v) # 0
  BY <1>1, NoElement
<1>3. IsPlace(t, v) /\ v.depth = d /\ v.at = Element(t, i, open)
  <2>1. LET w == Behind(t, i, open, d)
        IN  IsPlace(t, w) /\ w.depth = d /\ w.at = Element(t, i, open)
    BY <1>1, BehindIs
  <2> QED BY <2>1
<1>4. At(t, v.at) # "NUL" /\ v.at \in 1 .. Len(t) - 1
  BY <1>1, <1>2, <1>3, PlaceRead
<1>5. i < v.at
  BY <1>1, <1>3, <1>4, ElementIs
<1>6. Behind(u, i, open, d) = Behind(t, i, open, d)
  BY <1>3, <1>4, BehindSame
<1> QED
  BY <1>2, <1>3, <1>4, <1>5, <1>6

\* A list that ends goes as far in the whole text.
LEMMA ListEndsSame ==
  ASSUME NEW t, NEW u, Begun(t, u)
  PROVE  \A i \in 1 .. Len(t) : ListEndSame(t, u, i)
<1>1. PICK n \in Nat \ {0} : n = Len(t)
  BY TextIs DEF Begun
<1>2. IsText(t) /\ IsText(u) /\ Len(u) \in Nat /\ Len(t) <= Len(u)
  BY TextIs DEF Begun
<1> DEFINE S == {m \in Nat : \A i \in 1 .. n : n - i < m => ListEndSame(t, u, i)}
<1>3. 0 \in S
  <2>1. \A i \in 1 .. n : ~(n - i < 0)
    OBVIOUS
  <2> QED BY <2>1
<1>4. ASSUME NEW m \in Nat, m \in S PROVE m + 1 \in S
  <2>1. ASSUME NEW i \in 1 .. n, n - i < m + 1, NEW open \in Brackets, NEW d \in Nesting,
               ListEnd(t)[i][open][d] # 0
        PROVE  ListEnd(u)[i][open][d] = ListEnd(t)[i][open][d]
    <3> PICK v : v = Behind(t, i, open, d)
      OBVIOUS
    <3> PICK e : e = End(t, v)
      OBVIOUS
    <3> PICK p : p = Token(t, e)
      OBVIOUS
    <3>1. i \in 1 .. Len(t) /\ i \in 1 .. Len(u)
      BY <1>1, <1>2
    <3>2. /\ v = Behind(u, i, open, d) /\ IsPlace(t, v) /\ e # 0
          /\ i < v.at /\ v.at \in 1 .. Len(t) - 1
      BY <2>1, <3>1, ElementSame
    <3>12. e # 0
      BY <3>2
    <3>3. \A j \in 1 .. n : i < j => ListEndSame(t, u, j)
      <4>1. \A j \in 1 .. n : i < j => n - j < m
        BY <2>1
      <4> QED BY <1>4, <4>1
    <3>4. ListEndSame(t, u, v.at)
      BY <1>1, <3>2, <3>3
    <3>5. End(u, v) = e
      BY <3>2, <3>4, EndSame
    <3>6. e \in Nat \ {0} /\ v.at < e
      BY <1>2, <3>2, EndIs DEF Ahead
    <3>7. At(t, p) \in {Comma, Closing(open)}
      BY <1>2, <2>1, <3>1, ListGoesOn
    <3>8. At(t, p) # "NUL"
      <4>1. Comma # "NUL"
        BY Zenon DEF Comma
      <4> QED BY <3>7, <4>1, ClosingIs
    <3>9. Token(u, e) = p /\ At(u, p) = At(t, p)
      BY <3>6, <3>8, TokenSame
    <3>10. CASE At(t, p) = Comma
      <4>1. ListEnd(t)[i][open][d] = ListEnd(t)[p][open][d]
        BY <1>2, <3>1, <3>12, <3>10, ListGoesOn
      <4>2. ListEnd(u)[i][open][d] = ListEnd(u)[p][open][d]
        BY <1>2, <3>1, <3>2, <3>5, <3>9, <3>10, ListGoesOn
      <4>3. p \in 1 .. Len(t) /\ e <= p
        BY <1>2, <3>6, <3>8, TokenIs
      <4>4. p \in 1 .. n /\ i < p
        BY <1>1, <3>2, <3>6, <4>3
      <4>5. ListEnd(u)[p][open][d] = ListEnd(t)[p][open][d]
        BY <2>1, <3>3, <4>1, <4>4 DEF ListEndSame
      <4> QED BY <4>1, <4>2, <4>5
    <3>11. CASE At(t, p) = Closing(open)
      <4>1. ListEnd(t)[i][open][d] = p + 1
        BY <1>2, <3>1, <3>12, <3>11, ListGoesOn
      <4>2. ListEnd(u)[i][open][d] = p + 1
        BY <1>2, <3>1, <3>2, <3>5, <3>9, <3>11, ListGoesOn
      <4> QED BY <4>1, <4>2
    <3> QED BY <3>7, <3>10, <3>11
  <2> QED BY <2>1 DEF ListEndSame
<1> HIDE DEF S
<1>5. Nat \subseteq S
  BY <1>3, <1>4, SetInduction
<1> SUFFICES ASSUME NEW i \in 1 .. n PROVE ListEndSame(t, u, i)
  BY <1>1
<1>6. n + 1 \in S /\ n - i < n + 1
  BY <1>5
<1> QED
  BY <1>6 DEF S

\* A value of a list that ends, and the one next to it, are the same.
LEMMA NextSame ==
  ASSUME NEW t, NEW u, Begun(t, u), NEW v, Ending(t, v)
  PROVE  Ending(u, v) /\ NextTo(u, v) = NextTo(t, v)
<1>1. PICK i \in 1 .. Len(t), open \in Brackets, d \in Nesting :
        v = Behind(t, i, open, d) /\ ListEnd(t)[i][open][d] # 0
  BY DEF Ending
<1>2. IsText(t) /\ IsText(u) /\ Len(t) \in Nat /\ Len(u) \in Nat /\ Len(t) <= Len(u)
  BY TextIs DEF Begun
<1>3. /\ v = Behind(u, i, open, d) /\ IsPlace(t, v) /\ End(t, v) # 0
      /\ v.depth = d /\ v.at \in 1 .. Len(t) - 1
  BY <1>1, ElementSame
<1>4. ListEndSame(t, u, v.at) /\ ListEndSame(t, u, i) /\ i \in 1 .. Len(u)
  <2>1. v.at \in 1 .. Len(t) /\ i \in 1 .. Len(u)
    BY <1>2, <1>3
  <2> QED BY <2>1, ListEndsSame
<1>5. ListEnd(u)[i][open][d] # 0
  BY <1>1, <1>4 DEF ListEndSame
<1>6. Ending(u, v)
  BY <1>3, <1>4, <1>5 DEF Ending
<1> PICK e : e = End(t, v)
  OBVIOUS
<1> PICK p : p = Token(t, e)
  OBVIOUS
<1>7. End(u, v) = e
  BY <1>3, <1>4, EndSame
<1>8. e \in Nat \ {0}
  BY <1>2, <1>3, EndIs DEF Ahead
<1>9. At(t, p) \in {Comma, Closing(open)}
  BY <1>1, <1>2, ListGoesOn
<1>10. At(t, p) # "NUL"
  <2>1. Comma # "NUL"
    BY Zenon DEF Comma
  <2> QED BY <1>9, <2>1, ClosingIs
<1>11. Token(u, e) = p /\ At(u, p) = At(t, p)
  BY <1>8, <1>10, TokenSame
<1> DEFINE o == IF Nameless(v) THEN "[" ELSE "{"
<1>12. /\ NextTo(t, v) = IF v.depth = 0 \/ At(t, p) # Comma THEN {} ELSE {Behind(t, p, o, v.depth)}
       /\ NextTo(u, v) = IF v.depth = 0 \/ At(t, p) # Comma THEN {} ELSE {Behind(u, p, o, v.depth)}
  BY <1>7, <1>11, Zenon DEF NextTo, Comma, Nameless
<1>13. o = open
  <2>1. Nameless(v) <=> open = "["
    BY <1>1, <1>2, <1>3, MemberNamed
  <2> QED BY <1>1, <2>1 DEF Brackets
<1> HIDE DEF o
<1>14. ASSUME v.depth # 0, At(t, p) = Comma PROVE Behind(u, p, open, d) = Behind(t, p, open, d)
  <2>3. ListEnd(t)[p][open][d] # 0
    <3>1. e # 0
      BY <1>3
    <3>2. ListEnd(t)[i][open][d] = ListEnd(t)[p][open][d]
      BY <1>1, <1>2, <1>14, <3>1, ListGoesOn
    <3> QED BY <1>1, <3>2
  <2>4. p \in 1 .. Len(t)
    BY <1>2, <1>8, TokenIs
  <2> PICK w : w = Behind(t, p, open, d)
    OBVIOUS
  <2>5. w = Behind(u, p, open, d)
    BY <1>1, <2>3, <2>4, ElementSame
  <2> QED BY <2>5
<1> QED
  BY <1>3, <1>6, <1>12, <1>13, <1>14

\* The document that the beginning of a text begins with is that of the text.
LEMMA DocumentSame ==
  ASSUME NEW t, NEW u, Begun(t, u), End(t, Document(t)) # 0
  PROVE  Document(u) = Document(t)
<1> PICK n \in Nat \ {0} : n = Len(t)
  BY TextIs DEF Begun
<1> PICK m : m = Len(u)
  OBVIOUS
<1>1. IsText(t) /\ IsText(u) /\ m \in Nat /\ n <= m
  BY TextIs DEF Begun
<1>2. /\ At(t, Document(t).at) # "NUL" /\ Document(t).at \in 1 .. n - 1
      /\ At(t, Document(t).at) \in Scalars \cup Brackets
  BY <1>1, DocumentIs, PlaceRead, EndIs
<1> DEFINE From(s) == IF s[1] = "BOM" /\ Len(s) >= 3 THEN 2 ELSE 1
<1>3. /\ Document(t) = [at |-> Token(t, From(t)), name |-> Unnamed, depth |-> 0]
      /\ Document(u) = [at |-> Token(u, From(u)), name |-> Unnamed, depth |-> 0]
  BY Zenon DEF Document, Unnamed
<1>4. Document(t).at = Token(t, From(t))
  BY <1>3
<1>5. u[1] = t[1] /\ At(t, 1) = t[1]
  <2>1. 1 \in 1 .. n - 1 /\ 1 \in 1 .. n
    BY <1>2
  <2>2. DOMAIN t = 1 .. n
    BY <1>1, TextIs
  <2> QED BY <2>1, <2>2 DEF Begun, At
<1>6. From(u) = From(t)
  <2>1. CASE t[1] = "BOM" /\ n < 3
    <3>1. From(t) = 1
      BY <2>1
    <3>2. Token(t, 1) \in 1 .. n - 1
      BY <1>2, <1>4, <3>1
    <3>3. Token(t, 1) = 1
      BY <2>1, <3>2
    <3>4. "BOM" \in Scalars \cup Brackets
      BY <1>2, <1>4, <1>5, <2>1, <3>1, <3>3
    <3>5. "BOM" \notin Scalars \cup Brackets
      BY KindsAssumption DEF Scalars, Brackets, Literal, Marks
    <3> QED BY <3>4, <3>5
  <2>2. CASE t[1] # "BOM" \/ n >= 3
    BY <1>1, <1>5, <2>2
  <2> QED BY <2>1, <2>2
<1>7. From(t) \in Nat \ {0}
  OBVIOUS
<1> HIDE DEF From
<1>8. Token(u, From(t)) = Token(t, From(t))
  BY <1>2, <1>4, <1>7, TokenSame
<1> QED
  BY <1>3, <1>6, <1>8

\* What begins with the document of a whole text is not taken for another one.
LEMMA LongerStands ==
  ASSUME NEW t, NEW u, Begun(t, u), NEW pos, DocumentStands(t, pos)
  PROVE  DocumentStands(u, pos)
<1>1. IsText(t) /\ IsText(u)
  BY DEF Begun
<1>2. End(t, Document(t)) # 0
  BY DEF DocumentStands, ItemStands
<1>3. Document(u) = Document(t)
  BY <1>2, DocumentSame
<1>4. ASSUME NEW i \in DOMAIN heap PROVE ItemStands(u, i, pos)
  <2> PICK v : v = pos[i]
    OBVIOUS
  <2>1. /\ IsPlace(t, v) /\ End(t, v) # 0 /\ (v.depth = 0 \/ Ending(t, v))
        /\ heap[i].type = TypeIs(t, v) /\ heap[i].value = ValueIs(t, v)
        /\ heap[i].string = v.name
        /\ LinksTo(heap[i].child, FirstIn(t, v), pos)
        /\ LinksTo(heap[i].next, NextTo(t, v), pos)
        /\ heap[i].child # Null => (Nameless(pos[heap[i].child]) <=> heap[i].type # "Object")
        /\ heap[i].next # Null => (Nameless(pos[heap[i].next]) <=> Nameless(v))
    BY <1>4 DEF DocumentStands, ItemStands
  <2>2. At(t, v.at) # "NUL" /\ v.at \in 1 .. Len(t)
    <3>1. Len(t) \in Nat /\ At(t, v.at) # "NUL" /\ v.at \in 1 .. Len(t) - 1
      BY <1>1, <2>1, TextIs, PlaceRead
    <3> QED BY <3>1
  <2>3. ListEndSame(t, u, v.at) /\ At(u, v.at) = At(t, v.at)
    BY <2>2, ListEndsSame, AtSame
  <2>4. End(u, v) = End(t, v) /\ IsPlace(u, v) /\ FirstIn(u, v) = FirstIn(t, v)
    BY <2>1, <2>3, EndSame
  <2>5. TypeIs(u, v) = TypeIs(t, v)
    BY <2>3 DEF TypeIs
  <2>6. ValueIs(u, v) = ValueIs(t, v)
    BY <2>3, Zenon DEF ValueIs
  <2>7. NextTo(u, v) = NextTo(t, v) /\ (v.depth = 0 \/ Ending(u, v))
    <3>1. CASE v.depth = 0
      BY <3>1, Zenon DEF NextTo
    <3>2. CASE Ending(t, v)
      BY <3>2, NextSame
    <3> QED BY <2>1, <3>1, <3>2
  <2> QED BY <2>1, <2>4, <2>5, <2>6, <2>7 DEF ItemStands
<1> QED
  BY <1>1, <1>3, <1>4 DEF DocumentStands

-----------------------------------------------------------------------------
(* WHAT IS MADE OF A TEXT                                                  *)

\* How far the loader has got, at p with the copy cfg, with what t configures.
Stage(t, p, cfg) ==
  /\ p = "pi" => cfg = Defaults
  /\ p = "stm" => /\ SetAs(t, cfg, PiFields \cup ScalingFields)
                  /\ \A f \in StmFields : cfg[f] = Defaults[f]
  /\ p = "commit" => Configures(t) = {cfg}
  /\ p = "bad" => Configures(t) = {}

\* The Pi tier is read as the text has it.
LEMMA PiStage ==
  ASSUME IInv, NEW t, NEW pos, DocumentStands(t, pos), Stage(t, pc, staged), LoadPi
  PROVE  Stage(t, pc', staged')
<1> PICK pi : pi = Section(root, "pi")
  OBVIOUS
<1> PICK sc : sc = IF pi = Null THEN Null ELSE Section(pi, "scaling")
  OBVIOUS
<1> PICK cfg1 : cfg1 = Taken(Defaults, pi, PiFields)
  OBVIOUS
<1> PICK cfg2 : cfg2 = Taken(cfg1, sc, ScalingFields)
  OBVIOUS
<1>1. /\ staged' = cfg2
      /\ pc' = IF Bad(pi, PiFields) \/ Bad(sc, ScalingFields) THEN "bad" ELSE "stm"
  <2>1. pc = "pi" /\ staged = Defaults
    BY DEF LoadPi, Stage
  <2>2. staged' = Taken(Taken(staged, pi, PiFields), sc, ScalingFields)
    BY DEF LoadPi
  <2>3. pc' = IF Bad(pi, PiFields) \/ Bad(sc, ScalingFields) THEN "bad" ELSE "stm"
    BY DEF LoadPi
  <2> QED BY <2>1, <2>2, <2>3
<1>2. PInv /\ End(t, Document(t)) # 0
  BY TypeOKIs DEF IInv, PInv, DocumentStands, ItemStands
<1>3. /\ {pi, sc} \subseteq DOMAIN heap \cup {Null}
      /\ \A f \in PiFields : Says(t, f) = Named(t, Objects(pi, pos), f)
      /\ \A f \in ScalingFields : Says(t, f) = Named(t, Objects(sc, pos), f)
  BY <1>2, HomeIs
<1>4. /\ PiFields \subseteq Fields /\ ScalingFields \subseteq Fields /\ StmFields \subseteq Fields
      /\ DOMAIN Defaults = Fields
  BY DefaultsInRange DEF InRange, Fields
<1>5. /\ Bad(pi, PiFields) => \E f \in PiFields : Leaves(t, f) = {}
      /\ ~Bad(pi, PiFields) => SetAs(t, cfg1, PiFields)
      /\ cfg1 = [f \in Fields |-> cfg1[f]]
      /\ \A f \in Fields \ PiFields : cfg1[f] = Defaults[f]
  BY <1>2, <1>3, <1>4, TierTaken
<1>6. DOMAIN cfg1 = Fields /\ \A f \in ScalingFields \cup StmFields : cfg1[f] = Defaults[f]
  BY <1>4, <1>5, TiersApart
<1>7. /\ Bad(sc, ScalingFields) => \E f \in ScalingFields : Leaves(t, f) = {}
      /\ ~Bad(sc, ScalingFields) => SetAs(t, cfg2, ScalingFields)
      /\ \A f \in Fields \ ScalingFields : cfg2[f] = cfg1[f]
  <2>1. ScalingFields \in SUBSET Fields /\ DOMAIN cfg1 = Fields /\ PInv
    BY <1>2, <1>4, <1>6
  <2>2. \A f \in ScalingFields : cfg1[f] = Defaults[f]
    BY <1>6
  <2>3. /\ sc \in DOMAIN heap \cup {Null}
        /\ \A f \in ScalingFields : Says(t, f) = Named(t, Objects(sc, pos), f)
    BY <1>3
  <2> QED BY <2>1, <2>2, <2>3, TierTaken
<1>8. CASE Bad(pi, PiFields) \/ Bad(sc, ScalingFields)
  <2>1. \E f \in Fields : Leaves(t, f) = {}
    BY <1>4, <1>5, <1>7, <1>8
  <2>2. Configures(t) = {} /\ pc' = "bad"
    BY <1>1, <1>2, <1>8, <2>1, ConfiguresIs
  <2> QED BY <2>2 DEF Stage
<1>9. CASE ~Bad(pi, PiFields) /\ ~Bad(sc, ScalingFields)
  <2>1. \A f \in PiFields \cup StmFields : cfg2[f] = cfg1[f]
    BY <1>4, <1>7, TiersApart
  <2>2. SetAs(t, cfg2, PiFields \cup ScalingFields)
    BY <1>5, <1>7, <1>9, <2>1 DEF SetAs
  <2>3. \A f \in StmFields : cfg2[f] = Defaults[f]
    BY <1>6, <2>1
  <2>4. pc' = "stm"
    BY <1>1, <1>9
  <2> QED BY <1>1, <2>2, <2>3, <2>4 DEF Stage
<1> QED
  BY <1>8, <1>9

\* The STM tier is, and with it the configuration is complete.
LEMMA StmStage ==
  ASSUME IInv, NEW t, NEW pos, DocumentStands(t, pos), Stage(t, pc, staged), LoadStm
  PROVE  Stage(t, pc', staged')
<1> PICK stm : stm = Section(root, "stm")
  OBVIOUS
<1> PICK cfg : cfg = staged
  OBVIOUS
<1> PICK cfg1 : cfg1 = Taken(cfg, stm, StmFields)
  OBVIOUS
<1>1. staged' = cfg1 /\ pc' = IF Bad(stm, StmFields) THEN "bad" ELSE "commit"
  BY DEF LoadStm
<1>2. /\ SetAs(t, cfg, PiFields \cup ScalingFields)
      /\ \A f \in StmFields : cfg[f] = Defaults[f]
  BY DEF LoadStm, Stage
<1>3. PInv /\ End(t, Document(t)) # 0 /\ DOMAIN cfg = Fields /\ StmFields \in SUBSET Fields
  BY TypeOKIs DEF IInv, PInv, DocumentStands, ItemStands, InRange, Fields
<1>4. stm \in DOMAIN heap \cup {Null}
      /\ \A f \in StmFields : Says(t, f) = Named(t, Objects(stm, pos), f)
  BY <1>3, HomeIs
<1>5. /\ Bad(stm, StmFields) => \E f \in StmFields : Leaves(t, f) = {}
      /\ ~Bad(stm, StmFields) => SetAs(t, cfg1, StmFields)
      /\ cfg1 = [f \in Fields |-> cfg1[f]]
      /\ \A f \in Fields \ StmFields : cfg1[f] = cfg[f]
  <2>1. \A f \in StmFields : cfg[f] = Defaults[f]
    BY <1>2
  <2>2. PInv /\ DOMAIN cfg = Fields /\ StmFields \in SUBSET Fields
    BY <1>3
  <2> QED BY <1>4, <2>1, <2>2, TierTaken
<1>6. CASE Bad(stm, StmFields)
  <2>1. \E f \in Fields : Leaves(t, f) = {}
    BY <1>3, <1>5, <1>6
  <2>2. Configures(t) = {} /\ pc' = "bad"
    BY <1>1, <1>3, <1>6, <2>1, ConfiguresIs
  <2> QED BY <2>2 DEF Stage
<1>7. CASE ~Bad(stm, StmFields)
  <2>1. \A f \in PiFields \cup ScalingFields : cfg1[f] = cfg[f]
    BY <1>5, TiersApart DEF Fields
  <2>2. SetAs(t, cfg1, Fields)
    BY <1>2, <1>5, <1>7, <2>1 DEF SetAs, Fields
  <2>3. Configures(t) = {cfg1} /\ pc' = "commit"
    BY <1>1, <1>3, <1>5, <1>7, <2>2, ConfiguresIs
  <2> QED BY <1>1, <2>3 DEF Stage
<1> QED
  BY <1>6, <1>7

\* A version as a text.
TextOf(v) == Append(v, "NUL")

\* A text that begins a version is the beginning of the version as a text.
LEMMA VersionBegun ==
  ASSUME NEW t, IsText(t), NEW v \in Versions, IsBeginning(t, v)
  PROVE  Begun(t, TextOf(v))
<1> PICK u : u = TextOf(v)
  OBVIOUS
<1>1. v \in Seq(Tokens) /\ "NUL" \in Tokens
  BY LoaderAssumption DEF Tokens, Marks
<1>2. Len(v) \in Nat /\ Len(t) \in Nat
  BY <1>1, LenProperties DEF IsText
<1>3. IsText(u) /\ Len(u) = Len(v) + 1 /\ \A i \in 1 .. Len(v) : u[i] = v[i]
  BY <1>1, <1>2, AppendProperties DEF IsText, TextOf
<1>4. Len(t) <= Len(u) /\ \A i \in 1 .. Len(t) - 1 : i \in 1 .. Len(v)
  BY <1>2, <1>3 DEF IsBeginning
<1>5. \A i \in 1 .. Len(t) - 1 : u[i] = t[i]
  BY <1>3, <1>4 DEF IsBeginning
<1> QED
  BY <1>3, <1>4, <1>5 DEF Begun

\* From the document until the verdict, what has been staged is what the text
\* configures that was read, and what any version does that it begins.
Loading == pc \in {"pi", "stm", "commit", "bad"}

StagedInv ==
  /\ root # Null /\ Stage(text, pc, staged)
  /\ \A v \in Versions : Begun(text, TextOf(v)) => Stage(TextOf(v), pc, staged)

VerdictInv == (Loading => StagedInv) /\ OutIsAVersion

LEMMA VerdictInit == ASSUME Init PROVE VerdictInv
BY DEF Init, VerdictInv, Loading, OutIsAVersion

\* The stages of all these texts.
LEMMA StagesKept ==
  ASSUME IInv, MeaningInv, Loading, StagedInv, LoadPi \/ LoadStm
  PROVE  /\ Stage(text, pc', staged')
         /\ \A v \in Versions : Begun(text, TextOf(v)) => Stage(TextOf(v), pc', staged')
<1> PICK t : t = text
  OBVIOUS
<1>1. root # Null /\ Stage(t, pc, staged) /\ step = "parsed"
  BY DEF StagedInv, Loading, IInv, CallInv
<1>2. PICK pos : DocumentStands(t, pos)
  BY <1>1, ReturnedStands, TypeOKIs DEF IInv, PInv
<1>3. Stage(t, pc', staged')
  BY <1>1, <1>2, PiStage, StmStage
<1>4. ASSUME NEW v \in Versions, Begun(t, TextOf(v)) PROVE Stage(TextOf(v), pc', staged')
  <2> PICK u : u = TextOf(v)
    OBVIOUS
  <2>1. Begun(t, u) /\ Stage(u, pc, staged)
    BY <1>4 DEF StagedInv
  <2>2. DocumentStands(u, pos)
    BY <1>1, <1>2, <2>1, LongerStands
  <2>3. Stage(u, pc', staged')
    BY <2>1, <2>2, PiStage, StmStage
  <2> QED BY <2>3
<1> QED
  BY <1>3, <1>4

LEMMA VerdictStep == ASSUME IInv, MeaningInv, VerdictInv, [Next]_vars PROVE VerdictInv'
<1>1. ASSUME UNCHANGED <<out, source>> PROVE OutIsAVersion'
  BY <1>1 DEF VerdictInv, OutIsAVersion, Meaning
<1>2. CASE TakeSize \/ ReadSome \/ ReadShort \/ ReadAll \/ ParserStep \/ ParseFailed \/ Edit
  <2>1. UNCHANGED <<out, source>> /\ ~Loading'
    BY <1>2 DEF TakeSize, ReadSome, ReadShort, ReadAll, ParserStep, ParseFailed, Edit, Replace,
               Truncate, WriteOn, Editable, Loading, loaderVars
  <2> QED BY <1>1, <2>1 DEF VerdictInv
<1>3. CASE ParseSucceeded
  <2>1. UNCHANGED <<out, source, text, root>> /\ root # Null /\ pc' = "pi" /\ staged' = Defaults
    BY <1>3 DEF ParseSucceeded, parserVars
  <2>2. \A t : Stage(t, pc', staged')
    BY <2>1 DEF Stage
  <2>3. StagedInv'
    BY <2>1, <2>2 DEF StagedInv
  <2> QED BY <1>1, <2>1, <2>3 DEF VerdictInv
<1>4. CASE LoadPi \/ LoadStm
  <2>1. UNCHANGED <<out, source, text, root>> /\ Loading
    BY <1>4 DEF LoadPi, LoadStm, Loading, parserVars
  <2>2. root # Null /\ StagedInv
    BY <2>1 DEF VerdictInv, StagedInv
  <2>3. StagedInv'
    BY <1>4, <2>1, <2>2, StagesKept DEF StagedInv
  <2> QED BY <1>1, <2>1, <2>3 DEF VerdictInv
<1>5. CASE Return /\ pc # "commit"
  <2>1. UNCHANGED <<out, source>> /\ ~Loading'
    BY <1>5 DEF Return, Loading
  <2> QED BY <1>1, <2>1 DEF VerdictInv
<1>6. CASE Return /\ pc = "commit"
  <2>1. source' = text /\ out' = staged /\ ~Loading'
    BY <1>6 DEF Return, Loading
  <2>2. IsText(text) /\ StagedInv
    BY <1>6 DEF IInv, CallInv, MeaningInv, VerdictInv, Loading
  <2>3. ASSUME NEW v \in Versions, IsBeginning(text, v) PROVE Meaning[v] = {staged}
    <3>1. Stage(TextOf(v), pc, staged)
      BY <2>2, <2>3, VersionBegun DEF StagedInv
    <3> QED BY <1>6, <3>1 DEF Stage, Meaning, TextOf
  <2>4. OutIsAVersion'
    BY <2>1, <2>3 DEF OutIsAVersion, Meaning
  <2> QED BY <2>1, <2>4 DEF VerdictInv
<1>7. CASE UNCHANGED vars
  <2>1. UNCHANGED <<out, source, pc, text, root, staged>>
    BY <1>7 DEF vars, parserVars, loaderVars
  <2>2. Loading' => StagedInv'
    BY <2>1 DEF VerdictInv, Loading, StagedInv
  <2> QED BY <1>1, <2>1, <2>2 DEF VerdictInv
<1> QED
  BY <1>2, <1>3, <1>4, <1>5, <1>6, <1>7 DEF Next, Load

-----------------------------------------------------------------------------
(* THE THEOREMS                                                            *)

\* The inductive invariant holds, whatever the texts and the limits are.
THEOREM LoaderInvariant == Spec => []IInv
<1>1. Init => IInv
  BY InitInv
<1>2. IInv /\ [Next]_vars => IInv'
  BY InvStep
<1> QED
  BY <1>1, <1>2, PTL DEF Spec

\* The state stays well formed; in particular, the configuration that
\* config_load_file hands out, and the copy it works on, are in range in every
\* field, however the file is edited while it is read.
THEOREM TypeCorrect == Spec => []TypeOK
<1>1. IInv => TypeOK
  BY DEF IInv
<1> QED
  BY <1>1, LoaderInvariant, PTL

\* Where parse_string reads the first byte of a member's name without asking,
\* there is one, in every text.
THEOREM NamesInBounds == Spec => []NameInBounds
<1>1. IInv => NameInBounds
  BY DEF IInv, StepInv, NameInBounds
<1> QED
  BY <1>1, LoaderInvariant, PTL

\* Every item that cJSON allocates has exactly one owner until it is freed, at
\* any allocation that fails and any nesting: nothing is freed twice, and nothing
\* is left when config_load_file has returned.
THEOREM ItemsOwnedOnce == Spec => []EveryItemOwned
<1>1. IInv => EveryItemOwned
  BY InvImpliesOwned
<1> QED
  BY <1>1, LoaderInvariant, PTL

\* cJSON_Parse returns a document exactly if one begins the text within the
\* nesting limit, and what it returns is that document.
THEOREM TextsAreParsed == Spec => []ParsesTheText
<1>1. Init => MeaningInv
  BY MeaningInit
<1>2. IInv /\ MeaningInv /\ [Next]_vars => MeaningInv'
  BY MeaningStep
<1>3. IInv /\ MeaningInv => ParsesTheText
  BY MeansWhatItSays, TypeOKIs DEF IInv, PInv
<1> QED
  BY <1>1, <1>2, <1>3, LoaderInvariant, PTL DEF Spec

\* A text is accepted exactly if it begins with a document every field of which is
\* valid, and what is staged for the caller is then what the document says, field
\* by field, over the defaults; whatever the texts and the limits are.
THEOREM VerdictsAreRight == Spec => []VerdictIsRight
<1>1. Init => MeaningInv /\ VerdictInv
  BY MeaningInit, VerdictInit
<1>2. IInv /\ MeaningInv /\ VerdictInv /\ [Next]_vars => MeaningInv' /\ VerdictInv'
  BY MeaningStep, VerdictStep
<1>3. VerdictInv => VerdictIsRight
  BY DEF VerdictInv, StagedInv, Loading, Stage, VerdictIsRight
<1> QED
  BY <1>1, <1>2, <1>3, LoaderInvariant, PTL DEF Spec

\* However a file is replaced, truncated and rewritten while it is loaded, and in
\* whatever pieces it is read: if the text that came of it begins a version, what
\* is handed out is what that version configures as a whole.  (A text made of
\* pieces of several versions, which begins none, is taken by what it says itself:
\* VerdictsAreRight.)
THEOREM OnlyVersionsAreTaken == Spec => []OutIsAVersion
<1>1. Init => MeaningInv /\ VerdictInv
  BY MeaningInit, VerdictInit
<1>2. IInv /\ MeaningInv /\ VerdictInv /\ [Next]_vars => MeaningInv' /\ VerdictInv'
  BY MeaningStep, VerdictStep
<1>3. VerdictInv => OutIsAVersion
  BY DEF VerdictInv
<1> QED
  BY <1>1, <1>2, <1>3, LoaderInvariant, PTL DEF Spec

=============================================================================
