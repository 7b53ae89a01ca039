----------------------------- MODULE StringHeap -----------------------------
(***************************************************************************)
(* The string heap of the emitted Z80 runtime (codegen_emit_ops.c): a bump *)
(* arena of objects [mark][len_lo][len_hi][content][NUL], three free lists *)
(* by length class whose links lie in the content, and the walks over the  *)
(* arena that clear the marks and sweep.                                   *)
(*                                                                         *)
(* Objects are numbered in the order they lie in the arena.  A walk steps  *)
(* by the length in the header, which leads to the next object only while  *)
(* the header says what the object was carved with.  Where the code would  *)
(* take anything else for a header, or write over the next one, the model  *)
(* stops with pc = "wild".                                                 *)
(*                                                                         *)
(* Constants of the program carry mark 0xFF and lie outside the arena: only *)
(* heap strings are modelled.  An operator named after another with a      *)
(* suffix is that operator with a plausible fault; no specification uses it. *)
(***************************************************************************)
EXTENDS Integers, Sequences

CONSTANTS
  ArenaBytes,   \* bytes of the arena (STRING_HEAP_BYTES, 11264)
  Overhead,     \* bytes of an object besides its content (STRING_HEADER_BYTES + 1)
  SmallMax,     \* longest content of the small class (STRING_CONTENT_SMALL, 15)
  MediumMax,    \* longest content of the medium class (STRING_CONTENT_MEDIUM, 63)
  Chars,        \* content bytes
  Link,         \* a content byte that a free-list link has overwritten
  Literals,     \* texts made without operands: input, file reads, numbers
  Cells,        \* where the program keeps strings
  Mixed,        \* may a class be asked for a length after a different one?
  Covers        \* does the mark phase find every heap string the program holds?

Block == 1 .. ArenaBytes \div (Overhead + 1)
NULL  == 0              \* the null link; in a cell, str_empty or no string
Ref   == Block \cup {NULL}
Class == {"small", "medium", "large"}
Mark  == {"clear", "set", "free"}     \* 0x00, 0x01, 0xFE
Text  == Seq(Chars)

ASSUME SizeAssumption ==
  /\ ArenaBytes \in Nat /\ Overhead \in Nat \ {0}
  /\ SmallMax \in Nat \ {0} /\ MediumMax \in Nat /\ SmallMax < MediumMax

ASSUME ProgramAssumption ==
  /\ Mixed \in BOOLEAN /\ Covers \in BOOLEAN
  /\ NULL \notin Cells /\ Link \notin Chars
  /\ Literals \subseteq Text

VARIABLES
  carved,     \* how many objects have been carved
  used,       \* string_ptr - string_space
  size,       \* [b] content bytes b was carved with
  text,       \* [b] content of b, as long as its header says
  mark,       \* [b] header byte 0
  link,       \* [b] the pointer in the first two payload bytes
  head,       \* [k] free_string_small_list, _medium_list, _large_list
  str,        \* [c] the heap string a program cell refers to, or NULL
  pc,         \* "run", "fit" (first-fit scan), "clear", "sweep", "wild", or
              \* "lost" once a mark was written where no header is
  req,        \* the allocation that the first-fit scan works for
  prev,       \* string_alloc_prev
  cur,        \* string_alloc_cur, or the object a walk is at
  freeSeq,    \* history: [k] the objects on the list of class k, from the head on
  rooted      \* history: the objects the mark phase was shown

arena == <<carved, used, size>>
lists == <<link, head, freeSeq>>
scan  == <<req, prev, cur>>
vars  == <<arena, lists, text, mark, str, pc, scan, rooted>>

Carved == 1 .. carved
NoReq  == [cell |-> NULL, text |-> <<>>]

ClassOf(n) ==
  IF n <= SmallMax THEN "small" ELSE IF n <= MediumMax THEN "medium" ELSE "large"

(* sanitize_string_freelist_{small,medium,large}_head: a head that does not *)
(* look like a free object of its class counts as an empty list.           *)
Sanitized(k, mk) ==
  IF head[k] \in Carved /\ mk[head[k]] = "free" /\ ClassOf(Len(text[head[k]])) = k
    THEN head[k] ELSE NULL

Value(c) == IF str[c] = NULL THEN <<>> ELSE text[str[c]]

-----------------------------------------------------------------------------
(* Allocation: alloc_string_space and the copy its callers make into it. *)

Bump_unchecked(c, s) ==
  /\ carved' = carved + 1
  /\ used' = used + Len(s) + Overhead
  /\ size' = [size EXCEPT ![carved + 1] = Len(s)]
  /\ text' = [text EXCEPT ![carved + 1] = s]
  /\ mark' = [mark EXCEPT ![carved + 1] = "clear"]
  /\ str' = [str EXCEPT ![c] = carved + 1]

Fail(c) == str' = [str EXCEPT ![c] = NULL] /\ UNCHANGED <<arena, text, mark>>

Bump_kept(c, s) ==
  IF used + Len(s) + Overhead > ArenaBytes
    THEN Fail(c)
    ELSE /\ text' = [text EXCEPT ![carved + 1] = s]
         /\ mark' = [mark EXCEPT ![carved + 1] = "clear"]
         /\ str' = [str EXCEPT ![c] = carved + 1]
         /\ UNCHANGED arena

(* A full arena gives the empty string; no collection is tried. *)
Bump(c, s) ==
  IF used + Len(s) + Overhead > ArenaBytes
    THEN Fail(c)
    ELSE /\ carved' = carved + 1
         /\ used' = used + Len(s) + Overhead
         /\ size' = [size EXCEPT ![carved'] = Len(s)]
         /\ text' = [text EXCEPT ![carved'] = s]
         /\ mark' = [mark EXCEPT ![carved'] = "clear"]
         /\ str' = [str EXCEPT ![c] = carved']

Reuse_marked(c, b, s) ==
  /\ Len(s) <= size[b]
  /\ pc' = "run"
  /\ text' = [text EXCEPT ![b] = s]
  /\ str' = [str EXCEPT ![c] = b]
  /\ UNCHANGED mark

(* ass_freelist_return writes a new header; nothing compares the request    *)
(* with the room there is.                                                 *)
Reuse(c, b, s) ==
  IF Len(s) > size[b]
    THEN pc' = "wild" /\ UNCHANGED <<text, mark, str>>
    ELSE /\ pc' = "run"
         /\ text' = [text EXCEPT ![b] = s]
         /\ mark' = [mark EXCEPT ![b] = "clear"]
         /\ str' = [str EXCEPT ![c] = b]

(* In a program that is not Mixed, the lengths asked of a class never       *)
(* shrink, and in the small and medium classes are all the same.           *)
Orderly(s) ==
  \A b \in Carved : ClassOf(size[b]) = ClassOf(Len(s)) =>
    /\ size[b] <= Len(s)
    /\ ClassOf(Len(s)) # "large" => size[b] = Len(s)

Empty(c) ==
  /\ Fail(c)
  /\ UNCHANGED <<lists, pc, scan>>

(* Small and medium: the first object of the list, or a new one.  The new   *)
(* content goes over the link.                                             *)
TakeHead(c, k, s) ==
  LET b == Sanitized(k, mark) IN
  /\ IF b = NULL
       THEN /\ head' = [head EXCEPT ![k] = NULL]
            /\ freeSeq' = [freeSeq EXCEPT ![k] = <<>>]
            /\ Bump(c, s) /\ UNCHANGED <<link, pc>>
       ELSE /\ head' = [head EXCEPT ![k] = link[b]]
            /\ freeSeq' = [freeSeq EXCEPT ![k] = IF @ = <<>> THEN @ ELSE Tail(@)]
            /\ link' = [link EXCEPT ![b] = NULL]
            /\ Reuse(c, b, s) /\ UNCHANGED arena
  /\ UNCHANGED scan

(* Large: a first-fit scan of the list. *)
StartFit(c, s) ==
  /\ head' = [head EXCEPT !["large"] = Sanitized("large", mark)]
  /\ freeSeq' = IF head' = head THEN freeSeq ELSE [freeSeq EXCEPT !["large"] = <<>>]
  /\ pc' = "fit" /\ req' = [cell |-> c, text |-> s]
  /\ prev' = NULL /\ cur' = head'["large"]
  /\ UNCHANGED <<arena, text, mark, link, str>>

Alloc(c, s) ==
  /\ pc = "run" /\ (Mixed \/ Orderly(s))
  /\ CASE s = <<>> -> Empty(c)
       [] s # <<>> /\ ClassOf(Len(s)) = "large" -> StartFit(c, s)
       [] OTHER -> TakeHead(c, ClassOf(Len(s)), s)
  /\ UNCHANGED rooted

Fits_longer(b, s) == Len(text[b]) > Len(s)
Fits(b, s) == Len(text[b]) >= Len(s)

FitSkip ==
  /\ pc = "fit" /\ cur # NULL /\ ~Fits(cur, req.text)
  /\ prev' = cur /\ cur' = link[cur]
  /\ UNCHANGED <<arena, lists, text, mark, str, pc, req, rooted>>

EndFit == req' = NoReq /\ prev' = NULL /\ cur' = NULL /\ UNCHANGED rooted

Unlink_head ==
  /\ head' = [head EXCEPT !["large"] = link[cur]]
  /\ link' = [link EXCEPT ![cur] = NULL]

Unlink ==
  IF prev = NULL
    THEN /\ head' = [head EXCEPT !["large"] = link[cur]]
         /\ link' = [link EXCEPT ![cur] = NULL]
    ELSE /\ link' = [link EXCEPT ![prev] = link[cur], ![cur] = NULL]
         /\ UNCHANGED head

(* q without its object b *)
Without(q, b) ==
  LET n == CHOOSE i \in DOMAIN q : q[i] = b
  IN SubSeq(q, 1, n - 1) \o SubSeq(q, n + 1, Len(q))

FitTake_first ==
  /\ pc = "fit" /\ cur # NULL
  /\ Unlink
  /\ freeSeq' = [freeSeq EXCEPT !["large"] = Without(@, cur)]
  /\ Reuse(req.cell, cur, req.text)
  /\ EndFit
  /\ UNCHANGED arena

FitTake ==
  /\ pc = "fit" /\ cur # NULL /\ Fits(cur, req.text)
  /\ Unlink
  /\ freeSeq' = [freeSeq EXCEPT !["large"] = Without(@, cur)]
  /\ Reuse(req.cell, cur, req.text)
  /\ EndFit
  /\ UNCHANGED arena

FitNone ==
  /\ pc = "fit" /\ cur = NULL
  /\ Bump(req.cell, req.text)
  /\ pc' = "run" /\ EndFit
  /\ UNCHANGED lists

-----------------------------------------------------------------------------
(* The string half of a collection. *)

(* A link lies over the first two bytes from the content on; what is left  *)
(* of the content is not told apart.                                       *)
Garbled(s) == [i \in DOMAIN s |-> Link]

free_string_object_unmarked(b) ==
  LET k == ClassOf(Len(text[b])) IN
  /\ link' = [link EXCEPT ![b] = Sanitized(k, mark)]
  /\ head' = [head EXCEPT ![k] = b]
  /\ freeSeq' = [freeSeq EXCEPT ![k] = <<b>> \o @]
  /\ text' = [text EXCEPT ![b] = Garbled(@)]
  /\ UNCHANGED mark

free_string_object(b) ==
  LET k  == ClassOf(Len(text[b]))
      mk == [mark EXCEPT ![b] = "free"]
  IN /\ mark' = mk
     /\ link' = [link EXCEPT ![b] = Sanitized(k, mk)]
     /\ head' = [head EXCEPT ![k] = b]
     /\ freeSeq' = [freeSeq EXCEPT ![k] = <<b>> \o (IF link'[b] = NULL THEN <<>> ELSE @)]
     /\ text' = [text EXCEPT ![b] = Garbled(@)]

Advance_stuck == UNCHANGED <<cur, pc>>

(* The next object is taken to lie the header's length further on. *)
Advance ==
  IF Len(text[cur]) = size[cur]
    THEN cur' = cur + 1 /\ UNCHANGED pc
    ELSE pc' = "wild" /\ UNCHANGED cur

StartCycle ==
  /\ pc = "run"
  /\ pc' = "clear" /\ cur' = 1
  /\ UNCHANGED <<arena, lists, text, mark, str, req, prev, rooted>>

ClearOne_kept ==
  /\ pc = "clear" /\ cur \in Carved
  /\ Advance
  /\ UNCHANGED <<arena, lists, text, mark, str, req, prev, rooted>>

ClearOne ==
  /\ pc = "clear" /\ cur \in Carved
  /\ mark' = [mark EXCEPT ![cur] = IF @ = "set" THEN "clear" ELSE @]
  /\ Advance
  /\ UNCHANGED <<arena, lists, text, str, req, prev, rooted>>

(* mark_string_reachable leaves a mark byte that is not zero as it is.  The *)
(* scanners misread the cells (module RootScan): whatever the program holds, *)
(* any objects may be what it is shown, unless the program is one whose     *)
(* strings are all found (Covers).                                         *)
Unmarked == {b \in Carved : mark[b] = "clear"}
InUse    == {str[c] : c \in Cells} \cap Carved

MarkRoots(M) ==
  /\ pc = "clear" /\ cur \notin Carved
  /\ Covers => InUse \cap Unmarked \subseteq M
  /\ mark' = [b \in Block |-> IF b \in M THEN "set" ELSE mark[b]]
  /\ rooted' = M
  /\ pc' = "sweep" /\ cur' = 1
  /\ UNCHANGED <<arena, lists, text, str, req, prev>>

(* The same misreading may write a mark where no header is, and nothing is  *)
(* promised after that.                                                    *)
MarkLost ==
  /\ pc = "clear" /\ cur \notin Carved
  /\ pc' = "lost"
  /\ UNCHANGED <<arena, lists, text, mark, str, scan, rooted>>

SweepOne ==
  /\ pc = "sweep" /\ cur \in Carved
  /\ IF mark[cur] = "clear"
       THEN free_string_object(cur)
       ELSE UNCHANGED <<lists, text, mark>>
  /\ Advance
  /\ UNCHANGED <<arena, str, req, prev, rooted>>

EndSweep ==
  /\ pc = "sweep" /\ cur \notin Carved
  /\ pc' = "run" /\ cur' = NULL /\ rooted' = {}
  /\ UNCHANGED <<arena, lists, text, mark, str, req, prev>>

-----------------------------------------------------------------------------
Init ==
  /\ carved = 0 /\ used = 0 /\ size = [b \in Block |-> 0]
  /\ text = [b \in Block |-> <<>>] /\ mark = [b \in Block |-> "clear"]
  /\ link = [b \in Block |-> NULL] /\ head = [k \in Class |-> NULL]
  /\ freeSeq = [k \in Class |-> <<>>]
  /\ str = [c \in Cells |-> NULL]
  /\ pc = "run" /\ req = NoReq /\ prev = NULL /\ cur = NULL /\ rooted = {}

(* alloc_raw_string and alloc_concat_string. *)
New(c, s)       == Alloc(c, s)
Concat(c, d, e) == Alloc(c, Value(d) \o Value(e))

(* A copy of a reference, or its end: stack, locals and globals. *)
Assign(c, b) ==
  /\ pc = "run"
  /\ str' = [str EXCEPT ![c] = b]
  /\ UNCHANGED <<arena, lists, text, mark, pc, scan, rooted>>
Copy(c, d) == Assign(c, str[d])
Drop(c)    == Assign(c, NULL)

Runtime ==
  \/ FitSkip \/ FitTake \/ FitNone
  \/ ClearOne \/ SweepOne \/ EndSweep

Marker ==
  \/ \E M \in SUBSET Unmarked : MarkRoots(M)
  \/ MarkLost

Program ==
  \/ StartCycle
  \/ \E c \in Cells : Drop(c) \/ \E s \in Literals : New(c, s)
  \/ \E c, d \in Cells : Copy(c, d) \/ \E e \in Cells : Concat(c, d, e)

Next == Runtime \/ Marker \/ Program
Spec == Init /\ [][Next]_vars

(* The VM never stops in the middle of an instruction.  No fairness says    *)
(* that the mark phase ends: it may not (module RootScan).                  *)
FairSpec == Spec /\ WF_vars(Runtime)

-----------------------------------------------------------------------------
TypeOK ==
  /\ carved \in 0 .. ArenaBytes \div (Overhead + 1) /\ used \in 0 .. ArenaBytes
  /\ size \in [Block -> 0 .. ArenaBytes]
  /\ text \in [Block -> Seq(Chars \cup {Link})]
  /\ mark \in [Block -> Mark] /\ link \in [Block -> Ref] /\ head \in [Class -> Ref]
  /\ str \in [Cells -> Ref]
  /\ pc \in {"run", "fit", "clear", "sweep", "wild", "lost"}
  /\ req \in [cell : Cells \cup {NULL}, text : Seq(Chars \cup {Link})]
  /\ prev \in Ref /\ cur \in 0 .. carved + 1
  /\ freeSeq \in [Class -> Seq(Block)] /\ rooted \subseteq Carved

(* Every object marked 0xFE is on the list of its class, once, and the     *)
(* links of each list lead through its objects to a null: nothing is lost  *)
(* to a head check that fails, nothing is on two lists                     *)
(* (free_string_object, alloc_string_space).                               *)
FreeListsIntact ==
  \A k \in Class : LET q == freeSeq[k] IN
    /\ head[k] = IF q = <<>> THEN NULL ELSE q[1]
    /\ \A i \in DOMAIN q : link[q[i]] = IF i = Len(q) THEN NULL ELSE q[i + 1]
    /\ \A i, j \in DOMAIN q : q[i] = q[j] => i = j
    /\ {q[i] : i \in DOMAIN q} = {b \in Carved : mark[b] = "free" /\ ClassOf(size[b]) = k}

(* No walk takes content for a header, and no string is copied over the    *)
(* next object's header (alloc_string_space, sweep_string_arena).          *)
ArenaWalkable == pc # "wild"

(* A string that a cell refers to is not on a free list: the sweep finds a  *)
(* mark on it, and a reused object loses its old mark (sweep_string_arena,  *)
(* alloc_string_space).  "root coverage" (todo.md:152) is what it rests on. *)
HeldStringsKept == \A c \in Cells : str[c] # NULL => mark[str[c]] # "free"

(* A set mark met by the sweep was set in this collection: a string cannot *)
(* survive on the strength of an earlier one (clear_string_marks).         *)
MarksAreFresh ==
  pc = "sweep" => \A b \in Carved : mark[b] = "set" => b \in rooted

(* A sweep that ends has met every object: none is left that is neither    *)
(* marked nor on a list (sweep_string_arena).                              *)
SweepIsComplete ==
  [][pc = "sweep" /\ pc' = "run" => \A b \in Carved : mark[b] # "clear"]_vars

(* The arena grows only when no free object of the class is long enough    *)
(* (the lists and the first-fit scan of alloc_string_space).               *)
GrowsOnlyWithoutFit ==
  [][carved' # carved =>
       \A b \in Carved : mark[b] = "free" /\ ClassOf(size[b]) = ClassOf(size'[carved'])
                           => size[b] < size'[carved']]_vars

(* The first-fit scan, the sweep and the walk that clears the marks come to *)
(* an end.                                                                 *)
WalksEnd ==
  /\ pc \in {"fit", "sweep"} ~> pc = "run"
  /\ pc = "clear" ~> cur \notin Carved

(* The program sees strings that never change (StringStore). *)
Store == INSTANCE StringStore WITH value <- [c \in Cells |-> Value(c)]
ImplementsStrings == Store!Spec
=============================================================================
