------------------------------ MODULE Assembler ------------------------------
(***************************************************************************)
(* What the encoder promises to the generator: a program of bytes, labels  *)
(* and references becomes the image in which every reference holds the     *)
(* place of its label, and a program without such an image is refused.     *)
(* There are no tables and no order of definition and use; the image of a  *)
(* program is a function of the program.  Nothing is promised of a program  *)
(* that has more labels, references or bytes than there is room for.       *)
(***************************************************************************)
EXTENDS Integers, Sequences, FiniteSets

CONSTANTS
  Names,      \* labels
  Bytes,      \* what the generator emits as bytes
  Radix,      \* a byte holds 0 .. Radix - 1, a word two bytes
  Base,       \* the address of the image's first byte
  BssStart,   \* the label at which the image file ends
  MAX_LABELS, \* what there is room for: labels,
  MAX_REFS,   \* references
  Capacity    \* and bytes

VARIABLES
  program,    \* what has been asked for
  stage,      \* "open", "assembled", "made", "refused", or "overrun"
  file        \* the image file

vars == <<program, stage, file>>

Item == ({"byte"} \X Bytes) \cup ({"label", "rel", "word"} \X Names)

Uses(it) == it[1] \in {"rel", "word"}
Width(it) == CASE it[1] = "label" -> 0 [] it[1] = "word" -> 2 [] OTHER -> 1

---------------------------------------------------------------------------
(* Places and values *)

\* The number of bytes before item k: one for each item that has any, and
\* one more for each word.
Place(p, k) == Cardinality({b \in (1 .. k - 1) \X {1, 2} : b[2] <= Width(p[b[1]])})
Size(p) == Place(p, Len(p) + 1)

Definitions(p, n) == {k \in 1 .. Len(p) : p[k] = <<"label", n>>}
First(p, n) == CHOOSE k \in Definitions(p, n) : \A j \in Definitions(p, n) : k <= j
Address(p, n) == Base + Place(p, First(p, n))

Distance(p, k) == Address(p, p[k][2]) - (Base + Place(p, k) + 1)

Sound(p) == \A k \in 1 .. Len(p) : Uses(p[k]) =>
              /\ Definitions(p, p[k][2]) # {}
              /\ p[k][1] = "rel" => Distance(p, k) + Radix \div 2 \in 0 .. Radix - 1

\* Byte i (1 or 2) of item k.
Held(p, k, i) ==
  CASE p[k][1] = "byte" -> p[k][2]
    [] p[k][1] = "rel"  -> Distance(p, k) % Radix
    [] p[k][1] = "word" -> (IF i = 1 THEN Address(p, p[k][2])
                                     ELSE Address(p, p[k][2]) \div Radix) % Radix

Image(p) ==
  [a \in 1 .. Size(p) |->
     LET k == CHOOSE j \in 1 .. Len(p) : Place(p, j) < a /\ a <= Place(p, j + 1)
     IN  Held(p, k, a - Place(p, k))]

Part(s, n) == SubSeq(s, 1, n)

---------------------------------------------------------------------------
Init == program = <<>> /\ stage = "open" /\ file = <<>>

Write(it) ==
  /\ stage = "open"
  /\ program' = Append(program, it)
  /\ UNCHANGED <<stage, file>>

Assemble ==
  /\ stage = "open"
  /\ stage' = IF Sound(program) THEN "assembled" ELSE "refused"
  /\ UNCHANGED <<program, file>>

Make ==
  /\ stage = "assembled" /\ Definitions(program, BssStart) # {}
  /\ stage' = "made"
  /\ file' = Part(Image(program), Place(program, First(program, BssStart)))
  /\ UNCHANGED program

\* Files cannot be written, or there is no end to the image: what is there
\* is a beginning of the image, or nothing.
Give ==
  /\ stage = "assembled" /\ stage' = "refused"
  /\ \E n \in 0 .. Size(program) : file' = Part(Image(program), n)
  /\ UNCHANGED program

Fits(p) ==
  /\ Cardinality({k \in 1 .. Len(p) : p[k][1] = "label"}) <= MAX_LABELS
  /\ Cardinality({k \in 1 .. Len(p) : Uses(p[k])}) <= MAX_REFS
  /\ Size(p) <= Capacity
Overrun ==
  /\ stage = "open" /\ stage' = "overrun"
  /\ \E it \in Item : ~Fits(Append(program, it))
  /\ program' = <<>> /\ file' = <<>>

Next == Assemble \/ Make \/ Give \/ Overrun \/ \E it \in Item : Write(it)

Spec == Init /\ [][Next]_vars
=============================================================================
