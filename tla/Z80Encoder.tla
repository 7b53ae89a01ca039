----------------------------- MODULE Z80Encoder -----------------------------
(***************************************************************************)
(* The one-pass assembler behind the code generator (z80_encoder.c) and    *)
(* how codegen_generate ends (codegen.c): code goes into a buffer as it is *)
(* generated, a reference to a label leaves an operand of zeros and an     *)
(* entry in a table, and when all code is there the operands are patched,  *)
(* the symbols are exported and the image is written up to bss_start.      *)
(*                                                                         *)
(* The generator is any sequence of bytes, labels and references: an       *)
(* instruction is the bytes and the reference it consists of.  Radix is    *)
(* 256 in the program; Base + Capacity = Radix * Radix there, so that the  *)
(* end of a full buffer is address 0.                                      *)
(*                                                                         *)
(* All tables fill up in silence.  "dropped" records that something was    *)
(* left out; the encoder itself does not know.  A name with a suffix is    *)
(* the named operator with a plausible fault; no specification uses it.    *)
(***************************************************************************)
EXTENDS Integers, Sequences

CONSTANTS
  Names, Bytes, Radix, Base, BssStart,   \* as in Assembler
  Capacity,     \* MAX_IMAGE_SIZE
  MAX_LABELS,
  MAX_REFS,
  MaxItems      \* bound on what one program asks for

ASSUME SizeAssumption ==
  /\ Radix \in Nat \ {0} /\ Radix % 2 = 0
  /\ Base \in Nat /\ Base >= Radix
  /\ Capacity \in Nat /\ Base + Capacity <= Radix * Radix
  /\ MAX_LABELS \in Nat /\ MAX_REFS \in Nat /\ MaxItems \in Nat
  /\ Bytes \subseteq 0 .. Radix - 1 /\ BssStart \in Names

VARIABLES
  buffer,    \* the bytes emitted; enc.size is Len(buffer)
  labels,    \* enc.labels
  refs,      \* enc.refs
  phase,     \* where codegen_generate is
  next,      \* the reference that z80_resolve_refs is at
  ok,        \* its result so far
  sym, bin,  \* the files
  asked,     \* history: what the generator asked for
  dropped    \* history: has any of it been left out?

enc   == <<buffer, labels, refs>>
files == <<sym, bin>>
vars  == <<enc, phase, next, ok, files, asked, dropped>>

Word  == Radix * Radix
Low(x)  == x % Radix
High(x) == (x \div Radix) % Radix
Signed(x) == ((x + Word \div 2) % Word) - (Word \div 2)   \* (int16_t)x
Fits(rel) == -(Radix \div 2) <= rel /\ rel < Radix \div 2
Here == (Base + Len(buffer)) % Word

\* find_label_addr and the search of z80_resolve_refs: the first of the name.
Labelled(n) == {k \in DOMAIN labels : labels[k].name = n}
target(n) == labels[CHOOSE k \in Labelled(n) : \A j \in Labelled(n) : k <= j].addr

---------------------------------------------------------------------------
(* Emission *)

emit_unchecked(bytes) == /\ buffer' = buffer \o bytes
                         /\ dropped' = dropped

\* z80_emit_b, z80_emit_w: a byte beyond the capacity is left out.
emit(bytes) ==
  LET room == Capacity - Len(buffer)
      kept == SubSeq(bytes, 1, IF Len(bytes) <= room THEN Len(bytes) ELSE room)
  IN /\ buffer' = buffer \o kept
     /\ dropped' = (dropped \/ kept # bytes)

Ask(it) ==
  /\ phase = "emit" /\ Len(asked) < MaxItems
  /\ asked' = Append(asked, it)
  /\ UNCHANGED <<phase, next, ok, files>>

EmitByte(b) == Ask(<<"byte", b>>) /\ emit(<<b>>) /\ UNCHANGED <<labels, refs>>

\* A second label of a name is reported on stderr and added all the same.
z80_add_label(n) ==
  /\ Ask(<<"label", n>>)
  /\ \/ /\ Len(labels) < MAX_LABELS
        /\ labels' = Append(labels, [name |-> n, addr |-> Here])
        /\ UNCHANGED dropped
     \/ /\ Len(labels) >= MAX_LABELS
        /\ dropped' = TRUE /\ UNCHANGED labels
  /\ UNCHANGED <<buffer, refs>>

\* The label variations: a word after jp, call and the 16-bit loads, a
\* displacement after jr and djnz.
Kinds == {"rel", "word"}
Operand(kind) == IF kind = "word" THEN <<0, 0>> ELSE <<0>>

HasRef_short == Len(refs) + 1 < MAX_REFS
HasRef == Len(refs) < MAX_REFS

\* With the table full the operand is left out as well.
z80_add_ref(n, kind) ==
  /\ Ask(<<kind, n>>)
  /\ \/ /\ HasRef
        /\ refs' = Append(refs, [name |-> n, kind |-> kind, patch |-> Len(buffer)])
        /\ emit(Operand(kind))
     \/ /\ ~HasRef
        /\ dropped' = TRUE /\ UNCHANGED <<refs, buffer>>
  /\ UNCHANGED labels

---------------------------------------------------------------------------
(* z80_resolve_refs, one reference at a time *)

StartResolve ==
  /\ phase = "emit"
  /\ phase' = "resolve" /\ next' = 1 /\ ok' = TRUE
  /\ UNCHANGED <<enc, files, asked, dropped>>

Rel_from_operand(r) == Signed(Signed(target(r.name)) - Signed(Base + r.patch))
Rel(r) == Signed(Signed(target(r.name)) - Signed(Base + r.patch + 1))

\* The bytes to be stored, none if the reference cannot be resolved.
Patched(r) ==
  CASE Labelled(r.name) = {} -> <<>>
    [] r.kind = "rel" /\ Labelled(r.name) # {} ->
         IF Fits(Rel(r)) THEN <<Rel(r) % Radix>> ELSE <<>>
    [] r.kind = "word" /\ Labelled(r.name) # {} ->
         <<Low(target(r.name)), High(target(r.name))>>

\* buffer[patch] is written without a look at the size: what lies beyond the
\* bytes emitted is not part of the image.
ResolveOne ==
  /\ phase = "resolve" /\ next <= Len(refs)
  /\ LET r == refs[next]
         bytes == Patched(r)
     IN /\ buffer' = [a \in DOMAIN buffer |->
                        IF a - r.patch \in DOMAIN bytes THEN bytes[a - r.patch] ELSE buffer[a]]
        /\ ok' = (ok /\ bytes # <<>>)
  /\ next' = next + 1
  /\ UNCHANGED <<labels, refs, phase, files, asked, dropped>>

EndResolve ==
  /\ phase = "resolve" /\ next > Len(refs)
  /\ phase' = IF ok THEN "export" ELSE "error"
  /\ UNCHANGED <<enc, next, ok, files, asked, dropped>>

---------------------------------------------------------------------------
(* export_symbols, write_image_file.  A file may not open or take all. *)

ExportSymbols ==
  /\ phase = "export"
  /\ \/ phase' = "write" /\ sym' = labels
     \/ phase' = "error" /\ \E n \in 0 .. Len(labels) : sym' = SubSeq(labels, 1, n)
  /\ UNCHANGED <<enc, next, ok, bin, asked, dropped>>

Written == (target(BssStart) - Base) % Word

WriteImage ==
  /\ phase = "write"
  /\ \/ /\ Labelled(BssStart) # {}
        /\ phase' = "generated" /\ bin' = SubSeq(buffer, 1, Written)
     \/ /\ Labelled(BssStart) # {} /\ phase' = "error"
        /\ \E n \in 0 .. Written : bin' = SubSeq(buffer, 1, n)
     \/ /\ Labelled(BssStart) = {} /\ phase' = "error" /\ bin' = <<>>
  /\ UNCHANGED <<enc, next, ok, sym, asked, dropped>>

---------------------------------------------------------------------------
\* z80_init; codegen_generate clears the image.
Init ==
  /\ buffer = <<>> /\ labels = <<>> /\ refs = <<>>
  /\ phase = "emit" /\ next = 1 /\ ok = TRUE
  /\ sym = <<>> /\ bin = <<>>
  /\ asked = <<>> /\ dropped = FALSE

Next ==
  \/ StartResolve \/ ResolveOne \/ EndResolve \/ ExportSymbols \/ WriteImage
  \/ \E b \in Bytes : EmitByte(b)
  \/ \E n \in Names : z80_add_label(n) \/ \E kind \in Kinds : z80_add_ref(n, kind)

Spec == Init /\ [][Next]_vars

---------------------------------------------------------------------------
(* Properties *)

\* What the abstract assembler sees; nothing, once something was left out.
Program == IF dropped THEN <<>> ELSE asked
File    == IF dropped THEN <<>> ELSE bin
Stage ==
  CASE dropped -> "overrun"
    [] ~dropped /\ phase \in {"emit", "resolve"} -> "open"
    [] ~dropped /\ phase \in {"export", "write"} -> "assembled"
    [] ~dropped /\ phase = "generated" -> "made"
    [] ~dropped /\ phase = "error" -> "refused"

A == INSTANCE Assembler WITH program <- Program, stage <- Stage, file <- File

\* Types: the buffer and the tables within their limits, addresses and bytes
\* within their width (Z80Encoder, z80_init).
TypeOK ==
  /\ buffer \in Seq(0 .. Radix - 1) /\ Len(buffer) <= Capacity
  /\ labels \in Seq([name : Names, addr : 0 .. Word - 1]) /\ Len(labels) <= MAX_LABELS
  /\ refs \in Seq([name : Names, kind : Kinds, patch : 0 .. Capacity])
  /\ Len(refs) <= MAX_REFS
  /\ phase \in {"emit", "resolve", "export", "write", "generated", "error"}
  /\ next \in 1 .. MAX_REFS + 1 /\ ok \in BOOLEAN
  /\ sym \in Seq([name : Names, addr : 0 .. Word - 1]) /\ bin \in Seq(0 .. Radix - 1)
  /\ asked \in Seq(A!Item) /\ dropped \in BOOLEAN

\* A program that fits becomes the image that an assembler without tables
\* makes of it, or is refused for the same reason; a failure on the way never
\* leaves anything but a beginning of that image (codegen_generate).  What
\* fits is kept: something is left out only of a program that has more labels,
\* more references or more bytes than there is room for (z80_add_label,
\* z80_add_ref, z80_emit_b).
ImplementsAssembler == A!Spec
=============================================================================
