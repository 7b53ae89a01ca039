# A TLA+ model of zeallua

zeallua compiles a subset of Lua to a Z80 program for Zeal OS. The compiler is C (`src/src/*.c`,
about 7200 lines); what it writes is an image that holds a bytecode interpreter, its run-time system
and the program's bytecode. So the C code is two systems in one: a compiler that runs on the host,
and, as sequences of `z80_...` calls in `codegen_emit_ops.c` and `codegen_emit_runtime.c`, a run-time
system that runs on the Z80. Both are modelled from those sources; paths below are relative to
`src/src/` and line numbers are those of the commit at hand.

## 1. The system's parts

| part | state it keeps | operations | talks to |
|---|---|---|---|
| driver (`main.c`) | file buffer, output names | read source, run the passes, write the image | everything, by calls |
| lexer (`lexer.c`, `token.c`) | position, line, column, current token | next token | parser pulls tokens |
| parser, AST (`parser.c`, `ast.c`) | token look-ahead, two static bump pools, the first error | one routine per construct | hands an AST to the compiler |
| compiler (`compiler.c`) | chain of `ScopeContext`, one `BytecodeFunction` per function: names of slots, captured flags, cells, upvalues, code, constants; the first error | analysis pass, then emission pass, of every function | hands a `CompiledChunk` to the generator |
| code generator (`codegen.c`, `codegen_emit_*.c`) | encoder, interned constants and function objects | emits entry code, dispatch, operations, run-time routines, data | encoder; writes `.bin` and `.sym` |
| Z80 encoder (`z80_encoder.c`) | byte buffer, label table, reference table | emit, add label, add reference, resolve | generator |
| VM core (emitted) | `pc_ptr`, `cp_ptr`, `fp`, `vsp`, value stack, call stack | one routine per opcode | all run-time parts |
| closures and calls (emitted) | closure arena (never reclaimed), `current_env_ptr`, `current_closure_ptr` | `op_closure`, `op_call`, `op_return` | VM core |
| table heap (emitted) | arena of 52-byte tables, free list, ring of reclaim candidates, mark bytes, counters | allocate, queue a candidate, mark, sweep | `op_newtable` starts a collection; `op_pop` feeds the ring |
| string heap (emitted) | arena, three free lists, mark bytes | allocate, copy, concatenate; clear marks, mark, sweep | concatenation and I/O allocate; the table heap's collection sweeps it |
| root scanners (emitted) | none of their own | scan stack, globals, frames, environments | set mark bytes in both heaps |
| table operations (emitted) | eight entries per table | get, set, length | table heap |
| arithmetic, conversion (emitted) | none | 16-bit operations, compare, number to and from string | string heap for results |
| console and files (emitted) | device handles of the kernel | print, input, read, write, open, close | Zeal kernel, string heap |

Nothing here is concurrent. What makes the system hard is *sharing over time*: one byte that is both
a mark and half of a link; an arena walked by lengths that are rewritten; two passes over one program
that must come to the same slots; references that are copied freely while one operation (`op_pop`)
guesses that the copy it drops is the last; a collector that runs in the middle of an instruction;
tables, pools and stacks with limits, some of them unchecked.

### What makes each part correct

- **table heap**: an object the program can reach is never free, queued or handed out again; the free
  list is a list of distinct objects; a candidate is freed once; the ring is a FIFO that never
  overwrites; allocation fails only when the arena is full; a sweep ends.
- **string heap**: a string never changes; the walks see headers only; what is marked as free is on
  exactly one list; a sweep leaves nothing unexamined; memory is reused when something fits.
- **compiler scopes**: an access goes to the innermost declaration; both passes agree on slots; two
  variables in scope do not share storage; a closure keeps its own variable.
- **closures and calls**: a return restores exactly the caller's frame, environment and closure; an
  upvalue refers to the cell of the call in which the closure was made.
- **parser**: it accepts the sentences of the language and builds the tree the grammar gives them; an
  error is reported where the program stops making sense, once; it comes to an end on any input.
- **emission**: every path through a statement leaves the value stack as high as the locals say;
  every jump lands on an instruction; no code beyond the buffer.
- **encoder**: every reference is patched with its label's address, or the generation fails.
- **arithmetic**: 16-bit two's complement; printing and reading a number are inverse.
- **root scanners**: every table and string the program can reach ends up marked, nothing else is
  written, and the scan ends.

## 2. Plan

Done, in this order:

1. `TableHeap` with `TableStore` and `BoundedQueue`: the core of the run-time system; `TableHeapProofs`.
2. `StringHeap` with `StringStore`; `StringHeapProofs`.
3. `ScopeSlots`: both passes of the compiler over names; `ScopeSlotsProofs`.
4. `CallFrames` with `Activations`: value stack, call stack, environments, closures;
   `CallFramesProofs`.
5. `Z80Encoder` with `Assembler`: labels, references, full tables, relative displacements, files;
   `Z80EncoderProofs`.
6. `StatementCode` with `Structured`: the code of every statement and expression, its jumps and the
   height of the value stack; `StatementCodeProofs`.
7. `ValueOps`, `TableOps`, `FileOps` with `LuaMachine` and `FileService`: the operations on values and
   tables and the builtins for the console and for files; `ArithmeticProofs`, `OperationsProofs`.
8. `Parser` with `Grammar`: all of the recursive descent, on correct and on broken programs.
9. `RootScan`: the scans of a collection's roots, byte by byte.

Section 6 says which parts are not planned and why.

Composition. `FileOps` extends `TableOps`, which extends `ValueOps`: one machine on one stack. The
others meet at what one module assumes and another one shows:

| assumed in | assumption | shown in |
|---|---|---|
| `CallFrames` | a function consumes values of its own frame only, and its locals are where the compiler counts them | `StatementCode`: `LocalsKept`, `LocalsInPlace`, for programs without method calls that run no for-in loop to its end |
| `StatementCode` | an access to a name is one instruction for a slot, a cell or a global | `ScopeSlots`: `LexicalAccess`, `SlotsAgree` |
| `ScopeSlots`, `StatementCode` | a program is any nesting of statements and expressions that the grammar allows | `Parser`: `ReadsTheGrammar` |
| `TableOps` | a new table is one nobody has, and is empty | `TableHeap`: `ImplementsStore` |
| `ValueOps`, `FileOps` | a new string is an object of its own, and strings never change | `StringHeap`: `ImplementsStrings` |
| `TableHeap`, `StringHeap` | marking may mark anything, write elsewhere, or not end | `RootScan` shows that each of these happens |

The start of a collection is an input of `StringHeap`; in the code it is a step of `TableHeap`.

Each of these holds for the class of programs that the showing run names, and no further. Programs in
general break `LiveTablesKept`, `ArenaWalkable`, `HeldStringsKept`, `LexicalAccess`, `LocalsInPlace` and
`LocalsKept`, and a run or configuration shows how (section 4): a method call, for example, pops a value that may be the
caller's, and then nothing that `CallFrames` promises applies to the program.

## 3. The modules

### TableHeap (with TableStore, BoundedQueue)

An object of the arena is its number, in address order; address 0 is `NULL`. `word[b]` is what header
bytes 0 and 1 read as a pointer, `marked` says which byte 1 is not zero: the same byte, so freeing
(`free_table_object`) sets a mark and clearing a mark (`ClearMark`, `Unlinked`) breaks a link into
`WILD`, an address that is no object's. `buf`, `qhead`, `qtail` are the ring; a slot that is taken
out is set to `NULL` in the model, which nothing in the code reads. `cell` and `field` are the
program: where it keeps references, and what a table refers to. `freeSeq` is a history variable.

| action | code |
|---|---|
| `NewFromFree`, `NewFromArena` | `op_newtable` when no collection is due (codegen_emit_ops.c:1612-1676, 2344-2374) |
| `StartCycle`, `SweepOne`, `EndSweep`, `Retry` | `op_newtable` that collects: `maybe_gc_tables_on_alloc` (2289-2342), `gc_run_sweep_cycle` (2218-2285), the retry (1622-1656); the sweep one ring slot at a time |
| `EndMark`, `MarkWild` | what comes of `mark_table_roots` (1799-1965), which `RootScan` has in detail |
| `Pop` | `op_pop` (9-15) with `queue_table_reclaim_candidate` (2182-2216) |
| `Drop`, `Copy` | a reference that ends unseen (`op_return`, overwriting), and one that is copied |
| `SetTable`, `GetTable` | `op_settable`, `op_gettable` (2376-2526) |

Abstractions. A table has one entry (what matters is reachability, not the eight-entry search) and
only tables are values. Marking is a phase with three outcomes, because the root scanners read cells
as `[lo][hi][type]`, while the stack keeps `[hi][lo][type]` and globals `[type][lo][hi]`, and the
frame scan runs upwards until it meets a value by accident: it may mark *any* set of carved objects
(`EndMark`); it may write outside table headers, after which nothing is promised (`MarkWild`, where the
model stops); and it may never end, since no fairness is assumed of either. `alloc_total_count` and
the address watermarks are left out. Counters wrap at `CounterMod`. A set on a table that is full is
a step that changes nothing, and the string half of the cycle is in `StringHeap`.
`gc_sweep_enabled` is what startup makes of it: the generator emits 1 into an area that the entry
code clears (codegen.c:211-239) and the file leaves out (406-425), so it is 0 at run time, and the
first threshold collects nothing, whatever waits in the ring.

`PopShared` is the program's class. `FALSE`: every `op_pop` of a table drops its last reference (a
table bound to one block-local, or a result that is thrown away). `TRUE`: programs in general.

`TableStore` is what a program may expect: a new table is one nothing reachable refers to, and
tables change only by assignment. `BoundedQueue` is the ring's contract: a FIFO that refuses, and
counts, what does not fit.

### StringHeap (with StringStore)

Objects are numbered in address order; `size` is the length an object was carved with and
`Len(text[b])` what its header says. They are the same until an object is reused for another length:
then the next walk steps to a place that is no header, or a copy runs over the next header. From there
on memory has no meaning, and the model stops with `pc = "wild"`. Links lie in the content, which a
free object therefore loses (`Garbled`, byte for byte in the code, as a whole here).

| action | code |
|---|---|
| `New`, `Concat` (`Alloc`: `Empty`, `TakeHead`, `StartFit`, `Bump`, `Reuse`) | `alloc_raw_string` (621-641), `alloc_concat_string` (989-1038), `alloc_string_space` (775-987), head checks (654-773) |
| `FitSkip`, `FitTake`, `FitNone` | the first-fit scan of the large list, one node at a time (853-918) |
| `StartCycle`, `ClearOne`, `SweepOne`, `EndSweep` | `clear_string_marks` (2098-2131), `sweep_string_arena` (2133-2177) with `free_string_object` (1694-1773), one object at a time |
| `MarkRoots`, `MarkLost` | what comes of the root scanners' calls of `mark_string_reachable` (1799-1816); it may also not end |
| `Copy`, `Drop` | references of the program |

Left out: counters, constants (mark `0xFF`, outside the arena), the kernel calls behind file reads.
Collections start at any time, with any strings in use. Two switches divide the programs: `Mixed` (a class
is asked for different lengths, in an order in which an inexact reuse can happen), and `Covers` (the
marks cover every string that a cell refers to; besides them anything may be marked). Without `Covers`
what gets marked is arbitrary, as in `TableHeap`. `Covers` is what the comments and todo.md:152
expect of the scanners; `RootScan` shows how far they are from it, and the configuration `StringHeapRoots.cfg` what the
sweep then does.

`StringStore`: a cell's string changes only when the program assigns the cell; a failed allocation is
the empty string.

### RootScan

The only module on bytes: `mem` is all memory, `hl`, `de` and `b` are the registers that the scans hold on
to, and `Start` lays out globals, value stack, captured cells, records of functions, saved words of calls,
tables and strings as the routines that write them do. `acts` (the activations), `held` (the mark bytes of the tables and
strings in the root cells) and `seen` (the addresses given to `mark_table_cell`) are history variables.

| action | code |
|---|---|
| `ScanGlobal`, `EndGlobals` | `mark_table_roots_globals` |
| `ScanStack`, `EndStack` | `mark_table_roots_vstack`, which loads its end again for each cell |
| `ScanFrame`, `EndFrame` | `mark_table_roots_frame`, which keeps its end in DE |
| `ScanEnv`, `EndEnv` | `mark_table_roots_current_env`, which keeps its place in HL |
| `ScanUpvalue`, `EndClosure` | `mark_table_roots_current_closure` |
| `NextFrame`, `EndCallerClosure`, `EndCallerEnv`, `EndCalls` | `mark_table_roots_cstack`, which calls the last two scans for each caller with the registers borrowed |
| `mark_table_cell` | the same routine with `mark_table_reachable` and `mark_string_reachable`; `LeftDE` and `LeftHL` are what it leaves in the registers |

One step per cell. The machine's own variables (`vsp_ptr`, the counters) are kept beside the memory, so
that no stray mark changes them, and whatever the program's data does not occupy holds one byte, the filler.
Strings and tables have no contents: entries of tables are not scanned at all. The run `root_scan_marked`
asks what matters of a scan, whether it marks what the root cells refer to (`RootsMarked`); what it does visit, and
which of its loops end, is in `RootScanVisits.cfg`.

### Parser (with Grammar)

The routines call each other, so the state is their stack: `todo` is what the active ones still
have to do, a token in it being a call of `expect`. `built` is what their variables hold: trees, and lists
that grow. The lexer is any source of tokens: `tokens` is what has been read, chosen as it is read, so
that a program is only as long as the parser looks at it; the last one is `next`, the last but one
`curr`. `error` is the token that the reported error is at.

| action | code |
|---|---|
| `parse_expr` ... `parse_unary_expr` | the levels of precedence (parser.c:182-289): loops for what groups to the left, a call of its own for `..` and `^` |
| `parse_prefix_expr`, `HandleSuffixes`, `Field`, `Method`, `parse_args`, `MoreExprs` | 348-448 |
| `parse_table`, `Fields`, `Separator` | 291-326, with the look-ahead for `name =` |
| `parse_stmt`, `parse_local`, `parse_for`, `Clauses`, `Assignment`, `Targets`, ... | 450-686; errors that leave the token where it is included |
| `parse_block`, `Statements`, `More` | 688-704: what ends a block, and the way out after an error |
| `expect`, `append`, `Init`, `parser_parse` | 83-138, 167-178 |

`Grammar` has no parser in it: rules as data, from which the parses and the beginnings of sentences
within the bound are computed, length by length. `ReadsTheGrammar` compares the two whenever the parser
has come to its end: accepted programs are sentences and have the tree of the grammar; a refused one is
refused at the first token that no sentence goes on with, in the whole language and not only
among the tokens of its class. The exception is an error of the lexer, which is found one token
earlier. `ParserReturns` is its termination. The grammar is written from what the parser accepts, and is
therefore where it departs from Lua: `return` must be the very last token of its block (`return;` is refused);
a literal, a table or a function can be called or indexed without brackets; an assigned or called expression
may stand in brackets (`(x) = 1`); a function's name is one name; `for ... in` has one variable and one
expression.

Left out: names, literals and positions; which comparison, `*`, `/` or `%`, and which constant; tokens no
routine asks for (they are refused like any misplaced token); the pools of the AST, which are taken to
be large enough.

### ScopeSlots

A program is a sequence of tokens: declare (`local`, two at once, `for`, `local function`), use
(which stands for reading and assigning), open and close blocks and functions. The analysis of the
main chunk invents the program as it walks it; everything after is a deterministic replay, as the
compiler does it: second pass of main, and for each function in it the body's analysis under the scopes
that the second pass has, then its second pass. `scopes` is the chain of `ScopeContext` with their
`BytecodeFunction`. A name is resolved in `names`, which only analysis writes (`scope_add_local`); a
declaration in the second pass only counts (`active_local_count++`). The declaration that a use ought
to reach is kept beside it in `visible`.

An access is denoted by its storage: `<<depth, "slot", i>>`, `<<depth, "cell", i>>` (an upvalue is
followed through the chain of descriptors as `instantiate_closure` does), or a global. Left out:
everything that neither declares nor uses a name; `repeat`'s condition (outside its block in both
passes); the limits on slots, cells and upvalues. `Renames` and `HeaderUses` are the program's
classes: may a slot have locals of different names in turn, and may the header or value list that
declares a name read an outer variable of that name. `ScopeSlotsRenamed.cfg` and
`ScopeSlotsHeader.cfg` show what becomes of the programs of either class.

### CallFrames (with Activations)

The value stack is a sequence (`vsp_ptr` is its length, `fp_ptr` the number of units below the frame),
the call stack a sequence of words, five to a call: `pc_ptr`, `fp_ptr`, `cp_ptr`,
`current_env_ptr`, `current_closure_ptr`. `arena` is the closure arena, a unit for a header, a pointer
to a cell or a cell. A function without upvalues is its static record, at the address of its number; one
with upvalues is a copy of the header in the arena, followed by the addresses of its cells. Slot 0
of a frame is the function itself, as in `analyze_function_body`.

| action | code |
|---|---|
| `Call`, `CallTooDeep`, `CallWrongly` | `op_call` (codegen_emit_ops.c:436-490) with `cstack_push_hl` and `alloc_runtime_space` (258-297) |
| `Return`, `ReturnFromMain` | `op_return` (492-512) |
| `StaticClosure`, `NewClosure` | `op_closure` and `instantiate_closure` (362-434) |
| `GetLocal`, `SetLocal`, `GetCaptured`, `SetCaptured`, `GetUpval`, `SetUpval` | `emit_scope_ops` (codegen.c:342-389) |
| `Load`, `Pop`, `Jump` | `op_loadnil`, `op_loadconst`, `op_pop`, `op_jump` and `op_jump_false` |

The program is any sequence of these in which a function touches the values of its own frame only and
names the cells that the compiler gave it. Code addresses are reduced to a few points per function,
enough to tell the return addresses of two activations apart. That a function stays within its frame is
what `StatementCode` shows of the code (`LocalsKept`), and does not hold of method calls. `Local`, `Popped` and `Kept` index the
sequence as the code does the memory. `op_dup`, `op_rot3` and operations that compute with
popped values change nothing that `Load`, `Pop` and `GetLocal` do not.

Neither stack is bounded by the code, the record of a function does not hold its number of
parameters, no type is tested by `op_call`, and an allocation that is refused yields address 0 which the
callers use. What the machine does afterwards depends on the memory it hits, so the model stops, with
`lost` saying why: `limit` (a stack would leave its area), `null` (address 0 is read, written or
copied to), `program` (a call of something else or with the wrong number of arguments, a `return` of
the main program).

`Activations` is the promise, without addresses: activations that own their values, variables in
cells nobody had before, closures that keep the cells they were made with. The refinement mapping
decodes the saved words into activations (`Reg`, `Limit`, `Activation`) and the arena into cells.

### StatementCode (with Structured)

A program is a sequence of tokens in the order in which the second pass of the compiler meets them;
each token emits its code the moment it is met. `todo` is what the recursive functions still have
to do, `marks` their variables (the start of a loop, the operand to patch, the operands of an if's
jumps to its end, the number of expressions), `bases` the `starting_local_count` of the open blocks,
`active` the `active_local_count`. `code` is a sequence of bytes; the first byte of a jump's operand
carries its offset. The second half runs the code on a value stack; a value is its truth and the
token that made it, and every operation may give either truth, so that all ways through a
program are taken. `edges` records where statements begin and blocks end, with the locals counted there.

| action | code |
|---|---|
| `compile_expr`, `BINOP_AND`, `BINOP_OR` | `compile_expr`, `compile_builtin_call` (compiler.c:583-916; the short circuits 820-846) |
| `compile_block` | `compile_block` (565-581): POPs for the locals of the block |
| `STMT_CALL`, `STMT_LOCAL`, `STMT_ASSIGN`, `STMT_IF`, `STMT_WHILE`, `STMT_REPEAT`, `STMT_FOR_NUM`, `STMT_FOR_IN`, `STMT_RETURN` | the cases of `compile_stmt` (918-1236) with `patch_relative_jump` |
| `compiler_compile` | the end of a chunk (1247-1280) and of a function's body |
| `Emits` | `emit_byte` and its limit `MAX_CODE_SIZE` |
| `op_load` ... `op_stop` | what each instruction does to the stack and to `pc_ptr` (codegen_emit_ops.c, codegen_emit_runtime.c) |

`Structured` has no code, no jumps and no stack: from the nesting of the tokens alone it says which
token acts next after which truth, and which expression an assignment stores where.
`ImplementsStructured` is the code's promise to be the program.

A method call is the token `method`, an expression wherever the parser takes one: `compile_expr` emits nothing for
it and reports nothing (compiler.c:911), while the statement around it emits its `POP`, its jump or its store as
after any other. It therefore takes the place of a value without leaving one. The run `statements` has every
other expression; `statements_method` has this one, which breaks `LocalsKept`.

Left out: `break` and `do` blocks, for which the second pass emits nothing at all; a `return` of
the main program (op_return then takes five words of no call); the loads and stores by which a captured
local moves into its cell, which leave the stack as high as it was; a call is one step, as `CallFrames`
has the frames.

### ValueOps, TableOps, FileOps (with LuaMachine, FileService)

One machine: a stack of values, one table, the files and devices of the system. A value is a type and a
word; the text of a string object travels with the value. Words have `WordBits` bits and numerals the
base `Radix`. A character is a number: a digit, the sign, or one of a few others. Each
arithmetic routine is a recursive function whose recursion is the loop of the code: `mul16` adds,
`Quotient` and `Remainder` subtract until they borrow, `div16_8` shifts, `number_to_string` and
`print_num` make digits in two different ways, `string_to_number` multiplies and wraps.

| action | code |
|---|---|
| `op_add` ... `op_ge`, `op_not`, `op_concat`, `op_len` | the routines of codegen_emit_ops.c with `mul16`, `power` and conversions of codegen_emit_runtime.c |
| `op_type`, `op_tostring`, `op_tonumber`, `op_print` | the builtins with `coerce_to_string` |
| `op_newtable`, `op_settable`, `op_gettable`, `op_len_table` | `op_newtable`, `emit_table_ops` (codegen_emit_ops.c:2344-2526), the table half of `op_len`: search, match by word or by content, append while there is room |
| `op_input`, `op_readfile`, `op_writefile`, `op_open`, `op_read`, `op_write`, `op_close` | the builtins and their helpers (`read_file_string`, `write_file_string`, ...) |
| `SysOpen`, `SysRead`, `SysWrite`, `SysClose` | the kernel, known from its use only: each call but the close may fail, a write may take a part |

A program uses one of three groups of operations, which have their own literals: values, tables, files.
The objects of the image (names of types, true, false, the empty string) have the addresses 1
to 12, new ones any address of `Heap` that no value on the stack has. Left out: the sum of two string
addresses; indexing what is no table.

`LuaMachine` is what the results mean: integers with a sign, truths, texts, and a map of at most
`Capacity` keys. A quotient may be rounded either way; arithmetic and order on what is no number is the only
thing it leaves open. Where the code does not do what the documents say of these operations, the programs are
told apart by `Departs`: unless it has "equal", a program compares values only if their words are equal exactly
when the values are (`Comparable`); unless it has "divide" or "print", it divides or prints no negative numbers
(`Unsigned`). `Departs` is empty in `operations`; the run `operations_documented` puts all
three back and refutes `ValuesAsDocumented`, which states the documents' words for these operations. Its trace has
the printing of a negative number; with `Departs = {"divide"}` it has 1 / -1 = 0, and with `Departs = {"equal"}` two
strings of one text that compare unequal. `FileService` has no system calls: one answer for each builtin, and what that answer says
of the files; in particular no device is open that the program has no handle for.

### Z80Encoder (with Assembler)

`buffer` is what has been emitted (`enc.size` is its length), `labels` and `refs` are the tables. The
generator is any sequence of bytes, labels and references, which is what its instructions come down
to; `asked` records the sequence. Both tables and the buffer leave out what does not fit, and a
reference that is left out takes its operand bytes with it; the history variable `dropped` knows
about that, the encoder does not.

| action | code |
|---|---|
| `EmitByte`, `z80_add_label`, `z80_add_ref` | z80_encoder.c:17-52, 97-269 |
| `StartResolve`, `ResolveOne`, `EndResolve` | `z80_resolve_refs` (54-95), one reference at a time, called in codegen.c:436 |
| `ExportSymbols`, `WriteImage` | codegen.c:160-205, 406-425; opening and writing may fail, after any number of symbols or bytes |

Addresses are words of two bytes and wrap as in the code; the displacement is computed with the same
signed conversions. Opcodes are one set of bytes; the names of labels are model values (the code cuts
them at 63 characters, which no label of the generator has). What lies beyond `enc.size` is zero
(`memset` in `codegen_generate`) and not part of the image; a patch there is not modelled. The files
that an earlier compilation left are not either: `bin` and `sym` start empty.

`Assembler` is the encoder without tables: the image is a function of the program, and a program with
an undefined label or a distant relative branch is refused. `Overrun` releases it from its
promise, but only when the program has more labels, references or bytes than there is room for.

### MC modules and faulty operators

`MCTableHeap`, `MCStringHeap`, `MCRootScan`, `MCScopeSlots`, `MCCallFrames`, `MCStatementCode`,
`MCOperations`, `MCZ80Encoder` and `MCParser` define the small sets that the `.cfg` files use. An
operator named after another with a suffix (`NextSlot_late`, `Unlink_head`) is that operator with a
plausible fault. No specification uses it; put in the place of the original, each makes the property
listed with it in `PROJECT.json` fail, which shows that the property watches that code.

## 4. The runs

| run | result | question |
|---|---|---|
| `table_heap_owned` | holds | 3 objects, ring of 3 slots, 2 cells, `PopShared = FALSE`: types, free list, live tables, single reclamation, FIFO ring, refinement of `TableStore`, failure only of a full arena, and that a collection ends whose marking has ended |
| `table_heap_shared` | violated | the same heap with programs that pop copies: a reachable table is reclaimed |
| `root_scan_marked` | violated | 100 bytes of memory, 4 chains of activations: the scan has ended, and a string or table that a root cell refers to is not marked |
| `string_heap_orderly` | holds | 9 bytes of arena, contents of 1 to 4 bytes in all three classes, collections with strings in use: lists, walks, strings in use, marks, completeness of the sweep, reuse, refinement of `StringStore`, the walks' termination |
| `scopes_kept` | holds | programs of up to 6 tokens, 2 names, functions nested twice: lexical access, slot agreement, distinct storage, captures found |
| `call_frames_kept` | holds | 3 functions, nested in each other, two calls deep: frames nest, refusals are counted, only limits lose the program, refinement of `Activations` |
| `encoder_limits` | holds | all programs of up to 6 items, 2 labels, 2 references, 5 bytes: refinement of `Assembler`, only what does not fit is left out |
| `parser` | holds | 13 classes of programs, each of five to eleven kinds of token and four to eight tokens long, correct or not: the grammar's sentences and trees, the place of the error, termination |
| `statements` | holds | all programs of up to 13 tokens of every kind of statement and of expression but method calls, every way through them: locals in place, no local consumed, refinement of `Structured` |
| `statements_method` | violated | a method call as a statement: the `POP` after it takes a local |
| `operations` | holds | 5-bit words in base 3: every pair of words through every operation (`Departs` empty), conversions, tables of two entries, files with failing calls: one entry per key, refinements of `LuaMachine` and of `FileService` |
| `operations_documented` | violated | the same with `Departs` full: numbers printed without a sign or divided as unsigned words, strings compared by address |

A violated run states what the repository's documents say of the program, and its trace is the code's way around it.
The remaining configurations are not among the runs of `PROJECT.json`; they can be given to TLC in the same way, and show
why the classes of programs that the runs take are needed, or more of the same scanners:

| configuration | property | what TLC finds |
|---|---|---|
| `RootScanVisits.cfg` | `SlotsVisited`, `UpvaluesVisited`, `RegistersRestored`, `ScansEnd` | they hold: every global, stack cell and upvalue's cell is visited, the registers come back, and every scan but the frame's ends, wherever the stray marks went |
| `RootScanFrame.cfg` | `FrameScanEnds` | violated: the scan of the frame goes round all memory for ever |
| `RootScanHeaders.cfg` | `MarksInHeaders` | violated: a number in a global is taken for a table and a mark written where no header is |
| `StringHeapMixed.cfg` | `ArenaWalkable` | violated (`Mixed`): reuse for another length, and a walk leaves the headers |
| `StringHeapRoots.cfg` | `HeldStringsKept` | violated (not `Covers`): a string in use that the scanners have not marked is put on a free list |
| `ScopeSlotsRenamed.cfg` | `LexicalAccess` | violated (`Renames`): a slot used again under another name changes the meaning of the earlier block |
| `ScopeSlotsHeader.cfg` | `LexicalAccess` | violated (`HeaderUses`): in `local a, b = 1, a` the second value is the new `a` |
| `StatementsForIn.cfg` | `LocalsInPlace` | violated (`ForInEnds`): a for-in loop run to its end leaves a value on the stack |

**Bounds.** *Tables*: the ring of 3 slots holds 2, so it wraps, fills and drops; 3 objects give a free
list of length 3 and let one object be in use, one queued and one free; two cells and one entry per
table give sharing, cycles and references held only by a table. The soft
threshold is the whole arena and the forced one a single object, so that most allocations pass the first and
only those of an exhausted arena the second. The proofs
below are for all values.
*Strings*: class limits of 1 and 2 put lengths 1, 2 and 3-4 in the three classes; one byte of overhead
keeps the arena small; 9 bytes hold two large objects (so that one is unlinked behind another) or up
to four small ones. *Roots*: a byte has ten values, so memory is 100 bytes; 100 leaves 1 when divided by 3, as
65536 does, so that a walk in steps of three cells meets every address. Two globals, up to two values on the stack,
main with two captured locals, and four chains of activations: main alone, a call, a call of another
function within it, and a recursive call whose environment was refused. The filler is 0, which a stray mark changes,
or 3, the type of a string: with that one the scan of the frame finds no end. No pointer to a record or cell has a zero byte,
as a mark could change it (`UpvaluesVisited` says so). *Scopes*: six tokens are enough for an upvalue that passes through a function, for
two captured locals of one function, and for a slot used twice; the symmetry of the two names is sound
as only invariants are checked.
*Calls*: function 1 has a captured local, function 2 in it takes an argument and captures that local,
function 3 in 2 reaches it through 2's upvalue; two saved frames allow recursion and a closure called
after its maker has returned; three values fill the value stack; five units of arena hold one
environment and a closure of each kind, or five environments, after which allocations are refused.
`MaxFails` ends a behaviour after the first refusal that the program survives.
*Encoder*: with a radix of 4 a relative branch reaches from -2 to 1, so five bytes are enough for
branches out of range in both directions; the buffer ends at the top of the address space, as in the
program, so that the label behind it has address 0. Six items overfill each table and the buffer, leave
a word half outside, and define a label twice.
*Statements*: 13 tokens are enough for a statement with a local in a loop or branch of another, an
if with two conditions or an else, a short circuit within a short circuit, and an assignment of two
targets from one, two or three expressions. 34 bytes hold most of these programs and cut off the longest, so the
full buffer is met too; the cut-off compilation has failed and its code does not run. Ten tokens are enough for a
method call in each place that takes a value. Locals of a function (2 at the start) and of the main program
(none) are both there.
*Parser*: a class has the tokens of a few constructs and a length at which they occur complete, in one another
and broken off: three operators of different levels, an if with an elseif, a numeric for, a call or index of a
call. The longest sentences of two classes are one token short of a second parameter and of a
for with a step, which occur as beginnings only. A program ends anywhere, and the lexer fails in four of the classes.
*Operations*: five bits are the narrowest word in which the fixed objects, the literals and the new strings
have addresses of their own, the products of two operands wrap several times over and -16 has no positive
counterpart; base 3 gives numerals of up to four digits with both signs. `LoadsFirst` starts an
operation on literals only, not on the results of another one: the results
are themselves among the literals, up to the texts, of which the seven literals are a selection (sign
only, sign inside, digits that overflow, none). `MaxText` bounds a concatenation. The table has two
entries, with five keys, two of which are one text in two objects; a value may be nil. A read asks for
two characters of a file of three, so that reads are whole, short and at the end; a file is written up to one
character (`MaxFile`), so that writes are whole, partial and refused; two devices and the third open that finds none; handles
include a number whose low byte is a device's.

**Deadlock** is checked in `operations`, where a program can always pop or load. Elsewhere it is not: a
program may stop at any time (in the model: no free cell is left, a
collection met a wild link, the compilation or the program is over, or a program is lost).
**Fairness**: the machine has one thread and no interrupts of its own, and nothing runs between two iterations of
one routine's loop; hence weak fairness on `Sweeper` of `TableHeap` and on `Runtime` of `StringHeap`, which are the
loops of the sweeps, the walks and the first-fit scan, and none on what the program does. There is none on
the marking between them either: it may not end, so neither module claims that an allocation returns.
In `RootScan`, where that marking is in single steps, weak fairness on `Next` is the machine going on; what
ends then is in `RootScanVisits.cfg`, and `RootScanFrame.cfg` shows what does not. The parser is one call that runs to its end: weak
fairness on its `Next`.

### Disagreements met

Four runs end in a disagreement with what a document or a comment says; "findings" in `PROJECT.json` has the lines:

- `op_pop` of a shared reference leads to reclaiming a table in use (`table_heap_shared`);
- the root scanners miss tables and strings, write marks elsewhere and may not end, while todo.md:152-154 says that the
  scan covers the roots (`root_scan_marked`);
- a method call compiles to nothing, and the statement around it takes a local (`statements_method`);
- `==` compares the addresses of strings, while README.md:47 says they are "compared by content" (table keys are);
  division, modulo and `print` take negative numbers for large ones, while README.md:46 says numbers are signed and
  `tostring` and `..` write the sign (`operations_documented`).

The further configurations show these: a reused string object breaks the arena walks, against the comment at
codegen_emit_ops.c:1690-1691 that the header "stays intact for arena walking"; the second pass resolves names in a
table that later blocks have overwritten, and a value or limit in the statement that declares a name reads the new
variable, against todo.md:18, "resolve scoping"; a for-in loop that ends leaves the value that ended it under the later
locals (compiler.c:1189).

The models translate what the code does, so these are in them too, without a run of their own:

- a reference that finds the encoder's table full (`MAX_REFS`, 1024) is left out with its operand bytes and
  nothing records that: `z80_resolve_refs` succeeds, the image is written and main.c:170 prints
  "Z80 binary generated!" (the stage `overrun` of `Assembler`, in which the model's `WriteImage` still goes
  on). A program of one assignment takes 1014 entries and each string constant and function adds to them: ten
  print calls with different strings reach the limit, while README.md:247 says "Maximum 256 constants per
  function";
- the first trigger of a collection never fires, although todo.md:154 says "gc_sweep_enabled=1 by default"
  (README.md's section on limits still says there is no garbage collection);
- the captured cells of main are not visited by the root scanners (codegen_emit_ops.c:1977), as the closure that would
  tell their number is missing there, and of another environment only the first is certain to be;
- a cell that a closure keeps is given to a later local of the same slot (the note at `StorageDistinct`);
- `==` does not look at types: `nil`, `false` and `0` are equal (`Comparable` keeps such programs apart; no
  document says what they should be);
- `open` passes the type byte of its second argument as the flags and loses the value, while
  `test/builtin_open_write_close.lua` passes 0x15;
- `#t` counts entries whose value is nil, and an entry that is set to nil keeps its slot;
- `print` with several arguments writes the last one first, each on a line;
- `writefile` and `write` answer true when the system took a part only; handles count modulo 256;
- `input` takes off a line feed and then a carriage return, a lone carriage return as well; a read returns
  63 bytes at most.

## 5. What is proved

`TableHeapProofs` proves, for every arena size, ring size, thresholds and set of cells:

| theorem | statement | needs |
|---|---|---|
| `TypeCorrect` | `Spec => []TypeOK` | |
| `LiveKept` | `[]LiveTablesKept` | `~PopShared` |
| `FreeListKept` | `[]FreeListIntact` | `~PopShared` |
| `ReclaimedOnce` | `[](FreedOnce /\ CandidatesGone)`; the second, that what the sweep may free is out of reach, has no run of its own | `~PopShared` |
| `StoreImplemented` | `Spec => ImplementsStore` (initial states, and every step a step of `TableStore` or a stutter) | `~PopShared` |
| `FailureIsFull` | `[]FailsOnlyWhenFull` | |
| `RingImplemented` | `Spec => RingIsFifo` | |

Assumptions on the constants are the named `ASSUME`s of `TableHeap`: the arena holds exactly
`Capacity` objects, thresholds are ordered and the forced one is not below one object, the ring has at
least two slots. TLC evaluates them in every run.

*The argument.* `LiveTablesKept` is not inductive: that no reachable object is on the free list
depends on what the sweep frees, which depends on the ring, which depends on what `op_pop` queued.
The invariant `IInv` adds: candidates in the ring are distinct, carved, not free and not reachable
(`SlotsOnce`, `SlotsGone`), free objects are not reachable (`ReachKept`), and the free list is a proper
list (`FreeListIntact`). With it marks do not matter at all: whatever they say, the sweep only meets
objects that are gone (and after a mark outside the headers the model does nothing more), and a link that shares its byte with a mark is only cut when the list is
empty, as a collection starts only then. `ReachClosed` and `ReachLeast` characterise `Reach` as a
least set, so that an action is shown to preserve the invariant by exhibiting a closed set;
`ListPop` and `ListPush` say what taking and freeing do to the list; `PendingSlots` relates the ring's
contents to its indices. `StepIsStoreStep` is the refinement's step, with one case per action.
`RingImplemented` shows that what is queued is the slots from the tail to the head in the order in which they
were taken, through every wrap of the two indices. `FailureIsFull` rests on `FullCollects` (an arena without room is below the forced threshold).

`StringHeapProofs` proves, for every arena, class limits, overhead, alphabet, literals and set of cells:

| theorem | statement | needs |
|---|---|---|
| `TypeCorrect` | `Spec => []TypeOK` | |
| `ListsIntact` | `[]FreeListsIntact` | `~Mixed` |
| `HeadersKept` | `[]ArenaWalkable` | `~Mixed` |
| `HeldKept` | `[]HeldStringsKept` | `Covers` |
| `FreshMarks` | `[]MarksAreFresh` | |
| `SweepsComplete` | `Spec => SweepIsComplete`, an action property | |
| `NoGrowthWithFit` | `Spec => GrowsOnlyWithoutFit`, an action property | `~Mixed` |
| `StoreImplemented` | `Spec => ImplementsStrings` | `Covers` |

*The argument.* `TypeOK` alone is not inductive: a scan follows `link`, which is a pointer into the arena
only as long as it leads through a free list. The invariant has the lists by what the headers say
(`Linked`: list k is a chain of the free objects of class k), which holds for every program until a walk
goes wild, and where the first-fit scan stands in the large one (`ScanAt`: behind `prev`, before `cur`, with
nothing long enough behind it). `MarksOrdered` divides the arena at the walk: what lies behind `clear` is
not set, what lies behind `sweep` is not clear. Only then come the two classes of program. Without `Mixed`
the header says what an object was carved with (`Uniform`), so the lists by headers are the lists of
`FreeListsIntact` and no walk goes wild. With `Covers` every string in a cell carries a mark as long as the sweep
works (`HeldMarked`): the mark phase sets it or finds it set, no sweep step clears a mark, and no program step comes
between. So the sweep frees nothing that a cell holds, and since a list contains free objects only, what an
allocation reuses is in no cell; strings that are held through any number of collections are part of the statement.
`StoreImplemented` follows from `HeldKept` and `HeldMarked` alone, also for programs that are `Mixed`, as a wild walk is a
step in which the strings stay.

`CallFramesProofs` proves, for every number of functions, their parameters, captured locals and upvalues,
every size of the two stacks and of the arena, and every program:

| theorem | statement |
|---|---|
| `TypeCorrect` | `Spec => []TypeOK` |
| `FramesNested` | `Spec => []FramesNest` |
| `NullCounted` | `Spec => []NullIsCounted` |
| `LossesAreLimits` | `Spec => LimitsOnly`, an action property |
| `ActivationsImplemented` | `Spec => ImplementsActivations` |

*The argument.* Nothing marks a word on the value stack as the address of a closure's record that is still
there; it is one because the arena only grows. The invariant says of every saved activation
(`FrameOK`) that its program counter lies in the function whose constants it uses, that its environment
has the cells the function needs or is null after a refusal (`EnvOK`), and that its closure is a record of
that function whose pointers lead to cells (`ClosureAt`); of every function value on the stack or in a
cell that it is the address of such a record (`Good`); and that frames lie one above the other. All of
this survives a step because of `HeapGrows`: below `closure_ptr` only the values of cells change. A
null address is followed by arithmetic (a cell's number added to it), so what looks like a cell below the
arena is one only when a refusal was counted (`CellRef`). For the refinement `Acts` is computed from the
saved words (`ActivationIs`), and each instruction changes only the activation on top (`TopStep`), pushes
one or takes one off. `LimitsOnly` needed a change before it could be proved: it recognised a call by a
changed program counter, which a recursive call at the first point of a function does not change, although it
may be refused. It now says `callstack' # callstack`; the run's small instance
had not met the case.

`Z80EncoderProofs` proves, for every radix of the bytes, base, size of the buffer and of both tables, names
and program:

| theorem | statement |
|---|---|
| `TypeCorrect` | `Spec => []TypeOK` |
| `AssemblerImplemented` | `Spec => ImplementsAssembler` |

It assumes of the base that it is not below the radix (`z80_init(..., 0x4000)`, codegen.c:428): with a base
nearer to address 0 a relative branch could be taken for a short one around the end of the
address space, which the code's 16-bit subtraction does not tell apart. *The argument.* `Reach`: no label
lies behind the bytes emitted, so that its address determines its place although the end of a full buffer is
address 0. Until something is left out the tables mirror the program (`Mirrors`): the labels and references
are those of the program's items in their order, each with the place that `Assembler` computes by counting
bytes, and the buffer holds the bytes and the references resolved so far. From this the first label found by
the search is the first definition (`TargetIs`), the displacement computed in 16 bits with a sign is the
distance exactly if it fits (`RelativeIs`), two patches never overlap (`PatchApart`), and something is left
out only if the program really has too much (`NoRoom`). `Assembler` states places by counting, as a sum over a
sequence would be defined by recursion.

`ArithmeticProofs` proves, for every width of the words (from five bits) and every radix up to half the words:

| theorem | statement |
|---|---|
| `ProductIsSigned` | `mul16` leaves the word of the product of the signed numbers |
| `QuotientIsDiv` | repeated subtraction gives quotient and remainder of the unsigned words |
| `PowerIsSigned` | `power` leaves the power, wrapped at every step; zero for a negative exponent |
| `ShiftingIsDiv` | the bit by bit division of `print_num` is the division by the radix |
| `NumberToText` | `number_to_string` writes the one numeral of the signed number |
| `PrintedText` | `print_num` does so of numbers that are not negative |
| `TextToNumber` | `string_to_number` reads every numeral, wrapped, and fails on every other text |

*The argument.* The routines are loops and therefore recursive functions. The provers cannot use an
induction theorem that takes a predicate; but they can take the least natural number at which a set is not
what it should be (`LeastElement`, from the well-foundedness of `<`), and that is induction.
So the lemma `RecursionDefines` is proved, that a recursion that steps down has a function that satisfies it: functions
on beginnings of the domain exist and agree. The recursion is given to
it as functions (where it stops, the argument it steps to, what it makes of the result), of which each routine is
an instance. `ShiftingIsDiv` needs an invariant of the loop: after k bits the quotient's bits stand behind the
bits still to come, and the remainder is that of the k bits seen (`Shifting`).

`OperationsProofs` proves, besides, for every capacity, all literals, paths, devices, contents,
sizes of files and buffers, and every program:

| theorem | statement | needs |
|---|---|---|
| `LessIsSigned`, `AtMostIsSigned` | the comparison by signs, then words, is the order of the signed numbers | |
| `SumIsSigned` | the word that `op_add` leaves stands for the sum, wrapped by one width at most | |
| `OneEntryPerKey` | `Spec => []KeysDistinct`: one entry for each key, and never more than `Capacity` | |
| `TypeCorrect` | `Spec => []TypeOK` | |
| `FilesImplemented` | `Spec => ImplementsFiles` | |
| `LuaImplemented` | `Spec => ImplementsLua` | `Departs = {}` |

`Departs = {}` is the class of programs of the run `operations`: they compare no values whose words say otherwise than
the values, and neither divide nor print negative numbers. That each of the three is needed is shown by `operations_documented`, with `Departs` set to that one. All of these
rest on the named assumptions of `ValueOps`, `TableOps` and `FileOps`, which TLC evaluates in the run
`operations`. Of those, three are there for the proofs: powers of two double (the prover knows no exponents),
literals that are no strings have no text, and a table has fewer entries than there are positive numbers (eight
in the code), without which the length of a table would not be a number.

*The argument.* `KeysDistinct` speaks of what keys mean, the search of types, words and texts. `SameMeaningMatches` joins
them: of typed values, those that mean the same match, so a search that finds nothing proves that the new
entry's key means something new. The invariant `MachineInv` has three parts: the values on the stack are typed
and fit (`StackOK`); every file is a text and every device stands in a file there is, open for reading or for both
(`FilesOK`: a device open for creating never outlives its builtin); the entries are typed and their keys
distinct (`TableInv`). For the files each builtin has a lemma that says what it comes to, whichever calls inside
it fail (`ReadfileDoes`, `WritefileDoes`, `OpReads`, ...), and one that says that this is the service it serves.

For `LuaImplemented` the invariant needs one thing more, `LiveObjects`: the values on the stack and in the table
that are strings are literals, objects of the image or objects of the heap, and no two of them have one address and
two texts. It is what makes comparing addresses sound (`WordsTellMeanings`): equal words of one type mean equal values.
It survives because a new string avoids the addresses on the stack, and because in a program with tables nothing
makes one; the programs with files make strings but compare none, and are exempt. The table is a map
(`MapOf`) as its keys are distinct: the search finds the entry whose key means the same (`FoundMeans`), an
assignment changes the map at one point (`StoredMap`), a table is full when its map is (`MapSize`), and there is a
number up to `Capacity + 1` that is no key (`GapExists`, by the pigeonhole principle), so that a length exists.

`ScopeSlotsProofs` proves, for every set of names, every length of programs, every depth of functions and every
program:

| theorem | statement | needs |
|---|---|---|
| `ShapeAlways` | `Spec => []Shape`: at every token of every pass the scopes are what the program's text says | |
| `SlotsAlwaysAgree` | `Spec => []SlotsAgree` | |
| `CapturesAlwaysFound` | `Spec => []CapturesFound` | `~Renames`, `~HeaderUses`, `MaxSlots < NOENV` |
| `StorageAlwaysDistinct` | `Spec => []StorageDistinct` | `~Renames`, `~HeaderUses` |
| `AccessAlwaysLexical` | `Spec => []LexicalAccess` | `~Renames`, `~HeaderUses`, `MaxSlots < NOENV` |
| `TypeCorrect` | `Spec => []TypeOK` | `Narrow` |

`~Renames` and `~HeaderUses` are the class of programs of the run `scopes_kept`; for `LexicalAccess`
`ScopeSlotsRenamed.cfg` and `ScopeSlotsHeader.cfg` show that it takes both. `MaxSlots < NOENV` says that no slot has the number that stands for
"no cell" in a byte. `Narrow` says that all the upvalues a function can have, one for each slot and cell of the
functions around it, are numbered by a byte. Both are conditions on the size of programs that the code takes for
granted (the operands are bytes) and does not check; the run's sizes meet them.

*The argument.* The second pass replays a text of which it has no memory but the table of names and the set of
captured slots. `Layouts` is what the text alone says: for each token the functions around it, each with its locals and
where its open blocks began, as a recursive function of the program (unique, by the least token at which two differ).
`Shape` says that `scopes` is the layout at `ip`, whichever passes its functions are in, that every function
began under the layout that lies below it now (`Places`), so that a pass that starts over at `start` finds what its
first pass found, and that `active` has the counts of the layouts. From this `SlotsAgree` follows for every program.
Names need more: a body that is analysed a second time finds its own captures again, and those that the first
analysis found on behalf of a function around it must be the same. `Analysed` says of each function up to where in the
text its table of names holds every local of every layout on the way (`Spans`: here `~Renames` is used) and its
captured slots include each capture there (`~HeaderUses`). Hence the second pass captures
nothing new, `Storage` describes each function's cells (numbered by the captured slots below, so distinct) and what
is visible, and a name is found in `names` exactly where it is in `visible`. `Linked` says that an upvalue leads to a
slot or cell of the function around, or to an upvalue that this function has, and that no function has one twice.
`AccessAlwaysLexical` follows an access through the chain of descriptors: each function between finds the
descriptor that `Resolve` has added at its position (`DescriptorsAgain`), so the chain ends in the owner's cell
(`ChainFollowed`). `TypeCorrect` bounds the number of upvalues of each function by those of the function around
it and the slots of that one, as distinct upvalues have distinct targets (`UpvaluesBounded`, by counting).

`StatementCodeProofs` proves, for every set of statements and expressions, all numbers of parameters, every
size of the code and every program:

| theorem | statement | needs |
|---|---|---|
| `TypeCorrect` | `Spec => []TypeOK`: the machine is always at an opcode of the finished code | `NoMethods` |
| `LocalsAlwaysInPlace` | `Spec => []LocalsInPlace` | `NoMethods`; `~ForInEnds` or no `"forin"` in `Statements` |
| `LocalsAlwaysKept` | `Spec => []LocalsKept` | the same |

`NoMethods` says that no method call is among the `Expressions`; the run `statements_method` shows that with one
`LocalsKept` fails. The other condition is the class of programs of the run `statements`, and a second one: programs may
also run every loop to its end if none is a for-in loop. `StatementsForIn.cfg` shows that without it
`LocalsInPlace` fails. `TypeCorrect` does not need it: where the stack has a value too many, control still goes from opcode to opcode. With
a value too few the stack itself runs empty, so there it needs `NoMethods`.

*The argument.* The machine's part is short. `Flows` says of finished code that there is one height of the value
stack for each byte, so that every instruction has the operands it takes above the locals it must leave
(`FlowsAt`), and that the next instruction and the target of a jump are opcodes whose heights are what it
leaves. The only exception is the jump by which a for-in loop ends (`Items`). `Runs` says that the
machine is at an opcode with the height it has there, which every instruction preserves. The compiler's part is that it
writes such code, although while it does the code has holes: jumps whose distance is still unknown, in the
marks of the constructs around. The invariant must say what each hole will be filled with. `Drafted` says it by a
plan of what is left: for each pending symbol a view, namely the height of the stack, the active locals, and how many
marks and blocks are open when its turn comes (`Plan`), such that each symbol leads from its view to the
next one (`Fits`). A mark promises that its holes are jumps whose values fit the view at the symbol that gives it back
(`Serves`): the exit of a loop is taken at the height of its locals, the end of an `and` at one more. What a token
leaves to be compiled then fits where its symbol did (`Follows`), emitting extends the code and keeps the
rest (`Grown`), and patching a hole turns a promise into what `Flows` says (`PatchedAll`). There is one lemma for each
token. When nothing is left but `end` there are no marks, so no holes, and the code flows.

*Only model-checked*: `SweepReturns`, `WalksEnd`, `ParserReturns` and, of the root scanners, `ScansEnd` (liveness is out of
the prover's reach); what else `RootScan` has, which depends on where 100 bytes of memory lie; `ImplementsStructured`, because what a program means is found by counting the nesting of its tokens
(`Depth`) and by following control with a recursion (`Settle`) that also leads backwards and ends only because of how
programs are formed: the plan would have to carry, besides the heights, where in that nesting each pending symbol and each
jump belongs, which is an induction over the text; `ReadsTheGrammar`, since the parses of a
grammar are defined by recursion over trees and lists.

## 6. Not modelled

Listed component by component in `PROJECT.json`. In short:

- **lexer**: a sequential scanner; `Parser` takes any source of tokens in its place. A literal above 32767
  wraps (lexer.c:189) and is then a word like any other.
- **AST pools**: an exhausted pool gives null pointers that are written through, with no defined outcome.
- **generator** (`codegen.c`, the bulk of `codegen_emit_*.c`): the choice of instructions, as text. What
  the emitted routines do is modelled; that the Z80 instructions do it is read off the source and is
  not itself a definition.
- **stray marks**: `RootScan` finds the marks that the scanners write outside the headers; what the rest of the
  run-time system does with the changed bytes is not followed (`MarkWild` and `MarkLost` are where the heaps' models stop).
- **limits on locals, constants and functions of a chunk**: unchecked or reported at once.
- **driver, host stub** (`zos_host_stub.h`), **test tools**: I/O around the rest; `bytecode.c` and
  `interpreter.c` are empty.

What the emitted code does once it has read or written through a bad pointer is not followed in any module.
