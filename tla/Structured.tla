----------------------------- MODULE Structured -----------------------------
(***************************************************************************)
(* What the statements and expressions of a program mean, without code,     *)
(* stack or jumps: which token of the program acts next.  A program is the  *)
(* sequence of its tokens in the order in which the compiler meets them     *)
(* (the targets of an assignment come last to first).  Every construct has  *)
(* one opening and one closing token, and some have tokens in between.     *)
(***************************************************************************)
EXTENDS Naturals, Sequences, FiniteSets

VARIABLES
  prog,   \* the program
  last    \* the last token that acted, the truth of its result, what it used

Openers == {"and", "or", "bin", "call", "print", "table", "local", "eval", "assign", "if",
            "while", "repeat", "for", "forin", "return"}
Closers == {"and)", "or)", "bin)", "call)", "print)", "table)", "local)", "eval)", "assign)",
            "endif", "endwhile", "endrepeat", "endfor", "endforin", "return)"}

\* The tokens that do something; the others only say where control goes.
Acting == {"value", "method", "bin)", "call)", "print)", "table", "put", "store", "set", "test", "item",
           "endfor", "endforin", "return)", "end"}

-----------------------------------------------------------------------------
(* Nesting: the tokens of one construct, without those inside it. *)

Depth(i) == Cardinality({j \in 1 .. i : prog[j] \in Openers})
              - Cardinality({j \in 1 .. i - 1 : prog[j] \in Closers})
After(i, S)  == {j \in i + 1 .. Len(prog) : Depth(j) = Depth(i) /\ prog[j] \in S}
Before(i, S) == {j \in 1 .. i - 1 : Depth(j) = Depth(i) /\ prog[j] \in S}
First(S)     == CHOOSE j \in S : \A k \in S : j <= k
Final(S)     == CHOOSE j \in S : \A k \in S : k <= j
Closing(i)   == First(After(i, Closers))
Opening(i)   == Final(Before(i, Openers))

-----------------------------------------------------------------------------
(* Control. *)

\* The token that acts next when control comes to token i with value v.
Settle ==
  LET to[x \in Nat \X BOOLEAN] ==
        LET i == x[1]  v == x[2]  t == prog[i] IN
        CASE t \in Acting -> i
          [] t = "and2"   -> IF v THEN to[<<i + 1, v>>] ELSE to[<<Closing(i), v>>]
          [] t = "or2"    -> IF v THEN to[<<Closing(i), v>>] ELSE to[<<i + 1, v>>]
          [] t = "then"   -> IF v THEN to[<<i + 1, v>>]
                             ELSE to[<<First(After(i, {"elseif", "else", "endif"})) + 1, v>>]
          [] t \in {"elseif", "else"} -> to[<<Closing(i), v>>]
          [] t = "do"     -> IF v THEN to[<<i + 1, v>>] ELSE to[<<Closing(i) + 1, v>>]
          [] t = "endwhile"  -> to[<<Opening(i) + 1, v>>]
          [] t = "endrepeat" -> IF v THEN to[<<i + 1, v>>] ELSE to[<<Opening(i) + 1, v>>]
          [] t = "table)"    -> to[<<i + 1, TRUE>>]
          [] OTHER           -> to[<<i + 1, v>>]
  IN to

NextToken ==
  IF last.tok = 0 THEN Settle[<<1, TRUE>>]
  ELSE LET i == last.tok  t == prog[i] IN
       IF t \in {"test", "item"}
         THEN Settle[<<IF last.val THEN i + 1 ELSE Closing(i) + 1, last.val>>]
       ELSE IF t \in {"endfor", "endforin"}
         THEN Final(Before(i, {"test", "item"}))
       ELSE Settle[<<i + 1, last.val>>]

Stopped == last.tok # 0 /\ prog[last.tok] \in {"return)", "end"}

-----------------------------------------------------------------------------
(* Data: only what an assignment stores and where, and what table a field  *)
(* of a constructor goes to.  Expression j of the assignment opened at a   *)
(* is token a + 2 * j - 1, and its targets follow the token "one" or "two". *)

\* The token whose value goes to the target that token i stores to, 0 for a nil.
StoredBy(i) ==
  LET a == Opening(i)
      c == First(After(a, {"one", "two"}))
      targets == IF prog[c] = "one" THEN 1 ELSE 2
      j == targets - Cardinality({k \in c .. i - 1 : Depth(k) = Depth(i) /\ prog[k] \in {"store", "set"}})
  IN IF a + 2 * j - 1 < c THEN a + 2 * j - 1 ELSE 0

Uses(i) ==
  CASE prog[i] = "store" -> <<StoredBy(i)>>
    [] prog[i] = "set"   -> <<i - 2, StoredBy(i)>>
    [] prog[i] = "put"   -> <<Opening(i)>>
    [] OTHER             -> <<>>

-----------------------------------------------------------------------------
Init == prog = <<>> /\ last = [tok |-> 0, val |-> TRUE, uses |-> <<>>]

\* The program is made up before it runs.
Write == last.tok = 0 /\ UNCHANGED last

Act ==
  /\ ~Stopped
  /\ \E v \in BOOLEAN :
       LET i == NextToken IN last' = [tok |-> i, val |-> v, uses |-> Uses(i)]
  /\ UNCHANGED prog

Next == Write \/ Act

Spec == Init /\ [][Next]_<<prog, last>>
=============================================================================
