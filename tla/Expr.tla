------------------------------- MODULE Expr --------------------------------
(***************************************************************************)
(* The expression evaluator of NEMU's debugger (monitor/sdb/expr.c) behind *)
(* the command `p' (sdb.c).  A line is a sequence of tokens: what the      *)
(* regular expressions recognise is abstracted to the token itself.        *)
(*                                                                         *)
(* `eval' reports errors through *success, which every call may write: it  *)
(* is threaded here through every result, in the order of the calls.       *)
(***************************************************************************)
EXTENDS Integers, Sequences, FiniteSetsExt, SequencesExt

CONSTANTS
  Alphabet,  \* the tokens that are typed
  MaxLen,    \* longest line
  W          \* bits of word_t

(* The literal tokens and their values; "$a0" is a register of the guest   *)
(* and "$zz" the name of none.                                             *)
Literal == [n \in {"0", "1", "2", "3"} |->
              CASE n = "0" -> 0 [] n = "1" -> 1 [] n = "2" -> 2 [] n = "3" -> 3]
Numbers == DOMAIN Literal
Registers == {"$a0", "$zz"}

ASSUME ExprAssumption ==
  /\ Alphabet \subseteq Numbers \cup Registers \cup
       {"+", "-", "*", "/", "(", ")", "==", "!=", "&&", "||"}
  /\ MaxLen \in Nat /\ W \in Nat \ {0, 1}

VARIABLES
  line,  \* the tokens typed after `p'
  done,  \* the command has answered
  ans    \* <<value>>, or <<>> for "EXPR is illegal!"

exprVars == <<line, done, ans>>

Word(v) == v % 2^W
Bool(b) == IF b THEN 1 ELSE 0
(* The guest's memory, as vaddr_read sees it: any fixed content.           *)
vaddr_read(a) == Word(a + 1)
RegValue == 5

----------------------------------------------------------------------------
(* expr: an operator with no operand before it is unary.                   *)

Operand == Numbers \cup Registers \cup {")"}
Marked(toks) ==
  [i \in 1 .. Len(toks) |->
     IF (i = 1 \/ toks[i - 1] \notin Operand) /\ toks[i] \in {"+", "-", "*"}
       THEN CASE toks[i] = "+" -> "POS" [] toks[i] = "-" -> "NEG" [] OTHER -> "DEREF"
       ELSE toks[i]]

Unary == {"POS", "NEG", "DEREF"}

(* Parentheses open after position i of t, counted from p.                 *)
Depth(t, p, i) ==
  Cardinality({j \in p .. i : t[j] = "("}) - Cardinality({j \in p .. i : t[j] = ")"})

check_parentheses(t, p, q) ==
  /\ t[p] = "(" /\ t[q] = ")"
  /\ \A i \in p .. q - 1 : Depth(t, p, i) # 0
  /\ Depth(t, p, q) = 0

op_priority(type) ==
  CASE type \in {"POS", "NEG"} -> 1
    [] type = "DEREF"          -> 2
    [] type \in {"*", "/"}     -> 3
    [] type \in {"+", "-"}     -> 4
    [] type \in {"==", "!="}   -> 5
    [] type = "&&"             -> 6
    [] type = "||"             -> 7
    [] OTHER                   -> 0

(* dominant_op scans from p: a binary operator outside parentheses replaces *)
(* the choice when it binds no tighter, and a unary operator met before any *)
(* binary one ends the scan.  0 stands for -1, no operator.                 *)
Outside(t, p, q) == {i \in p .. q : Depth(t, p, i) = 0 /\ op_priority(t[i]) # 0}
Loosest(t, S) == {i \in S : \A j \in S : op_priority(t[j]) <= op_priority(t[i])}

(* Mutation: the leftmost of equal operators is kept, as for a > instead   *)
(* of the >= in the scan.                                                  *)
dominant_op_leftmost(t, p, q) ==
  LET ops == Outside(t, p, q)
  IN IF ops = {} THEN 0
     ELSE IF t[Min(ops)] \in Unary THEN Min(ops)
     ELSE Min(Loosest(t, {i \in ops : t[i] \notin Unary}))

dominant_op(t, p, q) ==
  LET ops == Outside(t, p, q)
  IN IF ops = {} THEN 0
     ELSE IF t[Min(ops)] \in Unary THEN Min(ops)
     ELSE Max(Loosest(t, {i \in ops : t[i] \notin Unary}))

----------------------------------------------------------------------------
(* eval.  A result is the value and *success.                              *)

Fail == [val |-> 0, ok |-> FALSE]

(* isa_reg_str2val writes *success whatever it was.                        *)
isa_reg_str2val(r, ok) ==
  IF r = "$a0" THEN [val |-> RegValue, ok |-> TRUE] ELSE Fail

Apply(op, a, b, ok) ==
  CASE op = "+"     -> [val |-> Word(a + b), ok |-> ok]
    [] op = "-"     -> [val |-> Word(a - b), ok |-> ok]
    [] op = "*"     -> [val |-> Word(a * b), ok |-> ok]
    [] op = "/"     -> IF b = 0 THEN Fail ELSE [val |-> a \div b, ok |-> ok]
    [] op = "&&"    -> [val |-> Bool(a # 0 /\ b # 0), ok |-> ok]
    [] op = "||"    -> [val |-> Bool(a # 0 \/ b # 0), ok |-> ok]
    [] op = "=="    -> [val |-> Bool(a = b), ok |-> ok]
    [] op = "!="    -> [val |-> Bool(a # b), ok |-> ok]
    [] op = "POS"   -> [val |-> b, ok |-> ok]
    [] op = "NEG"   -> [val |-> Word(-b), ok |-> ok]
    [] op = "DEREF" -> [val |-> vaddr_read(b), ok |-> ok]

Leaf(tok, ok) ==
  IF tok \in Numbers THEN [val |-> Literal[tok], ok |-> ok]
  ELSE IF tok \in Registers THEN isa_reg_str2val(tok, ok)
  ELSE Fail

RECURSIVE eval(_, _, _, _)
eval(t, p, q, ok) ==
  IF p > q THEN Fail
  ELSE IF p = q THEN Leaf(t[p], ok)
  ELSE IF check_parentheses(t, p, q) THEN eval(t, p + 1, q - 1, ok)
  ELSE LET op == dominant_op(t, p, q)
       IN IF op = 0 THEN Fail
          ELSE LET l == IF t[op] \in Unary THEN [val |-> 0, ok |-> ok]
                                           ELSE eval(t, p, op - 1, ok)
                   r == eval(t, op + 1, q, l.ok)
               IN Apply(t[op], l.val, r.val, r.ok)

expr(toks) == eval(Marked(toks), 1, Len(toks), TRUE)

----------------------------------------------------------------------------
(* The debugger.                                                           *)

ExprInit == line = <<>> /\ done = FALSE /\ ans = <<>>

Type(tok) ==
  /\ ~done
  /\ Len(line) < MaxLen
  /\ line' = Append(line, tok)
  /\ UNCHANGED <<done, ans>>

(* cmd_p: an empty argument is refused before the evaluator is called.     *)
cmd_p ==
  /\ ~done
  /\ line # <<>>
  /\ LET r == expr(line) IN ans' = IF r.ok THEN <<r.val>> ELSE <<>>
  /\ done' = TRUE
  /\ UNCHANGED line

ExprNext == (\E tok \in Alphabet : Type(tok)) \/ cmd_p
ExprSpec == ExprInit /\ [][ExprNext]_exprVars

----------------------------------------------------------------------------
(* Reference: the unambiguous grammar of C, a level per priority, every    *)
(* binary operator associating to the left.  <<>> is "not an expression,   *)
(* or undefined"; both operands of && and || are evaluated.                *)

LevelOf == [l \in 2 .. 6 |-> CASE l = 2 -> {"*", "/"} [] l = 3 -> {"+", "-"}
                               [] l = 4 -> {"==", "!="} [] l = 5 -> {"&&"} [] l = 6 -> {"||"}]

RECURSIVE Ref(_, _)
Ref(t, l) ==
  IF t = <<>> THEN <<>>
  ELSE IF l = 0
    THEN IF Len(t) = 1 /\ t[1] \in Numbers THEN <<Literal[t[1]]>>
         ELSE IF t = <<"$a0">> THEN <<RegValue>>
         ELSE IF Len(t) > 2 /\ t[1] = "(" /\ t[Len(t)] = ")"
                THEN Ref(SubSeq(t, 2, Len(t) - 1), 6) ELSE <<>>
  ELSE IF l = 1
    THEN IF t[1] \in Unary
           THEN LET b == Ref(Tail(t), 1)
                IN IF b = <<>> THEN <<>> ELSE <<Apply(t[1], 0, b[1], TRUE).val>>
           ELSE Ref(t, 0)
  ELSE LET Splits == {i \in 2 .. Len(t) - 1 :
                        /\ t[i] \in LevelOf[l]
                        /\ Ref(SubSeq(t, 1, i - 1), l) # <<>>
                        /\ Ref(SubSeq(t, i + 1, Len(t)), l - 1) # <<>>}
       IN IF Splits = {} THEN Ref(t, l - 1)
          ELSE LET i == Max(Splits)
                   r == Apply(t[i], Ref(SubSeq(t, 1, i - 1), l)[1],
                              Ref(SubSeq(t, i + 1, Len(t)), l - 1)[1], TRUE)
               IN IF r.ok THEN <<r.val>> ELSE <<>>

(* Lines that a unary operator makes dominant_op misread: a binary one     *)
(* follows it in the same pair of parentheses, or an unmatched parenthesis *)
(* comes before it.                                                        *)
Misread(t) ==
  \E i \in 1 .. Len(t) :
    /\ t[i] \in Unary
    /\ \/ \E k \in 1 .. i : Depth(t, 1, k) < 0
       \/ \E j \in i + 1 .. Len(t) :
            /\ op_priority(t[j]) > 2
            /\ Depth(t, i, j) = 0
            /\ \A k \in i .. j : Depth(t, i, k) >= 0

NoRegister == Registers \cap ToSet(line) = {}
Meaning == Ref(Marked(line), 6)

----------------------------------------------------------------------------

(* "p EXPR: evaluate the expression": splitting at the dominant operator   *)
(* computes what C computes and refuses what C refuses.  Two cases are     *)
(* known to differ: dominant_op splits -1+2 at the minus (Misread), and    *)
(* isa_reg_str2val overwrites the failure of the operand on its left.      *)
EvaluatesAsC ==
  done /\ NoRegister /\ ~Misread(Marked(line)) => ans = Meaning
============================================================================
