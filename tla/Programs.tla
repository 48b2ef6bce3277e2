------------------------------ MODULE Programs ------------------------------
(***************************************************************************)
(* Every function body of at most MaxSize statements over a menu, written  *)
(* one statement at a time as an editor would: `open` is the stack of the  *)
(* blocks still being written, outermost first.  A frame holds the         *)
(* compound statement it belongs to, without the block in progress, and    *)
(* that block.                                                             *)
(***************************************************************************)
EXTENDS PyMeaning

CONSTANTS
  Themes,               \* the kinds of program
  MaxSize,              \* statements of a program
  MaxDepth              \* nesting of its blocks

ASSUME SizesAreNumbers == MaxSize \in Nat /\ MaxDepth \in Nat

VARIABLES theme, open, size

vars == <<theme, open, size>>

Frame(s, block) == [s |-> s, block |-> block]
Top == Frame(Stmt("Function", <<>>, <<>>, <<>>), Block("body", <<>>, <<>>, <<>>))

Start == theme \in Themes /\ open = <<Top>> /\ size = 0

Current == Last(open).block.body
Inside(ks) == \E i \in DOMAIN open : open[i].s.k \in ks
Jumps == {"Return", "Raise", "Break", "Continue"}

Put1(frames, s) ==
  [frames EXCEPT ![Len(frames)].block.body = Append(@, s)]

(* Nothing is written behind a jump, which leaves the block. *)
MayGrow == size < MaxSize /\ (Current # <<>> => Last(Current).k \notin Jumps)

Write(menu) ==
  \E s \in menu :
     /\ MayGrow
     /\ s.k \in {"Break", "Continue"} => Inside(Loops)
     /\ open' = Put1(open, s)
     /\ size' = size + 1
     /\ UNCHANGED theme

(* heads: statements with one empty block, their first. *)
Begin(heads) ==
  \E s \in heads :
     /\ MayGrow
     /\ size + 1 < MaxSize
     /\ Len(open) <= MaxDepth
     /\ open' = Append(open, Frame([s EXCEPT !.blocks = <<>>], s.blocks[1]))
     /\ size' = size + 1
     /\ UNCHANGED theme

Finished(f) == [f.s EXCEPT !.blocks = Append(@, f.block)]

(* parts(s): the empty blocks that may follow those of s. *)
Follow(parts(_)) ==
  /\ Len(open) > 1 /\ Current # <<>> /\ size < MaxSize
  /\ \E b \in parts(Finished(Last(open))) :
       open' = Append(Front(open), Frame(Finished(Last(open)), b))
  /\ UNCHANGED <<theme, size>>

End ==
  /\ Len(open) > 1 /\ Current # <<>>
  /\ Last(open).s.k = "Try" => Last(open).block.role # "body"
  /\ open' = Put1(Front(open), Finished(Last(open)))
  /\ UNCHANGED <<theme, size>>

(* The program, when no block is open. *)
Whole == Len(open) = 1 /\ size > 0
Program == open[1].block.body
=============================================================================
