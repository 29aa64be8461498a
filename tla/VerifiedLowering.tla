-------------------------- MODULE VerifiedLowering --------------------------
(***************************************************************************)
(* What the lowering owes the verifier: a program grows one statement or    *)
(* one enclosing construct at a time, and at every size its bytecode is     *)
(* verified (BytecodeLowerer, bytecode.cpp; BytecodeVerifier,               *)
(* bytecode_verifier.cpp).                                                  *)
(***************************************************************************)
EXTENDS BytecodeVerifier

CONSTANTS MaxDepth, Statements

ASSUME LoweringAssumption == MaxDepth \in Nat

VARIABLES grown, nesting

loweringVars == <<grown, nesting>>

Assignment == Leaf("set")

(* Every way a body can stand inside a construct.                           *)
Enclosures(body) ==
  {For(body), While(body), TryOnly(body),
   Try(body, <<Assignment>>), Try(<<Leaf("path")>>, body),
   If(<<Arm("if", <<Leaf("sum")>>), Arm("elseif", body), Arm("else", <<Assignment>>)>>),
   Switch(<<Arm("case", body), Arm("otherwise", <<Assignment>>)>>),
   Switch(<<Arm("case", <<Leaf("call")>>), Arm("otherwise", body), Arm("case", <<Assignment>>)>>)}

Leaves1 == {Leaf(k) : k \in {"set", "and", "call", "path",
                             "break", "continue", "return"}}

LoweringInit == grown \in {<<leaf>> : leaf \in Leaves1} /\ nesting = 0

Enclose ==
  /\ nesting < MaxDepth
  /\ \E construct \in Enclosures(grown) : grown' = <<construct>>
  /\ nesting' = nesting + 1

Follow ==
  /\ Len(grown) < Statements
  /\ grown' = Append(grown, Leaf("break"))
  /\ UNCHANGED nesting

LoweringNext == Enclose \/ Follow

LoweringSpec == LoweringInit /\ [][LoweringNext]_loweringVars

-----------------------------------------------------------------------------

(* A break or continue in no loop.  An arm after `otherwise` is not lowered. *)
RECURSIVE Stray(_)
Stray(body) ==
  \E i \in DOMAIN body :
    LET node == body[i]
        lowered == {a \in DOMAIN node.arms :
                      \A b \in 1 .. a - 1 : node.arms[b].label # "otherwise"}
    IN \/ node.k \in {"break", "continue"}
       \/ node.k \notin {"for", "while"} /\ \E a \in lowered : Stray(node.arms[a].body)

(* The bytecode of every program is accepted by the verifier, however its
   loops, switches, tries and early exits nest, and rejected exactly for a
   break or continue that no loop encloses.                                 *)
AcceptedUnlessStray ==
  Prepare(Lower(grown, <<Assignment>>)).accepted <=> ~Stray(grown)

=============================================================================
