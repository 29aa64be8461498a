----------------------------- MODULE MCBytecode -----------------------------
(***************************************************************************)
(* The lowering under the verifier, the VM's control machine on its own,   *)
(* and the machine beside the interpreter: one of the three moves in a     *)
(* behaviour, the others stay where they start.                            *)
(***************************************************************************)
EXTENDS ControlEngines, ControlPrograms, VerifiedLowering

VARIABLE moving

bytecodeVars == <<moving, engineVars, loweringVars>>

MCPrograms == LET programs == AllPrograms IN programs
MCSources == LET sources == AgreementTrees IN sources

MCRaising == {"value", "left", "right", "cond", "range", "selector", "case",
              "store", "default", "result"}
MCComparable == {"value", "cond", "store", "result"}

BytecodeInit ==
  \/ /\ moving = "lowering" /\ LoweringInit
     /\ program = FirstProgram /\ StartMachine /\ answers = <<>>
  \/ /\ moving = "machine" /\ VmInit /\ answers = <<>>
     /\ grown = <<>> /\ nesting = 0
  \/ /\ moving = "engines" /\ EnginesInit
     /\ grown = <<>> /\ nesting = 0

(* The lowering is done when the largest program is made.                   *)
Grown ==
  /\ moving = "lowering" /\ nesting = MaxDepth /\ Len(grown) >= Statements
  /\ UNCHANGED <<engineVars, loweringVars>>

BytecodeNext ==
  /\ UNCHANGED moving
  /\ \/ Grown
     \/ moving = "lowering" /\ LoweringNext /\ UNCHANGED engineVars
     \/ moving = "machine" /\ VmNext /\ UNCHANGED <<answers, loweringVars>>
     \/ moving = "engines" /\ EnginesNext /\ UNCHANGED loweringVars

BytecodeSpec == BytecodeInit /\ [][BytecodeNext]_bytecodeVars

(* The verifier takes what the lowering makes, while programs grow
   (bytecode.cpp, bytecode_verifier.cpp).                                    *)
GrownIsAccepted == moving = "lowering" => AcceptedUnlessStray

(* The VM and the interpreter evaluate the same and fail alike, on every
   source that is compared (bytecode_vm.cpp, interpreter.cpp).               *)
ComparedEnginesAgree == moving = "engines" => EnginesAgree
=============================================================================
