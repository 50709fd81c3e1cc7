--------------------------- MODULE ContractProgram ---------------------------
(***************************************************************************)
(* The closed instruction language of contract programs: the rules of      *)
(* contract_evaluator.py for a program, the replay of one against sealed   *)
(* inputs (core_runtime/core/contract_program.py) and the registry of      *)
(* operations (contract_program_registry.py).                              *)
(*                                                                         *)
(* A program is written one instruction at a time, evaluated, and then     *)
(* replayed one instruction at a time.  A value is [kind, n]: a boolean, a *)
(* number, a collection of n items or a text; Python takes TRUE for 1.     *)
(***************************************************************************)
EXTENDS ContractRules

CONSTANTS
  Instructions,   \* the instructions a program may be made of
  Endings,        \* and those it may end with
  MaxBody,        \* bound: instructions before the last
  Limits,         \* [steps, items, emits]
  Capabilities,   \* sets of declared capabilities and granted effects
  SealedInputs    \* functions from keys to values

\* What the schema of a program says of its last instruction and its limits.
ASSUME ProgramAssumption ==
  /\ \A i \in Instructions \cup Endings :
        i.opcode = "halt" =>
          i.status \in {"passed", "blocked", "insufficient_data"}
  /\ \A l \in Limits : l.items \in Nat

VARIABLES
  program,    \* [instructions, limits, capabilities]
  sealed,     \* the inputs of the replay
  phase,      \* "writing", "replaying", "done", "idle"
  pc,         \* the next instruction
  values,     \* the outputs so far
  emitted,    \* the values emitted so far
  staged,     \* the transitions staged so far
  status      \* of the execution

programVars == <<program, sealed, phase, pc, values, emitted, staged, status>>

NoProgram == [instructions |-> <<>>, limits |-> [steps |-> 0, items |-> 0,
              emits |-> 0], capabilities |-> {}]
NoValues == [o \in {} |-> 0]

Bool(b) == [kind |-> "bool", n |-> IF b THEN 1 ELSE 0]
Numeric(v) == v.kind \in {"bool", "int"}

\* Python's ==.
SameValue(a, b) == a = b \/ (Numeric(a) /\ Numeric(b) /\ a.n = b.n)

-----------------------------------------------------------------------------
(* contract_program_registry.py: an operation answers with a value, or     *)
(* raises.                                                                 *)

RegistryKeys == {"rank.quantity.v1", "member.scale_adapter.v1",
                 "regex.grammar_context.v1"}

\* A text is its length, and the names of the two grammars are 8 and 9: a
\* qualified_ref is longer than an identifier has to be.
Grammars == {8, 9}
ShortestMatch(grammar) == IF grammar = 8 THEN 7 ELSE 1

RegistryAccepts(key, in) ==
  CASE key = "rank.quantity.v1" ->
         Len(in) = 1 /\ in[1].kind = "int" /\ in[1].n >= 0
    [] key = "member.scale_adapter.v1" -> Len(in) = 4
    [] key = "regex.grammar_context.v1" ->
         /\ Len(in) = 2
         /\ in[1].kind = "text" /\ in[2].kind = "text" => in[2].n \in Grammars
    [] OTHER -> FALSE

RegistryValue(key, in) ==
  CASE key = "rank.quantity.v1" -> in[1]
    [] key = "member.scale_adapter.v1" ->
         Bool(SameValue(in[1], in[3]) /\ SameValue(in[2], in[4]))
    [] key = "regex.grammar_context.v1" ->
         Bool(in[1].kind = "text" /\ in[2].kind = "text"
              /\ in[1].n >= ShortestMatch(in[2].n))

-----------------------------------------------------------------------------
(* _validate_contract_program.                                             *)

Needs(opcode) == CASE opcode = "load" -> {"read_input"}
                   [] opcode = "assert" -> {"assert"}
                   [] opcode = "derive" -> {"derive"}
                   [] opcode = "transition" -> {"stage_transition"}
                   [] opcode = "emit" -> {"emit_result"}
                   [] OTHER -> {}

\* Mutant of Produces: only what is loaded may not be given again.
LoadsOnly(i) == i.opcode = "load"

Produces(i) == i.opcode \in {"load", "derive"}

\* What the effect policy must rule out; it is with the capabilities when it
\* does not.
Effects == {"external_effects", "network_access", "filesystem_access",
            "state_apply"}

At(code, opcode) == {k \in DOMAIN code : code[k].opcode = opcode}

\* Exactly one halt, at the end.
HaltErrors(code) ==
  When(At(code, "halt") # {Len(code)}, "program_halt_must_be_terminal")

ProgramErrors(p) ==
  LET code == p.instructions
  IN When(p.capabilities \cap Effects # {}, "effect_policy_forbidden")
     \cup When(Len(code) > p.limits.steps, "program_step_limit_exceeded")
     \cup When(Cardinality(At(code, "emit")) > p.limits.emits,
               "program_emit_limit_exceeded")
     \cup HaltErrors(code)
     \cup When(\E k \in DOMAIN code :
                  ~ Needs(code[k].opcode) \subseteq p.capabilities,
               "program_capability_missing")
     \cup When(\E j, k \in DOMAIN code :
                  /\ j # k /\ Produces(code[j]) /\ Produces(code[k])
                  /\ code[j].output = code[k].output,
               "program_output_redefined")
     \cup When(\E k \in At(code, "transition") : code[k].before = code[k].after,
               "program_transition_noop")
     \cup When(\E k \in At(code, "derive") :
                  code[k].operation = "copy" /\ Len(code[k].inputs) # 1,
               "program_copy_arity")
     \cup When(\E k \in At(code, "derive") :
                  code[k].operation = "registry"
                    /\ code[k].registry \notin RegistryKeys,
               "registry_instruction_invalid")

-----------------------------------------------------------------------------
(* execute_contract_program.                                               *)

ProgramInit(ph) ==
  /\ program = NoProgram
  /\ sealed = NoValues
  /\ phase = ph
  /\ pc = 1
  /\ values = NoValues /\ emitted = <<>> /\ staged = <<>>
  /\ status = "passed"

Write(i) ==
  /\ phase = "writing"
  /\ Len(program.instructions) < MaxBody
  /\ program' = [program EXCEPT !.instructions = Append(@, i)]
  /\ UNCHANGED <<sealed, phase, pc, values, emitted, staged, status>>

\* The evaluation rejects the program, or lets it be replayed.
Submit(ending, limits, capabilities, inputs) ==
  /\ phase = "writing"
  /\ program' = [instructions |-> Append(program.instructions, ending),
                 limits |-> limits, capabilities |-> capabilities]
  /\ sealed' = inputs
  /\ IF ProgramErrors(program') # {}
     THEN status' = "rejected" /\ phase' = "done"
     ELSE status' = "passed" /\ phase' = "replaying"
  /\ UNCHANGED <<pc, values, emitted, staged>>

Instruction == program.instructions[pc]
Inputs == [k \in DOMAIN Instruction.inputs |-> values[Instruction.inputs[k]]]

\* Mutant of Stopped: what was staged before the failure stays.
StoppedKeepingStaged(s) ==
  /\ phase' = "done"
  /\ status' = s
  /\ UNCHANGED <<program, sealed, pc, values, emitted, staged>>

\* The loop is left: nothing stays staged unless the status is "passed".
Stopped(s) ==
  /\ phase' = "done"
  /\ status' = s
  /\ staged' = IF s = "passed" THEN staged ELSE <<>>
  /\ UNCHANGED <<program, sealed, pc, values, emitted>>

\* The end of one pass: too many outputs stop the replay.
Go(newValues, newEmitted, newStaged) ==
  IF Cardinality(DOMAIN newValues) > program.limits.items
  THEN /\ phase' = "done" /\ status' = "blocked"
       /\ values' = newValues /\ emitted' = newEmitted /\ staged' = <<>>
       /\ UNCHANGED <<program, sealed, pc>>
  ELSE /\ values' = newValues /\ emitted' = newEmitted /\ staged' = newStaged
       /\ pc' = pc + 1
       /\ UNCHANGED <<program, sealed, phase, status>>

Set(output, v) ==
  Go([o \in DOMAIN values \cup {output} |-> IF o = output THEN v ELSE values[o]],
     emitted, staged)

Replaying(opcode) == phase = "replaying" /\ Instruction.opcode = opcode

Load ==
  /\ Replaying("load")
  /\ IF Instruction.key \in DOMAIN sealed
     THEN Set(Instruction.output, sealed[Instruction.key])
     ELSE Stopped("insufficient_data")

AssertInput ==
  /\ Replaying("assert")
  /\ IF Instruction.key \notin DOMAIN sealed THEN Stopped("insufficient_data")
     ELSE IF SameValue(sealed[Instruction.key], Instruction.equals)
     THEN Go(values, emitted, staged)
     ELSE Stopped("blocked")

Derive ==
  /\ Replaying("derive")
  /\ IF ~ ToSet(Instruction.inputs) \subseteq DOMAIN values
     THEN Stopped("blocked")
     ELSE CASE Instruction.operation = "copy" ->
                 Set(Instruction.output, Inputs[1])
            [] Instruction.operation = "count" ->
                 IF Inputs[1].kind = "list"
                 THEN Set(Instruction.output,
                          [kind |-> "int", n |-> Inputs[1].n])
                 ELSE Stopped("blocked")
            [] Instruction.operation = "registry" ->
                 IF RegistryAccepts(Instruction.registry, Inputs)
                 THEN Set(Instruction.output,
                          RegistryValue(Instruction.registry, Inputs))
                 ELSE Stopped("blocked")
            [] OTHER -> Stopped("blocked")

Staged(i) == [before |-> i.before, after |-> i.after]

Transition ==
  /\ Replaying("transition")
  /\ Go(values, emitted, Append(staged, Staged(Instruction)))

Emit ==
  /\ Replaying("emit")
  /\ IF Instruction.value \in DOMAIN values
     THEN Go(values, Append(emitted, values[Instruction.value]), staged)
     ELSE Stopped("blocked")

\* The last instruction says what the execution amounts to.
Halt ==
  /\ Replaying("halt")
  /\ Stopped(Instruction.status)

ProgramNext ==
  \/ \E i \in Instructions : Write(i)
  \/ \E e \in Endings, l \in Limits, c \in Capabilities, s \in SealedInputs :
        Submit(e, l, c, s)
  \/ Load \/ AssertInput \/ Derive \/ Transition \/ Emit \/ Halt

ProgramSpec == ProgramInit("writing") /\ [][ProgramNext]_programVars

-----------------------------------------------------------------------------
\* The statuses of an execution; the replay never runs past the program; the
\* outputs are those of the instructions behind the next one; and there is at
\* most one more of them than the limit, the one that stopped the replay.
ProgramTypeOK ==
  /\ phase \in {"writing", "replaying", "done", "idle"}
  /\ status \in {"passed", "blocked", "insufficient_data", "rejected"}
  /\ phase \in {"replaying", "done"} => pc \in DOMAIN program.instructions
  /\ DOMAIN values \subseteq
       {program.instructions[k].output :
          k \in {k \in DOMAIN program.instructions :
                   k <= pc /\ Produces(program.instructions[k])}}
  /\ Cardinality(DOMAIN values) <= program.limits.items + 1
=============================================================================
