--------------------------- MODULE ContractProofs ----------------------------
(***************************************************************************)
(* What an accepted document deserves, for documents of any size: a replay *)
(* of a contract program stages all of its transitions or none and never   *)
(* changes an output (ProgramInv, and ProgramTypes within the limits the   *)
(* schema allows), an accepted safety case has earned the level it asks    *)
(* for, and the depth-first search of a causal trace finds a cycle exactly *)
(* when there is one.  Last, an audit that has ended has found something   *)
(* exactly if the repository it ran in has one of the faults it is there   *)
(* for, since all probes are right (AuditIsRight).                         *)
(***************************************************************************)
EXTENDS ContractAudit, FiniteSetTheorems, SequenceTheorems,
        WellFoundedInduction, TLAPS

\* What a sequence is once something is appended to it.
LEMMA Appended ==
  ASSUME NEW s, IsSequence(s), NEW x
  PROVE  /\ IsSequence(Append(s, x))
         /\ Len(s) \in Nat /\ Len(Append(s, x)) = Len(s) + 1
         /\ DOMAIN s = 1 .. Len(s)
         /\ DOMAIN Append(s, x) = 1 .. Len(s) + 1
         /\ \A k \in 1 .. Len(s) : Append(s, x)[k] = s[k]
         /\ Append(s, x)[Len(s) + 1] = x
<1> DEFINE n == Len(s)
           T == ToSet(s) \cup {x}
           r == Append(s, x)
<1>1. s \in Seq(ToSet(s)) /\ n \in Nat /\ DOMAIN s = 1 .. n
  BY DEF IsSequence
<1>2. s \in Seq(T)
  BY <1>1
<1>3. /\ r \in Seq(T) /\ Len(r) = n + 1 /\ DOMAIN r = 1 .. n + 1
      /\ \A k \in 1 .. n : r[k] = s[k]
      /\ r[n + 1] = x
  BY <1>1, <1>2
<1>4. ToSet(r) = T
  BY <1>1, <1>3 DEF ToSet
<1> QED
  BY <1>1, <1>3, <1>4 DEF IsSequence

LEMMA EmptyIsSequence == IsSequence(<<>>) /\ Len(<<>>) = 0
BY DEF IsSequence

-----------------------------------------------------------------------------
(* Programs.                                                               *)

\* How many of the first n instructions have the opcode.
Count(code, opcode, n) == Cardinality({j \in At(code, opcode) : j <= n})

\* What the first n instructions of a replay earned: their assertions hold of
\* the sealed inputs, their transitions s are staged in order, what they emit,
\* e, is there, and the outputs v are theirs.
Earned(n, v, e, s) ==
  LET code == program.instructions
  IN /\ \A k \in At(code, "assert") : k <= n =>
           /\ code[k].key \in DOMAIN sealed
           /\ SameValue(sealed[code[k].key], code[k].equals)
     /\ IsSequence(s) /\ Len(s) = Count(code, "transition", n)
     /\ \A k \in At(code, "transition") :
           k <= n => s[Count(code, "transition", k)] = Staged(code[k])
     /\ IsSequence(e) /\ Len(e) = Count(code, "emit", n)
     /\ DOMAIN v \subseteq {code[k].output :
                              k \in {k \in DOMAIN code : k <= n /\ Produces(code[k])}}

ProgramInv ==
  /\ phase \in {"writing", "replaying", "done"}
  /\ "instructions" \in DOMAIN program /\ IsSequence(program.instructions)
  /\ phase = "writing" =>
       pc = 1 /\ values = NoValues /\ emitted = <<>> /\ staged = <<>>
  /\ phase = "replaying" =>
       /\ ProgramErrors(program) = {}
       /\ pc \in DOMAIN program.instructions
       /\ Earned(pc - 1, values, emitted, staged)
  /\ phase = "done" /\ staged # <<>> =>
       /\ status = "passed"
       /\ Earned(Len(program.instructions), values, emitted, staged)

\* Counting one instruction more.
LEMMA CountsUp ==
  ASSUME NEW code, IsSequence(code), NEW opcode, NEW n \in Nat
  PROVE  /\ Count(code, opcode, n) \in Nat
         /\ \A k \in At(code, opcode) :
               k <= n => Count(code, opcode, k) \in 1 .. Count(code, opcode, n)
         /\ n + 1 \in At(code, opcode) =>
               Count(code, opcode, n + 1) = Count(code, opcode, n) + 1
         /\ n + 1 \notin At(code, opcode) =>
               Count(code, opcode, n + 1) = Count(code, opcode, n)
<1> DEFINE Below(k) == {j \in At(code, opcode) : j <= k}
<1>1. At(code, opcode) \in SUBSET (1 .. Len(code)) /\ Len(code) \in Nat
  BY DEF At, IsSequence
<1>2. IsFiniteSet(At(code, opcode))
  <2>1. IsFiniteSet(1 .. Len(code))
    BY <1>1, FS_Interval
  <2> QED
    BY <1>1, <2>1, FS_Subset
<1>3. \A k : IsFiniteSet(Below(k)) /\ Cardinality(Below(k)) \in Nat
  <2> TAKE k
  <2>1. Below(k) \in SUBSET At(code, opcode)
    OBVIOUS
  <2> QED
    BY <1>2, <2>1, FS_Subset, FS_CardinalityType
<1>4. ASSUME NEW k \in At(code, opcode), k <= n
      PROVE  Cardinality(Below(k)) \in 1 .. Cardinality(Below(n))
  <2>1. k \in Int /\ k \in Below(k)
    BY <1>1
  <2>2. Below(k) \in SUBSET Below(n)
    BY <1>1, <1>4
  <2>3. Cardinality(Below(k)) <= Cardinality(Below(n))
    BY <1>3, <2>2, FS_Subset
  <2>4. Cardinality(Below(k)) # 0
    BY <1>3, <2>1, FS_EmptySet
  <2> QED
    BY <1>3, <2>3, <2>4
<1>5. ASSUME n + 1 \in At(code, opcode)
      PROVE  Cardinality(Below(n + 1)) = Cardinality(Below(n)) + 1
  <2>1. Below(n + 1) = Below(n) \cup {n + 1} /\ n + 1 \notin Below(n)
    BY <1>1, <1>5
  <2>2. IsFiniteSet(Below(n))
    BY <1>3
  <2> HIDE DEF Below
  <2>3. Cardinality(Below(n) \cup {n + 1}) = Cardinality(Below(n)) + 1
    BY <2>1, <2>2, FS_AddElement
  <2> QED
    BY <2>1, <2>3
<1>6. ASSUME n + 1 \notin At(code, opcode)
      PROVE  Below(n + 1) = Below(n)
  BY <1>1, <1>6
<1> QED
  BY <1>3, <1>4, <1>5, <1>6 DEF Count

\* The outputs of a program without errors are all different, and its last
\* instruction is the only halt.
LEMMA ProgramIsSound ==
  ASSUME NEW p, ProgramErrors(p) = {}
  PROVE  /\ At(p.instructions, "halt") = {Len(p.instructions)}
         /\ \A j, k \in DOMAIN p.instructions :
               (/\ Produces(p.instructions[j]) /\ Produces(p.instructions[k])
                /\ p.instructions[j].output = p.instructions[k].output) => j = k
<1> DEFINE code == p.instructions
<1>1. \A c \in HaltErrors(code) : c \in ProgramErrors(p)
  BY DEF ProgramErrors
<1>2. \A c \in When(\E j, k \in DOMAIN code :
                       /\ j # k /\ Produces(code[j]) /\ Produces(code[k])
                       /\ code[j].output = code[k].output,
                    "program_output_redefined") :
         c \in ProgramErrors(p)
  BY DEF ProgramErrors
<1> QED
  BY <1>1, <1>2 DEF HaltErrors, When

\* One more instruction that was carried out and adds what it should.
LEMMA GoKeeps ==
  ASSUME ProgramInv, phase = "replaying", Instruction.opcode # "halt",
         NEW v, NEW e, NEW s, Go(v, e, s), Earned(pc, v, e, s)
  PROVE  ProgramInv'
<1> DEFINE code == program.instructions
<1>1. /\ IsSequence(code) /\ ProgramErrors(program) = {} /\ pc \in DOMAIN code
  BY DEF ProgramInv
<1>2. /\ program' = program /\ sealed' = sealed
  BY DEF Go
<1>3. CASE Cardinality(DOMAIN v) > program.limits.items
  <2>1. phase' = "done" /\ staged' = <<>>
    BY <1>3 DEF Go
  <2> QED
    BY <1>1, <1>2, <2>1 DEF ProgramInv
<1>4. CASE ~ (Cardinality(DOMAIN v) > program.limits.items)
  <2>1. /\ values' = v /\ emitted' = e /\ staged' = s /\ pc' = pc + 1
        /\ phase' = phase
    BY <1>4 DEF Go
  <2>2. At(code, "halt") = {Len(code)} /\ DOMAIN code = 1 .. Len(code)
          /\ Len(code) \in Nat
    BY <1>1, ProgramIsSound DEF IsSequence
  <2>3. pc \notin At(code, "halt")
    BY DEF At, Instruction
  <2>4. pc + 1 \in DOMAIN code /\ pc' - 1 = pc
    BY <1>1, <2>1, <2>2, <2>3
  <2>5. Earned(pc - 1, values, emitted, staged)'
    BY <1>2, <2>1, <2>4 DEF Earned
  <2> QED
    BY <1>1, <1>2, <2>1, <2>4, <2>5 DEF ProgramInv
<1> QED
  BY <1>3, <1>4

\* What is earned with the next instruction.
LEMMA OneMoreEarned ==
  ASSUME ProgramInv, phase = "replaying", NEW v, NEW e, NEW s,
         Instruction.opcode = "assert" =>
           /\ Instruction.key \in DOMAIN sealed
           /\ SameValue(sealed[Instruction.key], Instruction.equals),
         IF Instruction.opcode = "transition"
         THEN s = Append(staged, Staged(Instruction)) ELSE s = staged,
         IF Instruction.opcode = "emit"
         THEN \E x : e = Append(emitted, x) ELSE e = emitted,
         \A o \in DOMAIN v : \/ o \in DOMAIN values
                             \/ Produces(Instruction) /\ o = Instruction.output
  PROVE  Earned(pc, v, e, s)
<1> DEFINE code == program.instructions
           emits(n) == Count(code, "emit", n)
           stages(n) == Count(code, "transition", n)
<1>1. /\ IsSequence(code) /\ pc \in DOMAIN code
      /\ Earned(pc - 1, values, emitted, staged)
  BY DEF ProgramInv
<1>2. /\ pc \in Nat \ {0} /\ pc - 1 \in Nat /\ (pc - 1) + 1 = pc
      /\ \A k \in DOMAIN code : k \in Nat /\ (k <= pc => k = pc \/ k <= pc - 1)
  BY <1>1 DEF IsSequence
<1>3. /\ Instruction = code[pc]
      /\ \A o : pc \in At(code, o) <=> Instruction.opcode = o
  BY <1>1 DEF Instruction, At
<1>4. ASSUME NEW k \in At(code, "assert"), k <= pc
      PROVE  /\ code[k].key \in DOMAIN sealed
             /\ SameValue(sealed[code[k].key], code[k].equals)
  BY <1>1, <1>2, <1>3, <1>4 DEF Earned, At
<1>5. /\ IsSequence(e) /\ Len(e) = emits(pc)
  <2>1. IsSequence(emitted) /\ Len(emitted) = emits(pc - 1)
    BY <1>1 DEF Earned
  <2>2. CASE Instruction.opcode = "emit"
    <3>1. emits(pc) = emits(pc - 1) + 1
      BY <1>1, <1>2, <1>3, <2>2, CountsUp
    <3>2. PICK x : e = Append(emitted, x)
      BY <2>2
    <3> QED
      BY <2>1, <3>1, <3>2, Appended
  <2>3. CASE Instruction.opcode # "emit"
    <3>1. emits(pc) = emits(pc - 1)
      BY <1>1, <1>2, <1>3, <2>3, CountsUp
    <3> QED
      BY <2>1, <2>3, <3>1
  <2> QED
    BY <2>2, <2>3
<1>6. /\ IsSequence(s) /\ Len(s) = stages(pc)
      /\ \A k \in At(code, "transition") : k <= pc => s[stages(k)] = Staged(code[k])
  <2>1. /\ IsSequence(staged) /\ Len(staged) = stages(pc - 1)
        /\ \A k \in At(code, "transition") :
              k <= pc - 1 => staged[stages(k)] = Staged(code[k])
    BY <1>1 DEF Earned
  <2>2. \A k \in At(code, "transition") :
           k \in DOMAIN code /\ (k <= pc - 1 => stages(k) \in 1 .. stages(pc - 1))
    BY <1>1, <1>2, CountsUp DEF At
  <2>3. CASE Instruction.opcode = "transition"
    <3>1. stages(pc) = stages(pc - 1) + 1
      BY <1>1, <1>2, <1>3, <2>3, CountsUp
    <3>2. s = Append(staged, Staged(Instruction))
      BY <2>3
    <3>3. /\ IsSequence(s) /\ Len(s) = stages(pc)
          /\ \A k \in 1 .. stages(pc - 1) : s[k] = staged[k]
          /\ s[stages(pc)] = Staged(code[pc])
      BY <1>3, <2>1, <3>1, <3>2, Appended
    <3> HIDE DEF stages
    <3> QED
      BY <1>2, <2>1, <2>2, <3>3
  <2>4. CASE Instruction.opcode # "transition"
    <3>1. stages(pc) = stages(pc - 1)
      BY <1>1, <1>2, <1>3, <2>4, CountsUp
    <3>2. s = staged /\ pc \notin At(code, "transition")
      BY <1>3, <2>4
    <3> HIDE DEF stages
    <3> QED
      BY <1>2, <2>1, <2>2, <3>1, <3>2
  <2> QED
    BY <2>3, <2>4
<1>7. DOMAIN v \subseteq {code[k].output :
                             k \in {k \in DOMAIN code : k <= pc /\ Produces(code[k])}}
  <2>1. \A o \in DOMAIN values : \E k \in DOMAIN code :
           k <= pc - 1 /\ Produces(code[k]) /\ o = code[k].output
    BY <1>1 DEF Earned
  <2>2. \A o \in DOMAIN v : \E k \in DOMAIN code :
           k <= pc /\ Produces(code[k]) /\ o = code[k].output
    BY <1>1, <1>2, <1>3, <2>1
  <2> QED
    BY <2>2
<1> QED
  BY <1>4, <1>5, <1>6, <1>7 DEF Earned

-----------------------------------------------------------------------------
(* Each step of a replay.                                                  *)

LEMMA ProgramStarts ==
  ASSUME NEW ph \in {"writing", "done"}, ProgramInit(ph)
  PROVE  ProgramInv
BY EmptyIsSequence DEF ProgramInit, ProgramInv, NoProgram

LEMMA WriteKeeps ==
  ASSUME ProgramInv, NEW i, Write(i)
  PROVE  ProgramInv'
<1>1. IsSequence(Append(program.instructions, i))
  BY Appended DEF ProgramInv
<1> QED
  BY <1>1 DEF ProgramInv, Write

LEMMA SubmitKeeps ==
  ASSUME ProgramInv, NEW e, NEW l, NEW c, NEW s, Submit(e, l, c, s)
  PROVE  ProgramInv'
<1> DEFINE code == Append(program.instructions, e)
<1>1. /\ program' = [instructions |-> code, limits |-> l, capabilities |-> c]
      /\ program'.instructions = code
      /\ phase = "writing" /\ UNCHANGED <<pc, values, emitted, staged>>
      /\ pc' = 1 /\ values' = NoValues /\ emitted' = <<>> /\ staged' = <<>>
      /\ \/ phase' = "done"
         \/ phase' = "replaying" /\ ProgramErrors(program') = {}
  BY DEF ProgramInv, Submit
<1>2. IsSequence(code) /\ 1 \in DOMAIN code
  BY Appended DEF ProgramInv
<1>3. \A opcode : Count(code, opcode, 0) = 0
  <2> TAKE opcode
  <2>1. {j \in At(code, opcode) : j <= 0} = {}
    BY <1>2 DEF At, IsSequence
  <2> QED
    BY <2>1, FS_EmptySet DEF Count
<1>4. \A k \in DOMAIN code : ~ (k <= 0)
  BY <1>2 DEF IsSequence
<1>5. Earned(0, NoValues, <<>>, <<>>)'
  BY <1>1, <1>3, <1>4, EmptyIsSequence DEF Earned, NoValues, At
<1>6. (pc - 1)' = 0
  BY <1>1
<1>7. Earned(pc - 1, values, emitted, staged)'
  BY <1>1, <1>5, <1>6
<1> QED
  BY <1>1, <1>2, <1>7 DEF ProgramInv

LEMMA StoppedKeeps ==
  ASSUME ProgramInv, phase = "replaying", NEW s, s # "passed", Stopped(s)
  PROVE  ProgramInv'
BY DEF ProgramInv, Stopped

LEMMA SetKeeps ==
  ASSUME ProgramInv, phase = "replaying", Produces(Instruction),
         NEW x, Set(Instruction.output, x)
  PROVE  ProgramInv'
<1> DEFINE v == [o \in DOMAIN values \cup {Instruction.output} |->
                   IF o = Instruction.output THEN x ELSE values[o]]
<1>1. Go(v, emitted, staged) /\ Instruction.opcode \in {"load", "derive"}
  BY DEF Set, Produces
<1>2. \A o \in DOMAIN v : o \in DOMAIN values \/ o = Instruction.output
  OBVIOUS
<1>3. Earned(pc, v, emitted, staged)
  <2> HIDE DEF v
  <2> QED
    BY <1>1, <1>2, OneMoreEarned
<1> HIDE DEF v
<1> QED
  BY <1>1, <1>3, GoKeeps

LEMMA ReplayKeeps ==
  ASSUME ProgramInv, Load \/ AssertInput \/ Derive \/ Transition \/ Emit \/ Halt
  PROVE  ProgramInv'
<1>1. CASE Load
  BY <1>1, SetKeeps, StoppedKeeps DEF Load, Replaying, Produces
<1>2. CASE AssertInput
  <2>1. Replaying("assert")
    BY <1>2 DEF AssertInput
  <2>2. CASE Stopped("insufficient_data") \/ Stopped("blocked")
    BY <2>1, <2>2, StoppedKeeps DEF Replaying
  <2>3. CASE /\ Instruction.key \in DOMAIN sealed
             /\ SameValue(sealed[Instruction.key], Instruction.equals)
             /\ Go(values, emitted, staged)
    <3>1. Earned(pc, values, emitted, staged)
      BY <2>1, <2>3, OneMoreEarned DEF Replaying
    <3> QED
      BY <2>1, <2>3, <3>1, GoKeeps DEF Replaying
  <2> QED
    BY <1>2, <2>2, <2>3 DEF AssertInput
<1>3. CASE Derive
  <2>1. phase = "replaying" /\ Produces(Instruction)
    BY <1>3 DEF Derive, Replaying, Produces
  <2>2. Stopped("blocked") \/ \E x : Set(Instruction.output, x)
    BY <1>3 DEF Derive
  <2> QED
    BY <2>1, <2>2, StoppedKeeps, SetKeeps
<1>4. CASE Transition
  <2> DEFINE s == Append(staged, Staged(Instruction))
  <2>1. phase = "replaying" /\ Instruction.opcode = "transition"
          /\ Go(values, emitted, s)
    BY <1>4 DEF Transition, Replaying
  <2>2. Earned(pc, values, emitted, s)
    BY <2>1, OneMoreEarned
  <2> QED
    BY <2>1, <2>2, GoKeeps
<1>5. CASE Emit
  <2>1. phase = "replaying" /\ Instruction.opcode = "emit"
    BY <1>5 DEF Emit, Replaying
  <2>2. CASE Stopped("blocked")
    BY <2>1, <2>2, StoppedKeeps
  <2>3. ASSUME NEW x, Go(values, Append(emitted, x), staged)
        PROVE  ProgramInv'
    <3>1. Earned(pc, values, Append(emitted, x), staged)
      BY <2>1, OneMoreEarned
    <3> QED
      BY <2>1, <2>3, <3>1, GoKeeps
  <2> QED
    BY <1>5, <2>2, <2>3 DEF Emit
<1>6. CASE Halt
  <2> DEFINE code == program.instructions
  <2>1. phase = "replaying" /\ Instruction.opcode = "halt"
          /\ Stopped(Instruction.status)
    BY <1>6 DEF Halt, Replaying
  <2>2. Earned(pc, values, emitted, staged)
    BY <2>1, OneMoreEarned
  <2>3. pc \in At(code, "halt") /\ At(code, "halt") = {Len(code)}
    BY <2>1, ProgramIsSound DEF ProgramInv, At, Instruction
  <2>4. /\ program' = program /\ sealed' = sealed /\ values' = values
        /\ emitted' = emitted /\ phase' = "done" /\ pc' = pc
        /\ staged' # <<>> => staged' = staged /\ status' = "passed"
    BY <2>1 DEF Stopped
  <2>5. staged' # <<>> => Earned(Len(code), values, emitted, staged)'
    BY <2>2, <2>3, <2>4 DEF Earned
  <2> QED
    BY <2>4, <2>5 DEF ProgramInv
<1> QED
  BY <1>1, <1>2, <1>3, <1>4, <1>5, <1>6

LEMMA ProgramKeeps ==
  ASSUME ProgramInv, [ProgramNext]_programVars
  PROVE  ProgramInv'
<1>1. CASE UNCHANGED programVars
  BY <1>1 DEF programVars, ProgramInv, Earned
<1> QED
  BY <1>1, WriteKeeps, SubmitKeeps, ReplayKeeps DEF ProgramNext

\* The invariant of a replay: what is staged, emitted and given to the outputs
\* is what the instructions so far earned.  (execute_contract_program.)
THEOREM ProgramKeepsInv == ProgramSpec => []ProgramInv
<1>1. ProgramInit("writing") => ProgramInv
  BY ProgramStarts
<1>2. ProgramInv /\ [ProgramNext]_programVars => ProgramInv'
  BY ProgramKeeps
<1> QED
  BY <1>1, <1>2, PTL DEF ProgramSpec

\* What else the types rest on: a program is made of instructions and endings,
\* its limit is a number, and while the replay goes on the limit is kept.
LimitInv ==
  /\ DOMAIN program = {"instructions", "limits", "capabilities"}
  /\ program.limits.items \in Nat
  /\ \A k \in DOMAIN program.instructions :
        program.instructions[k] \in Instructions \cup Endings
  /\ IsFiniteSet(DOMAIN values)
  /\ phase \in {"writing", "replaying"} =>
        Cardinality(DOMAIN values) <= program.limits.items

\* A step of the replay ends it with a status, or gives one output at most.
LEMMA ReplayShape ==
  ASSUME ProgramInv, LimitInv,
         Load \/ AssertInput \/ Derive \/ Transition \/ Emit \/ Halt
  PROVE  /\ phase = "replaying"
         /\ \/ \E s \in {"passed", "blocked", "insufficient_data"} : Stopped(s)
            \/ \E v, e, s :
                  /\ Go(v, e, s)
                  /\ \/ DOMAIN v = DOMAIN values
                     \/ /\ Produces(Instruction)
                        /\ DOMAIN v = DOMAIN values \cup {Instruction.output}
<1>1. phase = "replaying"
  BY DEF Load, AssertInput, Derive, Transition, Emit, Halt, Replaying
<1>2. ASSUME NEW x, Set(Instruction.output, x)
      PROVE  \E v, e, s :
                /\ Go(v, e, s)
                /\ DOMAIN v = DOMAIN values \cup {Instruction.output}
  <2> DEFINE v == [o \in DOMAIN values \cup {Instruction.output} |->
                     IF o = Instruction.output THEN x ELSE values[o]]
  <2>1. DOMAIN v = DOMAIN values \cup {Instruction.output}
    OBVIOUS
  <2>2. Go(v, emitted, staged)
    BY <1>2 DEF Set
  <2> HIDE DEF v
  <2> QED
    BY <2>1, <2>2
<1>3. CASE Load
  <2>1. Produces(Instruction)
    BY <1>3 DEF Load, Replaying, Produces
  <2>2. Stopped("insufficient_data") \/ \E x : Set(Instruction.output, x)
    BY <1>3 DEF Load
  <2> QED
    BY <1>1, <1>2, <2>1, <2>2
<1>4. CASE AssertInput
  BY <1>1, <1>4 DEF AssertInput
<1>5. CASE Derive
  <2>1. Produces(Instruction)
    BY <1>5 DEF Derive, Replaying, Produces
  <2>2. Stopped("blocked") \/ \E x : Set(Instruction.output, x)
    BY <1>5 DEF Derive
  <2> QED
    BY <1>1, <1>2, <2>1, <2>2
<1>6. CASE Transition
  BY <1>1, <1>6 DEF Transition
<1>7. CASE Emit
  BY <1>1, <1>7 DEF Emit
<1>8. CASE Halt
  <2>1. Stopped(Instruction.status) /\ Instruction.opcode = "halt"
    BY <1>8 DEF Halt, Replaying
  <2>2. Instruction \in Instructions \cup Endings
    BY <1>1 DEF ProgramInv, LimitInv, Instruction
  <2>3. Instruction.status \in {"passed", "blocked", "insufficient_data"}
    BY <2>1, <2>2, ProgramAssumption
  <2> QED
    BY <1>1, <2>1, <2>3
<1> QED
  BY <1>3, <1>4, <1>5, <1>6, <1>7, <1>8

\* A replay keeps the types.
LEMMA TypesKept ==
  ASSUME ProgramInv, LimitInv, ProgramTypeOK,
         Load \/ AssertInput \/ Derive \/ Transition \/ Emit \/ Halt
  PROVE  LimitInv' /\ ProgramTypeOK'
<1> DEFINE code == program.instructions
           Outputs(n) == {code[k].output :
                            k \in {k \in DOMAIN code : k <= n /\ Produces(code[k])}}
<1>1. /\ phase = "replaying" /\ IsSequence(code) /\ pc \in DOMAIN code
      /\ Earned(pc - 1, values, emitted, staged)
      /\ DOMAIN code \in SUBSET Nat
  BY ReplayShape DEF ProgramInv, IsSequence
<1>2. ProgramInv'
  BY ReplayKeeps
<1>3. CASE \E s \in {"passed", "blocked", "insufficient_data"} : Stopped(s)
  <2>1. /\ phase' = "done" /\ status' \in {"passed", "blocked", "insufficient_data"}
        /\ UNCHANGED <<program, pc, values>>
    BY <1>3 DEF Stopped
  <2> QED
    BY <1>1, <2>1 DEF LimitInv, ProgramTypeOK
<1>4. ASSUME NEW v, NEW e, NEW s, Go(v, e, s),
             \/ DOMAIN v = DOMAIN values
             \/ /\ Produces(Instruction)
                /\ DOMAIN v = DOMAIN values \cup {Instruction.output}
      PROVE  LimitInv' /\ ProgramTypeOK'
  <2> DEFINE items == program.limits.items
  <2>1. /\ values' = v /\ program' = program
        /\ \/ /\ phase' = "done" /\ status' = "blocked" /\ pc' = pc
           \/ /\ phase' = phase /\ status' = status /\ pc' = pc + 1
              /\ ~ (Cardinality(DOMAIN v) > items)
    BY <1>4 DEF Go
  <2>2. /\ IsFiniteSet(DOMAIN v) /\ Cardinality(DOMAIN v) \in Nat
        /\ Cardinality(DOMAIN v) <= Cardinality(DOMAIN values) + 1
        /\ items \in Nat /\ Cardinality(DOMAIN values) \in Nat
        /\ Cardinality(DOMAIN values) <= items
    <3>1. IsFiniteSet(DOMAIN values) /\ items \in Nat
            /\ Cardinality(DOMAIN values) <= items
      BY <1>1 DEF LimitInv
    <3>2. Cardinality(DOMAIN values) \in Nat
      BY <3>1, FS_CardinalityType
    <3>3. ASSUME NEW o, DOMAIN v = DOMAIN values \cup {o}
          PROVE  /\ IsFiniteSet(DOMAIN v) /\ Cardinality(DOMAIN v) \in Nat
                 /\ Cardinality(DOMAIN v) <= Cardinality(DOMAIN values) + 1
      <4>1. /\ IsFiniteSet(DOMAIN values \cup {o})
            /\ \/ Cardinality(DOMAIN values \cup {o}) = Cardinality(DOMAIN values)
               \/ Cardinality(DOMAIN values \cup {o}) = Cardinality(DOMAIN values) + 1
        BY <3>1, FS_AddElement
      <4> QED
        BY <3>2, <3>3, <4>1
    <3>4. CASE DOMAIN v = DOMAIN values
      BY <3>1, <3>2, <3>4
    <3>5. CASE DOMAIN v = DOMAIN values \cup {Instruction.output}
      BY <3>1, <3>2, <3>3, <3>5
    <3> QED
      BY <1>4, <3>4, <3>5
  <2>3. DOMAIN v \subseteq Outputs(pc) /\ Outputs(pc) \subseteq Outputs(pc + 1)
    <3>1. \A k \in DOMAIN code : (k <= pc - 1 => k <= pc) /\ (k <= pc => k <= pc + 1)
      BY <1>1
    <3>2. DOMAIN values \subseteq Outputs(pc)
      BY <1>1, <3>1 DEF Earned
    <3>3. Produces(Instruction) => Instruction.output \in Outputs(pc)
      BY <1>1 DEF Instruction
    <3> QED
      BY <1>4, <3>1, <3>2, <3>3
  <2>4. pc' \in DOMAIN code
    BY <1>1, <1>2, <2>1 DEF ProgramInv
  <2>5. Cardinality(DOMAIN v) <= items + 1
    BY <2>2
  <2>6. LimitInv'
    <3>1. phase' = phase => Cardinality(DOMAIN v) <= items
      BY <1>1, <2>1, <2>2
    <3> QED
      BY <1>1, <2>1, <2>2, <3>1 DEF LimitInv
  <2>7. DOMAIN v \subseteq Outputs(pc')
    BY <2>1, <2>3
  <2> QED
    BY <1>1, <2>1, <2>4, <2>5, <2>6, <2>7 DEF ProgramTypeOK
<1> QED
  BY <1>3, <1>4, ReplayShape

\* The types of a replay: it stays inside the program, and has at most one
\* output more than the limit.  (execute_contract_program.)
THEOREM ProgramTypes == ProgramSpec => []ProgramTypeOK
<1> DEFINE Inv == ProgramInv /\ LimitInv /\ ProgramTypeOK
<1>1. DOMAIN NoValues = {} /\ IsFiniteSet({}) /\ Cardinality({}) = 0
  BY FS_EmptySet DEF NoValues
<1>2. ASSUME ProgramInit("writing")
      PROVE  Inv
  BY <1>1, <1>2, ProgramStarts DEF ProgramInit, LimitInv, ProgramTypeOK, NoProgram
<1>3. ASSUME Inv, [ProgramNext]_programVars
      PROVE  Inv'
  <2>1. ProgramInv'
    BY <1>3, ProgramKeeps
  <2>2. CASE UNCHANGED programVars
    BY <1>3, <2>2 DEF programVars, Inv, ProgramInv, Earned, LimitInv, ProgramTypeOK
  <2>3. ASSUME NEW i \in Instructions, Write(i)
        PROVE  LimitInv' /\ ProgramTypeOK'
    <3> DEFINE code == program.instructions
    <3>1. /\ program'.instructions = Append(code, i)
          /\ program'.limits = program.limits
          /\ DOMAIN program' = DOMAIN program
          /\ phase = "writing" /\ IsSequence(code) /\ values = NoValues
          /\ UNCHANGED <<phase, pc, values, status>>
      BY <1>3, <2>3 DEF Write, LimitInv, ProgramInv
    <3>2. \A k \in DOMAIN Append(code, i) : Append(code, i)[k] \in Instructions \cup Endings
      BY <1>3, <3>1, Appended DEF LimitInv
    <3> QED
      BY <1>1, <1>3, <3>1, <3>2 DEF LimitInv, ProgramTypeOK
  <2>4. ASSUME NEW e \in Endings, NEW l \in Limits, NEW c \in Capabilities,
               NEW s \in SealedInputs, Submit(e, l, c, s)
        PROVE  LimitInv' /\ ProgramTypeOK'
    <3> DEFINE code == program.instructions
    <3>1. /\ program' = [instructions |-> Append(code, e), limits |-> l,
                         capabilities |-> c]
          /\ phase = "writing" /\ IsSequence(code) /\ values = NoValues /\ pc = 1
          /\ UNCHANGED <<pc, values>>
          /\ phase' \in {"replaying", "done"} /\ status' \in {"passed", "rejected"}
      BY <1>3, <2>4 DEF Submit, ProgramInv
    <3>2. /\ \A k \in DOMAIN Append(code, e) :
                Append(code, e)[k] \in Instructions \cup Endings
          /\ 1 \in DOMAIN Append(code, e)
      BY <1>3, <3>1, Appended DEF LimitInv
    <3>3. l.items \in Nat
      BY ProgramAssumption
    <3> QED
      BY <1>1, <1>3, <3>1, <3>2, <3>3 DEF LimitInv, ProgramTypeOK
  <2>5. CASE Load \/ AssertInput \/ Derive \/ Transition \/ Emit \/ Halt
    BY <1>3, <2>1, <2>5, TypesKept
  <2> QED
    BY <1>3, <2>1, <2>2, <2>3, <2>4, <2>5 DEF ProgramNext
<1> QED
  BY <1>2, <1>3, PTL DEF ProgramSpec

\* At the end of a replay nothing is staged, or everything the program was to
\* stage and emit is, with every assertion held.
THEOREM StagedIsEarned == ProgramSpec => []StagedAllOrNothing
<1>1. ASSUME ProgramInv
      PROVE  StagedAllOrNothing
  <2> SUFFICES ASSUME phase = "done", staged # <<>>
               PROVE  StagedAllOrNothing
    BY DEF StagedAllOrNothing
  <2> DEFINE code == program.instructions
  <2>1. /\ status = "passed" /\ IsSequence(code)
        /\ Earned(Len(code), values, emitted, staged)
    BY <1>1 DEF ProgramInv
  <2>2. \A opcode : \A k \in At(code, opcode) : k <= Len(code)
    BY <2>1 DEF At, IsSequence
  <2>3. \A opcode : {j \in At(code, opcode) : j <= Len(code)} = At(code, opcode)
    BY <2>2
  <2>4. \A opcode : Count(code, opcode, Len(code)) = Cardinality(At(code, opcode))
    BY <2>3 DEF Count
  <2>5. \A k \in At(code, "transition") :
           staged[Cardinality({j \in At(code, "transition") : j <= k})]
             = Staged(code[k])
    BY <2>1, <2>2 DEF Earned, Count
  <2> QED
    BY <2>1, <2>2, <2>4, <2>5 DEF StagedAllOrNothing, Earned
<1> QED
  BY <1>1, ProgramKeepsInv, PTL

\* No step changes an output or takes back what was emitted: the program has no
\* two instructions with one output, and a replay runs each of them once.
THEOREM OutputsStay == ProgramSpec => OutputsAreFinal
<1> DEFINE Final == /\ \A o \in DOMAIN values :
                          o \in DOMAIN values' /\ values'[o] = values[o]
                    /\ Len(emitted') >= Len(emitted)
<1>1. ASSUME ProgramInv, ProgramNext
      PROVE  Final
  <2>1. /\ phase \in {"writing", "replaying"}
        /\ Len(emitted) \in Nat /\ IsSequence(emitted)
    <3>1. phase \in {"writing", "replaying"}
      BY <1>1 DEF ProgramNext, Write, Submit, Load, AssertInput, Derive,
                  Transition, Emit, Halt, Replaying
    <3>2. IsSequence(emitted)
      BY <1>1, <3>1, EmptyIsSequence DEF ProgramInv, Earned
    <3> QED
      BY <3>1, <3>2 DEF IsSequence
  <2>2. \/ UNCHANGED <<values, emitted>>
        \/ /\ phase = "replaying"
           /\ \E x : values' = values /\ emitted' = Append(emitted, x)
        \/ /\ phase = "replaying" /\ Produces(Instruction)
           /\ \E x : Set(Instruction.output, x)
    <3>1. ASSUME NEW s, Stopped(s)
          PROVE  UNCHANGED <<values, emitted>>
      BY <3>1 DEF Stopped
    <3>2. ASSUME NEW v, NEW e, NEW s, Go(v, e, s)
          PROVE  values' = v /\ emitted' = e
      BY <3>2 DEF Go
    <3>3. CASE Load
      BY <3>1, <3>3 DEF Load, Replaying, Produces
    <3>4. CASE AssertInput
      BY <3>1, <3>2, <3>4 DEF AssertInput
    <3>5. CASE Derive
      <4>1. Stopped("blocked") \/ \E x : Set(Instruction.output, x)
        BY <3>5 DEF Derive
      <4> QED
        BY <3>1, <3>5, <4>1 DEF Derive, Replaying, Produces
    <3>6. CASE Transition
      BY <3>2, <3>6 DEF Transition
    <3>7. CASE Emit
      BY <3>1, <3>2, <3>7 DEF Emit, Replaying
    <3>8. CASE Halt
      BY <3>1, <3>8 DEF Halt
    <3>9. CASE (\E i \in Instructions : Write(i))
               \/ \E e \in Endings, l \in Limits, c \in Capabilities,
                     s \in SealedInputs : Submit(e, l, c, s)
      BY <3>9 DEF Write, Submit
    <3> QED
      BY <1>1, <3>3, <3>4, <3>5, <3>6, <3>7, <3>8, <3>9 DEF ProgramNext
  <2>3. CASE UNCHANGED <<values, emitted>>
    BY <2>1, <2>3
  <2>4. ASSUME NEW x, values' = values, emitted' = Append(emitted, x)
        PROVE  Final
    <3>1. Len(Append(emitted, x)) = Len(emitted) + 1
      BY <2>1, Appended
    <3> QED
      BY <2>1, <2>4, <3>1
  <2>5. ASSUME NEW x, phase = "replaying", Produces(Instruction),
               Set(Instruction.output, x)
        PROVE  Final
    <3> DEFINE code == program.instructions
    <3>1. /\ values' = [o \in DOMAIN values \cup {Instruction.output} |->
                          IF o = Instruction.output THEN x ELSE values[o]]
          /\ emitted' = emitted
      BY <2>5 DEF Set, Go
    <3>2. /\ ProgramErrors(program) = {} /\ pc \in DOMAIN code
          /\ IsSequence(code) /\ Earned(pc - 1, values, emitted, staged)
      BY <1>1, <2>5 DEF ProgramInv
    <3>3. \A o \in DOMAIN values : \E k \in DOMAIN code :
             k <= pc - 1 /\ Produces(code[k]) /\ o = code[k].output
      BY <3>2 DEF Earned
    <3>4. Instruction = code[pc] /\ \A k \in DOMAIN code : k <= pc - 1 => k # pc
      BY <3>2 DEF Instruction, IsSequence
    <3>5. Instruction.output \notin DOMAIN values
      BY <2>5, <3>2, <3>3, <3>4, ProgramIsSound
    <3> QED
      BY <2>1, <3>1, <3>5
  <2> QED
    BY <2>2, <2>3, <2>4, <2>5
<1> QED
  BY <1>1, ProgramKeepsInv, PTL DEF ProgramSpec, OutputsAreFinal

-----------------------------------------------------------------------------
(* Evaluations.                                                            *)

\* A property of some number is a property of a least one.
LEMMA LeastNumber ==
  ASSUME NEW S, S \subseteq Nat, S # {}
  PROVE  \E n \in S : \A m \in S : n <= m
<1>1. IsWellFoundedOn(OpToRel(<, Nat), Nat)
  BY NatLessThanWellFounded
<1>2. PICK n \in S : \A m \in S : ~ (<<m, n>> \in OpToRel(<, Nat))
  BY <1>1, WFMin
<1>3. \A m \in S : ~ (m < n)
  BY <1>2 DEF OpToRel
<1> QED
  BY <1>3

\* The document is one there is, and the report what its evaluation says.
EvaluatorInv ==
  /\ document \in Documents
  /\ \/ report = Unjudged
     \/ report = EvaluateFile(document, Published, cyclic)

LEMMA EvaluatorKeepsInv == EvaluatorSpec => []EvaluatorInv
<1>1. EvaluatorInit(Documents) => EvaluatorInv
  BY DEF EvaluatorInit, EvaluatorInv
<1>2. EvaluatorInv /\ [EvaluatorNext]_documentVars => EvaluatorInv'
  BY DEF EvaluatorInv, EvaluatorNext, Search, Judge, documentVars, searchVars
<1> QED
  BY <1>1, <1>2, PTL DEF EvaluatorSpec

\* Nothing is wrong with an accepted document: it has the form of its schema,
\* and its rules were applied to it.
LEMMA AcceptedIsRight ==
  ASSUME EvaluatorInv, report = {}
  PROVE  /\ document \in Documents /\ document.form.schema
         /\ RuleErrors(document.name, document.body, cyclic) = {}
<1> DEFINE d == document
<1>1. Evaluate(d, Published, cyclic) = {}
  BY DEF EvaluatorInv, Unjudged, EvaluateFile
<1>2. /\ d.form.object /\ d.name \in Names
      /\ StructuralErrors(d.form) = {}
      /\ RulesApply(d, Published) => RuleErrors(d.name, d.body, cyclic) \ {} = {}
  BY <1>1 DEF Evaluate, Published
<1>3. d.form.schema
  BY <1>2 DEF StructuralErrors, When
<1>4. RulesApply(d, Published)
  BY <1>2 DEF RulesApply, Published
<1> QED
  BY <1>2, <1>3, <1>4 DEF EvaluatorInv

\* The last item with an identifier is an item with it.
LEMMA ByIdIsAnItem ==
  ASSUME NEW items, IsSequence(items), NEW id \in Ids(items)
  PROVE  ById(items, id) \in ToSet(items) /\ ById(items, id).id = id
<1> DEFINE Having == {k \in DOMAIN items : items[k].id = id}
           After == {Len(items) - k : k \in Having}
<1>1. Len(items) \in Nat /\ DOMAIN items = 1 .. Len(items)
  BY DEF IsSequence
<1>2. After \subseteq Nat /\ After # {}
  BY <1>1 DEF Ids
<1>3. PICK n \in After : \A m \in After : n <= m
  BY <1>2, LeastNumber
<1>4. PICK k \in Having : n = Len(items) - k
  BY <1>3
<1>5. \A j \in Having : j <= k
  <2> TAKE j \in Having
  <2>1. Len(items) - j \in After /\ j \in 1 .. Len(items) /\ k \in 1 .. Len(items)
    BY <1>1
  <2>2. Len(items) - k <= Len(items) - j
    BY <1>3, <1>4, <2>1
  <2> QED
    BY <1>1, <2>1, <2>2
<1>6. \E l \in DOMAIN items :
        items[l].id = id /\ \A j \in DOMAIN items : items[j].id = id => j <= l
  BY <1>4, <1>5
<1> QED
  BY <1>6 DEF ById, ToSet

\* What a case without errors does not have.
LEMMA SafetyIsSound ==
  ASSUME NEW c, SafetyErrors(c) = {}
  PROVE  /\ \A t \in ToSet(c.tests) :
               /\ t.result = "passed" /\ ~ t.actuation /\ t.expected = t.observed
               /\ t.evidence \subseteq Ids(c.evidence)
         /\ Zoned(c.at)
         /\ \A e \in ToSet(c.evidence) : Zoned(e.at) /\ ~ (e.at > c.at)
         /\ \A h \in ToSet(c.hazards), s \in Scenarios : Methods(c, h.id, s) # {}
         /\ ~ (Rank(Achieved(c)) < Rank(c.requested))
<1>1. /\ EvidenceErrors(c) = {} /\ UnresolvedErrors(c) = {} /\ TestErrors(c) = {}
      /\ When(Rank(Achieved(c)) < Rank(c.requested),
              "requested_assurance_level_not_met") = {}
  BY DEF SafetyErrors
<1>2. \A h \in ToSet(c.hazards) : \A x \in HazardErrors(c, h) : x \in SafetyErrors(c)
  BY DEF SafetyErrors
<1>3. \A t \in ToSet(c.tests) :
         t.result = "passed" /\ ~ t.actuation /\ t.expected = t.observed
  BY <1>1 DEF TestErrors, When
<1>4. \A t \in ToSet(c.tests) : t.evidence \subseteq Ids(c.evidence)
  <2>1. EvidenceRefs(c) \ Ids(c.evidence) = {}
    BY <1>1 DEF UnresolvedErrors, When
  <2>2. \A t \in ToSet(c.tests) : t.evidence \subseteq EvidenceRefs(c)
    BY DEF EvidenceRefs
  <2> QED
    BY <2>1, <2>2
<1>5. /\ Zoned(c.at)
      /\ \A e \in ToSet(c.evidence) : Zoned(e.at) /\ ~ (e.at > c.at)
  BY <1>1 DEF EvidenceErrors, When
<1>6. ASSUME NEW h \in ToSet(c.hazards), NEW s \in Scenarios
      PROVE  Methods(c, h.id, s) # {}
  <2>1. \A x \in When(\E r \in Scenarios : Methods(c, h.id, r) = {},
                     "required_scenario_missing") : x \in HazardErrors(c, h)
    BY DEF HazardErrors
  <2> QED
    BY <1>2, <2>1 DEF When
<1> QED
  BY <1>1, <1>3, <1>4, <1>5, <1>6 DEF When

\* The level a case reached says how its hazards were tested.
LEMMA LevelIsEarned ==
  ASSUME NEW c, IsSequence(c.evidence), SafetyErrors(c) = {},
         c.requested \in {"evidence_ready", "independent_evidence_ready"},
         NEW h \in ToSet(c.hazards), NEW s \in Scenarios
  PROVE  \E t \in ToSet(c.tests) :
            /\ h.id \in t.hazards /\ t.scenario = s /\ t.method # "simulation"
            /\ c.requested = "independent_evidence_ready" =>
                  /\ t.method = "independent_assessment"
                  /\ \E e \in ToSet(c.evidence) :
                        e.id \in t.evidence /\ e.source = "independent_assessor"
<1> DEFINE methods == Methods(c, h.id, s)
           assessed == {t \in ToSet(c.tests) : t.method = "independent_assessment"}
<1>1. h.id \in Ids(c.hazards)
  BY DEF Ids, ToSet
<1>2. \A x \in methods : \E t \in ToSet(c.tests) :
         h.id \in t.hazards /\ t.scenario = s /\ t.method = x
  BY DEF Methods
<1>3. ~ (Rank(Achieved(c)) < Rank(c.requested))
  BY SafetyIsSound
<1>4. CASE Achieved(c) = "independent_evidence_ready"
  <2>1. "independent_assessment" \in methods /\ \A t \in assessed : Independent(c, t)
    BY <1>1, <1>4 DEF Achieved
  <2>2. PICK t \in ToSet(c.tests) : h.id \in t.hazards /\ t.scenario = s
                                  /\ t.method = "independent_assessment"
    BY <1>2, <2>1
  <2>3. PICK r \in t.evidence \cap Ids(c.evidence) :
           ById(c.evidence, r).source = "independent_assessor"
    BY <2>1, <2>2 DEF Independent
  <2>4. ById(c.evidence, r) \in ToSet(c.evidence) /\ ById(c.evidence, r).id = r
    BY <2>3, ByIdIsAnItem
  <2> QED
    BY <2>2, <2>3, <2>4
<1>5. CASE Achieved(c) # "independent_evidence_ready"
  <2>1. Achieved(c) \in {"evidence_ready", "simulation_only"}
    BY <1>5 DEF Achieved
  <2>2. Achieved(c) = "evidence_ready" /\ c.requested = "evidence_ready"
    BY <1>3, <2>1 DEF Rank
  <2>3. \A g \in Ids(c.hazards), r \in Scenarios :
           Methods(c, g, r) \ {"simulation"} # {}
    BY <2>2 DEF Achieved
  <2>4. methods \ {"simulation"} # {}
    BY <1>1, <2>3
  <2> QED
    <3>1. PICK x \in methods : x # "simulation"
      BY <2>4
    <3>2. c.requested # "independent_evidence_ready"
      BY <2>2
    <3> QED
      BY <1>2, <3>1, <3>2
<1> QED
  BY <1>4, <1>5

\* An accepted safety case has earned the level it asks for.
\* (_validate_physical_safety_case.)
THEOREM LevelsAreEarned == EvaluatorSpec => []AssuranceEarned
<1>1. ASSUME EvaluatorInv
      PROVE  AssuranceEarned
  <2> SUFFICES ASSUME Accepted("physical_safety_assurance_case")
               PROVE  AssuranceEarned
    BY DEF AssuranceEarned
  <2> DEFINE c == document.body
             seen(t) == \A r \in t.evidence :
                           \E e \in ToSet(c.evidence) : e.id = r /\ e.at \in 0..c.at
  <2>1. /\ SafetyErrors(c) = {} /\ IsSequence(c.evidence)
        /\ \A e \in ToSet(c.evidence) : e.at \in Int
        /\ c.at \in Int
        /\ c.requested \in {"simulation_only", "evidence_ready",
                            "independent_evidence_ready"}
    BY <1>1, AcceptedIsRight, DocumentAssumption DEF Accepted, RuleErrors
  <2>2. ASSUME NEW t \in ToSet(c.tests)
        PROVE  /\ t.result = "passed" /\ ~ t.actuation /\ t.expected = t.observed
               /\ seen(t)
    <3>1. ASSUME NEW r \in t.evidence
          PROVE  \E e \in ToSet(c.evidence) : e.id = r /\ e.at \in 0..c.at
      <4>1. r \in Ids(c.evidence)
        BY <2>1, SafetyIsSound
      <4>2. PICK e \in ToSet(c.evidence) : e.id = r
        BY <4>1 DEF Ids, ToSet
      <4>3. e.at \in 0 .. c.at
        BY <2>1, SafetyIsSound DEF Zoned
      <4> QED
        BY <4>2, <4>3
    <3> QED
      BY <2>1, <3>1, SafetyIsSound
  <2>3. ASSUME NEW h \in ToSet(c.hazards), NEW s \in Scenarios
        PROVE  \E t \in ToSet(c.tests) :
                  /\ h.id \in t.hazards /\ t.scenario = s
                  /\ c.requested # "simulation_only" => t.method # "simulation"
                  /\ c.requested = "independent_evidence_ready" =>
                        /\ t.method = "independent_assessment"
                        /\ \E e \in ToSet(c.evidence) :
                              /\ e.id \in t.evidence
                              /\ e.source = "independent_assessor"
    <3>1. CASE c.requested = "simulation_only"
      <4>1. Methods(c, h.id, s) # {}
        BY <2>1, SafetyIsSound
      <4> QED
        BY <3>1, <4>1 DEF Methods
    <3>2. CASE c.requested # "simulation_only"
      BY <2>1, <3>2, LevelIsEarned
    <3> QED
      BY <3>1, <3>2
  <2> QED
    BY <2>2, <2>3 DEF AssuranceEarned
<1> QED
  BY <1>1, EvaluatorKeepsInv, PTL

-----------------------------------------------------------------------------
(* The search of a causal trace.                                           *)

Frame(d) == [node : Refs(d), left : SUBSET Refs(d)]

\* The path is one: its nodes are different, each a child of the one before,
\* and not visited before; a child of one of them is still left, was visited,
\* or is the next one.
PathInv(d) ==
  /\ path \in Seq(Frame(d))
  /\ \A j, k \in DOMAIN path : path[j].node = path[k].node => j = k
  /\ \A k \in DOMAIN path :
        /\ path[k].node \notin done
        /\ path[k].left \subseteq Children(d, path[k].node)
        /\ k < Len(path) => path[k + 1].node \in Children(d, path[k].node)
        /\ ~ cyclic => \A c \in Children(d, path[k].node) :
              \/ c \in path[k].left \cup done
              \/ k < Len(path) /\ c = path[k + 1].node

\* What was visited is closed under causes, and no part of it is closed under
\* having a cause in it: there is no cycle.
DoneInv(d) ==
  /\ done \subseteq Refs(d)
  /\ \A n \in done : Children(d, n) \subseteq done
  /\ \A K \in SUBSET done :
        K # {} => \E n \in K : Children(d, n) \cap K = {}

SearchInv(d) == PathInv(d) /\ DoneInv(d) /\ (cyclic => CausesItself(d))

LEMMA ChildrenAreRefs == \A d, n : Children(d, n) \subseteq Refs(d)
BY DEF Children, Resolved

LEMMA SearchStarts ==
  ASSUME NEW d, SearchInit
  PROVE  SearchInv(d)
BY DEF SearchInit, SearchInv, PathInv, DoneInv

LEMMA RefsAreFinite ==
  ASSUME NEW d, IsSequence(d.nodes)
  PROVE  IsFiniteSet(Refs(d))
<1> DEFINE D == 1 .. Len(d.nodes)
           ref == [i \in D |-> d.nodes[i].ref]
<1>1. DOMAIN d.nodes = D /\ Len(d.nodes) \in Nat
  BY DEF IsSequence
<1>2. IsFiniteSet(D)
  BY <1>1, FS_Interval
<1>3. ref \in Surjection(D, Refs(d))
  BY <1>1 DEF Surjection, Refs
<1> QED
  BY <1>2, <1>3, FS_Surjection

LEMMA RootKeeps ==
  ASSUME NEW d, SearchInv(d), VisitRoot(d)
  PROVE  SearchInv(d)'
<1>1. PICK n \in Refs(d) \ done : path' = <<Visit(d, n)>>
  BY DEF VisitRoot
<1> DEFINE f == Visit(d, n)
<1>2. /\ f \in Frame(d) /\ f.node = n /\ f.left = Children(d, n)
  BY ChildrenAreRefs DEF Visit, Frame
<1>3. /\ done' = done /\ cyclic' = cyclic
      /\ path' \in Seq(Frame(d)) /\ Len(path') = 1 /\ DOMAIN path' = 1 .. 1
      /\ path'[1] = f
  BY <1>1, <1>2 DEF VisitRoot
<1>4. PathInv(d)'
  <2> HIDE DEF f
  <2> QED
    BY <1>2, <1>3 DEF PathInv
<1> QED
  BY <1>3, <1>4 DEF SearchInv, DoneInv

\* A node met again closes a chain that begins and ends at it; it is no longer
\* than the graph, since the nodes of a path are different.
LEMMA MeetingIsACycle ==
  ASSUME NEW d, IsFiniteSet(Refs(d)), PathInv(d), path # <<>>,
         NEW n \in Top.left, Meets(n)
  PROVE  CausesItself(d)
<1> DEFINE L == Len(path)
           Card == Cardinality(Refs(d))
<1>1. /\ L \in Nat \ {0} /\ DOMAIN path = 1 .. L
      /\ \A k \in 1 .. L : path[k].node \in Refs(d)
      /\ Top = path[L] /\ n \in Children(d, path[L].node)
  <2>1. path \in Seq(Frame(d)) /\ path # <<>>
    BY DEF PathInv
  <2>2. L \in Nat \ {0} /\ DOMAIN path = 1 .. L
    BY <2>1
  <2>3. \A k \in 1 .. L : path[k] \in Frame(d)
    BY <2>1, <2>2
  <2>4. \A k \in 1 .. L : path[k].node \in Refs(d)
    BY <2>3 DEF Frame
  <2>5. Top = path[L] /\ path[L].left \subseteq Children(d, path[L].node)
    BY <2>2 DEF PathInv, Top
  <2> QED
    BY <2>2, <2>4, <2>5
<1>2. PICK k \in 1 .. L : path[k].node = n
  BY <1>1 DEF Meets, Visiting
<1> DEFINE m == L - k + 1
           chain == [i \in 0 .. m |-> IF i = m THEN n ELSE path[k + i].node]
<1>3. L <= Card /\ Card \in Nat
  <2> DEFINE f == [i \in 1 .. L |-> path[i].node]
  <2>1. f \in Injection(1 .. L, Refs(d))
    BY <1>1 DEF PathInv, Injection, IsInjective
  <2>2. Cardinality(1 .. L) <= Card
    BY <2>1, FS_Injection
  <2>3. Cardinality(1 .. L) = L
    <3>1. 1 \in Int /\ L \in Int /\ ~ (1 > L) /\ L - 1 + 1 = L
      BY <1>1
    <3> HIDE DEF L
    <3> QED
      BY <3>1, FS_Interval
  <2> QED
    BY <2>2, <2>3, FS_CardinalityType
<1>4. m \in 1 .. Card /\ m \in Nat \ {0} /\ k + (m - 1) = L
  BY <1>1, <1>3
<1>5. \A i \in 0 .. m : i # m => k + i \in 1 .. L
  BY <1>1
<1>6. chain \in [0 .. m -> Refs(d)]
  BY <1>1, <1>2, <1>5
<1>7. chain[0] = n /\ chain[m] = n
  BY <1>1, <1>2, <1>4
<1>8. ASSUME NEW i \in 0 .. m - 1
      PROVE  chain[i + 1] \in Children(d, chain[i])
  <2>1. /\ i \in 0 .. m /\ i + 1 \in 0 .. m /\ i # m /\ k + i \in 1 .. L
        /\ chain[i] = path[k + i].node
    BY <1>1, <1>4, <1>5
  <2>2. CASE i + 1 = m
    <3>1. k + i = L /\ chain[i + 1] = n
      BY <1>4, <2>1, <2>2
    <3> QED
      BY <1>1, <2>1, <3>1
  <2>3. CASE i + 1 # m
    <3>1. /\ k + i < L /\ (k + i) + 1 = k + (i + 1)
          /\ chain[i + 1] = path[k + (i + 1)].node
      BY <1>1, <1>4, <2>1, <2>3
    <3>2. path[(k + i) + 1].node \in Children(d, path[k + i].node)
      BY <1>1, <2>1, <3>1 DEF PathInv
    <3> QED
      BY <2>1, <3>1, <3>2
  <2> QED
    BY <2>2, <2>3
<1> HIDE DEF m, chain
<1> QED
  BY <1>4, <1>6, <1>7, <1>8 DEF CausesItself

LEMMA ChildKeeps ==
  ASSUME NEW d, IsFiniteSet(Refs(d)), SearchInv(d), VisitChild(d)
  PROVE  SearchInv(d)'
<1> DEFINE L == Len(path)
<1>1. PICK n \in Top.left :
        LET rest == [path EXCEPT ![Len(path)].left = @ \ {n}]
        IN IF Meets(n) THEN cyclic' = TRUE /\ UNCHANGED path
           ELSE /\ path' = IF n \in done THEN rest ELSE Append(rest, Visit(d, n))
                /\ UNCHANGED cyclic
  BY DEF VisitChild
<1> DEFINE rest == [path EXCEPT ![L].left = @ \ {n}]
<1>2. /\ path # <<>> /\ ~ cyclic /\ done' = done
      /\ L \in Nat \ {0} /\ DOMAIN path = 1 .. L /\ path \in Seq(Frame(d))
      /\ Top = path[L] /\ n \in path[L].left
      /\ n \in Children(d, path[L].node) /\ n \in Refs(d)
  BY ChildrenAreRefs DEF VisitChild, SearchInv, PathInv, Top
<1>3. DoneInv(d)'
  BY <1>2 DEF SearchInv, DoneInv
<1>4. CASE Meets(n)
  <2>1. cyclic' = TRUE /\ path' = path
    BY <1>1, <1>4
  <2>2. CausesItself(d)
    BY <1>2, <1>4, MeetingIsACycle DEF SearchInv
  <2>3. PathInv(d)'
    BY <1>2, <2>1 DEF SearchInv, PathInv
  <2> QED
    BY <1>3, <2>1, <2>2, <2>3 DEF SearchInv
<1>5. CASE ~ Meets(n)
  <2>1. /\ rest \in Seq(Frame(d)) /\ Len(rest) = L /\ DOMAIN rest = 1 .. L
        /\ \A k \in 1 .. L : k # L => rest[k] = path[k]
        /\ rest[L].node = path[L].node /\ rest[L].left = path[L].left \ {n}
    <3> DEFINE f == [path[L] EXCEPT !.left = @ \ {n}]
    <3>1. path[L] \in Frame(d)
      BY <1>2
    <3>2. f \in Frame(d) /\ f.node = path[L].node /\ f.left = path[L].left \ {n}
      BY <3>1 DEF Frame
    <3>3. rest = [path EXCEPT ![L] = f]
      OBVIOUS
    <3> HIDE DEF f, rest
    <3>4. /\ rest \in Seq(Frame(d)) /\ Len(rest) = L
          /\ \A k \in 1 .. L : rest[k] = IF k = L THEN f ELSE path[k]
      BY <1>2, <3>2, <3>3, ExceptSeq
    <3>5. L \in 1 .. L /\ L \in Nat
      BY <1>2
    <3>6. DOMAIN rest = 1 .. L
      BY <3>4
    <3> HIDE DEF L
    <3> QED
      BY <3>2, <3>4, <3>5, <3>6
  <2>2. /\ cyclic' = cyclic
        /\ path' = IF n \in done THEN rest ELSE Append(rest, Visit(d, n))
    BY <1>1, <1>5
  <2> HIDE DEF rest
  <2>3. /\ \A k \in 1 .. L : rest[k].node = path[k].node
        /\ \A k \in 1 .. L : rest[k].left \subseteq path[k].left
        /\ \A k \in 1 .. L : path[k].left \subseteq rest[k].left \cup (IF k = L THEN {n} ELSE {})
    BY <1>2, <2>1
  <2>4. CASE n \in done
    <3>1. path' = rest
      BY <2>2, <2>4
    <3>2. PathInv(d)
      BY DEF SearchInv
    <3>3. PathInv(d)'
      <4>1. /\ path' \in Seq(Frame(d)) /\ DOMAIN path' = DOMAIN path
            /\ Len(path') = Len(path) /\ done' = done /\ ~ cyclic
        BY <1>2, <2>1, <3>1
      <4>2. \A k \in DOMAIN path :
               /\ path'[k].node = path[k].node
               /\ path'[k].left \subseteq path[k].left
               /\ path[k].left \subseteq path'[k].left \cup done
        BY <1>2, <2>3, <2>4, <3>1
      <4>3. \A k \in DOMAIN path : k < Len(path) => k + 1 \in DOMAIN path
        BY <1>2
      <4> QED
        BY <3>2, <4>1, <4>2, <4>3 DEF PathInv
    <3> QED
      BY <1>2, <1>3, <2>2, <3>3 DEF SearchInv
  <2>5. CASE n \notin done
    <3> DEFINE f == Visit(d, n)
    <3>1. /\ f \in Frame(d) /\ f.node = n /\ f.left = Children(d, n)
      BY <1>2, ChildrenAreRefs DEF Visit, Frame
    <3>2. PathInv(d)
      BY DEF SearchInv
    <3>3. path' = Append(rest, f)
      BY <2>2, <2>5
    <3> HIDE DEF f
    <3>4. /\ path' \in Seq(Frame(d)) /\ Len(path') = L + 1
          /\ DOMAIN path' = 1 .. L + 1
          /\ \A k \in 1 .. L : path'[k] = rest[k]
          /\ path'[L + 1] = f
      <4>1. rest \in Seq(Frame(d)) /\ Len(rest) = L
        BY <2>1
      <4> HIDE DEF L
      <4>2. /\ Append(rest, f) \in Seq(Frame(d)) /\ Len(Append(rest, f)) = L + 1
            /\ \A k \in 1 .. L : Append(rest, f)[k] = rest[k]
            /\ Append(rest, f)[L + 1] = f
        BY <3>1, <4>1, AppendProperties
      <4>3. DOMAIN Append(rest, f) = 1 .. L + 1
        BY <4>2
      <4>4. /\ path' \in Seq(Frame(d)) /\ Len(path') = L + 1
            /\ DOMAIN path' = 1 .. L + 1
        BY <3>3, <4>2, <4>3
      <4>5. \A k \in 1 .. L : path'[k] = rest[k]
        BY <3>3, <4>2
      <4>6. path'[L + 1] = f
        BY <3>3, <4>2
      <4> QED
        BY <4>4, <4>5, <4>6
    <3>5. \A k \in 1 .. L : path[k].node # n
      BY <1>2, <1>5 DEF Meets, Visiting
    <3>6. /\ L + 1 \in 1 .. L + 1 /\ L \in 1 .. L
          /\ \A k \in 1 .. L + 1 : k = L + 1 \/ (k \in 1 .. L /\ k < L + 1)
          /\ \A k \in 1 .. L : k = L \/ (k + 1 \in 1 .. L /\ k < L)
      <4>1. L \in Nat \ {0}
        BY <1>2
      <4> HIDE DEF L
      <4> QED
        BY <4>1
    <3>7. /\ \A k \in 1 .. L :
               /\ path'[k].node = path[k].node
               /\ path'[k].left \subseteq path[k].left
               /\ path[k].left \subseteq path'[k].left \cup (IF k = L THEN {n} ELSE {})
          /\ path'[L + 1].node = n /\ path'[L + 1].left = Children(d, n)
      <4> HIDE DEF L
      <4>1. \A k \in 1 .. L :
               /\ path'[k].node = path[k].node
               /\ path'[k].left \subseteq path[k].left
               /\ path[k].left \subseteq path'[k].left \cup (IF k = L THEN {n} ELSE {})
        BY <2>3, <3>4
      <4>2. path'[L + 1].node = n /\ path'[L + 1].left = Children(d, n)
        BY <3>1, <3>4
      <4> QED
        BY <4>1, <4>2
    <3>8. \A j, k \in DOMAIN path' : path'[j].node = path'[k].node => j = k
      <4>1. \A j, k \in 1 .. L : path[j].node = path[k].node => j = k
        BY <1>2, <3>2 DEF PathInv
      <4> HIDE DEF L
      <4> QED
        BY <3>4, <3>5, <3>6, <3>7, <4>1
    <3>9. ASSUME NEW k \in 1 .. L
          PROVE  /\ path'[k].node \notin done
                 /\ path'[k].left \subseteq Children(d, path'[k].node)
                 /\ path'[k + 1].node \in Children(d, path'[k].node)
                 /\ \A c \in Children(d, path'[k].node) :
                       \/ c \in path'[k].left \cup done
                       \/ c = path'[k + 1].node
      <4>1. /\ path[k].node \notin done
            /\ path[k].left \subseteq Children(d, path[k].node)
            /\ k < L => path[k + 1].node \in Children(d, path[k].node)
            /\ \A c \in Children(d, path[k].node) :
                  \/ c \in path[k].left \cup done
                  \/ k < L /\ c = path[k + 1].node
        BY <1>2, <3>2 DEF PathInv
      <4>2. path'[k + 1].node = IF k = L THEN n ELSE path[k + 1].node
        BY <3>6, <3>7
      <4>3. ~ (L < L) /\ (k = L \/ k < L)
        BY <1>2, <3>6
      <4>4. n \in Children(d, path[L].node)
        BY <1>2
      <4> HIDE DEF L
      <4> QED
        BY <3>7, <4>1, <4>2, <4>3, <4>4
    <3>10. PathInv(d)'
      <4>1. done' = done
        BY <1>2
      <4>2. ~ (L + 1 < L + 1)
        BY <1>2
      <4> HIDE DEF L
      <4> QED
        BY <2>5, <3>4, <3>6, <3>7, <3>8, <3>9, <4>1, <4>2 DEF PathInv
    <3> QED
      BY <1>2, <1>3, <2>2, <3>10 DEF SearchInv
  <2> QED
    BY <1>5, <2>4, <2>5
<1> QED
  BY <1>4, <1>5

LEMMA LeaveKeeps ==
  ASSUME NEW d, SearchInv(d), Leave
  PROVE  SearchInv(d)'
<1> DEFINE L == Len(path)
           n == path[L].node
<1>1. /\ path \in Seq(Frame(d)) /\ path # <<>> /\ ~ cyclic
  BY DEF Leave, SearchInv, PathInv
<1>2. L \in Nat \ {0} /\ DOMAIN path = 1 .. L /\ L \in 1 .. L
  BY <1>1
<1>3. /\ path[L].left = {} /\ done' = done \cup {n} /\ cyclic' = cyclic
      /\ path' = SubSeq(path, 1, L - 1)
  BY DEF Leave, Top
<1>4. n \in Refs(d) /\ n \notin done
  <2>1. path[L] \in Frame(d)
    BY <1>1, <1>2
  <2> QED
    BY <1>2, <2>1 DEF SearchInv, PathInv, Frame
<1>5. Children(d, n) \subseteq done
  <2>1. ~ (L < L)
    BY <1>2
  <2> QED
    BY <1>1, <1>2, <1>3, <2>1 DEF SearchInv, PathInv
<1>6. /\ path' \in Seq(Frame(d)) /\ Len(path') = L - 1 /\ DOMAIN path' = 1 .. L - 1
      /\ \A k \in 1 .. L - 1 : path'[k] = path[k]
  <2>1. \A i \in 1 .. L - 1 : path[i] \in Frame(d)
    BY <1>1, <1>2
  <2>2. 1 \in Int /\ L - 1 \in Int /\ (IF 1 <= L - 1 THEN L - 1 - 1 + 1 ELSE 0) = L - 1
        /\ L - 1 - 1 + 1 = L - 1 /\ \A i \in 1 .. L - 1 : 1 + i - 1 = i
    BY <1>2
  <2> HIDE DEF L
  <2>3. /\ SubSeq(path, 1, L - 1) \in Seq(Frame(d))
        /\ Len(SubSeq(path, 1, L - 1)) = L - 1
        /\ \A i \in 1 .. L - 1 : SubSeq(path, 1, L - 1)[i] = path[i]
    BY <2>1, <2>2, SubSeqProperties
  <2> QED
    BY <1>3, <2>3
<1>7. DoneInv(d)'
  <2>1. done' \subseteq Refs(d) /\ \A m \in done' : Children(d, m) \subseteq done'
    BY <1>3, <1>4, <1>5 DEF SearchInv, DoneInv
  <2>2. ASSUME NEW K \in SUBSET (done \cup {n}), K # {}
        PROVE  \E m \in K : Children(d, m) \cap K = {}
    <3> DEFINE J == K \ {n}
    <3>1. CASE J = {}
      <4>1. K = {n}
        BY <2>2, <3>1
      <4> QED
        BY <1>4, <1>5, <4>1
    <3>2. CASE J # {}
      <4>1. PICK m \in J : Children(d, m) \cap J = {}
        BY <2>2, <3>2 DEF SearchInv, DoneInv
      <4>2. n \notin Children(d, m)
        BY <1>4, <2>2, <4>1 DEF SearchInv, DoneInv
      <4> QED
        BY <4>1, <4>2
    <3> QED
      BY <3>1, <3>2
  <2> QED
    BY <1>3, <2>1, <2>2 DEF DoneInv
<1>8. PathInv(d)'
  <2>1. /\ \A k \in 1 .. L - 1 : k \in 1 .. L /\ k < L /\ k # L
        /\ \A k \in 1 .. L - 1 : k < L - 1 => k + 1 \in 1 .. L - 1
        /\ \A k \in 1 .. L - 1 : ~ (k < L - 1) => k + 1 = L
    <3>1. L \in Nat \ {0}
      BY <1>2
    <3> HIDE DEF L
    <3> QED
      BY <3>1
  <2>2. \A j, k \in 1 .. L : path[j].node = path[k].node => j = k
    BY <1>2 DEF SearchInv, PathInv
  <2>3. \A k \in 1 .. L - 1 :
           /\ path[k].node \notin done
           /\ path[k].left \subseteq Children(d, path[k].node)
           /\ path[k + 1].node \in Children(d, path[k].node)
           /\ \A c \in Children(d, path[k].node) :
                 c \in path[k].left \cup done \/ c = path[k + 1].node
    BY <1>1, <1>2, <2>1 DEF SearchInv, PathInv
  <2>4. \A k \in 1 .. L - 1 : path[k].node # n
    BY <1>2, <2>1, <2>2
  <2>5. \A k \in 1 .. L - 1 : ~ (k < L - 1) => path[k + 1].node = n
    BY <2>1
  <2> HIDE DEF L, n
  <2> QED
    BY <1>3, <1>6, <2>1, <2>2, <2>3, <2>4, <2>5 DEF PathInv
<1> QED
  BY <1>1, <1>3, <1>7, <1>8 DEF SearchInv

\* A search that is over and met no cycle shows that there is none: the nodes
\* of a chain that leads back to its beginning would be closed under causes.
LEMMA NoCycleIsLeft ==
  ASSUME NEW d, SearchInv(d), SearchOver(d), ~ cyclic
  PROVE  ~ CausesItself(d)
<1> SUFFICES ASSUME NEW n \in 1 .. Cardinality(Refs(d)),
                    NEW chain \in [0 .. n -> Refs(d)],
                    chain[0] = chain[n],
                    \A i \in 0 .. n - 1 : chain[i + 1] \in Children(d, chain[i])
             PROVE  FALSE
  BY DEF CausesItself
<1> DEFINE K == {chain[i] : i \in 0 .. n - 1}
<1>1. /\ 0 \in 0 .. n - 1
      /\ \A i \in 0 .. n - 1 : i \in 0 .. n /\ (i + 1 = n \/ i + 1 \in 0 .. n - 1)
  OBVIOUS
<1>2. K \in SUBSET done /\ K # {}
  <2>1. Refs(d) \subseteq done
    BY DEF SearchOver
  <2>2. \A i \in 0 .. n - 1 : chain[i] \in Refs(d)
    BY <1>1
  <2> QED
    BY <1>1, <2>1, <2>2
<1>3. PICK m \in K : Children(d, m) \cap K = {}
  BY <1>2 DEF SearchInv, DoneInv
<1>4. PICK i \in 0 .. n - 1 : m = chain[i]
  BY <1>3
<1>5. chain[i + 1] \in K
  BY <1>1
<1> QED
  BY <1>3, <1>4, <1>5

\* The invariant of an evaluation: until the report is there a trace is being
\* searched, and the report is the one of a search that is over.
TraceInv ==
  /\ document \in Documents
  /\ Searched(document) => SearchInv(document.body)
  /\ report # Unjudged =>
       /\ report = EvaluateFile(document, Published, cyclic)
       /\ Searched(document) => SearchOver(document.body)

LEMMA TraceKeeps ==
  ASSUME TraceInv, EvaluatorNext
  PROVE  TraceInv'
<1>1. CASE Search
  <2>1. PICK d : d = document.body
    OBVIOUS
  <2>2. /\ Searched(document) /\ SearchNext(d)
        /\ document' = document /\ report' = Unjudged
    BY <1>1, <2>1 DEF Search
  <2>3. SearchInv(d)
    BY <2>1, <2>2 DEF TraceInv
  <2>4. IsFiniteSet(Refs(d))
    <3>1. document.name = "causal_trace" /\ document.form.schema
      BY <2>2 DEF Searched, RulesApply, StructuralErrors, When
    <3> QED
      BY <2>1, <3>1, DocumentAssumption, RefsAreFinite DEF TraceInv
  <2>5. SearchInv(d)'
    BY <2>2, <2>3, <2>4, RootKeeps, ChildKeeps, LeaveKeeps DEF SearchNext
  <2> QED
    BY <2>1, <2>2, <2>5 DEF TraceInv
<1>2. CASE Judge
  BY <1>2 DEF Judge, TraceInv, searchVars, SearchInv, PathInv, DoneInv, SearchOver
<1> QED
  BY <1>1, <1>2 DEF EvaluatorNext

LEMMA TraceKeepsInv == EvaluatorSpec => []TraceInv
<1>1. EvaluatorInit(Documents) => TraceInv
  BY SearchStarts DEF EvaluatorInit, TraceInv
<1>2. TraceInv /\ [EvaluatorNext]_documentVars => TraceInv'
  <2>1. ASSUME TraceInv, UNCHANGED documentVars
        PROVE  TraceInv'
    BY <2>1 DEF documentVars, searchVars, TraceInv, SearchInv, PathInv, DoneInv,
                SearchOver
  <2> QED
    BY <2>1, TraceKeeps
<1> QED
  BY <1>1, <1>2, PTL DEF EvaluatorSpec

\* The report of a trace says what the search found.
LEMMA TraceIsReported ==
  ASSUME NEW d, Searched(d), NEW cycle
  PROVE  /\ "causal_cycle" \in EvaluateFile(d, Published, cycle) <=> cycle
         /\ EvaluateFile(d, Published, cycle) = {} =>
               /\ d.body.root \in Refs(d.body)
               /\ \A e \in ToSet(d.body.edges) :
                     {e.from, e.to} \subseteq Refs(d.body)
<1> DEFINE e == EvaluateFile(d, Published, cycle)
           rest == StructuralErrors(d.form) \cup ReferenceErrors(d.form)
                     \cup FingerprintErrors(d.form)
                     \cup When(d.name \notin Names, "semantic_evaluator_missing")
           trace == TraceErrors(d.body, cycle)
<1>1. /\ d.form.file = "readable" /\ d.name = "causal_trace" /\ d.form.object
      /\ d.name \in Names /\ RulesApply(d, Published)
  BY DEF Searched, RulesApply, Published
<1>2. e = Evaluate(d, Published, cycle)
  BY <1>1 DEF EvaluateFile
<1>3. e = rest \cup trace
  <2>1. RuleErrors(d.name, d.body, cycle) \ {} = trace
    BY <1>1 DEF RuleErrors
  <2> QED
    BY <1>1, <1>2, <2>1 DEF Evaluate, Published
<1>4. "causal_cycle" \notin rest
  BY DEF StructuralErrors, ReferenceErrors, FingerprintErrors, When
<1>5. "causal_cycle" \in trace <=> cycle
  BY DEF TraceErrors, When, TimestampErrors
<1>6. trace = {} => /\ d.body.root \in Refs(d.body)
                    /\ \A x \in ToSet(d.body.edges) : x \in Resolved(d.body)
  BY DEF TraceErrors, When
<1> QED
  BY <1>3, <1>4, <1>5, <1>6 DEF Resolved

\* Accepting a trace shows that its causes come before their effects, and a
\* trace is refused for a cycle only if it has one.  (_validate_causal_trace.)
THEOREM TracesAreCausal == EvaluatorSpec => []AcceptedTraceIsCausal
<1>1. ASSUME TraceInv
      PROVE  AcceptedTraceIsCausal
  <2> SUFFICES ASSUME report # Unjudged, Searched(document)
               PROVE  AcceptedTraceIsCausal
    BY DEF AcceptedTraceIsCausal
  <2> DEFINE d == document.body
  <2>1. /\ report = EvaluateFile(document, Published, cyclic)
        /\ SearchInv(d) /\ SearchOver(d)
    BY <1>1 DEF TraceInv
  <2>2. CausesItself(d) <=> cyclic
    BY <2>1, NoCycleIsLeft DEF SearchInv
  <2>3. "causal_cycle" \in report <=> cyclic
    BY <2>1, TraceIsReported
  <2>4. report = {} => /\ d.root \in Refs(d)
                       /\ \A e \in ToSet(d.edges) : {e.from, e.to} \subseteq Refs(d)
    BY <2>1, TraceIsReported
  <2> QED
    BY <2>2, <2>3, <2>4 DEF AcceptedTraceIsCausal
<1> QED
  BY <1>1, TraceKeepsInv, PTL

-----------------------------------------------------------------------------
(* The audit of the evaluator.                                             *)

\* What the audit reports of one of its parts.
PartErrors(p) ==
  IF p = "registries"
  THEN When(Probed # World.evaluators \/ World.evaluators # World.loaded,
            "contract_registry_drift")
  ELSE IF p = "inventory"
  THEN When(PublicSchemas \ (World.evaluators \cup Standalone) # {},
            "unclassified_public_contract")
       \cup When(fault.kind = "schema unreadable", "schema_unreadable")
       \cup When(fault.kind = "validator not importable",
                 "validator_import_failed")
       \cup When(fault.kind = "validator not callable",
                 "validator_symbol_missing")
  ELSE IF p \in Probed THEN ProbeErrors(p) ELSE {}

\* A part that has something to report is still to come, or has reported.
AuditInv(f) ==
  /\ fault = f
  /\ IsSequence(todo)
  /\ \A p \in ToSet(AuditParts) :
        PartErrors(p) # {} => p \in ToSet(todo) \/ findings # {}

LEMMA NamesAreContracts == "registries" \notin Names /\ "inventory" \notin Names
BY DEF Names, Contracts, ToSet

LEMMA AnySequence ==
  ASSUME NEW S, NEW s \in Seq(S)
  PROVE  IsSequence(s)
<1> DEFINE T == ToSet(s)
<1>1. /\ Len(s) \in Nat /\ DOMAIN s = 1 .. Len(s)
      /\ s = [i \in 1 .. Len(s) |-> s[i]]
  OBVIOUS
<1>2. \A i \in 1 .. Len(s) : s[i] \in T
  BY <1>1 DEF ToSet
<1> HIDE DEF T
<1>3. s \in Seq(T)
  BY <1>1, <1>2
<1> QED
  BY <1>3 DEF T, IsSequence

LEMMA AllParts ==
  /\ IsSequence(AuditParts)
  /\ {"registries", "inventory"} \cup Names \subseteq ToSet(AuditParts)
<1> DEFINE s == AuditParts
           n == Len(Contracts)
           T == {"registries", "inventory"} \cup Names
           a == <<"registries">> \o Contracts
<1>1. Contracts \in Seq(Names) /\ n \in Nat /\ DOMAIN Contracts = 1 .. n
  BY DEF Contracts, Names, ToSet
<1>2. /\ "registries" \in T /\ "inventory" \in T /\ Names \subseteq T
      /\ \A x \in T : x \in {"registries", "inventory"} \cup Names
  OBVIOUS
<1> HIDE DEF T, n
<1>3. /\ a \in Seq(T) /\ Len(a) = n + 1 /\ a[1] = "registries"
      /\ \A i \in 1 .. n : a[i + 1] = Contracts[i]
  BY <1>1, <1>2 DEF n
<1> HIDE DEF a
<1>4. /\ s \in Seq(T) /\ Len(s) = n + 2 /\ s[n + 2] = "inventory"
      /\ \A i \in 1 .. n + 1 : s[i] = a[i]
  BY <1>1, <1>2, <1>3 DEF AuditParts, a
<1> HIDE DEF s
<1>5. \A i \in 1 .. n + 2 : s[i] \in ToSet(s)
  BY <1>1, <1>4 DEF ToSet
<1>6. T \subseteq ToSet(s)
  <2>1. \A x \in Names : \E i \in 1 .. n : x = Contracts[i]
    BY <1>1 DEF Names, ToSet, n
  <2>2. \A i \in 1 .. n : s[i + 1] = Contracts[i] /\ i + 1 \in 1 .. n + 2
    BY <1>1, <1>3, <1>4
  <2>3. s[1] = "registries" /\ 1 \in 1 .. n + 2 /\ n + 2 \in 1 .. n + 2
    BY <1>1, <1>3, <1>4
  <2> QED
    BY <1>4, <1>5, <2>1, <2>2, <2>3 DEF T
<1> QED
  BY <1>4, <1>6, AnySequence DEF s, T

\* A negative document is not rejected with the code of a rule that is not
\* enforced.
LEMMA DroppedRuleIsMissed ==
  ASSUME NEW name \in Names, fault.kind = "rule dropped",
         fault.code = Expected(name)
  PROVE  Expected(name) \notin Evaluated(Negative(name))
<1> DEFINE d == Negative(name)
<1>1. /\ d.form = Form /\ d.name = name
  BY DEF Negative, Doc, Is, Form
<1>2. /\ World.loaded = Names /\ World.evaluators = Names
      /\ World.broken = {Expected(name)}
  BY DEF World, Is
<1>3. /\ StructuralErrors(Form) = {} /\ ReferenceErrors(Form) = {}
      /\ FingerprintErrors(Form) = {}
  BY DEF StructuralErrors, ReferenceErrors, FingerprintErrors, Form, When
<1>4. Form.object
  BY DEF Form
<1> QED
  BY <1>1, <1>2, <1>3, <1>4 DEF Evaluated, Evaluate, When

\* Each fault the audit is there for is seen by one of its parts.
LEMMA KnownIsSeen ==
  ASSUME KnownFault(fault)
  PROVE  \E p \in ToSet(AuditParts) : PartErrors(p) # {}
<1> DEFINE n == fault.name
<1> USE DEF When
<1>1. CASE fault.kind \in {"evaluator unregistered", "schema unlisted",
                           "probe missing"} /\ n \in Names
  <2>1. Probed # World.evaluators \/ World.evaluators # World.loaded
    BY <1>1 DEF Probed, World, Is
  <2> QED
    BY <2>1, AllParts DEF PartErrors
<1>2. CASE fault.kind \in {"unstable", "negative breaks the schema",
                           "rules unlisted", "execution authorized",
                           "deployment authorized"}
             /\ n \in Names
  <2>1. n \in Probed /\ Is(fault.kind, n)
    BY <1>2 DEF Probed, Is
  <2>2. ProbeErrors(n) # {}
    <3>1. CASE fault.kind = "unstable"
      <4> DEFINE a == Doc(n, AcceptedBody(n))
      <4>1. Again(a) = Evaluated(a) \cup {"noise"}
        BY <2>1, <3>1 DEF Again, Doc
      <4>2. Evaluated(a) # {} \/ Evaluated(a) # Again(a)
        BY <4>1
      <4> QED
        BY <4>2 DEF ProbeErrors
    <3>2. CASE fault.kind = "negative breaks the schema"
      <4>1. ~ Negative(n).form.schema
        BY <2>1, <3>2 DEF Negative, Doc, Form
      <4> QED
        BY <4>1 DEF ProbeErrors
    <3>3. CASE fault.kind \in {"rules unlisted", "execution authorized",
                                 "deployment authorized"}
      BY <2>1, <3>3 DEF ProbeErrors
    <3> QED
      BY <1>2, <3>1, <3>2, <3>3
  <2> QED
    BY <1>2, <2>1, <2>2, AllParts, NamesAreContracts DEF PartErrors
<1>3. CASE fault.kind = "schema unclassified" /\ n \notin Names \cup Standalone
  <2>1. n \in PublicSchemas \ (World.evaluators \cup Standalone)
    BY <1>3 DEF PublicSchemas, World
  <2> QED
    BY <2>1, AllParts DEF PartErrors
<1>4. CASE fault.kind \in {"schema unreadable", "validator not importable",
                           "validator not callable"}
  BY <1>4, AllParts DEF PartErrors
<1>5. CASE fault.kind = "rule dropped" /\ \E m \in Names : fault.code = Expected(m)
  <2>1. PICK m \in Names : fault.code = Expected(m)
    BY <1>5
  <2>2. m \in Probed
    BY <1>5 DEF Probed, Is
  <2>3. ProbeErrors(m) # {}
    BY <1>5, <2>1, DroppedRuleIsMissed DEF ProbeErrors
  <2> QED
    BY <2>1, <2>2, <2>3, AllParts, NamesAreContracts DEF PartErrors
<1> QED
  BY <1>1, <1>2, <1>3, <1>4, <1>5 DEF KnownFault, OfAContract

\* What a part reports depends on the fault only.
LEMMA SameFaultSameErrors ==
  ASSUME fault' = fault
  PROVE  \A p : PartErrors(p)' = PartErrors(p)
<1>1. \A k, n : Is(k, n)' = Is(k, n)
  BY DEF Is
<1>2. World' = World /\ Probed' = Probed /\ PublicSchemas' = PublicSchemas
  BY DEF World, Probed, PublicSchemas, Is
<1>3. \A n : Negative(n)' = Negative(n)
  BY <1>1 DEF Negative
<1>4. \A d : Evaluated(d)' = Evaluated(d)
  BY <1>2 DEF Evaluated
<1>5. \A d : Again(d)' = Again(d)
  BY <1>1, <1>4 DEF Again
<1>6. \A p : ProbeErrors(p)' = ProbeErrors(p)
  BY <1>1, <1>2, <1>3, <1>4, <1>5 DEF ProbeErrors
<1> QED
  BY <1>2, <1>6 DEF PartErrors

LEMMA ReportKeeps ==
  ASSUME NEW f, AuditInv(f), NEW part, Report(part, PartErrors(part))
  PROVE  AuditInv(f)'
<1> DEFINE t == todo
<1>1. /\ t # <<>> /\ Head(t) = part /\ todo' = Tail(t)
      /\ findings' = findings \cup PartErrors(part)
      /\ fault' = fault
  BY DEF Report
<1>2. t \in Seq(ToSet(t)) /\ IsSequence(todo')
      /\ \A p \in ToSet(t) : p = part \/ p \in ToSet(todo')
  <2>1. t \in Seq(ToSet(t)) /\ DOMAIN t = 1 .. Len(t) /\ Len(t) \in Nat \ {0}
    BY <1>1 DEF AuditInv, IsSequence
  <2>2. /\ todo' \in Seq(ToSet(t)) /\ Len(todo') = Len(t) - 1
        /\ DOMAIN todo' = 1 .. Len(todo')
        /\ \A i \in 1 .. Len(t) - 1 : todo'[i] = t[i + 1]
        /\ t[1] = part
    BY <1>1, <2>1
  <2>3. IsSequence(todo')
    BY <2>2, AnySequence
  <2>4. \A i \in 1 .. Len(t) : t[i] = part \/ t[i] \in ToSet(todo')
    <3> TAKE i \in 1 .. Len(t)
    <3>1. CASE i = 1
      BY <2>2, <3>1
    <3>2. CASE i # 1
      <4>1. i - 1 \in 1 .. Len(t) - 1 /\ t[i] = todo'[i - 1]
        BY <2>1, <2>2, <3>2
      <4> QED
        BY <2>1, <2>2, <4>1 DEF ToSet
    <3> QED
      BY <3>1, <3>2
  <2>5. \A p \in ToSet(t) : \E i \in 1 .. Len(t) : p = t[i]
    BY <2>1 DEF ToSet
  <2> QED
    BY <2>1, <2>3, <2>4, <2>5
<1>3. \A p : PartErrors(p)' = PartErrors(p)
  BY <1>1, SameFaultSameErrors
<1> QED
  BY <1>1, <1>2, <1>3 DEF AuditInv

\* Every step reports what its part has to say.
LEMMA AuditKeeps ==
  ASSUME NEW f, AuditInv(f), [AuditNext]_auditVars
  PROVE  AuditInv(f)'
<1>1. ASSUME CompareRegistries
      PROVE  Report("registries", PartErrors("registries"))
  BY <1>1 DEF CompareRegistries, PartErrors
<1>2. ASSUME NEW n \in Names, RunProbe(n)
      PROVE  Report(n, PartErrors(n))
  BY <1>2, NamesAreContracts DEF RunProbe, PartErrors
<1>3. ASSUME TakeInventory
      PROVE  Report("inventory", PartErrors("inventory"))
  BY <1>3 DEF TakeInventory, PartErrors
<1>4. ASSUME UNCHANGED auditVars
      PROVE  AuditInv(f)'
  <2>1. fault' = fault /\ todo' = todo /\ findings' = findings
    BY <1>4 DEF auditVars
  <2> QED
    BY <2>1, SameFaultSameErrors DEF AuditInv
<1> QED
  BY <1>1, <1>2, <1>3, <1>4, ReportKeeps DEF AuditNext

\* Where one of the known faults is, an audit that ends has found something.
LEMMA FaultsAreNoticed ==
  ASSUME NEW f, AuditInv(f), todo = <<>>, KnownFault(fault)
  PROVE  findings # {}
<1>1. ToSet(todo) = {}
  BY DEF ToSet
<1> QED
  BY <1>1, KnownIsSeen DEF AuditInv

-----------------------------------------------------------------------------
(* The probes are right: each document has no error, and the change to it  *)
(* has the one expected of it.                                             *)

\* Context, memory and learning.
LEMMA MemoryProbes ==
  ASSUME NEW n \in {"context_gate",
                     "memory_artifact",
                     "memory_generation_result",
                     "operational_learning_event",
                     "pattern_candidate",
                     "template_promotion_candidate"},
         NEW c
  PROVE  /\ RuleErrors(n, AcceptedBody(n), c) = {}
         /\ Expected(n) \in RuleErrors(n, Mutated(n), c)
<1> USE DEF When, TimestampErrors, Zoned, Absent, Naive
<1>1. CASE n = "context_gate"
  <2>1. GateErrors(AcceptedBody(n)) = {}
    BY <1>1 DEF AcceptedBody, AcceptedControl, AcceptedMemory,
           GateErrors
  <2>2. Expected(n) \in GateErrors(Mutated(n))
    <3>1. Mutated(n) = [status |-> "applied", mode |-> "apply",
                      result |-> FALSE]
      BY <1>1 DEF AcceptedBody, AcceptedControl, AcceptedMemory,
           Mutated
    <3>2. Expected(n) = "apply_result_required"
      BY <1>1 DEF Expected
    <3>3. "apply_result_required"
            \in GateErrors([status |-> "applied", mode |-> "apply",
                      result |-> FALSE])
      BY DEF GateErrors
    <3> QED
      BY <3>1, <3>2, <3>3
  <2> QED
    BY <1>1, <2>1, <2>2 DEF RuleErrors
<1>2. CASE n = "memory_artifact"
  <2>1. MemoryErrors(AcceptedBody(n)) = {}
    BY <1>2 DEF AcceptedBody, AcceptedControl, AcceptedMemory,
           MemoryErrors
  <2>2. Expected(n) \in MemoryErrors(Mutated(n))
    <3>1. Mutated(n).retention = "forget" /\ Mutated(n).facts
      BY <1>2 DEF AcceptedBody, AcceptedControl, AcceptedMemory,
             Mutated
    <3>2. Expected(n) = "unsafe_memory_forgetting"
      BY <1>2 DEF Expected
    <3> QED
      BY <3>1, <3>2 DEF MemoryErrors
  <2> QED
    BY <1>2, <2>1, <2>2 DEF RuleErrors
<1>3. CASE n = "memory_generation_result"
  <2>1. GenerationErrors(AcceptedBody(n)) = {}
    BY <1>3 DEF AcceptedBody, AcceptedControl, AcceptedMemory,
           GenerationErrors
  <2>2. Expected(n) \in GenerationErrors(Mutated(n))
    <3>1. AcceptedBody(n) = [status |-> "passed", reused |-> FALSE,
                             memory_id |-> TRUE, memory_ref |-> TRUE]
      BY <1>3 DEF AcceptedBody, AcceptedControl, AcceptedMemory
    <3>2. Mutated(n) = [AcceptedBody(n) EXCEPT !.reused = TRUE,
                                               !.memory_ref = FALSE]
      BY <1>3 DEF Mutated
    <3>3. Mutated(n).reused /\ ~ Mutated(n).memory_ref
      BY <3>1, <3>2
    <3>4. Expected(n) = "reused_memory_reference_required"
      BY <1>3 DEF Expected
    <3> QED
      BY <3>3, <3>4 DEF GenerationErrors
  <2> QED
    BY <1>3, <2>1, <2>2 DEF RuleErrors
<1>4. CASE n = "operational_learning_event"
  <2>1. LearningErrors(AcceptedBody(n)) = {}
    BY <1>4 DEF AcceptedBody, AcceptedControl, AcceptedMemory,
           LearningErrors
  <2>2. Expected(n) \in LearningErrors(Mutated(n))
    <3>1. Mutated(n).grants = "auto_execute"
      BY <1>4 DEF AcceptedBody, AcceptedControl, AcceptedMemory,
             Mutated
    <3>2. Expected(n) = "learning_event_authority_escalation"
      BY <1>4 DEF Expected
    <3> QED
      BY <3>1, <3>2 DEF LearningErrors
  <2> QED
    BY <1>4, <2>1, <2>2 DEF RuleErrors
<1>5. CASE n = "pattern_candidate"
  <2>1. PatternErrors(AcceptedBody(n)) = {}
    BY <1>5 DEF AcceptedBody, AcceptedControl, AcceptedMemory,
           PatternErrors
  <2>2. Expected(n) \in PatternErrors(Mutated(n))
    <3>1. AcceptedBody(n) =
            [signature |-> TRUE, confidence |-> 90,
             class |-> "candidate_for_template", occurrences |-> 3,
             evidence |-> TRUE, examples |-> TRUE,
             action |-> "request", at |-> 0]
      BY <1>5 DEF AcceptedBody, AcceptedControl, AcceptedMemory
    <3>2. Mutated(n) = [AcceptedBody(n) EXCEPT !.class = "too_ambiguous",
                                               !.action = "promote"]
      BY <1>5 DEF Mutated
    <3>3. Mutated(n).class = "too_ambiguous" /\ Mutated(n).action = "promote"
      BY <3>1, <3>2
    <3>4. Expected(n) = "ambiguous_pattern_cannot_promote"
      BY <1>5 DEF Expected
    <3> QED
      BY <3>3, <3>4 DEF PatternErrors
  <2> QED
    BY <1>5, <2>1, <2>2 DEF RuleErrors
<1>6. CASE n = "template_promotion_candidate"
  <2>1. PromotionErrors(AcceptedBody(n)) = {}
    BY <1>6 DEF AcceptedBody, AcceptedControl, AcceptedMemory,
           PromotionErrors
  <2>2. Expected(n) \in PromotionErrors(Mutated(n))
    <3>1. Mutated(n).risk \in {"medium", "high"} /\ ~ Mutated(n).approval
      BY <1>6 DEF AcceptedBody, AcceptedControl, AcceptedMemory,
             Mutated
    <3>2. Expected(n) = "promotion_approval_required"
      BY <1>6 DEF Expected
    <3> QED
      BY <3>1, <3>2 DEF PromotionErrors
  <2> QED
    BY <1>6, <2>1, <2>2 DEF RuleErrors
<1> QED
  BY <1>1, <1>2, <1>3, <1>4, <1>5, <1>6

LEMMA ThresholdProbe ==
  ASSUME NEW n, n = "context_threshold", NEW c
  PROVE  /\ RuleErrors(n, AcceptedBody(n), c) = {}
         /\ Expected(n) \in RuleErrors(n, Mutated(n), c)
<1> DEFINE d == AcceptedBody(n)
           m == Mutated(n)
<1>1. /\ d.current = 85 /\ d.previous = 75 /\ d.ema = 80 /\ d.threshold = 80
      /\ d.compress /\ d.status = "passed"
  BY DEF AcceptedBody, AcceptedControl, AcceptedMemory
<1>2. m.current = 85 /\ m.threshold = 80 /\ ~ m.compress
  BY DEF Mutated, AcceptedBody, AcceptedControl, AcceptedMemory
<1>3. /\ RuleErrors(n, d, c) = ThresholdErrors(d)
      /\ RuleErrors(n, m, c) = ThresholdErrors(m)
      /\ Expected(n) = "threshold_decision_mismatch"
  BY DEF RuleErrors, Expected
<1> HIDE DEF d, m
<1>4. \A p \in {d.current, d.previous, d.ema, d.threshold} : p \in 0 .. 100
  BY <1>1
<1>5. /\ d.current >= d.threshold /\ m.current >= m.threshold
      /\ m.current # Absent /\ m.threshold # Absent
  BY <1>1, <1>2 DEF Absent
<1>6. ThresholdErrors(d) = {}
  <2>1. ~ \E p \in {d.current, d.previous, d.ema, d.threshold} :
             p # Absent /\ p \notin 0 .. 100
    BY <1>4
  <2>2. ~ (d.compress # (d.current >= d.threshold))
    BY <1>1, <1>5, Zenon
  <2>3. d.status \in {"passed", "failed", "skipped"}
    BY <1>1
  <2> QED
    BY <2>1, <2>2, <2>3 DEF ThresholdErrors, When
<1>7. "threshold_decision_mismatch" \in ThresholdErrors(m)
  BY <1>2, <1>5, Zenon DEF ThresholdErrors, When
<1> QED
  BY <1>3, <1>6, <1>7 DEF d, m

LEMMA RetentionProbe ==
  ASSUME NEW n, n = "retention_manifest", NEW c
  PROVE  /\ RuleErrors(n, AcceptedBody(n), c) = {}
         /\ Expected(n) \in RuleErrors(n, Mutated(n), c)
<1> DEFINE r == [artifact |-> "a1", class |-> "keep", has |-> {}]
           a == AcceptedBody(n)
           m == Mutated(n)
<1>1. a = [entries |-> <<r>>]
  BY DEF AcceptedBody, AcceptedControl, AcceptedMemory
<1>2. RetentionErrors(a) = {}
  BY <1>1 DEF RetentionErrors, When
<1>3. m.entries = a.entries \o a.entries
  <2>1. m = [a EXCEPT !.entries = @ \o @]
    BY DEF Mutated
  <2> HIDE DEF a
  <2> QED
    BY <1>1, <2>1
<1> HIDE DEF r, a, m
<1>4. /\ DOMAIN m.entries = 1 .. 2
      /\ m.entries[1] = r /\ m.entries[2] = r
  BY <1>1, <1>3
<1>5. 1 \in DOMAIN m.entries /\ 2 \in DOMAIN m.entries
  BY <1>4
<1>6. "duplicate_artifact_ref" \in RetentionErrors(m)
  BY <1>4, <1>5 DEF RetentionErrors, When
<1> QED
  BY <1>2, <1>6 DEF a, m, RuleErrors, Expected

\* Decisions, effects and their records.
LEMMA ControlProbes ==
  ASSUME NEW n \in {"control_decision",
                     "effect_result",
                     "entropy_signal",
                     "execution_receipt",
                     "policy_lifecycle",
                     "reversibility_policy",
                     "state_transition",
                     "task_closeout"},
         NEW c
  PROVE  /\ RuleErrors(n, AcceptedBody(n), c) = {}
         /\ Expected(n) \in RuleErrors(n, Mutated(n), c)
<1> USE DEF When, TimestampErrors, Zoned, Absent, Naive
<1>1. CASE n = "control_decision"
  <2>1. DecisionErrors(AcceptedBody(n)) = {}
    BY <1>1 DEF AcceptedBody, AcceptedControl, DecisionErrors, Grave
  <2>2. Expected(n) \in DecisionErrors(Mutated(n))
    <3>1. Mutated(n).decision = "allow" /\ Grave(Mutated(n).reversibility)
      BY <1>1 DEF AcceptedBody, AcceptedControl, Mutated, Grave
    <3>2. Expected(n) = "unsafe_allow_decision"
      BY <1>1 DEF Expected
    <3> QED
      BY <3>1, <3>2 DEF DecisionErrors, Grave
  <2> QED
    BY <1>1, <2>1, <2>2 DEF RuleErrors
<1>2. CASE n = "effect_result"
  <2>1. EffectErrors(AcceptedBody(n)) = {}
    BY <1>2 DEF AcceptedBody, AcceptedControl, EffectErrors
  <2>2. Expected(n) \in EffectErrors(Mutated(n))
    <3>1. Mutated(n) = [status |-> "applied", dry_run |-> TRUE,
                      provider |-> TRUE, target |-> TRUE, error |-> FALSE]
      BY <1>2 DEF AcceptedBody, AcceptedControl, Mutated
    <3>2. Expected(n) = "effect_status_dry_run_mismatch"
      BY <1>2 DEF Expected
    <3>3. "effect_status_dry_run_mismatch"
            \in EffectErrors([status |-> "applied", dry_run |-> TRUE,
                      provider |-> TRUE, target |-> TRUE, error |-> FALSE])
      BY DEF EffectErrors
    <3> QED
      BY <3>1, <3>2, <3>3
  <2> QED
    BY <1>2, <2>1, <2>2 DEF RuleErrors
<1>3. CASE n = "entropy_signal"
  <2>1. EntropyErrors(AcceptedBody(n)) = {}
    BY <1>3 DEF AcceptedBody, AcceptedControl, EntropyErrors
  <2>2. Expected(n) \in EntropyErrors(Mutated(n))
    BY <1>3 DEF AcceptedBody, AcceptedControl, Mutated, Expected,
           EntropyErrors
  <2> QED
    BY <1>3, <2>1, <2>2 DEF RuleErrors
<1>4. CASE n = "execution_receipt"
  <2>1. ReceiptErrors(AcceptedBody(n)) = {}
    BY <1>4 DEF AcceptedBody, AcceptedControl, ReceiptErrors
  <2>2. Expected(n) \in ReceiptErrors(Mutated(n))
    <3>1. Mutated(n).status = "simulated" /\ Mutated(n).transitions
      BY <1>4 DEF AcceptedBody, AcceptedControl,
             Mutated
    <3>2. Expected(n) = "simulated_transition_forbidden"
      BY <1>4 DEF Expected
    <3> QED
      BY <3>1, <3>2 DEF ReceiptErrors
  <2> QED
    BY <1>4, <2>1, <2>2 DEF RuleErrors
<1>5. CASE n = "policy_lifecycle"
  <2>1. LifecycleErrors(AcceptedBody(n)) = {}
    BY <1>5 DEF AcceptedBody, AcceptedControl, LifecycleErrors
  <2>2. Expected(n) \in LifecycleErrors(Mutated(n))
    <3>1. Mutated(n) = [from |-> 1, to |-> 0, status |-> "active",
                      supersedes |-> "none", policy |-> "p1"]
      BY <1>5 DEF AcceptedBody, AcceptedControl, Mutated
    <3>2. Expected(n) = "invalid_effective_interval"
      BY <1>5 DEF Expected
    <3>3. "invalid_effective_interval"
            \in LifecycleErrors([from |-> 1, to |-> 0, status |-> "active",
                      supersedes |-> "none", policy |-> "p1"])
      BY DEF LifecycleErrors
    <3> QED
      BY <3>1, <3>2, <3>3
  <2> QED
    BY <1>5, <2>1, <2>2 DEF RuleErrors
<1>6. CASE n = "reversibility_policy"
  <2>1. ReversibilityErrors(AcceptedBody(n)) = {}
    BY <1>6 DEF AcceptedBody, AcceptedControl, ReversibilityErrors, Grave
  <2>2. Expected(n) \in ReversibilityErrors(Mutated(n))
    <3>1. Grave(Mutated(n).reversibility) /\ ~ Mutated(n).approval
      BY <1>6 DEF AcceptedBody, AcceptedControl, Mutated, Grave
    <3>2. Expected(n) = "responsible_approval_required"
      BY <1>6 DEF Expected
    <3> QED
      BY <3>1, <3>2 DEF ReversibilityErrors
  <2> QED
    BY <1>6, <2>1, <2>2 DEF RuleErrors
<1>7. CASE n = "state_transition"
  <2>1. TransitionErrors(AcceptedBody(n)) = {}
    BY <1>7 DEF AcceptedBody, AcceptedControl, TransitionErrors, Grave,
           ResponsibleActors
  <2>2. Expected(n) \in TransitionErrors(Mutated(n))
    <3>1. Mutated(n).before = Mutated(n).after
      BY <1>7 DEF AcceptedBody, AcceptedControl,
             Mutated
    <3>2. Expected(n) = "state_transition_noop"
      BY <1>7 DEF Expected
    <3> QED
      BY <3>1, <3>2 DEF TransitionErrors
  <2> QED
    BY <1>7, <2>1, <2>2 DEF RuleErrors
<1>8. CASE n = "task_closeout"
  <2>1. CloseoutErrors(AcceptedBody(n)) = {}
    BY <1>8 DEF AcceptedBody, AcceptedControl, CloseoutErrors
  <2>2. Expected(n) \in CloseoutErrors(Mutated(n))
    <3>1. /\ Mutated(n).status = "passed"
          /\ ~ (Mutated(n).report \/ Mutated(n).events
                  \/ Mutated(n).effects \/ Mutated(n).memory)
      BY <1>8 DEF AcceptedBody, AcceptedControl,
             Mutated
    <3>2. Expected(n) = "closeout_evidence_required"
      BY <1>8 DEF Expected
    <3> QED
      BY <3>1, <3>2 DEF CloseoutErrors
  <2> QED
    BY <1>8, <2>1, <2>2 DEF RuleErrors
<1> QED
  BY <1>1, <1>2, <1>3, <1>4, <1>5, <1>6, <1>7, <1>8

\* Two nodes and one edge between them are no cycle.
LEMMA TraceIsRight ==
  ASSUME NEW n, n = "causal_trace", NEW c
  PROVE  /\ ~ CausesItself(AcceptedBody(n))
         /\ RuleErrors(n, AcceptedBody(n), FALSE) = {}
         /\ Expected(n) \in RuleErrors(n, Mutated(n), c)
<1> DEFINE d == AcceptedBody(n)
           m == Mutated(n)
<1>1. d = TraceProbe
  BY DEF AcceptedBody
<1>2. /\ d.nodes = <<[id |-> "decision", ref |-> 1], [id |-> "receipt", ref |-> 2]>>
      /\ d.edges = <<[from |-> 1, to |-> 2]>>
      /\ d.root = 1 /\ d.at = 0
  BY <1>1 DEF TraceProbe
<1>3. /\ m.nodes = d.nodes
      /\ m.edges = <<[from |-> 1, to |-> 3]>>
  <2>1. m = [d EXCEPT !.edges[1].to = 3]
    BY DEF Mutated
  <2> QED
    BY <1>1, <2>1 DEF TraceProbe
<1>4. /\ RuleErrors(n, d, FALSE) = TraceErrors(d, FALSE)
      /\ RuleErrors(n, m, c) = TraceErrors(m, c)
      /\ Expected(n) = "dangling_edge_ref"
  BY DEF RuleErrors, Expected
<1> HIDE DEF d, m
<1>5. Refs(d) = {1, 2} /\ Refs(m) = {1, 2}
  BY <1>2, <1>3 DEF Refs
<1>6. /\ ToSet(d.edges) = {[from |-> 1, to |-> 2]}
      /\ ToSet(m.edges) = {[from |-> 1, to |-> 3]}
  BY <1>2, <1>3 DEF ToSet
<1>7. /\ Resolved(d) = {[from |-> 1, to |-> 2]}
      /\ [from |-> 1, to |-> 3] \notin Resolved(m)
  BY <1>5, <1>6 DEF Resolved
<1>8. \A x : \A y \in Children(d, x) : x = 1 /\ y = 2
  BY <1>7 DEF Children
<1>9. ~ CausesItself(d)
  <2> SUFFICES ASSUME NEW k \in 1 .. Cardinality(Refs(d)),
                      NEW chain \in [0 .. k -> Refs(d)],
                      chain[0] = chain[k],
                      \A i \in 0 .. k - 1 :
                         chain[i + 1] \in Children(d, chain[i])
               PROVE  FALSE
    BY DEF CausesItself
  <2>1. Cardinality(Refs(d)) \in Nat
    <3>1. IsFiniteSet({1, 2})
      <4>1. {1, 2} = 1 .. 2 /\ 1 \in Int /\ 2 \in Int
        OBVIOUS
      <4>2. IsFiniteSet(1 .. 2)
        BY <4>1, FS_Interval, Zenon
      <4> QED
        BY <4>1, <4>2
    <3> QED
      BY <3>1, <1>5, FS_CardinalityType
  <2>2. k \in Nat /\ 0 \in 0 .. k - 1 /\ k - 1 \in 0 .. k - 1 /\ (k - 1) + 1 = k
    BY <2>1
  <2>3. chain[0] = 1 /\ chain[k] = 2
    BY <1>8, <2>2
  <2>4. 1 = 2
    BY <2>3, Zenon
  <2> QED
    BY <2>4
<1>10. TraceErrors(d, FALSE) = {}
  <2>1. DOMAIN d.nodes = {1, 2} /\ d.nodes[1].id = "decision" /\ d.nodes[2].id = "receipt"
        /\ d.nodes[1].ref = 1 /\ d.nodes[2].ref = 2
    BY <1>2
  <2>2. ~ \E i, j \in DOMAIN d.nodes : i # j /\ d.nodes[i].id = d.nodes[j].id
    BY <2>1
  <2>3. ~ \E i, j \in DOMAIN d.nodes : i # j /\ d.nodes[i].ref = d.nodes[j].ref
    BY <2>1
  <2>4. TimestampErrors(d.at) = {}
    BY <1>2 DEF TimestampErrors, Zoned, Absent, When
  <2>5. d.root \in Refs(d)
    BY <1>2, <1>5
  <2>6. \A e \in ToSet(d.edges) : e \in Resolved(d)
    BY <1>6, <1>7
  <2>7. \A e \in Resolved(d) : e.from # e.to
    BY <1>7
  <2> QED
    BY <2>2, <2>3, <2>4, <2>5, <2>6, <2>7 DEF TraceErrors, When
<1>11. "dangling_edge_ref" \in TraceErrors(m, c)
  BY <1>6, <1>7 DEF TraceErrors, When
<1> QED
  BY <1>4, <1>9, <1>10, <1>11 DEF d, m

LEMMA ProgramIsRight ==
  ASSUME NEW n, n = "contract_program", NEW c
  PROVE  /\ RuleErrors(n, AcceptedBody(n), c) = {}
         /\ Expected(n) \in RuleErrors(n, Mutated(n), c)
<1> DEFINE p == AcceptedBody(n)
           m == Mutated(n)
           code == p.instructions
<1>1. p = ProgramProbe
  BY DEF AcceptedBody
<1>2. /\ p.limits.steps = 6 /\ p.limits.emits = 1
      /\ p.capabilities = {"read_input", "assert", "derive",
                           "stage_transition", "emit_result"}
  BY <1>1 DEF ProgramProbe
<1>3. /\ Len(code) = 6 /\ DOMAIN code = 1 .. 6
      /\ code[1].opcode = "load" /\ code[1].output = "v"
      /\ code[2].opcode = "assert"
      /\ code[3].opcode = "derive" /\ code[3].operation = "copy"
      /\ Len(code[3].inputs) = 1 /\ code[3].output = "r"
      /\ code[4].opcode = "transition"
      /\ code[4].before = "pending" /\ code[4].after = "reviewed"
      /\ code[5].opcode = "emit"
      /\ code[6].opcode = "halt"
  BY <1>1 DEF ProgramProbe
<1>4. m.instructions = code /\ m.limits.steps = 1
  <2>1. m = [p EXCEPT !.limits.steps = 1]
    BY DEF Mutated
  <2> QED
    BY <1>1, <2>1 DEF ProgramProbe
<1>5. /\ RuleErrors(n, p, c) = ProgramErrors(p)
      /\ RuleErrors(n, m, c) = ProgramErrors(m)
      /\ Expected(n) = "program_step_limit_exceeded"
  BY DEF RuleErrors, Expected
<1> HIDE DEF p, m
<1>6. DOMAIN code = {1, 2, 3, 4, 5, 6}
  BY <1>3
<1>7. /\ At(code, "emit") = {5} /\ At(code, "halt") = {6}
      /\ At(code, "transition") = {4} /\ At(code, "derive") = {3}
  BY <1>3, <1>6 DEF At
<1>8. Cardinality(At(code, "emit")) = 1
  BY <1>7, FS_Singleton
<1>9. ProgramErrors(p) = {}
  <2>1. p.capabilities \cap Effects = {}
    BY <1>2 DEF Effects
  <2>2. Len(code) <= p.limits.steps
        /\ Cardinality(At(code, "emit")) <= p.limits.emits
    BY <1>2, <1>3, <1>8
  <2>3. HaltErrors(code) = {}
    BY <1>3, <1>7 DEF HaltErrors, When
  <2>4. \A k \in DOMAIN code : Needs(code[k].opcode) \subseteq p.capabilities
    BY <1>2, <1>3, <1>6 DEF Needs
  <2>5. \A j, k \in DOMAIN code :
           Produces(code[j]) /\ Produces(code[k]) /\ j # k
             => code[j].output # code[k].output
    BY <1>3, <1>6 DEF Produces
  <2>6. /\ \A k \in At(code, "transition") : code[k].before # code[k].after
        /\ \A k \in At(code, "derive") :
              code[k].operation = "copy" /\ Len(code[k].inputs) = 1
    BY <1>3, <1>7
  <2>7. ~ (Len(code) > p.limits.steps)
        /\ ~ (Cardinality(At(code, "emit")) > p.limits.emits)
    BY <1>2, <1>3, <1>8
  <2> QED
    BY <2>1, <2>3, <2>4, <2>5, <2>6, <2>7 DEF ProgramErrors, When
<1>10. "program_step_limit_exceeded" \in ProgramErrors(m)
  <2>1. Len(m.instructions) > m.limits.steps
    BY <1>3, <1>4
  <2> QED
    BY <2>1 DEF ProgramErrors, When
<1> QED
  BY <1>5, <1>9, <1>10 DEF p, m

\* A finite set, listed.
LEMMA ListOfASet ==
  ASSUME NEW S, IsFiniteSet(S)
  PROVE  /\ Cardinality(S) \in Nat
         /\ SetToSeq(S) \in [1 .. Cardinality(S) -> S]
         /\ IsInjective(SetToSeq(S))
         /\ \A x \in S : \E i \in 1 .. Cardinality(S) : SetToSeq(S)[i] = x
<1> DEFINE N == Cardinality(S)
           s == SetToSeq(S)
<1>1. N \in Nat /\ IsFiniteSet(1 .. N) /\ Cardinality(1 .. N) = N
  <2>1. N \in Nat
    BY FS_CardinalityType
  <2>2. 1 \in Int /\ N \in Int /\ (1 > N => N = 0) /\ N - 1 + 1 = N
    BY <2>1
  <2> HIDE DEF N
  <2>3. IsFiniteSet(1 .. N) /\ Cardinality(1 .. N) = N
    BY <2>2, FS_Interval
  <2> QED
    BY <2>1, <2>3
<1>2. \E f \in [1 .. N -> S] : IsInjective(f)
  <2>1. ExistsBijection(1 .. N, S)
    BY <1>1, FS_SameCardinalityBij
  <2> QED
    BY <2>1 DEF ExistsBijection, Bijection, Injection
<1>3. s \in [1 .. N -> S] /\ IsInjective(s)
  BY <1>2 DEF SetToSeq
<1>4. ASSUME NEW x \in S, \A i \in 1 .. N : s[i] # x
      PROVE  FALSE
  <2> DEFINE T == S \ {x}
  <2>1. IsFiniteSet(T) /\ Cardinality(T) = N - 1
    BY FS_RemoveElement
  <2>2. s \in [1 .. N -> T]
    BY <1>3, <1>4
  <2>3. s \in Injection(1 .. N, T)
    BY <1>3, <2>2 DEF Injection
  <2>4. Cardinality(1 .. N) <= Cardinality(T)
    BY <2>1, <2>3, FS_Injection
  <2> QED
    BY <1>1, <2>1, <2>4
<1> QED
  BY <1>1, <1>3, <1>4

\* No identifier twice.
LEMMA DifferentIds ==
  ASSUME NEW items, NEW L \in Nat, Len(items) = L, DOMAIN items = 1 .. L,
         \A i, j \in 1 .. L : i # j => items[i].id # items[j].id
  PROVE  ~ Repeated(items)
<1> DEFINE f == [i \in 1 .. L |-> items[i].id]
<1>1. f \in Bijection(1 .. L, Ids(items))
  BY DEF Bijection, Injection, Surjection, IsInjective, Ids
<1>2. ExistsBijection(1 .. L, Ids(items))
  BY <1>1 DEF ExistsBijection
<1>3. Cardinality(Ids(items)) = L
  BY <1>2, FS_CountingElements
<1> QED
  BY <1>3 DEF Repeated

\* What the sections of the probe hold.
ProbeCase == SafetyCaseOf("simulation")
ScenarioCount == Cardinality(Scenarios)
ScenarioList == SetToSeq(Scenarios)

LEMMA CaseTests ==
  /\ ScenarioCount \in Nat \ {0}
  /\ Len(ProbeCase.tests) = ScenarioCount /\ DOMAIN ProbeCase.tests = 1 .. ScenarioCount
  /\ \A i \in 1 .. ScenarioCount : /\ ProbeCase.tests[i] = TestOf(ScenarioList[i], "simulation")
                       /\ ProbeCase.tests[i].id = ScenarioList[i]
                       /\ ProbeCase.tests[i].scenario = ScenarioList[i]
                       /\ ProbeCase.tests[i].hazards = {"motion"}
  /\ \A i, j \in 1 .. ScenarioCount : i # j => ScenarioList[i] # ScenarioList[j]
  /\ \A i \in 1 .. ScenarioCount : ScenarioList[i] \in Scenarios
  /\ \A s \in Scenarios : \E i \in 1 .. ScenarioCount : ScenarioList[i] = s
<1>1. /\ ScenarioCount \in Nat /\ ScenarioList \in [1 .. ScenarioCount -> Scenarios]
      /\ IsInjective(ScenarioList)
      /\ \A x \in Scenarios : \E i \in 1 .. ScenarioCount : ScenarioList[i] = x
  BY ListOfASet, ScenarioAssumption DEF ScenarioCount, ScenarioList
<1>2. ScenarioCount # 0
  BY <1>1, ScenarioAssumption
<1>3. DOMAIN ScenarioList = 1 .. ScenarioCount
  BY <1>1
<1>4. ProbeCase.tests = [i \in DOMAIN ScenarioList |-> TestOf(ScenarioList[i], "simulation")]
  BY DEF ProbeCase, SafetyCaseOf, ScenarioList
<1>5. Len(ProbeCase.tests) = ScenarioCount /\ DOMAIN ProbeCase.tests = 1 .. ScenarioCount
  BY <1>1, <1>3, <1>4
<1>6. ASSUME NEW i \in 1 .. ScenarioCount
      PROVE  /\ ProbeCase.tests[i] = TestOf(ScenarioList[i], "simulation")
             /\ ProbeCase.tests[i].id = ScenarioList[i]
             /\ ProbeCase.tests[i].scenario = ScenarioList[i]
             /\ ProbeCase.tests[i].hazards = {"motion"}
  <2>1. ProbeCase.tests[i] = TestOf(ScenarioList[i], "simulation")
    BY <1>3, <1>4
  <2>2. \A s, w : /\ TestOf(s, w).id = s /\ TestOf(s, w).scenario = s
                  /\ TestOf(s, w).hazards = {"motion"}
    BY DEF TestOf
  <2> QED
    BY <2>1, <2>2
<1> QED
  BY <1>1, <1>2, <1>3, <1>5, <1>6 DEF IsInjective

LEMMA CaseEvidence ==
  LET e == ProbeCase.evidence
  IN /\ Len(e) = 6 /\ DOMAIN e = 1 .. 6
     /\ e[1] = Lab("low") /\ e[2] = Lab("high") /\ e[3] = Lab("controller")
     /\ e[4] = Lab("isolation") /\ e[5] = Lab("references")
     /\ e[6] = EvidenceOf("simulation")
<1> DEFINE labels == <<"low", "high", "controller", "isolation", "references">>
           l == [i \in DOMAIN labels |-> Lab(labels[i])]
           e == EvidenceOf("simulation")
<1>1. ProbeCase.evidence = l \o <<e>>
  BY DEF ProbeCase, SafetyCaseOf
<1>2. /\ l = [i \in 1 .. 5 |-> Lab(labels[i])]
      /\ l[1] = Lab("low") /\ l[2] = Lab("high") /\ l[3] = Lab("controller")
      /\ l[4] = Lab("isolation") /\ l[5] = Lab("references")
  OBVIOUS
<1>3. Len(l) = 5 /\ l \in Seq({l[1], l[2], l[3], l[4], l[5]})
  BY <1>2
<1> HIDE DEF l, e
<1> QED
  BY <1>1, <1>2, <1>3 DEF e

LEMMA CaseBarriers ==
  LET b == ProbeCase.barriers
  IN /\ Len(b) = 2 /\ DOMAIN b = 1 .. 2
     /\ b[1] = BarrierOf("controller", "isolated_safety_controller",
                         "isolated_controller", "isolation")
     /\ b[2] = BarrierOf("isolation", "physical_energy_isolation",
                         "electrical_hardware", "controller")
BY DEF ProbeCase, SafetyCaseOf

LEMMA CaseHazards ==
  LET h == ProbeCase.hazards
  IN /\ Len(h) = 1 /\ DOMAIN h = 1 .. 1
     /\ h[1] = [id |-> "motion", severity |-> "catastrophic",
                barriers |-> {"controller", "isolation"}, tests |-> Scenarios]
BY DEF ProbeCase, SafetyCaseOf

LEMMA CaseExtremes ==
  LET x == ProbeCase.extremes
  IN /\ Len(x) = 2 /\ DOMAIN x = 1 .. 2
     /\ x[1] = [id |-> "minimum", direction |-> "lower", evidence |-> "low", at |-> 9]
     /\ x[2] = [id |-> "maximum", direction |-> "adversarial", evidence |-> "high", at |-> 9]
BY DEF ProbeCase, SafetyCaseOf

LEMMA CaseRest ==
  /\ ProbeCase.claim = [absolute |-> FALSE, status |-> "observed", proofs |-> {},
                   formal |-> FALSE]
  /\ ProbeCase.samples = 100 /\ ProbeCase.refs = {"references"}
  /\ ProbeCase.recorded = LedgerEvents /\ ProbeCase.at = 12
  /\ ProbeCase.requested = "simulation_only"
BY DEF ProbeCase, SafetyCaseOf

\* The same lists as sets.
LEMMA CaseSets ==
  /\ Ids(ProbeCase.evidence) = {"low", "high", "controller", "isolation",
                           "references", "suite"}
  /\ ToSet(ProbeCase.evidence) = {Lab("low"), Lab("high"), Lab("controller"),
                             Lab("isolation"), Lab("references"),
                             EvidenceOf("simulation")}
  /\ Ids(ProbeCase.barriers) = {"controller", "isolation"}
  /\ ToSet(ProbeCase.barriers) = {ProbeCase.barriers[1], ProbeCase.barriers[2]}
  /\ Ids(ProbeCase.hazards) = {"motion"}
  /\ ToSet(ProbeCase.hazards) = {ProbeCase.hazards[1]}
  /\ Ids(ProbeCase.extremes) = {"minimum", "maximum"}
  /\ ToSet(ProbeCase.extremes) = {ProbeCase.extremes[1], ProbeCase.extremes[2]}
  /\ Ids(ProbeCase.tests) = Scenarios
  /\ ToSet(ProbeCase.tests) = {TestOf(s, "simulation") : s \in Scenarios}
<1>2. 1 .. 6 = {1, 2, 3, 4, 5, 6} /\ 1 .. 2 = {1, 2} /\ 1 .. 1 = {1}
  OBVIOUS
<1>3. /\ Ids(ProbeCase.evidence) = {"low", "high", "controller", "isolation",
                               "references", "suite"}
      /\ ToSet(ProbeCase.evidence) = {Lab("low"), Lab("high"), Lab("controller"),
                                 Lab("isolation"), Lab("references"),
                                 EvidenceOf("simulation")}
  <2> DEFINE e == ProbeCase.evidence
  <2>1. DOMAIN e = {1, 2, 3, 4, 5, 6}
    BY <1>2, CaseEvidence
  <2>2. ToSet(e) = {e[1], e[2], e[3], e[4], e[5], e[6]}
    BY <2>1, Zenon DEF ToSet
  <2>3. Ids(e) = {e[1].id, e[2].id, e[3].id, e[4].id, e[5].id, e[6].id}
    BY <2>1, Zenon DEF Ids
  <2>4. /\ e[1].id = "low" /\ e[2].id = "high" /\ e[3].id = "controller"
        /\ e[4].id = "isolation" /\ e[5].id = "references"
        /\ e[6].id = "suite"
    BY CaseEvidence DEF Lab, EvidenceOf
  <2> QED
    BY <2>2, <2>3, <2>4, CaseEvidence
<1>4. /\ Ids(ProbeCase.barriers) = {"controller", "isolation"}
      /\ ToSet(ProbeCase.barriers) = {ProbeCase.barriers[1], ProbeCase.barriers[2]}
  <2> DEFINE b == ProbeCase.barriers
  <2>1. DOMAIN b = {1, 2}
    BY <1>2, CaseBarriers
  <2>2. ToSet(b) = {b[1], b[2]} /\ Ids(b) = {b[1].id, b[2].id}
    BY <2>1, Zenon DEF ToSet, Ids
  <2>3. b[1].id = "controller" /\ b[2].id = "isolation"
    BY CaseBarriers DEF BarrierOf
  <2> QED
    BY <2>2, <2>3
<1>5. /\ Ids(ProbeCase.hazards) = {"motion"}
      /\ ToSet(ProbeCase.hazards) = {ProbeCase.hazards[1]}
  BY <1>2, CaseHazards DEF Ids, ToSet
<1>6. /\ Ids(ProbeCase.extremes) = {"minimum", "maximum"}
      /\ ToSet(ProbeCase.extremes) = {ProbeCase.extremes[1], ProbeCase.extremes[2]}
  <2>1. DOMAIN ProbeCase.extremes = {1, 2}
    BY <1>2, CaseExtremes
  <2> QED
    BY <2>1, CaseExtremes DEF Ids, ToSet
<1>7. /\ Ids(ProbeCase.tests) = Scenarios
      /\ ToSet(ProbeCase.tests) = {TestOf(s, "simulation") : s \in Scenarios}
  BY CaseTests DEF Ids, ToSet
<1> QED
  BY <1>3, <1>4, <1>5, <1>6, <1>7

LEMMA CaseNotRepeated == DuplicateErrors(ProbeCase) = {}
<1>1. ~ Repeated(ProbeCase.evidence)
  <2> DEFINE e == ProbeCase.evidence
  <2>1. /\ e[1].id = "low" /\ e[2].id = "high" /\ e[3].id = "controller"
        /\ e[4].id = "isolation" /\ e[5].id = "references"
        /\ e[6].id = "suite" /\ Len(e) = 6 /\ DOMAIN e = 1 .. 6
    BY CaseEvidence DEF Lab, EvidenceOf
  <2> HIDE DEF e
  <2>2. \A i, j \in 1 .. 6 : i # j => e[i].id # e[j].id
    BY <2>1
  <2>3. ~ Repeated(e)
    BY <2>1, <2>2, DifferentIds
  <2> QED
    BY <2>3 DEF e
<1>2. ~ Repeated(ProbeCase.barriers)
  <2>1. \A i, j \in 1 .. 2 :
           i # j => ProbeCase.barriers[i].id # ProbeCase.barriers[j].id
    BY CaseBarriers DEF BarrierOf
  <2> QED
    BY <2>1, CaseBarriers, DifferentIds
<1>3. ~ Repeated(ProbeCase.hazards)
  <2>1. \A i, j \in 1 .. 1 :
           i # j => ProbeCase.hazards[i].id # ProbeCase.hazards[j].id
    OBVIOUS
  <2> QED
    BY <2>1, CaseHazards, DifferentIds
<1>4. ~ Repeated(ProbeCase.extremes)
  <2>1. \A i, j \in 1 .. 2 :
           i # j => ProbeCase.extremes[i].id # ProbeCase.extremes[j].id
    BY CaseExtremes
  <2> QED
    BY <2>1, CaseExtremes, DifferentIds
<1>5. ~ Repeated(ProbeCase.tests)
  <2>1. \A i, j \in 1 .. ScenarioCount : i # j => ProbeCase.tests[i].id # ProbeCase.tests[j].id
    BY CaseTests
  <2> QED
    BY <2>1, CaseTests, DifferentIds
<1> QED
  BY <1>1, <1>2, <1>3, <1>4, <1>5 DEF DuplicateErrors, When

LEMMA CaseClaims == ClaimErrors(ProbeCase) = {}
BY CaseRest DEF ClaimErrors, When

LEMMA PairIsTwo ==
  ASSUME NEW x, NEW y, x # y
  PROVE  Cardinality({x, y}) = 2
<1>1. IsFiniteSet({x}) /\ Cardinality({x}) = 1
  BY FS_Singleton
<1>2. {x} \cup {y} = {x, y}
  OBVIOUS
<1>3. Cardinality({x} \cup {y}) = 2
  BY <1>1, FS_AddElement
<1> QED
  BY <1>2, <1>3

LEMMA CaseEnvelope == EnvelopeErrors(ProbeCase) = {}
<1>1. {x.direction : x \in ToSet(ProbeCase.extremes)} = {"lower", "adversarial"}
  BY CaseSets, CaseExtremes
<1>2. /\ Cardinality({x.direction : x \in ToSet(ProbeCase.extremes)}) = 2
      /\ Cardinality(Ids(ProbeCase.extremes)) = 2
  <2>1. "lower" # "adversarial" /\ "minimum" # "maximum"
    OBVIOUS
  <2>2. Cardinality({"lower", "adversarial"}) = 2
    BY <2>1, PairIsTwo
  <2>3. Cardinality({"minimum", "maximum"}) = 2
    BY <2>1, PairIsTwo
  <2>4. Ids(ProbeCase.extremes) = {"minimum", "maximum"}
    BY CaseSets
  <2> QED
    BY <1>1, <2>2, <2>3, <2>4
<1>3. \A x \in ToSet(ProbeCase.extremes) : Zoned(x.at)
  BY CaseSets, CaseExtremes DEF Zoned
<1>4. ProbeCase.samples = 100
  BY CaseRest
<1>5. ~ (2 < 2) /\ ~ (100 < 2)
  OBVIOUS
<1> QED
  BY <1>2, <1>3, <1>4, <1>5 DEF EnvelopeErrors, When

LEMMA CaseEvidenceHolds == EvidenceErrors(ProbeCase) = {}
<1>1. ProbeCase.at = 12 /\ Zoned(12)
  BY CaseRest DEF Zoned
<1>2. \A e \in ToSet(ProbeCase.evidence) :
         e.fingerprint # "zero" /\ Zoned(e.at) /\ e.at <= 12 /\ ~ (e.at > 12)
  BY CaseSets DEF Lab, EvidenceOf, Zoned
<1>3. \A i, j \in DOMAIN ProbeCase.evidence :
         i # j => ProbeCase.evidence[i].fingerprint # ProbeCase.evidence[j].fingerprint
  <2> DEFINE e == ProbeCase.evidence
  <2>1. /\ e[1].fingerprint = "low" /\ e[2].fingerprint = "high"
        /\ e[3].fingerprint = "controller" /\ e[4].fingerprint = "isolation"
        /\ e[5].fingerprint = "references" /\ e[6].fingerprint = "suite"
        /\ DOMAIN e = 1 .. 6
    BY CaseEvidence DEF Lab, EvidenceOf
  <2> HIDE DEF e
  <2>2. \A i, j \in DOMAIN e : i # j => e[i].fingerprint # e[j].fingerprint
    BY <2>1
  <2> QED
    BY <2>2 DEF e
<1> QED
  BY <1>1, <1>2, <1>3 DEF EvidenceErrors, When

LEMMA CaseResolves == UnresolvedErrors(ProbeCase) = {}
<1>1. {x.evidence : x \in ToSet(ProbeCase.extremes)} = {"low", "high"}
  BY CaseSets, CaseExtremes
<1>2. \A x \in ToSet(ProbeCase.barriers) \cup ToSet(ProbeCase.tests) :
         x.evidence \subseteq {"controller", "isolation", "suite"}
  BY CaseSets, CaseBarriers DEF BarrierOf, TestOf
<1>3. EvidenceRefs(ProbeCase) \subseteq Ids(ProbeCase.evidence)
  BY <1>1, <1>2, CaseSets, CaseRest DEF EvidenceRefs
<1> QED
  BY <1>3, CaseRest DEF UnresolvedErrors, When

LEMMA CaseBarriersIndependent == IndependenceErrors(ProbeCase) = {}
<1> DEFINE b == ProbeCase.barriers
<1>1. /\ ById(b, "controller") = b[1] /\ ById(b, "isolation") = b[2]
  <2>1. 1 .. 2 = {1, 2} /\ DOMAIN b = {1, 2}
    BY CaseBarriers
  <2>2. b[1].id = "controller" /\ b[2].id = "isolation"
    BY CaseBarriers DEF BarrierOf
  <2>3. ASSUME NEW id, NEW i \in {1, 2}, b[i].id = id
        PROVE  ById(b, id) = b[i]
    <3> DEFINE P(k) == /\ b[k].id = id
                       /\ \A j \in DOMAIN b : b[j].id = id => j <= k
    <3>1. P(i)
      BY <2>1, <2>2, <2>3
    <3>2. \A k \in DOMAIN b : P(k) => k = i
      BY <2>1, <2>2, <2>3
    <3>3. (CHOOSE k \in DOMAIN b : P(k)) = i
      BY <2>1, <3>1, <3>2
    <3> QED
      BY <3>3 DEF ById
  <2> QED
    BY <2>2, <2>3
<1>2. /\ b[1].id = "controller" /\ b[1].independent = {"isolation"}
      /\ b[2].id = "isolation" /\ b[2].independent = {"controller"}
  BY CaseBarriers DEF BarrierOf
<1>3. \A p \in ToSet(b) : \A q \in p.independent :
         /\ q # p.id /\ q \in Ids(b)
         /\ p.id \in ById(b, q).independent
  BY <1>1, <1>2, CaseSets
<1> HIDE DEF b
<1> QED
  BY <1>3 DEF IndependenceErrors, When, b

LEMMA CaseTestsPassed == TestErrors(ProbeCase) = {}
<1>1. \A t \in ToSet(ProbeCase.tests) :
         /\ t.result = "passed" /\ ~ t.actuation /\ t.expected = t.observed
         /\ t.hazards \subseteq Ids(ProbeCase.hazards)
  BY CaseSets DEF TestOf
<1> QED
  BY <1>1 DEF TestErrors, When

LEMMA CaseCatastrophe == CatastropheErrors(ProbeCase, ProbeCase.hazards[1]) = {}
<1> DEFINE b == ProbeCase.barriers
           h == ProbeCase.hazards[1]
           firm == {x \in ToSet(b) : x.id \in h.barriers /\ ~ x.bypassable}
<1>1. /\ b[1].id = "controller" /\ b[2].id = "isolation"
      /\ b[1].domain = "isolated_controller"
      /\ b[2].domain = "electrical_hardware"
      /\ b[1].kind = "isolated_safety_controller"
      /\ b[2].kind = "physical_energy_isolation"
      /\ ~ b[1].bypassable /\ ~ b[2].bypassable
  BY CaseBarriers DEF BarrierOf
<1>2. h.barriers = {"controller", "isolation"}
  BY CaseHazards
<1>3. ToSet(b) = {b[1], b[2]}
  BY CaseSets
<1> HIDE DEF b, h
<1>4. firm = {b[1], b[2]}
  BY <1>1, <1>2, <1>3
<1> HIDE DEF firm
<1>5. /\ {x.domain : x \in firm} = {"isolated_controller", "electrical_hardware"}
      /\ {x.kind : x \in firm} = {"isolated_safety_controller",
                                  "physical_energy_isolation"}
  BY <1>1, <1>4
<1>6. b[1] # b[2] /\ "isolated_controller" # "electrical_hardware"
  BY <1>1
<1>7. Cardinality(firm) = 2 /\ Cardinality({x.domain : x \in firm}) = 2
  <2>1. Cardinality({b[1], b[2]}) = 2
    BY <1>6, PairIsTwo
  <2>2. Cardinality({"isolated_controller", "electrical_hardware"}) = 2
    BY <1>6, PairIsTwo
  <2>3. {x.domain : x \in firm} = {"isolated_controller", "electrical_hardware"}
    BY <1>5
  <2> QED
    BY <1>4, <2>1, <2>2, <2>3
<1>8. ~ (Cardinality(firm) < 2 \/ Cardinality({x.domain : x \in firm}) < 2)
  BY <1>7
<1>9. {x.kind : x \in firm}
        \cap {"physical_energy_isolation", "mechanical_limit"} # {}
  BY <1>5
<1> QED
  BY <1>5, <1>8, <1>9 DEF CatastropheErrors, When, firm, b, h

LEMMA CaseMethods ==
  \A s \in Scenarios : Methods(ProbeCase, "motion", s) = {"simulation"}
<1>1. ASSUME NEW s \in Scenarios
      PROVE  Methods(ProbeCase, "motion", s) = {"simulation"}
  <2>1. {t \in ToSet(ProbeCase.tests) : "motion" \in t.hazards /\ t.scenario = s}
          = {TestOf(s, "simulation")}
    BY CaseSets DEF TestOf
  <2>2. TestOf(s, "simulation").method = "simulation"
    BY DEF TestOf
  <2> QED
    BY <2>1, <2>2 DEF Methods
<1> QED
  BY <1>1

LEMMA CaseHazardHolds == HazardErrors(ProbeCase, ProbeCase.hazards[1]) = {}
<1> DEFINE h == ProbeCase.hazards[1]
<1>1. /\ h.id = "motion" /\ h.barriers = Ids(ProbeCase.barriers)
      /\ h.tests = Ids(ProbeCase.tests)
  BY CaseHazards, CaseSets
<1>2. ASSUME NEW t \in Scenarios
      PROVE  h.id \in ById(ProbeCase.tests, t).hazards
  <2> DEFINE P(k) == /\ ProbeCase.tests[k].id = t
                     /\ \A j \in DOMAIN ProbeCase.tests :
                           ProbeCase.tests[j].id = t => j <= k
  <2>1. PICK i \in 1 .. ScenarioCount : ScenarioList[i] = t
    BY CaseTests
  <2>2. P(i)
    BY <2>1, CaseTests
  <2>3. (CHOOSE k \in DOMAIN ProbeCase.tests : P(k)) \in DOMAIN ProbeCase.tests
    BY <2>2, CaseTests
  <2>4. \A k \in DOMAIN ProbeCase.tests : ProbeCase.tests[k].hazards = {"motion"}
    BY CaseTests
  <2> QED
    BY <1>1, <2>3, <2>4 DEF ById
<1>3. \A s \in Scenarios : Methods(ProbeCase, h.id, s) # {}
  BY <1>1, CaseMethods
<1>4. h.tests \cap Ids(ProbeCase.tests) = Scenarios
  BY <1>1, CaseSets
<1>5. CatastropheErrors(ProbeCase, h) = {}
  BY CaseCatastrophe
<1> HIDE DEF h
<1> QED
  BY <1>1, <1>2, <1>3, <1>4, <1>5 DEF HazardErrors, When, h

LEMMA CaseEarnsItsLevel == ~ (Rank(Achieved(ProbeCase)) < Rank(ProbeCase.requested))
<1>1. Achieved(ProbeCase) \in {"independent_evidence_ready", "evidence_ready",
                          "simulation_only"}
  BY DEF Achieved
<1>2. Rank(Achieved(ProbeCase)) \in {1, 2, 3} /\ Rank(ProbeCase.requested) = 1
  BY <1>1, CaseRest DEF Rank
<1> QED
  BY <1>2

LEMMA SafetyProbe ==
  ASSUME NEW n, n = "physical_safety_assurance_case", NEW c
  PROVE  /\ RuleErrors(n, AcceptedBody(n), c) = {}
         /\ Expected(n) \in RuleErrors(n, Mutated(n), c)
<1> DEFINE m == Mutated(n)
           last == ScenarioList[ScenarioCount]
<1>1. AcceptedBody(n) = ProbeCase
  BY DEF AcceptedBody, ProbeCase
<1>2. SafetyErrors(ProbeCase) = {}
  <2>1. UNION {HazardErrors(ProbeCase, h) : h \in ToSet(ProbeCase.hazards)} = {}
    BY CaseSets, CaseHazardHolds
  <2> QED
    BY <2>1, CaseNotRepeated, CaseClaims, CaseEnvelope, CaseEvidenceHolds,
       CaseResolves, CaseBarriersIndependent, CaseTestsPassed,
       CaseEarnsItsLevel DEF SafetyErrors, When
<1>3. /\ m.tests = SubSeq(ProbeCase.tests, 1, ScenarioCount - 1)
      /\ m.hazards = [ProbeCase.hazards EXCEPT ![1].tests = @ \ {last}]
  <2>1. m = [ProbeCase EXCEPT !.tests = SubSeq(@, 1, Len(@) - 1),
                         !.hazards[1].tests =
                            @ \ {ProbeCase.tests[Len(ProbeCase.tests)].id}]
    BY <1>1 DEF Mutated
  <2>2. Len(ProbeCase.tests) = ScenarioCount /\ ProbeCase.tests[ScenarioCount].id = last
    BY CaseTests
  <2>3. /\ m.tests = SubSeq(ProbeCase.tests, 1, Len(ProbeCase.tests) - 1)
        /\ m.hazards = [ProbeCase.hazards EXCEPT ![1].tests =
                          @ \ {ProbeCase.tests[Len(ProbeCase.tests)].id}]
    <3>1. "tests" \in DOMAIN ProbeCase /\ "hazards" \in DOMAIN ProbeCase
      BY DEF ProbeCase, SafetyCaseOf
    <3> QED
      BY <2>1, <3>1
  <2> QED
    BY <2>2, <2>3
<1> HIDE DEF m, last
<1>4. \E h \in ToSet(m.hazards) : h.id = "motion"
  <2>1. 1 \in DOMAIN m.hazards /\ m.hazards[1].id = "motion"
    BY <1>3, CaseHazards
  <2> QED
    BY <2>1 DEF ToSet
<1>5. last \in Scenarios /\ \A i \in 1 .. ScenarioCount - 1 : ScenarioList[i] # last
  BY CaseTests DEF last
<1>6. \A t \in ToSet(m.tests) : t.scenario # last
  <2>1. /\ DOMAIN m.tests = 1 .. ScenarioCount - 1
        /\ \A i \in 1 .. ScenarioCount - 1 : m.tests[i] = ProbeCase.tests[i]
    BY <1>3, CaseTests
  <2>2. \A i \in 1 .. ScenarioCount - 1 : ProbeCase.tests[i].scenario = ScenarioList[i]
    BY CaseTests
  <2> QED
    BY <1>5, <2>1, <2>2 DEF ToSet
<1>7. Methods(m, "motion", last) = {}
  BY <1>6 DEF Methods
<1>8. \E h \in ToSet(m.hazards) :
         "required_scenario_missing" \in HazardErrors(m, h)
  BY <1>4, <1>5, <1>7 DEF HazardErrors, When
<1>9. "required_scenario_missing" \in SafetyErrors(m)
  BY <1>8 DEF SafetyErrors
<1> QED
  BY <1>1, <1>2, <1>9 DEF m, RuleErrors, Expected

LEMMA ProbesAreRight ==
  ASSUME NEW n \in Names
  PROVE  /\ RuleErrors(n, AcceptedBody(n),
                       n = "causal_trace" /\ CausesItself(AcceptedBody(n))) = {}
         /\ \A c : Expected(n) \in RuleErrors(n, Mutated(n), c)
<1> DEFINE memory == {"context_gate", "memory_artifact",
                      "memory_generation_result",
                      "operational_learning_event", "pattern_candidate",
                      "template_promotion_candidate"}
           control == {"control_decision", "effect_result", "entropy_signal",
                       "execution_receipt", "policy_lifecycle",
                       "reversibility_policy", "state_transition",
                       "task_closeout"}
<1>1. n \in memory \cup control
             \cup {"context_threshold", "retention_manifest", "causal_trace",
                   "contract_program", "physical_safety_assurance_case"}
  BY DEF Names, Contracts, ToSet
<1>2. CASE n \in memory
  BY <1>2, MemoryProbes
<1>3. CASE n \in control
  BY <1>3, ControlProbes
<1>4. CASE n = "context_threshold"
  BY <1>4, ThresholdProbe
<1>5. CASE n = "retention_manifest"
  BY <1>5, RetentionProbe
<1>6. CASE n = "causal_trace"
  BY <1>6, TraceIsRight
<1>7. CASE n = "contract_program"
  BY <1>7, ProgramIsRight
<1>8. CASE n = "physical_safety_assurance_case"
  BY <1>8, SafetyProbe
<1> QED
  BY <1>1, <1>2, <1>3, <1>4, <1>5, <1>6, <1>7, <1>8

\* Where none of the known faults is, no part has anything to report.
LEMMA UnknownIsUnseen ==
  ASSUME ~ KnownFault(fault)
  PROVE  /\ PartErrors("registries") = {} /\ PartErrors("inventory") = {}
         /\ \A n \in Names : PartErrors(n) = {}
<1>1. \A n \in Names, k \in OfAContract : ~ Is(k, n)
  BY DEF KnownFault, Is
<1>2. /\ World.loaded = Names /\ World.evaluators = Names /\ Probed = Names
      /\ \A n \in Names : Expected(n) \notin World.broken
  BY <1>1 DEF World, Probed, OfAContract, KnownFault
<1>3. PartErrors("registries") = {}
  BY <1>2 DEF PartErrors, When
<1>4. PartErrors("inventory") = {}
  <2>1. PublicSchemas \subseteq Names \cup Standalone
    BY DEF PublicSchemas, KnownFault
  <2> QED
    BY <1>2, <2>1 DEF PartErrors, When, KnownFault
<1>5. ASSUME NEW n \in Names
      PROVE  PartErrors(n) = {}
  <2> DEFINE a == Doc(n, AcceptedBody(n))
             m == Negative(n)
  <2>1. /\ a.form = Form /\ a.name = n /\ a.body = AcceptedBody(n)
        /\ m.form = Form /\ m.name = n /\ m.body = Mutated(n)
    BY <1>1 DEF Doc, Negative, Form, OfAContract
  <2>2. /\ StructuralErrors(Form) = {} /\ ReferenceErrors(Form) = {}
        /\ FingerprintErrors(Form) = {} /\ Form.object /\ Form.schema
    BY DEF StructuralErrors, ReferenceErrors, FingerprintErrors, Form, When
  <2> HIDE DEF a, m
  <2>3. Evaluated(a) = {}
    BY <1>2, <2>1, <2>2, ProbesAreRight
       DEF Evaluated, Evaluate, RulesApply, When
  <2>4. Expected(n) \in Evaluated(m)
    BY <1>2, <2>1, <2>2, ProbesAreRight
       DEF Evaluated, Evaluate, RulesApply, When
  <2>5. Again(a) = {}
    BY <1>1, <2>1, <2>3 DEF Again, When, OfAContract
  <2>6. ProbeErrors(n) = {}
    BY <1>1, <1>2, <2>1, <2>2, <2>3, <2>4, <2>5
       DEF ProbeErrors, When, OfAContract, a, m
  <2> QED
    BY <2>6, NamesAreContracts DEF PartErrors
<1> QED
  BY <1>3, <1>4, <1>5

\* The audit fails exactly where one of the known faults is, whatever the
\* scenarios, ledger events and standalone schemas.
\* (audit_contract_executability and contract_probes.py.)
THEOREM AuditIsRight ==
  ASSUME NEW CONSTANT f
  PROVE  AuditSpec(f) => []AuditDecides
<1> DEFINE Quiet == ~ KnownFault(fault) => findings = {}
           Inv   == AuditInv(f) /\ Quiet
<1>1. AuditInit(f, AuditParts) => Inv
  BY AllParts DEF AuditInit, AuditInv
<1>2. ASSUME Inv, [AuditNext]_auditVars
      PROVE  Inv'
  <2>1. ASSUME NEW p \in {"registries", "inventory"} \cup Names,
               Report(p, PartErrors(p))
        PROVE  Quiet'
    BY <1>2, <2>1, UnknownIsUnseen DEF Report, KnownFault
  <2>2. CASE CompareRegistries
    <3>1. Quiet'
      BY <2>1, <2>2 DEF CompareRegistries, PartErrors
    <3> QED
      BY <1>2, <3>1, AuditKeeps
  <2>3. CASE \E n \in Names : RunProbe(n)
    <3>1. Quiet'
      BY <2>1, <2>3, NamesAreContracts DEF RunProbe, PartErrors
    <3> QED
      BY <1>2, <3>1, AuditKeeps
  <2>4. CASE TakeInventory
    <3>1. Quiet'
      BY <2>1, <2>4 DEF TakeInventory, PartErrors
    <3> QED
      BY <1>2, <3>1, AuditKeeps
  <2>5. CASE UNCHANGED auditVars
    <3>1. Quiet'
      BY <1>2, <2>5 DEF auditVars, KnownFault
    <3> QED
      BY <1>2, <3>1, AuditKeeps
  <2> QED
    BY <1>2, <2>2, <2>3, <2>4, <2>5 DEF AuditNext
<1>3. Inv => AuditDecides
  BY FaultsAreNoticed DEF AuditDecides, AuditOver
<1> QED
  BY <1>1, <1>2, <1>3, PTL DEF AuditSpec
=============================================================================
