-------------------------- MODULE SystemCallPolicy --------------------------
(***************************************************************************)
(* The System Call Policy (internal/systemcallpolicy): which policies are  *)
(* valid, the compiler from a policy to a seccomp filter, the machine in   *)
(* the kernel that runs the filter, and what a policy means.               *)
(*                                                                         *)
(* A 64-bit value is a pair of words, the high one first, as the compiler  *)
(* splits it; words have WordBits bits.  A system call name is its place   *)
(* in bytewise order, and amd64SystemCalls gives its number.  JSON, the    *)
(* schema, the target and the errno of a denial are left out.              *)
(***************************************************************************)
EXTENDS Integers, Sequences, SequencesExt

CONSTANTS
    amd64SystemCalls,       \* the number of each known name
    WordBits,               \* 32 in the kernel
    maximumInstructions

ASSUME WordAssumption == WordBits \in Nat \ {0, 1} /\ maximumInstructions \in Nat

TwoTo[n \in 0..WordBits] == IF n = 0 THEN 1 ELSE 2 * TwoTo[n - 1]

Words == 0..(TwoTo[WordBits] - 1)

auditArchAMD64 == 1
x32SystemCallBit == TwoTo[WordBits - 2]

(* Two names have two numbers, and none of them is an x32 number.          *)
ASSUME SystemCallAssumption ==
    /\ amd64SystemCalls \in Seq(0..(x32SystemCallBit - 1))
    /\ IsInjective(amd64SystemCalls)

Names == DOMAIN amd64SystemCalls

Bit(w, i) == (w \div TwoTo[i]) % 2

(* The sum of the bits that two words have in common.                      *)
Common(v, w) ==
    LET below[n \in 0..WordBits] ==
            IF n = 0 THEN 0
            ELSE below[n - 1] + Bit(v, n - 1) * Bit(w, n - 1) * TwoTo[n - 1]
    IN  below

And(v, w) == Common(v, w)[WordBits]

(* What the decoder makes of a policy, and what a call brings.             *)
Policies ==
    Seq([names : Seq(Nat),
         arguments : Seq([index : Nat, operator : STRING,
                          value : Words \X Words, mask : Words \X Words])])

SystemCallData == [nr : Words, arch : Nat, arguments : [1..6 -> Words \X Words]]

-----------------------------------------------------------------------------
(* Validity.                                                               *)

Comparisons == {"equal", "not-equal", "less-than", "less-or-equal",
                "greater-than", "greater-or-equal"}

Within(value, mask) == And(value[1], mask[1]) = value[1] /\ And(value[2], mask[2]) = value[2]

ValidArgument(argument) ==
    /\ argument.index \in 0..5
    /\ \/ argument.operator \in Comparisons /\ argument.mask = <<0, 0>>
       \/ /\ argument.operator = "masked-equal"
          /\ argument.mask # <<0, 0>>
          /\ Within(argument.value, argument.mask)

Increasing(s) == \A i \in 1..(Len(s) - 1) : s[i] < s[i + 1]

ValidRule(rule) ==
    /\ rule.names # <<>>
    /\ Range(rule.names) \subseteq Names
    /\ Increasing(rule.names)
    /\ Increasing([i \in DOMAIN rule.arguments |-> rule.arguments[i].index])
    /\ \A argument \in Range(rule.arguments) : ValidArgument(argument)

validateRulesAlone(policy) == \A i \in DOMAIN policy : ValidRule(policy[i])

(* Every rule is valid, and rules are in the order of their names: a name  *)
(* belongs to one rule.                                                    *)
validate(policy) ==
    /\ \A i \in DOMAIN policy : ValidRule(policy[i])
    /\ \A i \in 1..(Len(policy) - 1) : Last(policy[i].names) < Head(policy[i + 1].names)

-----------------------------------------------------------------------------
(* The assembler.  jt and jf count the instructions to skip.               *)

Instruction(code, k, jt, jf) == [code |-> code, k |-> k, jt |-> jt, jf |-> jf]

Assembler == [program |-> <<>>, labels |-> <<>>, jumps |-> <<>>, err |-> FALSE]

(* Labels are numbered in the order of newLabel; 0 is not marked yet.      *)
newLabel(build) == [build EXCEPT !.labels = Append(@, 0)]

LastLabel(build) == Len(build.labels)

mark(build, label) == [build EXCEPT !.labels[label] = Len(build.program) + 1]

emit(build, instruction) ==
    IF Len(build.program) >= maximumInstructions THEN [build EXCEPT !.err = TRUE]
    ELSE [build EXCEPT !.program = Append(@, instruction)]

jump(build, label) ==
    emit([build EXCEPT !.jumps = Append(@, [index |-> Len(build.program) + 1, label |-> label])],
         Instruction("ja", 0, 0, 0))

(* A conditional skips at most one of the two jumps behind it.             *)
condition(build, operation, value, yes, no) ==
    jump(jump(emit(build, Instruction(operation, value, 0, 1)), yes), no)

load(build, offset) == emit(build, Instruction("ld", offset, 0, 0))

(* The high words first; the low words only when the high words agree.     *)
HighWord(build, argument, accepted, denied, checkLow) ==
    LET high == argument.value[1]
        checkEqual == LastLabel(build) + 1
    IN  CASE argument.operator = "equal" -> condition(build, "jeq", high, checkLow, denied)
          [] argument.operator = "masked-equal" ->
                condition(emit(build, Instruction("and", argument.mask[1], 0, 0)),
                          "jeq", high, checkLow, denied)
          [] argument.operator = "not-equal" -> condition(build, "jeq", high, checkLow, accepted)
          [] argument.operator \in {"less-than", "less-or-equal"} ->
                condition(mark(condition(newLabel(build), "jgt", high, denied, checkEqual), checkEqual),
                          "jeq", high, checkLow, accepted)
          [] argument.operator \in {"greater-than", "greater-or-equal"} ->
                condition(mark(condition(newLabel(build), "jgt", high, accepted, checkEqual), checkEqual),
                          "jeq", high, checkLow, denied)

LowWord(build, argument, accepted, denied) ==
    LET low == argument.value[2]
    IN  CASE argument.operator = "equal" -> condition(build, "jeq", low, accepted, denied)
          [] argument.operator = "masked-equal" ->
                condition(emit(build, Instruction("and", argument.mask[2], 0, 0)),
                          "jeq", low, accepted, denied)
          [] argument.operator = "not-equal" -> condition(build, "jeq", low, denied, accepted)
          [] argument.operator = "less-than" -> condition(build, "jge", low, denied, accepted)
          [] argument.operator = "less-or-equal" -> condition(build, "jgt", low, denied, accepted)
          [] argument.operator = "greater-than" -> condition(build, "jgt", low, accepted, denied)
          [] argument.operator = "greater-or-equal" -> condition(build, "jge", low, accepted, denied)

(* Offsets in seccomp_data: an argument's low word, and behind it the high.*)
LowOffset(index) == 16 + index * 8

Argument(build, argument, accepted, denied) ==
    LET checkLow == LastLabel(build) + 1
        high == HighWord(load(newLabel(build), LowOffset(argument.index) + 4),
                         argument, accepted, denied, checkLow)
    IN  LowWord(load(mark(high, checkLow), LowOffset(argument.index)), argument, accepted, denied)

(* One name: go on to the arguments, or to the next name, or past the rule.*)
Name(build, rule, i, arguments, nextRule) ==
    LET last == i = Len(rule.names)
        nextName == IF last THEN nextRule ELSE LastLabel(build) + 1
        tested == condition(IF last THEN build ELSE newLabel(build),
                            "jeq", amd64SystemCalls[rule.names[i]], arguments, nextName)
    IN  IF last THEN tested ELSE mark(tested, nextName)

AcceptOrDeny(build, argument, deny) ==
    LET accepted == LastLabel(build) + 1
    IN  mark(Argument(newLabel(build), argument, accepted, deny), accepted)

(* The loops over the names and the arguments of a rule, after n rounds.   *)
AfterNames(build, rule, arguments, nextRule) ==
    LET after[n \in 0..Len(rule.names)] ==
            IF n = 0 THEN build ELSE Name(after[n - 1], rule, n, arguments, nextRule)
    IN  after

AfterArguments(build, rule, deny) ==
    LET after[n \in 0..Len(rule.arguments)] ==
            IF n = 0 THEN build ELSE AcceptOrDeny(after[n - 1], rule.arguments[n], deny)
    IN  after

Rule(build, rule, deny) ==
    LET arguments == LastLabel(build) + 1
        nextRule == LastLabel(build) + 2
        loaded == load(newLabel(newLabel(build)), 0)
        named == AfterNames(loaded, rule, arguments, nextRule)[Len(rule.names)]
        checked == AfterArguments(mark(named, arguments), rule, deny)[Len(rule.arguments)]
    IN  mark(emit(checked, Instruction("ret", "allow", 0, 0)), nextRule)

Denial == Instruction("ret", "deny", 0, 0)

(* A foreign architecture and the x32 numbers of this one are denied.      *)
Preamble(build) ==
    LET known == emit(emit(load(build, 4), Instruction("jeq", auditArchAMD64, 1, 0)), Denial)
    IN  emit(emit(load(known, 0), Instruction("jset", x32SystemCallBit, 0, 1)), Denial)

(* The label of the denial at the end is the first one.                    *)
AfterRules(policy) ==
    LET after[n \in 0..Len(policy)] ==
            IF n = 0 THEN Preamble(newLabel(Assembler)) ELSE Rule(after[n - 1], policy[n], 1)
    IN  after

Assembled(policy) == emit(mark(AfterRules(policy)[Len(policy)], 1), Denial)

ForwardBranches(build) ==
    \A j \in Range(build.jumps) : build.labels[j.label] \in (j.index + 1)..Len(build.program)

(* Every jump gets the distance to its label.                              *)
Linked(build) ==
    [line \in DOMAIN build.program |->
        LET own == {j \in Range(build.jumps) : j.index = line}
        IN  IF own = {} THEN build.program[line]
            ELSE [build.program[line] EXCEPT
                     !.k = build.labels[(CHOOSE j \in own : TRUE).label] - line - 1]]

(* Whether compileInstructions succeeds, and the program it returns.       *)
Compiles(policy) == LET build == Assembled(policy) IN ~build.err /\ ForwardBranches(build)

compileInstructions(policy) == Linked(Assembled(policy))

(* Parse, and Canonical: both when a Bundle is built or installed and when *)
(* a Workload is launched.                                                 *)
Parse(policy) == validate(policy) /\ Compiles(policy)

-----------------------------------------------------------------------------
(* The kernel's machine: a word at an offset of seccomp_data, a branch, and*)
(* a run.                                                                  *)

Word(call, offset) ==
    CASE offset = 0 -> call.nr
      [] offset = 4 -> call.arch
      [] offset >= 16 -> LET argument == call.arguments[(offset - 16) \div 8 + 1]
                         IN  IF offset % 8 = 0 THEN argument[2] ELSE argument[1]

Taken(code, k, accumulator) ==
    CASE code = "jeq" -> accumulator = k
      [] code = "jgt" -> accumulator > k
      [] code = "jge" -> accumulator >= k
      [] code = "jset" -> And(accumulator, k) # 0

MachineStep(program, call, at) ==
    LET now == program[at.line]
    IN  CASE now.code = "ret" -> at
          [] now.code = "ld" -> [line |-> at.line + 1, accumulator |-> Word(call, now.k)]
          [] now.code = "and" -> [line |-> at.line + 1, accumulator |-> And(at.accumulator, now.k)]
          [] now.code = "ja" -> [at EXCEPT !.line = @ + 1 + now.k]
          [] OTHER -> [at EXCEPT !.line =
                          @ + 1 + IF Taken(now.code, now.k, at.accumulator) THEN now.jt ELSE now.jf]

(* Branches go forward, so a run is over after as many steps as there are  *)
(* instructions; it stays at the one that returned.                        *)
Run(program, call) ==
    LET after[n \in 0..Len(program)] ==
            IF n = 0 THEN [line |-> 1, accumulator |-> 0]
            ELSE MachineStep(program, call, after[n - 1])
    IN  after

Decision(program, call) == program[Run(program, call)[Len(program)].line].k

-----------------------------------------------------------------------------
(* What a policy means: some rule names the call, and each of its          *)
(* predicates holds of the whole unsigned argument.                        *)

Unsigned(value) == value[1] * TwoTo[WordBits] + value[2]

Holds(argument, value) ==
    LET v == Unsigned(value)
        w == Unsigned(argument.value)
    IN  CASE argument.operator = "equal" -> v = w
          [] argument.operator = "not-equal" -> v # w
          [] argument.operator = "less-than" -> v < w
          [] argument.operator = "less-or-equal" -> v <= w
          [] argument.operator = "greater-than" -> v > w
          [] argument.operator = "greater-or-equal" -> v >= w
          [] argument.operator = "masked-equal" ->
                <<And(value[1], argument.mask[1]), And(value[2], argument.mask[2])>> = argument.value

Allows(policy, call) ==
    /\ call.arch = auditArchAMD64
    /\ \E rule \in Range(policy) :
          /\ \E name \in Range(rule.names) : amd64SystemCalls[name] = call.nr
          /\ \A argument \in Range(rule.arguments) :
                Holds(argument, call.arguments[argument.index + 1])

(* The filter decides every call the way the policy says.                  *)
Enforces(program, policy, call) ==
    Decision(program, call) = IF Allows(policy, call) THEN "allow" ELSE "deny"
=============================================================================
