----------------------------- MODULE EgelBytecode -----------------------------
(***************************************************************************)
(* The execution of bytecode: the interpreter of src/src/bytecode.hpp and  *)
(* the native code that src/src/lightning.hpp makes of it, an instruction  *)
(* a step, under the loop of Machine::reduce (machine.hpp) and with the    *)
(* combinators of the runtime (runtime.hpp, builtin_system.hpp) that the   *)
(* programs of the model mention.                                          *)
(*                                                                         *)
(* A value is a literal, a combinator, an array by its index in the heap,  *)
(* or the null pointer.  An array is a sequence of values: item i of the   *)
(* code is item i + 1 here.  Nothing is freed.                             *)
(***************************************************************************)
EXTENDS Integers, Sequences, SequencesExt, TLC

VARIABLES
    bytecode,     \* the code of the combinators that have some
    engine,       \* "bytecode" or "native"
    heap,         \* the arrays
    trampoline,   \* the thunk to be reduced, 0 for the null pointer
    call,         \* the registers of the code that runs
    result,       \* the VMReduceResult
    wild          \* whether something was read that is not there

machineVars == <<bytecode, engine, heap, trampoline, call, result, wild>>

Null == <<"null", "">>
IntegerObject(n) == <<"int", n>>
CombinatorObject(n) == <<"combinator", n>>
ArrayObject(a) == <<"array", a>>
IsArray(v) == v[1] = "array"
IsInteger(v) == v[1] = "int"

SystemNone == CombinatorObject("System::none")
Boolean(b) == CombinatorObject(IF b THEN "System::true" ELSE "System::false")
ResultObject == CombinatorObject("Internal::result")
ExceptionObject == CombinatorObject("Internal::exception")

Idle == [pc |-> 0, reg |-> [r \in {} |-> Null], flag |-> FALSE]
NoResult == [value |-> Null, exception |-> FALSE]

MachineInit ==
    /\ bytecode = [n \in {} |-> <<>>]
    /\ engine = "bytecode"
    /\ heap = <<>>
    /\ trampoline = 0
    /\ call = Idle
    /\ result = NoResult
    /\ wild = FALSE

Items(v) == heap[v[2]]
Drop(s, n) == SubSeq(s, n + 1, Len(s))

\* The arrays that machine.hpp:395 makes for the reduction of f.
StartArrays(f) ==
    <<<<Null, Null, Null, Null, ResultObject, Null>>,
      <<Null, Null, Null, Null, ExceptionObject>>,
      <<ArrayObject(1), IntegerObject(5), ArrayObject(1), ArrayObject(2), f>>>>

\* VMObjectArray::create(VMObjectPtrs): a heap with the array, and the value;
\* an array of one item is that item.
Created(items) ==
    IF Len(items) = 1 THEN [heap |-> heap, value |-> items[1]]
    ELSE [heap |-> Append(heap, items), value |-> ArrayObject(Len(heap) + 1)]

RECURSIVE Readback(_)
\* A value without the heap.
Readback(v) ==
    IF IsArray(v)
    THEN <<"array", [i \in DOMAIN Items(v) |-> Readback(Items(v)[i])]>>
    ELSE v

\* EqualVMObjectPtr
Equals(v, w) == Readback(v) = Readback(w)

\* VMObject::symbol
Symbol(v) ==
    CASE v[1] = "combinator" -> v[2]
      [] v[1] = "character" -> "System::char"
      [] OTHER -> "System::" \o v[1]

-----------------------------------------------------------------------------
(* Instructions.                                                           *)

Running == trampoline # 0 /\ call.pc > 0 /\ ~wild
Thunk == heap[trampoline]
Code == bytecode[Thunk[5][2]]
Op == Code[call.pc]
Executes(opcode) == Running /\ Op[1] = opcode
Reg(r) == call.reg[r]

\* The registers x, x + 1, .. get these values.
Loaded(reg, x, values) == [r \in x..(x + Len(values) - 1) |-> values[r - x + 1]] @@ reg

Advance(reg, flag) ==
    /\ call' = [pc |-> call.pc + 1, reg |-> reg, flag |-> flag]
    /\ UNCHANGED <<bytecode, engine, trampoline, result>>
Register(x, v) ==
    Advance((x :> v) @@ call.reg, call.flag) /\ UNCHANGED <<heap, wild>>
Flag(reg, flag) == Advance(reg, flag) /\ UNCHANGED <<heap, wild>>

OpNil == Executes("nil") /\ Register(Op[2], Null)
OpMov == Executes("mov") /\ Register(Op[2], Reg(Op[3]))
OpData == Executes("data") /\ Register(Op[2], Op[3])

OpSet ==
    /\ Executes("set")
    /\ heap' = [heap EXCEPT ![Reg(Op[2])[2]][Reg(Op[3])[2] + 1] = Reg(Op[4])]
    /\ Advance(call.reg, call.flag)
    /\ UNCHANGED wild

\* takex x y z i: the items of z from i on, if there are enough.
OpTakex ==
    /\ Executes("takex")
    /\ LET x == Op[2]  y == Op[3]  i == Op[5]
           n == y - x + 1
           items == Items(Reg(Op[4]))
       IN  IF i + n <= Len(items)
           THEN Flag(Loaded(call.reg, x, SubSeq(items, i + 1, i + n)), TRUE)
           ELSE Flag(call.reg, FALSE)

\* split x y z: the items of z, if it is an array of as many.
Split(n) == IF Len(Items(Reg(Op[4]))) = n
            THEN Flag(Loaded(call.reg, Op[2], Items(Reg(Op[4]))), TRUE)
            ELSE Flag(call.reg, FALSE)

OpSplit ==
    /\ engine = "bytecode"
    /\ Executes("split")
    /\ IF IsArray(Reg(Op[4])) THEN Split(Op[3] - Op[2] + 1) ELSE Flag(call.reg, FALSE)

\* Native code does not ask whether z is an array: the size it reads from
\* another object is no size, it may or may not be the number it is compared
\* with.
NativeSplit ==
    /\ engine = "native"
    /\ Executes("split")
    /\ \/ IsArray(Reg(Op[4])) /\ Split(Op[3] - Op[2] + 1)
       \/ ~IsArray(Reg(Op[4])) /\ Flag(call.reg, FALSE)
       \/ /\ ~IsArray(Reg(Op[4]))
          /\ wild' = TRUE
          /\ UNCHANGED <<bytecode, engine, heap, trampoline, call, result>>

\* array x y z: always an array, also if it has one item or none.
OpArray ==
    /\ Executes("array")
    /\ LET n == Op[4] - Op[3] + 1 IN
        heap' = Append(heap, [i \in 1..n |-> Reg(Op[3] + i - 1)])
    /\ Advance((Op[2] :> ArrayObject(Len(heap) + 1)) @@ call.reg, call.flag)
    /\ UNCHANGED wild

\* concatx x y z i: y, and the items of z from i on; none says what it is
\* when there are none.
Concatenated(none(_)) ==
    /\ Executes("concatx")
    /\ LET y == Reg(Op[3])
           rest == Drop(Items(Reg(Op[4])), Op[5])
           whole == (IF IsArray(y) THEN Items(y) ELSE <<y>>) \o rest
           made == IF rest # <<>> THEN Created(whole)
                   ELSE [heap |-> heap, value |-> none(y)]
       IN  /\ heap' = made.heap
           /\ Advance((Op[2] :> made.value) @@ call.reg, call.flag)
    /\ UNCHANGED wild

\* The interpreter still takes an array of one item for that item.
OpConcatx ==
    /\ engine = "bytecode"
    /\ Concatenated(LAMBDA y : IF IsArray(y) /\ Len(Items(y)) = 1 THEN Items(y)[1] ELSE y)

NativeConcatx == engine = "native" /\ Concatenated(LAMBDA y : y)

OpTest == Executes("test") /\ Flag(call.reg, Equals(Reg(Op[2]), Reg(Op[3])))
OpTag == Executes("tag") /\ Flag(call.reg, Symbol(Reg(Op[2])) = Symbol(Reg(Op[3])))

\* fail l: a jump if the flag is not set.
FailTo(l, flag) ==
    /\ Executes("fail")
    /\ call' = [call EXCEPT !.pc = IF call.flag THEN @ + 1 ELSE l, !.flag = flag]
    /\ UNCHANGED <<bytecode, engine, heap, trampoline, result, wild>>

OpFail == engine = "bytecode" /\ FailTo(Op[2], FALSE)

\* Native code leaves the flag as it is.
NativeFail == engine = "native" /\ FailTo(Op[2], call.flag)

\* The next thunk is in a register.
OpReturn ==
    /\ Executes("return")
    /\ trampoline' = IF IsArray(Reg(Op[2])) THEN Reg(Op[2])[2] ELSE 0
    /\ call' = Idle
    /\ UNCHANGED <<bytecode, engine, heap, result, wild>>

-----------------------------------------------------------------------------
(* The loop of Machine::reduce: the head of the thunk reduces it.          *)

Between == trampoline # 0 /\ call.pc = 0 /\ ~wild
Head0 == Thunk[5]
Arguments == Drop(Thunk, 5)
Dyadics == {"System::+", "System::-", "System::=="}
Builtins == Dyadics \cup {"System::throw", "System::handle"}
Reduces(names) == Between /\ Head0[1] = "combinator" /\ Head0[2] \in names

Jump(h, t) ==
    /\ heap' = h
    /\ trampoline' = t
    /\ UNCHANGED <<bytecode, engine, call, result, wild>>

\* The items from the head on are the value; k is next.
Write(made) == [made.heap EXCEPT ![Thunk[1][2]][Thunk[2][2] + 1] = made.value]
Answer(made) == Jump(Write(made), Thunk[3][2])
AnswerItems == Answer(Created(Drop(Thunk, 4)))

\* A new thunk.
Become(items) == Jump(Append(heap, items), Len(heap) + 1)

\* The code starts with the thunk in register 0.
Call(flag) ==
    /\ Reduces(DOMAIN bytecode)
    /\ call' = [pc |-> 1, reg |-> (0 :> ArrayObject(trampoline)), flag |-> flag]
    /\ UNCHANGED <<bytecode, engine, heap, trampoline, result, wild>>

ReduceBytecode == engine = "bytecode" /\ Call(FALSE)

\* The flag of native code is where its stack is, and is not set before.
ReduceLightning == engine = "native" /\ \E flag \in BOOLEAN : Call(flag)

\* VMObjectLiteral, VMObjectData
ReduceValue ==
    /\ Between
    /\ ~IsArray(Head0)
    /\ Head0 \notin {ResultObject, ExceptionObject}
    /\ ~Reduces(DOMAIN bytecode \cup Builtins)
    /\ AnswerItems

\* VMObjectArray: an application that is applied.
ReduceArray ==
    /\ Between
    /\ IsArray(Head0)
    /\ Become(SubSeq(Thunk, 1, 4) \o Items(Head0) \o Arguments)

\* VMThrow: the handler gets the arguments.
ReduceThrow ==
    /\ Reduces({"System::throw"})
    /\ IF Arguments = <<>> THEN AnswerItems ELSE Become(Items(Thunk[4]) \o Arguments)

\* VMHandle: the second argument is reduced with the first one as handler.
ReduceHandle ==
    /\ Reduces({"System::handle"})
    /\ LET links == SubSeq(Thunk, 1, 3)
           handler == links \o <<Thunk[4], Arguments[1], SystemNone>>
           tried == links \o <<ArrayObject(Len(heap) + 1), Arguments[2], SystemNone>>
       IN  IF Len(Arguments) < 2 THEN AnswerItems
           ELSE Jump(heap \o <<handler, tried \o Drop(Arguments, 2)>>, Len(heap) + 2)

\* The dyadic operators of builtin_system.hpp: one value, or none where they
\* throw.  Integers are far from their bounds.
ApplyAdd(x, y) == IF IsInteger(x) /\ IsInteger(y) THEN <<IntegerObject(x[2] + y[2])>> ELSE <<>>
ApplyMin(x, y) == IF IsInteger(x) /\ IsInteger(y) THEN <<IntegerObject(x[2] - y[2])>> ELSE <<>>
ApplyEq(x, y) == <<Boolean(Equals(x, y))>>
ApplyDyadic(n, x, y) ==
    CASE n = "System::+" -> ApplyAdd(x, y)
      [] n = "System::-" -> ApplyMin(x, y)
      [] n = "System::==" -> ApplyEq(x, y)

\* Dyadic: what it throws goes to the head of the handler, with nothing else.
ReduceDyadic ==
    /\ Reduces(Dyadics)
    /\ LET x == Arguments[1]  y == Arguments[2]
           applied == ApplyDyadic(Head0[2], x, y)
           badArgs == <<<<"text", Head0[2]>>, x, y>>
           handler == SubSeq(Items(Thunk[4]), 1, 5)
       IN  CASE Len(Arguments) < 2 -> AnswerItems
             [] Len(Arguments) > 1 /\ applied # <<>> ->
                    Answer(Created(applied \o Drop(Arguments, 2)))
             [] OTHER ->
                    Jump(heap \o <<badArgs, handler \o <<SystemNone, ArrayObject(Len(heap) + 1)>>>>,
                         Len(heap) + 2)

\* VMObjectResult: the first argument, and there is no next thunk.
ReduceResult ==
    /\ Between
    /\ Head0 \in {ResultObject, ExceptionObject}
    /\ result' = [value |-> Thunk[6], exception |-> Head0 = ExceptionObject]
    /\ trampoline' = 0
    /\ UNCHANGED <<bytecode, engine, heap, call, wild>>

MachineNext ==
    \/ OpNil \/ OpMov \/ OpData \/ OpSet \/ OpTakex \/ OpArray \/ OpTest \/ OpTag \/ OpReturn
    \/ OpSplit \/ OpConcatx \/ OpFail \/ NativeSplit \/ NativeConcatx \/ NativeFail
    \/ ReduceBytecode \/ ReduceLightning \/ ReduceValue \/ ReduceArray \/ ReduceThrow \/ ReduceHandle
    \/ ReduceDyadic \/ ReduceResult

MachineEnded == trampoline = 0 /\ result # NoResult

=============================================================================
