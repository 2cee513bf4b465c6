------------------------------ MODULE Primitives ------------------------------
(***************************************************************************)
(* The primitives of primitives.c as calls on the evaluation stack of the  *)
(* active context: what each takes off the stack, checks, changes in       *)
(* memory, pushes, and puts back when it fails.  The primitives of control *)
(* and processes are in Contexts.tla and Scheduler.tla; those that do more *)
(* than answer (snapshots, devices) are here for the stack only.           *)
(***************************************************************************)
EXTENDS Arithmetic, Sequences

CONSTANTS ByteSize,       \* the values of a byte: 256
          ContextSize,    \* slots of a context's stack (12 or 32)
          Integers_,      \* the SmallIntegers used as operands
          InitialMemories \* of objects by name, with a class and fields

VARIABLES running,        \* FALSE once the process has ended
          memory,         \* [name -> [class, fields]]
          stack,          \* the stack of the active context, up to its pointer
          call            \* the last primitive called, what for and how it went

vars == <<running, memory, stack, call>>

ASSUME IntegersAssumption == Integers_ \subseteq SmallInteger

(* An object has a class and a sequence of fields.                         *)
ASSUME MemoriesAssumption ==
  \A m \in InitialMemories: \A name \in DOMAIN m:
    m[name] \in [class: {m[name].class},
                fields: Seq({m[name].fields[i]: i \in DOMAIN m[name].fields})]

(* A value is a kind and, of integers and characters, a number.            *)
Integer(i) == <<"int", i>>
Large(i) == <<"large", i>>     \* a LargePositiveInteger of two bytes
Char(i) == <<"char", i>>
Other(kind) == <<kind, 0>>     \* everything else, objects by their name
Nil == Other("nil")
Boolean(b) == Other(IF b THEN "true" ELSE "false")

IsInt(v) == v[1] = "int"
IsObject(v) == v[1] \in DOMAIN memory

(* 16-bit words: four times the positive SmallIntegers.                    *)
WordSize == 4 * (SmallMax + 1)

(* The instance specification of a class.                                  *)
Words(class) == class # "String"
IsPointers(class) == class \notin {"String", "Bitmap"}
FixedFields(class) ==
  CASE class = "Set" -> 1 [] class = "Point" -> 2 [] class = "Stream" -> 4
    [] OTHER -> 0
IsIndexable(class) == class \in {"Array", "Set", "String", "Bitmap"}

ClassOf(v) == memory[v[1]].class
Fields(v) == memory[v[1]].fields
LengthOf(v) == Len(Fields(v))

positive16BitValueOf(v) ==
  IF v[1] \in {"int", "large"} THEN [success |-> TRUE, value |-> v[2]]
  ELSE Failure
positive16BitIntegerFor(i) == IF i \in SmallInteger THEN Integer(i) ELSE Large(i)

-----------------------------------------------------------------------------
(* What a primitive does: pops, then pushes, then unPops; and the memory.  *)
Does(pops, pushes, unpops, success, m) ==
  [pops |-> pops, pushes |-> pushes, unpops |-> unpops,
   success |-> success, memory |-> m, aborts |-> FALSE]

Answer(pops, v) == Does(pops, <<v>>, 0, TRUE, memory)
AnswerStoring(pops, v, m) == Does(pops, <<v>>, 0, TRUE, m)
AnswerReceiver(pops) == Does(pops, <<>>, 0, TRUE, memory)
FailWithout(pops) == Does(pops, <<>>, 0, FALSE, memory)   \* no unPop
Fail(pops) == Does(pops, <<>>, pops, FALSE, memory)
AnswerIf(condition, pops, v) == IF condition THEN Answer(pops, v) ELSE Fail(pops)
(* SIGFPE, or a RUNTIME_CHECK.                                             *)
Abort == [Does(0, <<>>, 0, FALSE, memory) EXCEPT !.aborts = TRUE]

NoCall == [name |-> "none", operands |-> <<>>, success |-> FALSE]

(* What is left of a stack with the operands on it.                        *)
LeavesOn(before, e) ==
  LET sp == Len(before) - e.pops
      slots == SubSeq(before, 1, sp) \o e.pushes
                 \o SubSeq(before, sp + Len(e.pushes) + 1, Len(before))
  IN  SubSeq(slots, 1, sp + Len(e.pushes) + e.unpops)

Call(name, operands, Effects) ==
  /\ running
  /\ call = NoCall
  /\ Len(stack) + Len(operands) <= ContextSize
  /\ \E e \in Effects:
       IF e.aborts
       THEN running' = FALSE /\ UNCHANGED <<memory, stack, call>>
       ELSE /\ stack' = LeavesOn(stack \o operands, e)
            /\ memory' = e.memory
            /\ call' = [name |-> name, operands |-> operands,
                        success |-> e.success]
            /\ UNCHANGED running

(* The caller goes on: it takes the answer off its stack.  After a failure *)
(* the method is activated with the operands and answers in their place    *)
(* (activateNewMethod pops them).                                          *)
TakeAnswer ==
  LET used == IF call.success THEN 1 ELSE Len(call.operands)
  IN  /\ call # NoCall
      /\ used <= Len(stack)
      /\ stack' = SubSeq(stack, 1, Len(stack) - used)
      /\ call' = NoCall
      /\ UNCHANGED <<running, memory>>

-----------------------------------------------------------------------------
(* Integer arithmetic: popInteger twice, compute, check, push or unPop.    *)
Computed(name, r, a) ==
  CASE name = "Add" -> {Add(r, a)}
    [] name = "Subtract" -> {Subtract(r, a)}
    [] name = "Multiply" -> {Multiply(r, a)}
    [] name = "Divide" -> {Divide(r, a)}
    [] name = "Mod" -> {Mod(r, a)}
    [] name = "Div" -> {Div(r, a)}
    [] name = "Quo" -> {Quo(r, a)}
    [] name = "BitAnd" -> {BitAnd(r, a)}
    [] name = "BitOr" -> {BitOr(r, a)}
    [] name = "BitXor" -> {BitXor(r, a)}
    [] name = "BitShift" -> BitShift(r, a)

(* primitiveDivide evaluates receiver % argument before it knows that the  *)
(* operands are integers and that the argument is not 0; popInteger then   *)
(* stands for an object as INT_MIN, whose remainder by -1 overflows.       *)
Traps(name, receiver, argument) ==
  /\ name = "Divide"
  /\ \/ argument = Integer(0)
     \/ argument = Integer(-1) /\ ~IsInt(receiver)

Operands == {Integer(i): i \in Integers_} \cup {Nil}

primitiveArithmetic ==
  \E name \in {"Add", "Subtract", "Multiply", "Divide", "Mod", "Div", "Quo",
               "BitAnd", "BitOr", "BitXor", "BitShift"},
     receiver \in Operands, argument \in Operands:
    Call(name, <<receiver, argument>>,
         IF Traps(name, receiver, argument) THEN {Abort}
         ELSE IF IsInt(receiver) /\ IsInt(argument)
         THEN {AnswerIf(c.success, 2, Integer(c.value)):
                 c \in Computed(name, receiver[2], argument[2])}
         ELSE {Fail(2)})

Holds(relation, r, a) ==
  CASE relation = "<" -> r < a [] relation = "<=" -> r <= a
    [] relation = ">" -> r > a [] relation = ">=" -> r >= a
    [] relation = "=" -> r = a [] relation = "~=" -> r # a

primitiveCompare ==
  \E relation \in {"<", "<=", ">", ">=", "=", "~="},
     receiver \in Operands, argument \in Operands:
    Call(relation, <<receiver, argument>>,
         {AnswerIf(IsInt(receiver) /\ IsInt(argument), 2,
                   Boolean(Holds(relation, receiver[2], argument[2])))})

primitiveMakePoint ==
  \E x \in Operands, y \in Operands:
    Call("MakePoint", <<x, y>>,
         {AnswerIf(IsInt(x) /\ IsInt(y), 2, Other("newPoint"))})

(* Floats: zero and the others, without their value.                       *)
Float(zero) == <<"float", IF zero THEN 0 ELSE 1>>
IsFloat(v) == v[1] = "float"
Floats == {Float(TRUE), Float(FALSE), Nil}

primitiveFloatUnary ==
  \/ \E v \in Operands, z \in BOOLEAN:
       Call("AsFloat", <<v>>, {AnswerIf(IsInt(v), 1, Float(z))})
  \/ \E v \in Floats:
       \/ \E z \in BOOLEAN:
            Call("FractionalPart", <<v>>, {AnswerIf(IsFloat(v), 1, Float(z))})
       \/ Call("Truncated", <<v>>,    \* fails if the result is no SmallInteger
               {Fail(1)} \cup {AnswerIf(IsFloat(v), 1, w): w \in Operands \ {Nil}})

primitiveFloatBinary ==
  \E receiver \in Floats, argument \in Floats, b \in BOOLEAN:
    LET floats == IsFloat(receiver) /\ IsFloat(argument)
    IN  \/ Call("FloatArithmetic", <<receiver, argument>>,
                {AnswerIf(floats, 2, Float(b))})
        \/ Call("FloatDivide", <<receiver, argument>>,
                {AnswerIf(floats /\ argument # Float(TRUE), 2, Float(b))})
        \/ Call("FloatCompare", <<receiver, argument>>,
                {AnswerIf(floats, 2, Boolean(b))})

-----------------------------------------------------------------------------
(* Indexed access.  The index is checked against all the fields of the     *)
(* object; then the named fields are added to it.                          *)
checkIndexableBounds(index, array) == index >= 1 /\ index <= LengthOf(array)

subscript(array, index) ==
  LET field == Fields(array)[index]
      class == ClassOf(array)
  IN  IF IsPointers(class) THEN field
      ELSE IF Words(class) THEN positive16BitIntegerFor(field) ELSE Integer(field)

WithField(array, index, value) ==
  [memory EXCEPT ![array[1]].fields[index] = value]

(* A mutant of StoringLeaves: an element of any kind is taken for a byte.  *)
StoringBytes(array, index, value) ==
  IF IsPointers(ClassOf(array)) THEN WithField(array, index, value)
  ELSE WithField(array, index, value[2] % ByteSize)

(* What subscript:with:storing: accepts, and the memory it leaves.  A word *)
(* is stored even if its value turns out to be out of range.               *)
Storable(array, value) ==
  \/ IsPointers(ClassOf(array))
  \/ IsInt(value)
  \/ Words(ClassOf(array)) /\ value[1] = "large"
StoringLeaves(array, index, value) ==
  LET class == ClassOf(array)
  IN  IF IsPointers(class) THEN WithField(array, index, value)
      ELSE IF Words(class) /\ value[1] \in {"int", "large", "large32"}
      THEN WithField(array, index, positive16BitValueOf(value).value % WordSize)
      ELSE IF IsInt(value) THEN WithField(array, index, value[2] % ByteSize)
      ELSE memory

Store(pops, array, index, value, answer) ==
  Does(pops, IF Storable(array, value) THEN <<answer>> ELSE <<>>,
       IF Storable(array, value) THEN 0 ELSE pops,
       Storable(array, value), StoringLeaves(array, index, value))

Indices == {Integer(i): i \in -1 .. 3} \cup {Large(WordSize - 1), Nil}
Values == {Integer(-1), Large(WordSize - 2), Other("large32"), Char(2)}
Receivers == {Other(name): name \in DOMAIN memory}

Indexed(index, array) ==
  /\ positive16BitValueOf(index).success
  /\ checkIndexableBounds(index[2], array)
Inside(index, array) == index[2] + FixedFields(ClassOf(array)) <= LengthOf(array)

primitiveAt ==
  \E array \in Receivers, index \in Indices:
    Call("At", <<array, index>>,
         {IF ~Indexed(index, array) THEN Fail(2)
          ELSE IF ~Inside(index, array) THEN Abort
          ELSE Answer(2, subscript(array, index[2] + FixedFields(ClassOf(array))))})

primitiveAtPut ==
  \E array \in Receivers, index \in Indices, value \in Values:
    Call("AtPut", <<array, index, value>>,
         {IF ~Indexed(index, array) THEN Fail(3)
          ELSE IF ~Inside(index, array) THEN Abort
          ELSE Store(3, array, index[2] + FixedFields(ClassOf(array)),
                     value, value)})

primitiveSize ==
  \E array \in Receivers \cup {Integer(2)}:
    Call("Size", <<array>>,
         {IF IsInt(array) THEN Fail(1)
          ELSE Answer(1, positive16BitIntegerFor(
                           LengthOf(array) - FixedFields(ClassOf(array))))})

(* The primitives of String; the byte of a character is its value.         *)
primitiveStringAt ==
  \E array \in {r \in Receivers: ClassOf(r) = "String"}, index \in Indices:
    Call("StringAt", <<array, index>>,
         {IF Indexed(index, array)
          THEN Answer(2, Char(Fields(array)[index[2]])) ELSE Fail(2)})

primitiveStringAtPut ==
  \E array \in {r \in Receivers: ClassOf(r) = "String"}, index \in Indices,
     value \in Values:
    Call("StringAtPut", <<array, index, value>>,
         {IF Indexed(index, array) /\ value[1] = "char"
          THEN Store(3, array, index[2], Integer(value[2]), value) ELSE Fail(3)})

-----------------------------------------------------------------------------
(* Streams: the collection, the position and the limits are the fields of  *)
(* the stream.                                                             *)
Streams == {r \in Receivers: ClassOf(r) = "Stream"}
Collection(stream) == Fields(stream)[1]
Position(stream) == Fields(stream)[2][2]
ReadLimit(stream) == Fields(stream)[3][2]
WriteLimit(stream) == Fields(stream)[4][2]

Streamable(stream) ==
  IsObject(Collection(stream)) /\ ClassOf(Collection(stream)) \in {"Array", "String"}
MayAdvance(stream, limit) ==
  /\ Position(stream) < limit
  /\ Streamable(stream)
  /\ checkIndexableBounds(Position(stream) + 1, Collection(stream))
Advanced(m, stream) == [m EXCEPT ![stream[1]].fields[2] = Integer(@[2] + 1)]

primitiveNext ==
  \E stream \in Streams:
    Call("Next", <<stream>>,
         {IF MayAdvance(stream, ReadLimit(stream))
          THEN LET result == subscript(Collection(stream), Position(stream) + 1)
               IN  AnswerStoring(1,
                     IF ClassOf(Collection(stream)) = "Array" THEN result
                     ELSE Char(result[2]), Advanced(memory, stream))
          ELSE Fail(1)})

(* Into a string goes the first field of the value, which nobody checks to *)
(* be a character: of another object it may be anything, and an integer    *)
(* has none.                                                               *)
primitiveNextPut ==
  \E stream \in Streams, value \in Values:
    LET array == Collection(stream)
        Put(v) == LET e == Store(2, array, Position(stream) + 1, v, value)
                  IN  IF e.success
                      THEN [e EXCEPT !.memory = Advanced(@, stream)] ELSE e
    IN  Call("NextPut", <<stream, value>>,
             IF ~MayAdvance(stream, WriteLimit(stream)) THEN {Fail(2)}
             ELSE IF ClassOf(array) = "Array" THEN {Put(value)}
             ELSE IF value[1] = "char" THEN {Put(Integer(value[2]))}
             ELSE {Fail(2)} \cup {Put(Integer(i)): i \in 0 .. ByteSize - 1}
                    \cup (IF IsInt(value) THEN {Abort} ELSE {}))

primitiveAtEnd ==
  \E stream \in Streams:
    Call("AtEnd", <<stream>>,
         {AnswerIf(Streamable(stream), 1,
                   Boolean(\/ Position(stream) >= ReadLimit(stream)
                           \/ Position(stream) >= LengthOf(Collection(stream))))})

-----------------------------------------------------------------------------
(* Storage management.                                                     *)
primitiveInstVarAt ==
  \E object \in Receivers, index \in Indices:
    Call("InstVarAt", <<object, index>>,
         {IF IsInt(index) /\ checkIndexableBounds(index[2], object)
          THEN Answer(2, subscript(object, index[2])) ELSE Fail(2)})

primitiveInstVarAtPut ==
  \E object \in {r \in Receivers: ClassOf(r) \notin {"Stream"}},
     index \in Indices, value \in Values:
    Call("InstVarAtPut", <<object, index, value>>,
         {IF IsInt(index) /\ checkIndexableBounds(index[2], object)
          THEN Store(3, object, index[2], value, value) ELSE Fail(3)})

(* become: of objects that are not held by a stream.                       *)
primitiveBecome ==
  \E receiver \in {r \in Receivers: ClassOf(r) = "Set"} \cup {Integer(2)},
     other \in {r \in Receivers: ClassOf(r) = "Bitmap"} \cup {Integer(2)}:
    Call("Become", <<receiver, other>>,
         {IF IsInt(receiver) \/ IsInt(other) THEN Fail(2)
          ELSE AnswerStoring(2, receiver,
                 [memory EXCEPT ![receiver[1]] = memory[other[1]],
                                ![other[1]] = memory[receiver[1]]])})

primitiveNew ==
  \E class \in {"Array", "Point"}:
    Call("New", <<Other(class)>>,
         {AnswerIf(~IsIndexable(class), 1, Other("newObject"))})

(* The size may be negative: the allocator checks the size of the chunk.   *)
primitiveNewWithArg ==
  \E class \in {"Array", "Point"}, size \in Indices:
    Call("NewWithArg", <<Other(class), size>>,
         {IF ~positive16BitValueOf(size).success \/ size[2] > WordSize - 3
             \/ ~IsIndexable(class) THEN Fail(2)
          ELSE IF size[2] < 0 THEN Abort ELSE Answer(2, Other("newObject"))})

(* The class of the new method's object is the receiver.                   *)
primitiveNewMethod ==
  Call("NewMethod", <<Other("aClass"), Integer(2), Integer(1)>>,
       {Answer(3, Other("newObject"))})

primitiveAsOop ==
  \E v \in {Integer(2), Nil}:
    Call("AsOop", <<v>>, {AnswerIf(~IsInt(v), 1, Integer(1))})

primitiveAsObject ==
  Call("AsObject", <<Integer(1)>>, {Fail(1), Answer(1, Nil)})

(* Without an instance the operand is not put back.                        *)
primitiveInstances ==
  \E name \in {"SomeInstance", "NextInstance"}:
    Call(name, <<Nil>>, {FailWithout(1), Answer(1, Other("instance"))})

(* A method's header and literals, of which there are two here.            *)
primitiveObjectAt ==
  \E index \in Indices:
    LET inside == IsInt(index) /\ index[2] \in 1 .. 2
    IN  \/ Call("ObjectAt", <<Other("aMethod"), index>>, {AnswerIf(inside, 2, Nil)})
        \/ Call("ObjectAtPut", <<Other("aMethod"), index, Nil>>,
                {AnswerIf(inside, 3, Nil)})

-----------------------------------------------------------------------------
(* Input, output and system: what they are given and leave on the stack.   *)
SemaphoreOrNil(v) == v[1] \in {"semaphore", "nil"}

(* The answer in place of the receiver.                                    *)
AnswersValue ==
  \E name \in {"MousePoint", "CoreLeft", "OopsLeft", "Class",
               "PosixLastErrorOperation", "Snapshot"}:
    Call(name, <<Other("receiver")>>,
         {Answer(1, Other(IF name = "Snapshot" THEN "nil" ELSE "answer"))})

(* The receiver is the answer.                                             *)
AnswersReceiver ==
  \/ \E name \in {"BeCursor", "BeSnapshotFile", "Quit", "ExitToDebugger",
                  "FlushCache"}:
       Call(name, <<Other("receiver")>>, {AnswerReceiver(0)})
  \/ \E name \in {"CopyBits", "BeDisplay", "SampleInterval"}, fails \in BOOLEAN:
       /\ name = "SampleInterval" => fails
       /\ Call(name, <<Other("receiver")>>,
               {IF fails THEN Fail(0) ELSE AnswerReceiver(0)})

(* One argument is taken; the receiver is the answer.                      *)
TakesArgument ==
  \E name \in {"CursorLocPut", "CursorLink", "InputSemaphore",
               "StdinInputSemaphore", "TimeWordsInto", "TickWordsInto"},
     v \in {Other("semaphore"), Other("point"), Nil}:
    Call(name, <<Other("receiver"), v>>,
         {IF \/ name = "CursorLocPut" /\ v[1] # "point"
             \/ name \in {"InputSemaphore", "StdinInputSemaphore"}
                  /\ ~SemaphoreOrNil(v)
          THEN Fail(1) ELSE AnswerReceiver(1)})

primitiveSignalAt ==
  \E v \in {Other("semaphore"), Other("point")}, limit \in {Integer(2), Nil}:
    \/ Call("SignalAtTick", <<Other("receiver"), v, Other("time")>>,
            {IF SemaphoreOrNil(v) THEN AnswerReceiver(2) ELSE Fail(2)})
    \/ Call("SignalAtOopsLeftWordsLeft", <<Other("receiver"), v, limit, Integer(2)>>,
            {IF SemaphoreOrNil(v) /\ IsInt(limit) THEN AnswerReceiver(3) ELSE Fail(3)})

primitiveInputWord ==
  Call("InputWord", <<Other("receiver")>>,
       {FailWithout(0), Answer(1, Other("answer"))})

primitiveEquivalent ==
  \E a \in {Integer(2), Nil}, b \in {Integer(2), Nil}:
    Call("Equivalent", <<a, b>>, {Answer(2, Boolean(a = b))})

(* These push without taking the receiver off.                             *)
PushesOnto ==
  \E name \in {"StdinInputString", "LoadedImageName", "ImageArgv"}:
    Call(name, <<Other("receiver")>>, {Answer(0, Other("aString"))})

(* A failure does not put the argument back.                               *)
primitiveShowStdout ==
  \E v \in {Other("aString"), Nil}:
    Call("ShowStdout", <<Other("receiver"), v>>,
         {IF v[1] = "aString" THEN AnswerReceiver(1) ELSE FailWithout(1)})

PosixErrorString ==
  \E code \in {Integer(2), Nil}:
    Call("PosixErrorStringOperation", <<Other("receiver"), code>>,
         {AnswerIf(IsInt(code), 2, Other("aString"))})

primitiveScanCharacters ==
  \E answers \in BOOLEAN:
    Call("ScanCharacters",
         <<Other("receiver"), Integer(1), Integer(1), Nil, Integer(1), Nil, Nil>>,
         {AnswerIf(answers, 7, Other("stop"))})

(* The method returns or another is activated: a stack of its own.         *)
NewContext ==
  /\ running
  /\ stack' = <<Nil>>
  /\ call' = NoCall
  /\ UNCHANGED <<running, memory>>

Init ==
  /\ running = TRUE
  /\ memory \in InitialMemories
  /\ stack = <<Nil>>
  /\ call = NoCall

Next ==
  \/ primitiveArithmetic \/ primitiveCompare \/ primitiveMakePoint
  \/ primitiveFloatUnary \/ primitiveFloatBinary
  \/ primitiveAt \/ primitiveAtPut \/ primitiveSize
  \/ primitiveStringAt \/ primitiveStringAtPut
  \/ primitiveNext \/ primitiveNextPut \/ primitiveAtEnd
  \/ primitiveInstVarAt \/ primitiveInstVarAtPut \/ primitiveBecome
  \/ primitiveNew \/ primitiveNewWithArg \/ primitiveNewMethod
  \/ primitiveAsOop \/ primitiveAsObject \/ primitiveInstances
  \/ primitiveObjectAt \/ AnswersValue \/ AnswersReceiver \/ TakesArgument
  \/ primitiveSignalAt \/ primitiveInputWord \/ primitiveEquivalent
  \/ PushesOnto \/ primitiveShowStdout \/ PosixErrorString
  \/ primitiveScanCharacters
  \/ TakeAnswer \/ NewContext

Spec == Init /\ [][Next]_vars

-----------------------------------------------------------------------------
Called == call # NoCall /\ running
Answered == stack[Len(stack)]

(* The numbers that + and // and so on stand for.                          *)
Right(name, r, a) ==
  LET All == -WordSize .. WordSize
  IN  CASE name = "Add" -> {r + a}
        [] name = "Subtract" -> {r - a}
        [] name = "Multiply" -> {r * a}
        [] name = "Divide" -> {q \in All: a # 0 /\ q * a = r}
        [] name = "Div" ->       \* the exact quotient, rounded down
             {q \in All: \/ a > 0 /\ q * a <= r /\ r < (q + 1) * a
                         \/ a < 0 /\ q * a >= r /\ r > (q + 1) * a}
        [] name = "Mod" ->       \* what is left of r after its quotient
             {m \in All: /\ (0 <= m /\ m < a) \/ (a < m /\ m <= 0)
                         /\ \E q \in All: r = q * a + m}
        [] name = "Quo" ->       \* rounded towards zero
             {q \in All: /\ a # 0 /\ Magnitude(q * a) <= Magnitude(r)
                         /\ Magnitude(r - q * a) < Magnitude(a)
                         /\ (q = 0 \/ (q < 0) = ((r < 0) # (a < 0)))}

(* And those that the operations on two's complement stand for.            *)
RightBits(name, r, a) ==
  LET Bits(On(_, _)) ==
        {v \in SmallInteger: \A n \in 0 .. IntBits - 1:
           (Bit(v, n) = 1) = On(Bit(r, n) = 1, Bit(a, n) = 1)}
  IN  CASE name = "BitAnd" -> Bits(LAMBDA x, y: x /\ y)
        [] name = "BitOr" -> Bits(LAMBDA x, y: x \/ y)
        [] name = "BitXor" -> Bits(LAMBDA x, y: x # y)
        [] name = "BitShift" ->
             {IF a >= 0 THEN r * 2 ^ a ELSE r \div 2 ^ (-a)}

(* // is off by one where the exact quotient lies between -1 and 0, and a  *)
(* shift is wrong if it moves bits beyond the C int.                       *)
RoundedWrong(name, r, a) ==
  /\ name = "Div"
  /\ a # 0 /\ r # 0 /\ (r < 0) # (a < 0)
  /\ Magnitude(r) < Magnitude(a)
ShiftedOut(name, r, a) ==
  /\ name = "BitShift"
  /\ \/ Magnitude(a) >= IntBits
     \/ a > 0 /\ ToInt(r * 2 ^ a) # r * 2 ^ a

(* The last call has answered one of these numbers if one of them is a     *)
(* SmallInteger and failed if none is, or if an operand was no integer.    *)
AnsweredOneOf(right) ==
  /\ call.success =>
       /\ \A i \in DOMAIN call.operands: IsInt(call.operands[i])
       /\ \E v \in right \cap SmallInteger: Answered = Integer(v)
  /\ ~call.success =>
       \/ \E i \in DOMAIN call.operands: ~IsInt(call.operands[i])
       \/ right \cap SmallInteger = {}

(* A primitive of integer arithmetic answers the exact result of the       *)
(* operation if that is a SmallInteger and fails if it is not, whatever    *)
(* the signs and at both ends of the range (primitives.c:1548-1797); but   *)
(* // of a negative quotient above -1.                                     *)
ArithmeticExact ==
  Called /\ call.name \in {"Add", "Subtract", "Multiply", "Divide", "Mod", "Div",
                           "Quo"} =>
    LET r == call.operands[1][2]
        a == call.operands[2][2]
    IN  RoundedWrong(call.name, r, a) \/ AnsweredOneOf(Right(call.name, r, a))

(* So does one of the operations on bits (primitives.c:1798-1862), but for *)
(* shifts out of the C int.                                                *)
BitsExact ==
  Called /\ call.name \in {"BitAnd", "BitOr", "BitXor", "BitShift"} =>
    LET r == call.operands[1][2]
        a == call.operands[2][2]
    IN  ShiftedOut(call.name, r, a) \/ AnsweredOneOf(RightBits(call.name, r, a))

(* What at:put: answers to have stored is what is there, in the field its  *)
(* index means, so at: of the index would answer it; a byte keeps the low  *)
(* bits of its value and a word its value modulo its width.                *)
StoreReadsBack ==
  Called /\ call.name \in {"AtPut", "StringAtPut"} /\ call.success =>
    LET array == call.operands[1]
        stored == call.operands[3]
        class == ClassOf(array)
        read == subscript(array, call.operands[2][2] + FixedFields(class))
    IN  IF IsPointers(class) THEN read = stored
        ELSE read[2] = stored[2] % (IF Words(class) THEN WordSize ELSE ByteSize)

(* Where a primitive does not keep the stack: it fails and does not put    *)
(* back its last operand, or succeeds and leaves the receiver underneath;  *)
(* and where one that fails has changed memory.                            *)
DropsOperand == {"SomeInstance", "NextInstance", "ShowStdout"}
LeavesReceiver == {"StdinInputString", "LoadedImageName", "ImageArgv"}
StoresAndFails ==
  /\ call.name \in {"AtPut", "InstVarAtPut"}
  /\ call.operands[3] = Other("large32")

(* A primitive answers exactly one value in place of its operands and      *)
(* leaves what the caller had below them alone; and one that fails leaves  *)
(* operands and memory as though it had not been called, for the method to *)
(* be run with (whatIsAPrimitive in the sources), but for those above.     *)
CallBalances ==
  call = NoCall /\ Called' =>
    LET kept == IF call'.name \in LeavesReceiver
                THEN stack \o call'.operands ELSE stack
    IN  IF call'.success THEN stack' = Append(kept, Answered')
        ELSE \/ /\ stack' = stack \o call'.operands
                /\ memory' = memory \/ StoresAndFails'
             \/ /\ call'.name \in DropsOperand
                /\ Append(stack', call'.operands[Len(call'.operands)])
                     = stack \o call'.operands
CallsBalance == [][CallBalances]_vars
=============================================================================
