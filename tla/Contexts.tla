------------------------------- MODULE Contexts -------------------------------
(***************************************************************************)
(* Contexts (interpreter.c and the control primitives): a message finds    *)
(* its method through the cache and activates it, blocks are evaluated,    *)
(* and both return.  A stack is its depth above the temporaries: which     *)
(* object a message goes to is open, so the classes of receivers and the   *)
(* blocks that are evaluated are any there are.  A method whose primitive  *)
(* answers is not activated: that is pushes and pops, sent or performed.   *)
(***************************************************************************)
EXTENDS Integers

CONSTANTS
  Context,           \* the objects that are or become contexts
  NilPointer,
  Class,
  superclass,        \* [Class -> Class, or NilPointer]
  Selector,
  doesNotUnderstand, \* which every class or its superclasses understand
  cannotReturn,
  contextClass,      \* the class of contexts, which are sent cannotReturn:
  arguments,         \* [Selector -> Nat], those of its methods, too
  slotOf,            \* the hash: [Selector -> [Class -> a slot of the cache]]
  Dictionaries,      \* what may be defined: sets of <<class, selector>>
  PerformArguments,  \* how many perform: is given
  MaxDepth           \* a program pushes no more than this

(* A class and its superclasses, up to the one that has none.              *)
Above(class) ==
  {c \in Class: \A S \in SUBSET Class:
     class \in S /\ (\A k \in S: superclass[k] \in S \cup {NilPointer}) => c \in S}

(* The superclasses of a class are a chain, which ends.                    *)
ASSUME ContextsAssumption ==
  /\ NilPointer \notin Context \cup Selector \cup (Class \X Selector)
  /\ superclass \in [Class -> Class \cup {NilPointer}]
  /\ \A c, d \in Class: c \in Above(d) /\ d \in Above(c) => c = d
  /\ \A c \in Class: \A S \in SUBSET Above(c):
       S # {} => \E d \in S: S \subseteq Above(d)
  /\ {doesNotUnderstand, cannotReturn} \subseteq Selector
  /\ contextClass \in Class
  /\ arguments \in [Selector -> Nat]
  /\ arguments[doesNotUnderstand] = 1 /\ arguments[cannotReturn] = 1
  /\ Dictionaries \subseteq SUBSET (Class \X Selector)
  /\ \A d \in Dictionaries: \A c \in Class:
       \E k \in Above(c): <<k, doesNotUnderstand>> \in d
  /\ PerformArguments \subseteq Nat
  /\ MaxDepth \in Nat

VARIABLES
  contexts,          \* [Context -> its fields]
  activeContext,
  stackPointer,      \* of the active context; the others' are in their fields
  dictionary,        \* the methods there are, as <<class, selector>>
  methodCache,       \* per slot, an entry
  \* auxiliary:
  changed,           \* classes whose methods have changed since the last flush
  finished,          \* contexts that have returned and were not evaluated again
  answerAt,          \* where the answer should go that a context waits for
  misled,            \* activated by a perform that failed, or the second time
  twice,             \* performed methods that have been activated twice
  spoiled,           \* contexts whose stack a failed perform has moved
  step               \* return, cannotReturn or other, the last step

lookup == <<dictionary, methodCache, changed>>
auxiliary == <<finished, answerAt, misled, twice, spoiled>>
vars == <<contexts, activeContext, stackPointer, lookup, auxiliary, step>>

Unused == [home |-> NilPointer, sender |-> NilPointer, ip |-> FALSE, sp |-> 0,
           args |-> 0, method |-> NilPointer]
Used == {c \in Context: contexts[c] # Unused}
Blocks == {c \in Used: contexts[c].home # c}
homeContext == contexts[activeContext].home
sender == contexts[homeContext].sender
caller == contexts[activeContext].sender

(* The active context, its caller, the caller's, and so on.                *)
Callers ==
  {c \in Context: \A S \in SUBSET Context:
     /\ activeContext \in S
     /\ \A d \in S: contexts[d].sender \in S \cup {NilPointer}
     => c \in S}

-----------------------------------------------------------------------------
(* lookupMethodInClass: up the superclasses to the first that has it; what *)
(* is not found there is looked up again as doesNotUnderstand:.            *)
lookupMethod(selector, class) ==
  LET having == {c \in Above(class): <<c, selector>> \in dictionary}
  IN  IF having = {} THEN NilPointer
      ELSE <<CHOOSE c \in having: having \subseteq Above(c), selector>>

NoEntry == [selector |-> NilPointer, class |-> NilPointer, method |-> NilPointer]
Slots == {slotOf[t][c]: t \in Selector, c \in Class}

(* A mutant: the entry keeps the selector that was not understood.         *)
LookupKeepingSelector(selector, class) ==
  LET method == lookupMethod(selector, class)
  IN  [selector |-> selector, class |-> class,
       method |-> IF method = NilPointer THEN lookupMethod(doesNotUnderstand, class)
                  ELSE method]

lookupMethodInClass(selector, class) ==
  LET method == lookupMethod(selector, class)
      found == IF method = NilPointer THEN doesNotUnderstand ELSE selector
  IN  [selector |-> found, class |-> class, method |-> lookupMethod(found, class)]

(* The entry gets the selector the lookup has ended with, in the slot of   *)
(* the one it began with.                                                  *)
findNewMethodInClass(selector, class) ==
  LET cached == methodCache[slotOf[selector][class]]
  IN  IF cached.selector = selector /\ cached.class = class THEN cached
      ELSE lookupMethodInClass(selector, class)

(* createActualMessage: one message takes the place of the arguments.      *)
Understood(e, selector) == e.selector = selector
CountFor(e, selector, count) == IF Understood(e, selector) THEN count ELSE 1
KeepingArguments(e, selector, count, sp) == sp      \* a mutant
DepthFor(e, selector, count, sp) ==
  IF Understood(e, selector) THEN sp ELSE sp - count + 1

-----------------------------------------------------------------------------
(* newActiveContext: the registers are stored in the context that was      *)
(* active, which may be the new one; then the new one's are fetched.  The  *)
(* depth that stays behind in a context is 0 here: it is not read again.   *)
Fetched(cs, c) == [cs EXCEPT ![c].sp = 0]

newActiveContext(cs, c, sp) ==
  LET stored == [cs EXCEPT ![activeContext].ip = TRUE, ![activeContext].sp = sp]
  IN  /\ contexts' = Fetched(stored, c)
      /\ activeContext' = c
      /\ stackPointer' = stored[c].sp

MethodContext(c, from, sp, count, method) ==
  [home |-> c, sender |-> from, ip |-> TRUE, sp |-> sp, args |-> count,
   method |-> method]

activateNewMethod(method, count, sp) ==
  \E c \in Context \ Used:
    newActiveContext(
      [contexts EXCEPT ![c] = MethodContext(c, activeContext, 0, count, method)],
      c, sp - (count + 1))

Awaits(depth) == answerAt' = [answerAt EXCEPT ![activeContext] = depth]

(* A perform executes the method within its own primitive.  If the         *)
(* method's primitive fails it is activated there, in c; then success() is *)
(* false for the perform, too, and what is active then, c, is taken for    *)
(* the sender: the method is activated again, in d.  Receiver and          *)
(* arguments are taken from the end of c, which has pushed nothing, so     *)
(* they are its own only if it has no other temporaries.                   *)
activateTwice(method, count, sp) ==
  \E c \in Context \ Used: \E d \in Context \ (Used \cup {c}):
    /\ contexts' = [contexts EXCEPT
         ![activeContext].ip = TRUE, ![activeContext].sp = sp - (count + 1),
         ![c] = MethodContext(c, activeContext, -(count + 1), count, method),
         ![d] = MethodContext(d, c, 0, count, method)]
    /\ activeContext' = d
    /\ stackPointer' = 0
    /\ answerAt' = [answerAt EXCEPT ![activeContext] = sp - count, ![c] = -count]
    /\ twice' = twice \cup {c}
    /\ misled' = misled \cup {d}

(* Once if the method has no primitive.  That the method performed is that *)
(* of a perform itself is left out.                                        *)
activatePerformed(method, count, sp) ==
  \/ /\ activateNewMethod(method, count, sp)
     /\ Awaits(sp - count)
     /\ UNCHANGED <<misled, twice>>
  \/ activateTwice(method, count, sp)

(* The code of the active context starts at this depth, and pops no        *)
(* deeper: where the answer of the second activation is, for the first.    *)
bottom == IF activeContext \in twice THEN -contexts[activeContext].args ELSE 0
Holds(n) == stackPointer - bottom >= n

(* Any bytecode that pushes an object or pops one.                         *)
PushOrPop ==
  /\ \/ stackPointer < MaxDepth /\ stackPointer' = stackPointer + 1
     \/ Holds(1) /\ stackPointer' = stackPointer - 1
  /\ step' = "other"
  /\ UNCHANGED <<contexts, activeContext, lookup, auxiliary>>

sendSelector(selector, class, sp) ==
  LET count == arguments[selector]
      e == findNewMethodInClass(selector, class)
  IN  /\ sp - bottom >= count + 1
      /\ methodCache' = [methodCache EXCEPT ![slotOf[selector][class]] = e]
      /\ activateNewMethod(e.method, CountFor(e, selector, count),
                           DepthFor(e, selector, count, sp))
      /\ Awaits(sp - count)
      /\ UNCHANGED <<dictionary, changed, finished, misled, twice, spoiled>>

Send ==
  /\ \E selector \in Selector, class \in Class:
       sendSelector(selector, class, stackPointer)
  /\ step' = "other"

Mislead(method, count, sp, depth) ==
  /\ activateNewMethod(method, count, sp)
  /\ Awaits(depth)
  /\ misled' = misled \cup {activeContext'}
  /\ twice' = twice

(* primitivePerform: receiver, selector and count - 1 arguments.  When it  *)
(* fails the method activated is the one it has looked up, with count.     *)
primitivePerform ==
  \E selector \in Selector, class \in Class, given \in PerformArguments:
    LET count == given + 1
        e == lookupMethodInClass(selector, class)
        succeeds == Understood(e, selector) /\ arguments[selector] = given
    IN  /\ Holds(count + 1)
        /\ IF succeeds
           THEN activatePerformed(e.method, given, stackPointer - 1)
           ELSE Mislead(e.method, CountFor(e, selector, count),
                        DepthFor(e, selector, count, stackPointer),
                        stackPointer - count)
        /\ step' = "other"
        /\ UNCHANGED <<lookup, finished, spoiled>>

(* primitivePerformWithArgs: receiver, selector and an array, whose fields *)
(* are pushed.  When it fails, unPop takes their number for what was       *)
(* popped, and moves the stack pointer the wrong way.                      *)
primitivePerformWithArgs ==
  \E selector \in Selector, class \in Class, given \in PerformArguments:
    LET receiver == stackPointer - 2
        e == lookupMethodInClass(selector, class)
        count == CountFor(e, selector, given)
        succeeds == arguments[e.selector] = count
        moved == ~succeeds /\ given > 0
    IN  /\ Holds(3)
        /\ IF succeeds
           THEN activatePerformed(e.method, count,
                  DepthFor(e, selector, given, receiver + given))
           ELSE Mislead(e.method, 2, receiver + 2 * given + 2, receiver)
        /\ spoiled' = IF moved THEN spoiled \cup {activeContext} ELSE spoiled
        /\ step' = "other"
        /\ UNCHANGED <<lookup, finished>>

-----------------------------------------------------------------------------
(* primitiveBlockCopy: a context and a count give way to a block.          *)
primitiveBlockCopy ==
  /\ Holds(2)
  /\ stackPointer' = stackPointer - 1
  /\ \E c \in Context \ Used, count \in 0 .. 1:
       contexts' = [contexts EXCEPT ![c] =
                      [home |-> homeContext, sender |-> NilPointer, ip |-> TRUE,
                       sp |-> 0, args |-> count, method |-> NilPointer]]
  /\ step' = "other"
  /\ UNCHANGED <<activeContext, lookup, auxiliary>>

(* A block starts again from its first bytecode with its arguments on an   *)
(* empty stack.  That it is not being evaluated already is up to the       *)
(* program: nothing here looks.                                            *)
Evaluate(block, popped) ==
  /\ Holds(popped)
  /\ newActiveContext(
       [contexts EXCEPT ![block].ip = TRUE, ![block].sp = contexts[block].args,
                        ![block].sender = activeContext],
       block, stackPointer - popped)
  /\ Awaits(stackPointer - popped + 1)
  /\ finished' = finished \ {block}
  /\ spoiled' = spoiled \ {block}
  /\ step' = "other"
  /\ UNCHANGED <<lookup, misled, twice>>

BeingEvaluated(block) == block \in Callers

primitiveValue ==
  \E block \in Blocks:
    ~BeingEvaluated(block) /\ Evaluate(block, contexts[block].args + 1)

primitiveValueWithArgs ==
  \E block \in Blocks: ~BeingEvaluated(block) /\ Evaluate(block, 2)

(* returnValue:to: of a result that has been popped, or was not on the     *)
(* stack.  No context, or one without an instruction pointer, cannot be    *)
(* returned to: the active context is sent cannotReturn:.                  *)
nilContextFields ==
  [contexts EXCEPT ![activeContext].sender = NilPointer,
                   ![activeContext].ip = FALSE]

IsContext(context) == context # NilPointer      \* a mutant: ip is not looked at
CanReturnTo(context) == context # NilPointer /\ contexts[context].ip

returnValue(context, sp) ==
  \/ /\ CanReturnTo(context)
     /\ contexts' = Fetched(nilContextFields, context)
     /\ activeContext' = context
     /\ stackPointer' = contexts[context].sp + 1
     /\ finished' = finished \cup {activeContext}
     /\ step' = "return"
     /\ answerAt' = [answerAt EXCEPT ![context] = 0]
     /\ UNCHANGED <<lookup, misled, twice, spoiled>>
  \/ /\ ~CanReturnTo(context)
     /\ sendSelector(cannotReturn, contextClass, sp + 2)
     /\ step' = "cannotReturn"

ReturnFromMessage ==
  \/ returnValue(sender, stackPointer)
  \/ Holds(1) /\ returnValue(sender, stackPointer - 1)

ReturnFromBlock ==
  /\ activeContext \in Blocks
  /\ Holds(1)
  /\ returnValue(caller, stackPointer - 1)

-----------------------------------------------------------------------------
(* The program changes methods, then flushes the cache; a class may go     *)
(* away, and another take its pointer, without a flush.                    *)
ChangeMethods ==
  /\ \E d \in Dictionaries \ {dictionary}:
       /\ dictionary' = d
       /\ changed' = changed \cup {m[1]: m \in (d \ dictionary) \cup (dictionary \ d)}
  /\ step' = "other"
  /\ UNCHANGED <<contexts, activeContext, stackPointer, methodCache, auxiliary>>

primitiveFlushCache ==
  /\ methodCache' = [s \in Slots |-> NoEntry]
  /\ changed' = {}
  /\ step' = "other"
  /\ UNCHANGED <<contexts, activeContext, stackPointer, dictionary, auxiliary>>

Init ==
  /\ \E c \in Context, m \in UNION Dictionaries:
       /\ contexts = [d \in Context |->
            IF d = c THEN [home |-> c, sender |-> NilPointer, ip |-> TRUE,
                           sp |-> 0, args |-> arguments[m[2]], method |-> m]
                     ELSE Unused]
       /\ activeContext = c
  /\ stackPointer = 0
  /\ dictionary \in Dictionaries
  /\ methodCache = [s \in Slots |-> NoEntry]
  /\ changed = {}
  /\ finished = {} /\ misled = {} /\ twice = {} /\ spoiled = {}
  /\ answerAt = [c \in Context |-> 0]
  /\ step = "other"

Next ==
  \/ PushOrPop \/ Send \/ primitivePerform \/ primitivePerformWithArgs
  \/ primitiveBlockCopy \/ primitiveValue \/ primitiveValueWithArgs
  \/ ReturnFromMessage \/ ReturnFromBlock \/ ChangeMethods \/ primitiveFlushCache

Spec == Init /\ [][Next]_vars

-----------------------------------------------------------------------------
TypeOK ==
  /\ contexts \in [Context ->
       [home: Context \cup {NilPointer}, sender: Context \cup {NilPointer},
        ip: BOOLEAN, sp: Int, args: Nat, method: (Class \X Selector) \cup {NilPointer}]]
  /\ activeContext \in Context
  /\ stackPointer \in Int
  /\ dictionary \in Dictionaries
  /\ methodCache \in [Slots -> {NoEntry} \cup
       [selector: Selector, class: Class, method: Class \X Selector]]
  /\ changed \subseteq Class
  /\ UNION {finished, misled, twice, spoiled} \subseteq Context
  /\ answerAt \in [Context -> Int]
  /\ step \in {"return", "cannotReturn", "other"}

(* A return goes to a context that has not returned itself, so none is run *)
(* beyond its end; and cannotReturn: is sent only if the context returned  *)
(* from or the one returned to has done so, or nobody called it.           *)
ReturnsToTheLiving ==
  [][/\ step' = "return" => activeContext' \notin finished
     /\ step' = "cannotReturn" =>
          \/ homeContext \in finished \/ sender \in finished
          \/ caller \in finished
          \/ sender = NilPointer /\ homeContext \in Used]_vars

(* An answer takes the place of the receiver and arguments, or the block,  *)
(* selector or array, that were pushed for it, whatever happened to the    *)
(* message on its way; but where a failed perform has moved the stack.     *)
(* The second activation of a performed method answers to the first, in    *)
(* the place of what was taken from there.                                 *)
AnswerInPlace ==
  [][step' = "return" /\ activeContext' \notin spoiled =>
       stackPointer' = answerAt[activeContext']]_vars

(* What the cache answers is what a lookup would, unless methods of the    *)
(* class, or of a superclass, have changed and the cache was not flushed.  *)
CacheRight ==
  \A s \in DOMAIN methodCache:
    LET e == methodCache[s]
    IN  \/ e = NoEntry
        \/ Above(e.class) \cap changed # {}
        \/ e.method = lookupMethod(e.selector, e.class)

(* A method is activated with as many arguments as it has, also if it is   *)
(* doesNotUnderstand: for another message, found in the cache or performed *)
(* with a list of arguments; but by a perform that fails.  The second      *)
(* activation after a perform counts as misled: it need not have its own.  *)
GivenItsArguments ==
  \A c \in Used \ (Blocks \cup misled):
    contexts[c].args = arguments[contexts[c].method[2]]

(* A message runs the method its class has for it now, with its arguments: *)
(* found by a lookup, a cached one or by perform (interpreter.c:430-475,   *)
(* 819-958, primitives.c:285-352).                                         *)
MessagesFindMethods == CacheRight /\ GivenItsArguments
=============================================================================
