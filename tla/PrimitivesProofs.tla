--------------------------- MODULE PrimitivesProofs ---------------------------
(***************************************************************************)
(* Proofs about Primitives: every primitive takes its operands off the     *)
(* stack and answers one value or puts them back (CallsBalance), a store   *)
(* reads back (StoreReadsBack), and the arithmetic is exact                *)
(* (ArithmeticExact), for any sizes of integers, stacks and memories.      *)
(***************************************************************************)
EXTENDS Primitives, SequenceTheorems, TLAPS

-----------------------------------------------------------------------------
(* A sequence, of whatever values.                                         *)
IsSeq(s) == \E S: s \in Seq(S)

LEMMA PrefixOfConcat ==
  ASSUME NEW S, NEW s \in Seq(S), NEW t \in Seq(S)
  PROVE  SubSeq(s \o t, 1, Len(s)) = s
<1>1. Len(s) \in Nat /\ Len(t) \in Nat
  BY LenProperties
<1>2. CASE Len(s) = 0
  <2>1. SubSeq(s \o t, 1, Len(s)) = <<>>
    BY <1>2, SubSeqEmpty
  <2> QED
    BY <1>2, <2>1, EmptySeq
<1>3. CASE Len(s) > 0
  <2>1. SubSeq(s \o t, 1, Len(s)) = SubSeq(s, 1, Len(s))
    BY <1>1, <1>3, SubSeqOfConcat1
  <2> QED
    BY <2>1, SubSeqFull
<1> QED
  BY <1>1, <1>2, <1>3

LEMMA PrefixOfSeq ==
  ASSUME NEW S, NEW s \in Seq(S), NEW n \in 0 .. Len(s)
  PROVE  /\ SubSeq(s, 1, n) \in Seq(S)
         /\ Len(SubSeq(s, 1, n)) = n
<1>1. Len(s) \in Nat
  BY LenProperties
<1>2. \A i \in 1 .. n: s[i] \in S
  BY <1>1, ElementOfSeq
<1> QED
  BY <1>1, <1>2, SubSeqProperties

LEMMA RestOfSeq ==
  ASSUME NEW S, NEW s \in Seq(S), NEW n \in Nat \ {0}
  PROVE  SubSeq(s, n, Len(s)) \in Seq(S)
<1>1. Len(s) \in Nat
  BY LenProperties
<1>2. \A i \in n .. Len(s): s[i] \in S
  BY <1>1, ElementOfSeq
<1> QED
  BY <1>1, <1>2, SubSeqProperties

(* The primitive takes its last k operands and pushes a value.             *)
LEMMA PushesOne ==
  ASSUME NEW S, NEW s \in Seq(S), NEW k \in Nat, k <= Len(s), NEW v \in S, NEW e,
         e.pops = k, e.pushes = <<v>>, e.unpops = 0
  PROVE  LeavesOn(s, e) = Append(SubSeq(s, 1, Len(s) - k), v)
<1>0. Len(s) \in Nat /\ Len(s) - k \in 0 .. Len(s)
  BY LenProperties
<1>1. PICK sp \in 0 .. Len(s): sp = Len(s) - k
  BY <1>0
<1>2. PICK a: a = SubSeq(s, 1, sp)
  OBVIOUS
<1>3. a \in Seq(S) /\ Len(a) = sp
  BY <1>1, <1>2, PrefixOfSeq
<1>4. PICK b: b = SubSeq(s, sp + 2, Len(s))
  OBVIOUS
<1>5. b \in Seq(S)
  <2>1. sp + 2 \in Nat \ {0}
    BY <1>0, <1>1
  <2> QED
    BY <1>4, <2>1, RestOfSeq
<1>6. PICK av: av = Append(a, v)
  OBVIOUS
<1>7. av \in Seq(S) /\ Len(av) = sp + 1 /\ a \o <<v>> = av
  BY <1>3, <1>6, AppendProperties, AppendIsConcat
<1>8. SubSeq(av \o b, 1, sp + 1) = av
  BY <1>5, <1>7, PrefixOfConcat
<1>9. Len(<<v>>) = 1 /\ sp + 1 + 0 = sp + 1 /\ sp + 1 + 1 = sp + 2
  BY <1>0, <1>1
<1>10. LeavesOn(s, e) = SubSeq((a \o <<v>>) \o b, 1, sp + 1)
  BY <1>1, <1>2, <1>4, <1>9 DEF LeavesOn
<1> QED
  BY <1>1, <1>2, <1>6, <1>7, <1>8, <1>10

(* The primitive takes its last k operands and puts u of them back.        *)
LEMMA PushesNothing ==
  ASSUME NEW S, NEW s \in Seq(S), NEW k \in Nat, k <= Len(s), NEW u \in 0 .. k,
         NEW e, e.pops = k, e.pushes = <<>>, e.unpops = u
  PROVE  LeavesOn(s, e) = SubSeq(s, 1, Len(s) - k + u)
<1>0. Len(s) \in Nat /\ Len(s) - k \in 0 .. Len(s)
  BY LenProperties
<1>1. PICK sp \in 0 .. Len(s): sp = Len(s) - k
  BY <1>0
<1>2. PICK a: a = SubSeq(s, 1, sp)
  OBVIOUS
<1>3. a \o <<>> = a
  BY <1>2, PrefixOfSeq, ConcatEmptySeq
<1>4. PICK b: b = SubSeq(s, sp + 1, Len(s))
  OBVIOUS
<1>5. a \o b = s
  <2>1. 1 \in 1 .. Len(s) + 1 /\ sp \in 1 - 1 .. Len(s) /\ Len(s) \in sp .. Len(s)
    BY <1>0, <1>1
  <2>2. a \o b = SubSeq(s, 1, Len(s))
    BY <1>2, <1>4, <2>1, ConcatAdjacentSubSeq
  <2> QED
    BY <2>2, SubSeqFull
<1>6. Len(<<>>) = 0 /\ sp + 0 + 1 = sp + 1 /\ sp + 0 + u = sp + u
  BY <1>0, <1>1
<1>7. LeavesOn(s, e) = SubSeq((a \o <<>>) \o b, 1, sp + u)
  BY <1>1, <1>2, <1>4, <1>6 DEF LeavesOn
<1> QED
  BY <1>1, <1>3, <1>5, <1>7

-----------------------------------------------------------------------------
(* The four ways of a primitive with its operands, on a stack s.           *)
LEMMA OperandsAnswered ==
  ASSUME NEW S, NEW s \in Seq(S), NEW o \in Seq(S), NEW v \in S, NEW e,
         e.pops = Len(o), e.pushes = <<v>>, e.unpops = 0
  PROVE  LeavesOn(s \o o, e) = Append(s, v)
<1>1. Len(s) \in Nat /\ Len(o) \in Nat
  BY LenProperties
<1>2. PICK t: t = s \o o
  OBVIOUS
<1>3. t \in Seq(S) /\ Len(t) = Len(s) + Len(o)
  BY <1>2, ConcatProperties
<1>4. Len(o) <= Len(t) /\ Len(t) - Len(o) = Len(s)
  BY <1>1, <1>3
<1>5. LeavesOn(t, e) = Append(SubSeq(t, 1, Len(t) - Len(o)), v)
  <2>1. PICK k \in Nat: k = Len(o)
    BY <1>1
  <2>2. e.pops = k /\ k <= Len(t) /\ t \in Seq(S)
    BY <1>3, <1>4, <2>1
  <2>3. LeavesOn(t, e) = Append(SubSeq(t, 1, Len(t) - k), v)
    BY <2>2, PushesOne
  <2> QED
    BY <2>1, <2>3
<1>6. SubSeq(t, 1, Len(s)) = s
  BY <1>2, PrefixOfConcat
<1> QED
  BY <1>2, <1>4, <1>5, <1>6

LEMMA AnswerAdded ==
  ASSUME NEW S, NEW t \in Seq(S), NEW v \in S, NEW e,
         e.pops = 0, e.pushes = <<v>>, e.unpops = 0
  PROVE  LeavesOn(t, e) = Append(t, v)
<1>1. Len(t) \in Nat /\ 0 <= Len(t) /\ Len(t) - 0 = Len(t)
  BY LenProperties
<1>2. LeavesOn(t, e) = Append(SubSeq(t, 1, Len(t) - 0), v)
  BY <1>1, PushesOne
<1> QED
  BY <1>1, <1>2, SubSeqFull

LEMMA OperandsPutBack ==
  ASSUME NEW S, NEW t \in Seq(S), NEW k \in Nat, k <= Len(t), NEW e,
         e.pops = k, e.pushes = <<>>, e.unpops = k
  PROVE  LeavesOn(t, e) = t
<1>1. Len(t) \in Nat /\ k \in 0 .. k /\ Len(t) - k + k = Len(t)
  BY LenProperties
<1>2. LeavesOn(t, e) = SubSeq(t, 1, Len(t) - k + k)
  BY <1>1, PushesNothing
<1> QED
  BY <1>1, <1>2, SubSeqFull

LEMMA ReceiverLeft ==
  ASSUME NEW S, NEW s \in Seq(S), NEW o \in Seq(S), o # <<>>, NEW e,
         e.pops = Len(o) - 1, e.pushes = <<>>, e.unpops = 0
  PROVE  LeavesOn(s \o o, e) = Append(s, o[1])
<1>1. Len(s) \in Nat /\ Len(o) \in Nat /\ Len(o) >= 1
  BY LenProperties, EmptySeq
<1>2. PICK t: t = s \o o
  OBVIOUS
<1>3. t \in Seq(S) /\ Len(t) = Len(s) + Len(o)
  BY <1>2, ConcatProperties
<1>4. PICK k \in Nat: k = Len(o) - 1
  <2>1. Len(o) - 1 \in Nat
    BY <1>1
  <2> QED
    BY <2>1
<1>5. k <= Len(t) /\ 0 \in 0 .. k /\ Len(t) - k + 0 = Len(s) + 1
  BY <1>1, <1>3, <1>4
<1>6. LeavesOn(t, e) = SubSeq(t, 1, Len(t) - k + 0)
  <2>1. t \in Seq(S) /\ e.pops = k
    BY <1>3, <1>4
  <2> QED
    BY <2>1, <1>5, PushesNothing
<1>7. PICK n \in 1 .. Len(t): n = Len(s) + 1
  BY <1>1, <1>3
<1>8. t[n] = o[1]
  <2>1. n \in 1 .. Len(s) + Len(o)
    BY <1>3, <1>7
  <2>2. t[n] = IF n <= Len(s) THEN s[n] ELSE o[n - Len(s)]
    BY <1>2, <2>1, ConcatProperties
  <2> QED
    BY <2>2, <1>1, <1>7
<1>9. SubSeq(t, 1, n) = SubSeq(t, 1, n - 1) \o <<t[n]>>
  <2>1. 1 \in 1 .. Len(t) /\ n \in 1 .. Len(t)
    BY <1>1, <1>3
  <2> QED
    BY <1>3, <2>1, SubSeqRecursiveSecond
<1>10. SubSeq(t, 1, n - 1) = s
  <2>1. n - 1 = Len(s)
    BY <1>1, <1>7
  <2> QED
    BY <1>2, <2>1, PrefixOfConcat
<1>11. o[1] \in S
  <2>1. 1 \in 1 .. Len(o)
    BY <1>1
  <2> QED
    BY <2>1, ElementOfSeq
<1>12. s \o <<o[1]>> = Append(s, o[1])
  BY <1>11, AppendIsConcat
<1> QED
  BY <1>2, <1>5, <1>6, <1>7, <1>8, <1>9, <1>10, <1>12

LEMMA LastDropped ==
  ASSUME NEW S, NEW t \in Seq(S), t # <<>>, NEW e,
         e.pops = 1, e.pushes = <<>>, e.unpops = 0
  PROVE  /\ LeavesOn(t, e) \in Seq(S)
         /\ Append(LeavesOn(t, e), t[Len(t)]) = t
<1>1. Len(t) \in Nat /\ Len(t) >= 1
  BY LenProperties, EmptySeq
<1>2. LeavesOn(t, e) = SubSeq(t, 1, Len(t) - 1 + 0)
  <2>1. 1 \in Nat /\ 1 <= Len(t) /\ 0 \in 0 .. 1
    BY <1>1
  <2> QED
    BY <2>1, PushesNothing
<1>3. PICK m \in 0 .. Len(t): m = Len(t) - 1
  <2>1. Len(t) - 1 \in 0 .. Len(t)
    BY <1>1
  <2> QED
    BY <2>1
<1>4. Len(t) - 1 + 0 = m
  BY <1>1, <1>3
<1>5. PICK a: a = SubSeq(t, 1, m)
  OBVIOUS
<1>6. a \in Seq(S)
  BY <1>5, PrefixOfSeq
<1>7. 1 \in 1 .. Len(t) /\ Len(t) \in 1 .. Len(t)
  BY <1>1
<1>8. SubSeq(t, 1, Len(t)) = SubSeq(t, 1, Len(t) - 1) \o <<t[Len(t)]>>
  BY <1>7, SubSeqRecursiveSecond
<1>9. t[Len(t)] \in S
  BY <1>7, ElementOfSeq
<1>10. Append(a, t[Len(t)]) = a \o <<t[Len(t)]>>
  BY <1>6, <1>9, AppendIsConcat
<1>11. t = a \o <<t[Len(t)]>>
  BY <1>3, <1>5, <1>8, SubSeqFull
<1> QED
  BY <1>2, <1>4, <1>5, <1>6, <1>10, <1>11

LEMMA LastOfConcat ==
  ASSUME NEW S, NEW s \in Seq(S), NEW o \in Seq(S), o # <<>>
  PROVE  /\ s \o o # <<>>
         /\ (s \o o)[Len(s \o o)] = o[Len(o)]
<1>1. Len(s) \in Nat /\ Len(o) \in Nat /\ Len(o) >= 1
  BY LenProperties, EmptySeq
<1>2. PICK t: t = s \o o
  OBVIOUS
<1>3. t \in Seq(S) /\ Len(t) = Len(s) + Len(o)
  BY <1>2, ConcatProperties
<1>4. PICK n \in 1 .. Len(s) + Len(o): n = Len(s) + Len(o)
  BY <1>1
<1>5. t[n] = IF n <= Len(s) THEN s[n] ELSE o[n - Len(s)]
  BY <1>2, ConcatProperties
<1>6. ~(n <= Len(s)) /\ n - Len(s) = Len(o)
  BY <1>1, <1>4
<1>7. t # <<>>
  BY <1>1, <1>3, EmptySeq
<1> QED
  BY <1>2, <1>3, <1>4, <1>5, <1>6, <1>7

-----------------------------------------------------------------------------
(* The primitives that change memory.                                      *)
Storing == {"AtPut", "StringAtPut", "Next", "NextPut", "InstVarAtPut", "Become"}

(* An effect with which a call balances.                                   *)
AnswersOne(name, operands, e) ==
  /\ e.success = TRUE /\ name \notin LeavesReceiver
  /\ e.pops = Len(operands) /\ e.unpops = 0
  /\ \E v: e.pushes = <<v>>
LeavesFirst(name, operands, e) ==
  /\ e.success = TRUE /\ name \notin LeavesReceiver
  /\ e.pops = Len(operands) - 1 /\ e.pushes = <<>> /\ e.unpops = 0
AddsOne(name, e) ==
  /\ e.success = TRUE /\ name \in LeavesReceiver
  /\ e.pops = 0 /\ e.unpops = 0
  /\ \E v: e.pushes = <<v>>
PutsBack(name, operands, e) ==
  /\ e.success = FALSE
  /\ e.pops \in 0 .. Len(operands) /\ e.pushes = <<>> /\ e.unpops = e.pops
  /\ \/ e.memory = memory
     \/ name \in {"AtPut", "InstVarAtPut"} /\ operands[3] = Other("large32")
DropsLast(name, e) ==
  /\ e.success = FALSE /\ name \in DropsOperand
  /\ e.pops = 1 /\ e.pushes = <<>> /\ e.unpops = 0

BalancedStack(name, operands, e) ==
  \/ e.aborts = TRUE
  \/ AnswersOne(name, operands, e)
  \/ LeavesFirst(name, operands, e)
  \/ AddsOne(name, e)
  \/ PutsBack(name, operands, e)
  \/ DropsLast(name, e)

Balanced(name, operands, e) ==
  /\ BalancedStack(name, operands, e)
  /\ e.memory = memory \/ name \in Storing

(* What every step does: it balances, and leaves sequences.                *)
Balances ==
  /\ CallBalances
  /\ IsSeq(stack')
  /\ call' = call \/ IsSeq(call'.operands)

(* What most steps do: they leave memory alone.                            *)
Quiet == memory' = memory /\ (Called' => call'.name \notin Storing)

(* The operations on integers that ArithmeticExact is about, and what the  *)
(* steps do that are none of them.                                         *)
IntegerOps == {"Add", "Subtract", "Multiply", "Divide", "Mod", "Div", "Quo"}
NoIntegerOp == Called' => call'.name \notin IntegerOps

(* A call balances, and leaves a stack, if all its effects are balanced.   *)
LEMMA EffectsBalance ==
  ASSUME NEW name, NEW T, NEW operands \in Seq(T), operands # <<>>, NEW Effects,
         \A e \in Effects: Balanced(name, operands, e),
         Call(name, operands, Effects), IsSeq(stack)
  PROVE  /\ Balances
         /\ name \notin Storing => Quiet
         /\ name \notin IntegerOps => NoIntegerOp
<1>1. PICK R: stack \in Seq(R)
  BY DEF IsSeq
<1>2. PICK e \in Effects:
        IF e.aborts
        THEN running' = FALSE /\ UNCHANGED <<memory, stack, call>>
        ELSE /\ stack' = LeavesOn(stack \o operands, e)
             /\ memory' = e.memory
             /\ call' = [name |-> name, operands |-> operands,
                         success |-> e.success]
             /\ UNCHANGED running
  BY DEF Call
<1>3. ASSUME e.aborts PROVE Balances
  BY <1>1, <1>2, <1>3 DEF Balances, IsSeq, CallBalances, Called
<1>4. ASSUME ~e.aborts PROVE Balances
  <2>1. /\ stack' = LeavesOn(stack \o operands, e)
        /\ memory' = e.memory
        /\ call'.name = name /\ call'.operands = operands
        /\ call'.success = e.success
    BY <1>2, <1>4
  <2>2. PICK s, t: s = stack /\ t = stack \o operands
    OBVIOUS
  <2>3. PICK u: u = LeavesOn(t, e)
    OBVIOUS
  <2>4. stack' = u
    BY <2>1, <2>2, <2>3
  <2>5. operands[Len(operands)] = operands[Len(operands)] /\ s \in Seq(R)
    BY <1>1, <2>2
  <2>6. CASE AnswersOne(name, operands, e)
    <3>1. PICK v: e.pushes = <<v>>
      BY <2>6 DEF AnswersOne
    <3>2. PICK S: S = R \cup T \cup {v}
      OBVIOUS
    <3>3. s \in Seq(S) /\ operands \in Seq(S) /\ v \in S
      BY <2>5, <3>2, SeqMonotonic
    <3>4. e.pops = Len(operands) /\ e.unpops = 0
      BY <2>6 DEF AnswersOne
    <3>5. LeavesOn(s \o operands, e) = Append(s, v)
      BY <3>1, <3>3, <3>4, OperandsAnswered
    <3>6. u = Append(s, v)
      BY <3>5, <2>2, <2>3
    <3>7. u \in Seq(S) /\ Len(u) = Len(s) + 1 /\ u[Len(s) + 1] = v
      BY <3>3, <3>6, AppendProperties
    <3>8. Answered' = v
      BY <2>4, <3>7 DEF Answered
    <3>9. e.success = TRUE /\ name \notin LeavesReceiver
      BY <2>6 DEF AnswersOne
    <3> QED
      BY <2>1, <2>2, <2>4, <3>6, <3>7, <3>8, <3>9 DEF Balances, CallBalances, IsSeq
  <2>7. CASE LeavesFirst(name, operands, e)
    <3>1. PICK S: S = R \cup T
      OBVIOUS
    <3>2. s \in Seq(S) /\ operands \in Seq(S)
      BY <2>5, <3>1, SeqMonotonic
    <3>3. e.pops = Len(operands) - 1 /\ e.pushes = <<>> /\ e.unpops = 0
      BY <2>7 DEF LeavesFirst
    <3>4. LeavesOn(s \o operands, e) = Append(s, operands[1])
      BY <3>2, <3>3, ReceiverLeft
    <3>5. PICK v: v = operands[1]
      OBVIOUS
    <3>6. v \in S
      <4>1. 1 \in 1 .. Len(operands)
        BY EmptySeq
      <4> QED
        BY <4>1, <3>2, <3>5, ElementOfSeq
    <3>7. u = Append(s, v)
      BY <2>2, <2>3, <3>4, <3>5
    <3>8. u \in Seq(S) /\ Len(u) = Len(s) + 1 /\ u[Len(s) + 1] = v
      BY <3>2, <3>6, <3>7, AppendProperties
    <3>9. Answered' = v
      BY <2>4, <3>8 DEF Answered
    <3>10. e.success = TRUE /\ name \notin LeavesReceiver
      BY <2>7 DEF LeavesFirst
    <3> QED
      BY <2>1, <2>2, <2>4, <3>7, <3>8, <3>9, <3>10 DEF Balances, CallBalances, IsSeq
  <2>8. CASE AddsOne(name, e)
    <3>1. PICK v: e.pushes = <<v>>
      BY <2>8 DEF AddsOne
    <3>2. PICK S: S = R \cup T \cup {v}
      OBVIOUS
    <3>3. s \in Seq(S) /\ operands \in Seq(S) /\ v \in S
      BY <2>5, <3>2, SeqMonotonic
    <3>4. t \in Seq(S)
      BY <2>2, <3>3, ConcatProperties
    <3>5. e.pops = 0 /\ e.unpops = 0
      BY <2>8 DEF AddsOne
    <3>6. u = Append(t, v)
      BY <2>3, <3>1, <3>3, <3>4, <3>5, AnswerAdded
    <3>7. u \in Seq(S) /\ Len(u) = Len(t) + 1 /\ u[Len(t) + 1] = v
      BY <3>3, <3>4, <3>6, AppendProperties
    <3>8. Answered' = v
      BY <2>4, <3>7 DEF Answered
    <3>9. e.success = TRUE /\ name \in LeavesReceiver
      BY <2>8 DEF AddsOne
    <3> QED
      BY <2>1, <2>2, <2>4, <3>6, <3>7, <3>8, <3>9 DEF Balances, CallBalances, IsSeq
  <2>9. CASE PutsBack(name, operands, e)
    <3>1. PICK S: S = R \cup T
      OBVIOUS
    <3>2. s \in Seq(S) /\ operands \in Seq(S)
      BY <2>5, <3>1, SeqMonotonic
    <3>3. t \in Seq(S) /\ Len(t) = Len(s) + Len(operands)
      BY <2>2, <3>2, ConcatProperties
    <3>4. /\ e.pops \in 0 .. Len(operands) /\ e.pushes = <<>> /\ e.unpops = e.pops
          /\ e.success = FALSE
          /\ \/ e.memory = memory
             \/ name \in {"AtPut", "InstVarAtPut"} /\ operands[3] = Other("large32")
      BY <2>9 DEF PutsBack
    <3>5. PICK k \in 0 .. Len(operands): k = e.pops
      BY <3>4
    <3>6. k \in Nat /\ k <= Len(t)
      BY <3>2, <3>3, <3>5, LenProperties
    <3>7. e.pops = k /\ e.pushes = <<>> /\ e.unpops = k
      BY <3>4, <3>5
    <3>8. u = t
      BY <2>3, <3>3, <3>6, <3>7, OperandsPutBack
    <3> QED
      BY <2>1, <2>2, <2>4, <3>3, <3>4, <3>8
      DEF Balances, CallBalances, IsSeq, StoresAndFails
  <2>10. CASE DropsLast(name, e)
    <3>1. PICK S: S = R \cup T
      OBVIOUS
    <3>2. s \in Seq(S) /\ operands \in Seq(S)
      BY <2>5, <3>1, SeqMonotonic
    <3>3. t \in Seq(S)
      BY <2>2, <3>2, ConcatProperties
    <3>4. t # <<>> /\ t[Len(t)] = operands[Len(operands)]
      BY <2>2, <3>2, LastOfConcat
    <3>5. /\ e.pops = 1 /\ e.pushes = <<>> /\ e.unpops = 0
          /\ e.success = FALSE /\ name \in DropsOperand
      BY <2>10 DEF DropsLast
    <3>6. u \in Seq(S) /\ Append(u, t[Len(t)]) = t
      BY <2>3, <3>3, <3>4, <3>5, LastDropped
    <3> QED
      BY <2>1, <2>2, <2>4, <3>4, <3>5, <3>6 DEF Balances, CallBalances, IsSeq
  <2> QED
    BY <1>4, <2>6, <2>7, <2>8, <2>9, <2>10 DEF Balanced, BalancedStack
<1>5. name \notin Storing => Quiet
  BY <1>2 DEF Quiet, Balanced, Called
<1>6. name \notin IntegerOps => NoIntegerOp
  <2>1. running' = FALSE \/ call'.name = name
    BY <1>2
  <2> QED
    BY <2>1 DEF NoIntegerOp, Called
<1> QED
  BY <1>3, <1>4, <1>5, <1>6

(* Calls with one operand to four, and with the seven of scanCharacters.   *)
LEMMA CallOfOne ==
  ASSUME NEW name, NEW a, NEW Effects, Call(name, <<a>>, Effects), IsSeq(stack),
         \A e \in Effects: Balanced(name, <<a>>, e)
  PROVE  /\ Balances
         /\ name \notin Storing => Quiet
         /\ name \notin IntegerOps => NoIntegerOp
<1>1. <<a>> \in Seq({a}) /\ <<a>> # <<>>
  OBVIOUS
<1> QED
  BY <1>1, EffectsBalance

LEMMA CallOfTwo ==
  ASSUME NEW name, NEW a, NEW b, NEW Effects, Call(name, <<a, b>>, Effects),
         IsSeq(stack), \A e \in Effects: Balanced(name, <<a, b>>, e)
  PROVE  /\ Balances
         /\ name \notin Storing => Quiet
         /\ name \notin IntegerOps => NoIntegerOp
<1>1. <<a, b>> \in Seq({a, b}) /\ <<a, b>> # <<>>
  OBVIOUS
<1> QED
  BY <1>1, EffectsBalance

LEMMA CallOfThree ==
  ASSUME NEW name, NEW a, NEW b, NEW c, NEW Effects,
         Call(name, <<a, b, c>>, Effects),
         IsSeq(stack), \A e \in Effects: Balanced(name, <<a, b, c>>, e)
  PROVE  /\ Balances
         /\ name \notin Storing => Quiet
         /\ name \notin IntegerOps => NoIntegerOp
<1>1. <<a, b, c>> \in Seq({a, b, c}) /\ <<a, b, c>> # <<>>
  OBVIOUS
<1> QED
  BY <1>1, EffectsBalance

LEMMA CallOfFour ==
  ASSUME NEW name, NEW a, NEW b, NEW c, NEW d, NEW Effects,
         Call(name, <<a, b, c, d>>, Effects),
         IsSeq(stack), \A e \in Effects: Balanced(name, <<a, b, c, d>>, e)
  PROVE  /\ Balances
         /\ name \notin Storing => Quiet
         /\ name \notin IntegerOps => NoIntegerOp
<1>1. <<a, b, c, d>> \in Seq({a, b, c, d}) /\ <<a, b, c, d>> # <<>>
  OBVIOUS
<1> QED
  BY <1>1, EffectsBalance

(* The effects a primitive is made of are balanced.                        *)
LEMMA BalancedEffects ==
  ASSUME NEW name, name \notin LeavesReceiver, NEW operands, NEW n \in Nat,
         Len(operands) = n
  PROVE  /\ \A v: Balanced(name, operands, Answer(n, v))
         /\ \A v, m: name \in Storing =>
              Balanced(name, operands, AnswerStoring(n, v, m))
         /\ \A c, v: Balanced(name, operands, AnswerIf(c, n, v))
         /\ Balanced(name, operands, Fail(n))
<1>1. \A v: Balanced(name, operands, Answer(n, v))
  BY DEF Balanced, BalancedStack, AnswersOne, Answer, Does
<1>2. \A v, m: name \in Storing => Balanced(name, operands, AnswerStoring(n, v, m))
  BY DEF Balanced, BalancedStack, AnswersOne, AnswerStoring, Does
<1>3. Balanced(name, operands, Fail(n))
  BY DEF Balanced, BalancedStack, PutsBack, Fail, Does
<1>4. \A c, v: Balanced(name, operands, AnswerIf(c, n, v))
  BY <1>1, <1>3 DEF AnswerIf
<1> QED
  BY <1>1, <1>2, <1>3, <1>4

LEMMA BalancedReceiver ==
  ASSUME NEW name, name \notin LeavesReceiver, NEW operands, NEW n \in Nat,
         Len(operands) = n + 1
  PROVE  Balanced(name, operands, AnswerReceiver(n))
<1>1. n = Len(operands) - 1
  OBVIOUS
<1> QED
  BY <1>1 DEF Balanced, BalancedStack, LeavesFirst, AnswerReceiver, Does

LEMMA BalancedFail ==
  ASSUME NEW name, NEW operands, NEW n \in 0 .. Len(operands)
  PROVE  Balanced(name, operands, Fail(n))
BY DEF Balanced, BalancedStack, PutsBack, Fail, Does

LEMMA BalancedDrop ==
  ASSUME NEW name \in DropsOperand, NEW operands
  PROVE  Balanced(name, operands, FailWithout(1))
BY DEF Balanced, BalancedStack, DropsLast, FailWithout, Does

LEMMA BalancedAbort ==
  ASSUME NEW name, NEW operands
  PROVE  Balanced(name, operands, Abort)
BY DEF Balanced, BalancedStack, Abort, Does

LEMMA Lengths ==
  /\ \A a: Len(<<a>>) = 1
  /\ \A a, b: Len(<<a, b>>) = 2
  /\ \A a, b, c: Len(<<a, b, c>>) = 3
  /\ \A a, b, c, d: Len(<<a, b, c, d>>) = 4
OBVIOUS

LEMMA BalancedOne ==
  ASSUME NEW name, name \notin LeavesReceiver, NEW a
  PROVE  /\ \A v: Balanced(name, <<a>>, Answer(1, v))
         /\ \A v, m: name \in Storing =>
              Balanced(name, <<a>>, AnswerStoring(1, v, m))
         /\ \A c, v: Balanced(name, <<a>>, AnswerIf(c, 1, v))
         /\ Balanced(name, <<a>>, Fail(1))
         /\ Balanced(name, <<a>>, AnswerReceiver(0))
<1>1. Len(<<a>>) = 1 /\ 1 \in Nat /\ 0 \in Nat /\ Len(<<a>>) = 0 + 1
  BY Lengths
<1> QED
  BY <1>1, BalancedEffects, BalancedReceiver

LEMMA BalancedTwo ==
  ASSUME NEW name, name \notin LeavesReceiver, NEW a, NEW b
  PROVE  /\ \A v: Balanced(name, <<a, b>>, Answer(2, v))
         /\ \A v, m: name \in Storing =>
              Balanced(name, <<a, b>>, AnswerStoring(2, v, m))
         /\ \A c, v: Balanced(name, <<a, b>>, AnswerIf(c, 2, v))
         /\ Balanced(name, <<a, b>>, Fail(2))
         /\ Balanced(name, <<a, b>>, AnswerReceiver(1))
<1>1. Len(<<a, b>>) = 2 /\ 2 \in Nat /\ 1 \in Nat /\ Len(<<a, b>>) = 1 + 1
  BY Lengths
<1> QED
  BY <1>1, BalancedEffects, BalancedReceiver

LEMMA BalancedThree ==
  ASSUME NEW name, name \notin LeavesReceiver, NEW a, NEW b, NEW c
  PROVE  /\ \A v: Balanced(name, <<a, b, c>>, Answer(3, v))
         /\ \A p, v: Balanced(name, <<a, b, c>>, AnswerIf(p, 3, v))
         /\ Balanced(name, <<a, b, c>>, Fail(3))
         /\ Balanced(name, <<a, b, c>>, AnswerReceiver(2))
<1>1. Len(<<a, b, c>>) = 3 /\ 3 \in Nat /\ 2 \in Nat /\ Len(<<a, b, c>>) = 2 + 1
  BY Lengths
<1> QED
  BY <1>1, BalancedEffects, BalancedReceiver

-----------------------------------------------------------------------------
(* Every primitive balances.                                               *)
LEMMA ArithmeticBalances ==
  ASSUME primitiveArithmetic, IsSeq(stack)
  PROVE  Balances /\ Quiet
<1> DEFINE Effects(name, r, a) ==
      IF Traps(name, r, a) THEN {Abort}
      ELSE IF IsInt(r) /\ IsInt(a)
      THEN {AnswerIf(c.success, 2, Integer(c.value)):
              c \in Computed(name, r[2], a[2])}
      ELSE {Fail(2)}
<1>1. PICK name \in {"Add", "Subtract", "Multiply", "Divide", "Mod", "Div", "Quo",
                     "BitAnd", "BitOr", "BitXor", "BitShift"},
           r \in Operands, a \in Operands:
        Call(name, <<r, a>>, Effects(name, r, a))
  BY DEF primitiveArithmetic
<1>2. name \notin LeavesReceiver \cup Storing
  BY DEF LeavesReceiver, Storing
<1>3. \A e \in Effects(name, r, a): Balanced(name, <<r, a>>, e)
  BY <1>2, BalancedTwo, BalancedAbort
<1> HIDE DEF Effects
<1> QED
  BY <1>1, <1>2, <1>3, CallOfTwo

LEMMA CompareBalances ==
  ASSUME primitiveCompare, IsSeq(stack)
  PROVE  Balances /\ Quiet /\ NoIntegerOp
<1> DEFINE Effects(relation, r, a) ==
      {AnswerIf(IsInt(r) /\ IsInt(a), 2, Boolean(Holds(relation, r[2], a[2])))}
<1>1. PICK relation \in {"<", "<=", ">", ">=", "=", "~="},
           r \in Operands, a \in Operands:
        Call(relation, <<r, a>>, Effects(relation, r, a))
  BY DEF primitiveCompare
<1>2. relation \notin LeavesReceiver \cup Storing \cup IntegerOps
  BY DEF LeavesReceiver, Storing, IntegerOps
<1>3. \A e \in Effects(relation, r, a): Balanced(relation, <<r, a>>, e)
  BY <1>2, BalancedTwo
<1> HIDE DEF Effects
<1> QED
  BY <1>1, <1>2, <1>3, CallOfTwo

LEMMA MakePointBalances ==
  ASSUME primitiveMakePoint, IsSeq(stack)
  PROVE  Balances /\ Quiet /\ NoIntegerOp
<1> DEFINE Effects(x, y) == {AnswerIf(IsInt(x) /\ IsInt(y), 2, Other("newPoint"))}
<1>1. PICK x \in Operands, y \in Operands: Call("MakePoint", <<x, y>>, Effects(x, y))
  BY DEF primitiveMakePoint
<1>2. "MakePoint" \notin LeavesReceiver \cup Storing \cup IntegerOps
  BY DEF LeavesReceiver, Storing, IntegerOps
<1>3. \A e \in Effects(x, y): Balanced("MakePoint", <<x, y>>, e)
  BY <1>2, BalancedTwo
<1> HIDE DEF Effects
<1> QED
  BY <1>1, <1>2, <1>3, CallOfTwo

LEMMA FloatUnaryBalances ==
  ASSUME primitiveFloatUnary, IsSeq(stack)
  PROVE  Balances /\ Quiet /\ NoIntegerOp
<1>1. CASE \E v \in Operands, z \in BOOLEAN:
               Call("AsFloat", <<v>>,
                    {AnswerIf(IsInt(v), 1, Float(z))})
  <2> DEFINE Effects(v, z) ==
        {AnswerIf(IsInt(v), 1, Float(z))}
  <2>1. PICK v \in Operands, z \in BOOLEAN:
          Call("AsFloat", <<v>>, Effects(v, z))
    BY <1>1
  <2>2. "AsFloat" \notin LeavesReceiver \cup Storing \cup IntegerOps
    BY DEF LeavesReceiver, Storing, IntegerOps
  <2>3. \A e \in Effects(v, z):
          Balanced("AsFloat", <<v>>, e)
    BY <2>2, BalancedOne
  <2> HIDE DEF Effects
  <2> QED
    BY <2>1, <2>2, <2>3, CallOfOne
<1>2. CASE \E v \in Floats, z \in BOOLEAN:
               Call("FractionalPart", <<v>>,
                    {AnswerIf(IsFloat(v), 1, Float(z))})
  <2> DEFINE Effects(v, z) ==
        {AnswerIf(IsFloat(v), 1, Float(z))}
  <2>1. PICK v \in Floats, z \in BOOLEAN:
          Call("FractionalPart", <<v>>, Effects(v, z))
    BY <1>2
  <2>2. "FractionalPart" \notin LeavesReceiver \cup Storing \cup IntegerOps
    BY DEF LeavesReceiver, Storing, IntegerOps
  <2>3. \A e \in Effects(v, z):
          Balanced("FractionalPart", <<v>>, e)
    BY <2>2, BalancedOne
  <2> HIDE DEF Effects
  <2> QED
    BY <2>1, <2>2, <2>3, CallOfOne
<1>3. CASE \E v \in Floats:
               Call("Truncated", <<v>>,
                    {Fail(1)}
                      \cup {AnswerIf(IsFloat(v), 1, w): w \in Operands \ {Nil}})
  <2> DEFINE Effects(v) ==
        {Fail(1)}
                      \cup {AnswerIf(IsFloat(v), 1, w): w \in Operands \ {Nil}}
  <2>1. PICK v \in Floats:
          Call("Truncated", <<v>>, Effects(v))
    BY <1>3
  <2>2. "Truncated" \notin LeavesReceiver \cup Storing \cup IntegerOps
    BY DEF LeavesReceiver, Storing, IntegerOps
  <2>3. \A e \in Effects(v):
          Balanced("Truncated", <<v>>, e)
    BY <2>2, BalancedOne
  <2> HIDE DEF Effects
  <2> QED
    BY <2>1, <2>2, <2>3, CallOfOne
<1> QED
  BY <1>1, <1>2, <1>3 DEF primitiveFloatUnary

LEMMA FloatBinaryBalances ==
  ASSUME primitiveFloatBinary, IsSeq(stack)
  PROVE  Balances /\ Quiet /\ NoIntegerOp
<1>1. CASE \E r \in Floats, a \in Floats, b \in BOOLEAN:
               Call("FloatArithmetic", <<r, a>>,
                    {AnswerIf(IsFloat(r) /\ IsFloat(a), 2, Float(b))})
  <2> DEFINE Effects(r, a, b) ==
        {AnswerIf(IsFloat(r) /\ IsFloat(a), 2, Float(b))}
  <2>1. PICK r \in Floats, a \in Floats, b \in BOOLEAN:
          Call("FloatArithmetic", <<r, a>>, Effects(r, a, b))
    BY <1>1
  <2>2. "FloatArithmetic" \notin LeavesReceiver \cup Storing \cup IntegerOps
    BY DEF LeavesReceiver, Storing, IntegerOps
  <2>3. \A e \in Effects(r, a, b):
          Balanced("FloatArithmetic", <<r, a>>, e)
    BY <2>2, BalancedTwo
  <2> HIDE DEF Effects
  <2> QED
    BY <2>1, <2>2, <2>3, CallOfTwo
<1>2. CASE \E r \in Floats, a \in Floats, b \in BOOLEAN:
               Call("FloatDivide", <<r, a>>,
                    {AnswerIf((IsFloat(r) /\ IsFloat(a)) /\ a # Float(TRUE), 2,
                              Float(b))})
  <2> DEFINE Effects(r, a, b) ==
        {AnswerIf((IsFloat(r) /\ IsFloat(a)) /\ a # Float(TRUE), 2,
                              Float(b))}
  <2>1. PICK r \in Floats, a \in Floats, b \in BOOLEAN:
          Call("FloatDivide", <<r, a>>, Effects(r, a, b))
    BY <1>2
  <2>2. "FloatDivide" \notin LeavesReceiver \cup Storing \cup IntegerOps
    BY DEF LeavesReceiver, Storing, IntegerOps
  <2>3. \A e \in Effects(r, a, b):
          Balanced("FloatDivide", <<r, a>>, e)
    BY <2>2, BalancedTwo
  <2> HIDE DEF Effects
  <2> QED
    BY <2>1, <2>2, <2>3, CallOfTwo
<1>3. CASE \E r \in Floats, a \in Floats, b \in BOOLEAN:
               Call("FloatCompare", <<r, a>>,
                    {AnswerIf(IsFloat(r) /\ IsFloat(a), 2, Boolean(b))})
  <2> DEFINE Effects(r, a, b) ==
        {AnswerIf(IsFloat(r) /\ IsFloat(a), 2, Boolean(b))}
  <2>1. PICK r \in Floats, a \in Floats, b \in BOOLEAN:
          Call("FloatCompare", <<r, a>>, Effects(r, a, b))
    BY <1>3
  <2>2. "FloatCompare" \notin LeavesReceiver \cup Storing \cup IntegerOps
    BY DEF LeavesReceiver, Storing, IntegerOps
  <2>3. \A e \in Effects(r, a, b):
          Balanced("FloatCompare", <<r, a>>, e)
    BY <2>2, BalancedTwo
  <2> HIDE DEF Effects
  <2> QED
    BY <2>1, <2>2, <2>3, CallOfTwo
<1> QED
  BY <1>1, <1>2, <1>3 DEF primitiveFloatBinary

LEMMA AtBalances ==
  ASSUME primitiveAt, IsSeq(stack)
  PROVE  Balances /\ Quiet /\ NoIntegerOp
<1> DEFINE Effects(array, index) ==
      {IF ~Indexed(index, array) THEN Fail(2)
       ELSE IF ~Inside(index, array) THEN Abort
       ELSE Answer(2, subscript(array, index[2] + FixedFields(ClassOf(array))))}
<1>1. PICK array \in Receivers, index \in Indices:
        Call("At", <<array, index>>, Effects(array, index))
  BY DEF primitiveAt
<1>2. "At" \notin LeavesReceiver \cup Storing \cup IntegerOps
  BY DEF LeavesReceiver, Storing, IntegerOps
<1>3. \A e \in Effects(array, index):
        Balanced("At", <<array, index>>, e)
  BY <1>2, BalancedTwo, BalancedAbort
<1> HIDE DEF Effects
<1> QED
  BY <1>1, <1>2, <1>3, CallOfTwo

LEMMA SizeBalances ==
  ASSUME primitiveSize, IsSeq(stack)
  PROVE  Balances /\ Quiet /\ NoIntegerOp
<1> DEFINE Effects(array) ==
      {IF IsInt(array) THEN Fail(1)
       ELSE Answer(1, positive16BitIntegerFor(
                        LengthOf(array) - FixedFields(ClassOf(array))))}
<1>1. PICK array \in Receivers \cup {Integer(2)}:
        Call("Size", <<array>>, Effects(array))
  BY DEF primitiveSize
<1>2. "Size" \notin LeavesReceiver \cup Storing \cup IntegerOps
  BY DEF LeavesReceiver, Storing, IntegerOps
<1>3. \A e \in Effects(array):
        Balanced("Size", <<array>>, e)
  BY <1>2, BalancedOne
<1> HIDE DEF Effects
<1> QED
  BY <1>1, <1>2, <1>3, CallOfOne

LEMMA StringAtBalances ==
  ASSUME primitiveStringAt, IsSeq(stack)
  PROVE  Balances /\ Quiet /\ NoIntegerOp
<1> DEFINE Effects(array, index) ==
      {IF Indexed(index, array)
       THEN Answer(2, Char(Fields(array)[index[2]])) ELSE Fail(2)}
<1>1. PICK array \in {r \in Receivers: ClassOf(r) = "String"}, index \in Indices:
        Call("StringAt", <<array, index>>, Effects(array, index))
  BY DEF primitiveStringAt
<1>2. "StringAt" \notin LeavesReceiver \cup Storing \cup IntegerOps
  BY DEF LeavesReceiver, Storing, IntegerOps
<1>3. \A e \in Effects(array, index):
        Balanced("StringAt", <<array, index>>, e)
  BY <1>2, BalancedTwo
<1> HIDE DEF Effects
<1> QED
  BY <1>1, <1>2, <1>3, CallOfTwo

LEMMA StreamNextBalances ==
  ASSUME primitiveNext, IsSeq(stack)
  PROVE  Balances /\ NoIntegerOp
<1> DEFINE Effects(stream) ==
      {IF MayAdvance(stream, ReadLimit(stream))
       THEN LET result == subscript(Collection(stream), Position(stream) + 1)
            IN  AnswerStoring(1,
                  IF ClassOf(Collection(stream)) = "Array" THEN result
                  ELSE Char(result[2]), Advanced(memory, stream))
       ELSE Fail(1)}
<1>1. PICK stream \in Streams:
        Call("Next", <<stream>>, Effects(stream))
  BY DEF primitiveNext
<1>2. "Next" \notin LeavesReceiver /\ "Next" \in Storing \ IntegerOps
  BY DEF LeavesReceiver, Storing, IntegerOps
<1>3. \A e \in Effects(stream):
        Balanced("Next", <<stream>>, e)
  BY <1>2, BalancedOne
<1> HIDE DEF Effects
<1> QED
  BY <1>1, <1>2, <1>3, CallOfOne

LEMMA AtEndBalances ==
  ASSUME primitiveAtEnd, IsSeq(stack)
  PROVE  Balances /\ Quiet /\ NoIntegerOp
<1> DEFINE Effects(stream) ==
      {AnswerIf(Streamable(stream), 1,
                Boolean(\/ Position(stream) >= ReadLimit(stream)
                        \/ Position(stream) >= LengthOf(Collection(stream))))}
<1>1. PICK stream \in Streams:
        Call("AtEnd", <<stream>>, Effects(stream))
  BY DEF primitiveAtEnd
<1>2. "AtEnd" \notin LeavesReceiver \cup Storing \cup IntegerOps
  BY DEF LeavesReceiver, Storing, IntegerOps
<1>3. \A e \in Effects(stream):
        Balanced("AtEnd", <<stream>>, e)
  BY <1>2, BalancedOne
<1> HIDE DEF Effects
<1> QED
  BY <1>1, <1>2, <1>3, CallOfOne

LEMMA InstVarAtBalances ==
  ASSUME primitiveInstVarAt, IsSeq(stack)
  PROVE  Balances /\ Quiet /\ NoIntegerOp
<1> DEFINE Effects(object, index) ==
      {IF IsInt(index) /\ checkIndexableBounds(index[2], object)
       THEN Answer(2, subscript(object, index[2])) ELSE Fail(2)}
<1>1. PICK object \in Receivers, index \in Indices:
        Call("InstVarAt", <<object, index>>, Effects(object, index))
  BY DEF primitiveInstVarAt
<1>2. "InstVarAt" \notin LeavesReceiver \cup Storing \cup IntegerOps
  BY DEF LeavesReceiver, Storing, IntegerOps
<1>3. \A e \in Effects(object, index):
        Balanced("InstVarAt", <<object, index>>, e)
  BY <1>2, BalancedTwo
<1> HIDE DEF Effects
<1> QED
  BY <1>1, <1>2, <1>3, CallOfTwo

LEMMA BecomeBalances ==
  ASSUME primitiveBecome, IsSeq(stack)
  PROVE  Balances /\ NoIntegerOp
<1> DEFINE Effects(receiver, other) ==
      {IF IsInt(receiver) \/ IsInt(other) THEN Fail(2)
       ELSE AnswerStoring(2, receiver,
              [memory EXCEPT ![receiver[1]] = memory[other[1]],
                             ![other[1]] = memory[receiver[1]]])}
<1>1. PICK receiver \in {r \in Receivers: ClassOf(r) = "Set"} \cup {Integer(2)},
           other \in {r \in Receivers: ClassOf(r) = "Bitmap"} \cup {Integer(2)}:
        Call("Become", <<receiver, other>>, Effects(receiver, other))
  BY DEF primitiveBecome
<1>2. "Become" \notin LeavesReceiver /\ "Become" \in Storing \ IntegerOps
  BY DEF LeavesReceiver, Storing, IntegerOps
<1>3. \A e \in Effects(receiver, other):
        Balanced("Become", <<receiver, other>>, e)
  BY <1>2, BalancedTwo
<1> HIDE DEF Effects
<1> QED
  BY <1>1, <1>2, <1>3, CallOfTwo

LEMMA NewBalances ==
  ASSUME primitiveNew, IsSeq(stack)
  PROVE  Balances /\ Quiet /\ NoIntegerOp
<1> DEFINE Effects(class) ==
      {AnswerIf(~IsIndexable(class), 1, Other("newObject"))}
<1>1. PICK class \in {"Array", "Point"}:
        Call("New", <<Other(class)>>, Effects(class))
  BY DEF primitiveNew
<1>2. "New" \notin LeavesReceiver \cup Storing \cup IntegerOps
  BY DEF LeavesReceiver, Storing, IntegerOps
<1>3. \A e \in Effects(class):
        Balanced("New", <<Other(class)>>, e)
  BY <1>2, BalancedOne
<1> HIDE DEF Effects
<1> QED
  BY <1>1, <1>2, <1>3, CallOfOne

LEMMA NewWithArgBalances ==
  ASSUME primitiveNewWithArg, IsSeq(stack)
  PROVE  Balances /\ Quiet /\ NoIntegerOp
<1> DEFINE Effects(class, size) ==
      {IF ~positive16BitValueOf(size).success \/ size[2] > WordSize - 3
          \/ ~IsIndexable(class) THEN Fail(2)
       ELSE IF size[2] < 0 THEN Abort ELSE Answer(2, Other("newObject"))}
<1>1. PICK class \in {"Array", "Point"}, size \in Indices:
        Call("NewWithArg", <<Other(class), size>>, Effects(class, size))
  BY DEF primitiveNewWithArg
<1>2. "NewWithArg" \notin LeavesReceiver \cup Storing \cup IntegerOps
  BY DEF LeavesReceiver, Storing, IntegerOps
<1>3. \A e \in Effects(class, size):
        Balanced("NewWithArg", <<Other(class), size>>, e)
  BY <1>2, BalancedTwo, BalancedAbort
<1> HIDE DEF Effects
<1> QED
  BY <1>1, <1>2, <1>3, CallOfTwo

LEMMA NewMethodBalances ==
  ASSUME primitiveNewMethod, IsSeq(stack)
  PROVE  Balances /\ Quiet /\ NoIntegerOp
<1> DEFINE Effects ==
      {Answer(3, Other("newObject"))}
<1>1. Call("NewMethod", <<Other("aClass"), Integer(2), Integer(1)>>, Effects)
  BY DEF primitiveNewMethod
<1>2. "NewMethod" \notin LeavesReceiver \cup Storing \cup IntegerOps
  BY DEF LeavesReceiver, Storing, IntegerOps
<1>3. \A e \in Effects:
        Balanced("NewMethod", <<Other("aClass"), Integer(2), Integer(1)>>, e)
  BY <1>2, BalancedThree
<1> HIDE DEF Effects
<1> QED
  BY <1>1, <1>2, <1>3, CallOfThree

LEMMA AsOopBalances ==
  ASSUME primitiveAsOop, IsSeq(stack)
  PROVE  Balances /\ Quiet /\ NoIntegerOp
<1> DEFINE Effects(v) ==
      {AnswerIf(~IsInt(v), 1, Integer(1))}
<1>1. PICK v \in {Integer(2), Nil}:
        Call("AsOop", <<v>>, Effects(v))
  BY DEF primitiveAsOop
<1>2. "AsOop" \notin LeavesReceiver \cup Storing \cup IntegerOps
  BY DEF LeavesReceiver, Storing, IntegerOps
<1>3. \A e \in Effects(v):
        Balanced("AsOop", <<v>>, e)
  BY <1>2, BalancedOne
<1> HIDE DEF Effects
<1> QED
  BY <1>1, <1>2, <1>3, CallOfOne

LEMMA AsObjectBalances ==
  ASSUME primitiveAsObject, IsSeq(stack)
  PROVE  Balances /\ Quiet /\ NoIntegerOp
<1> DEFINE Effects ==
      {Fail(1), Answer(1, Nil)}
<1>1. Call("AsObject", <<Integer(1)>>, Effects)
  BY DEF primitiveAsObject
<1>2. "AsObject" \notin LeavesReceiver \cup Storing \cup IntegerOps
  BY DEF LeavesReceiver, Storing, IntegerOps
<1>3. \A e \in Effects:
        Balanced("AsObject", <<Integer(1)>>, e)
  BY <1>2, BalancedOne
<1> HIDE DEF Effects
<1> QED
  BY <1>1, <1>2, <1>3, CallOfOne

LEMMA ObjectAtBalances ==
  ASSUME primitiveObjectAt, IsSeq(stack)
  PROVE  Balances /\ Quiet /\ NoIntegerOp
<1>1. CASE \E index \in Indices:
               Call("ObjectAt", <<Other("aMethod"), index>>,
                    {AnswerIf(IsInt(index) /\ index[2] \in 1 .. 2, 2, Nil)})
  <2> DEFINE Effects(index) ==
        {AnswerIf(IsInt(index) /\ index[2] \in 1 .. 2, 2, Nil)}
  <2>1. PICK index \in Indices:
          Call("ObjectAt", <<Other("aMethod"), index>>, Effects(index))
    BY <1>1
  <2>2. "ObjectAt" \notin LeavesReceiver \cup Storing \cup IntegerOps
    BY DEF LeavesReceiver, Storing, IntegerOps
  <2>3. \A e \in Effects(index):
          Balanced("ObjectAt", <<Other("aMethod"), index>>, e)
    BY <2>2, BalancedTwo
  <2> HIDE DEF Effects
  <2> QED
    BY <2>1, <2>2, <2>3, CallOfTwo
<1>2. CASE \E index \in Indices:
               Call("ObjectAtPut", <<Other("aMethod"), index, Nil>>,
                    {AnswerIf(IsInt(index) /\ index[2] \in 1 .. 2, 3, Nil)})
  <2> DEFINE Effects(index) ==
        {AnswerIf(IsInt(index) /\ index[2] \in 1 .. 2, 3, Nil)}
  <2>1. PICK index \in Indices:
          Call("ObjectAtPut", <<Other("aMethod"), index, Nil>>, Effects(index))
    BY <1>2
  <2>2. "ObjectAtPut" \notin LeavesReceiver \cup Storing \cup IntegerOps
    BY DEF LeavesReceiver, Storing, IntegerOps
  <2>3. \A e \in Effects(index):
          Balanced("ObjectAtPut", <<Other("aMethod"), index, Nil>>, e)
    BY <2>2, BalancedThree
  <2> HIDE DEF Effects
  <2> QED
    BY <2>1, <2>2, <2>3, CallOfThree
<1> QED
  BY <1>1, <1>2 DEF primitiveObjectAt

LEMMA ValueAnswered ==
  ASSUME AnswersValue, IsSeq(stack)
  PROVE  Balances /\ Quiet /\ NoIntegerOp
<1> DEFINE Effects(name) ==
      {Answer(1, Other(IF name = "Snapshot" THEN "nil" ELSE "answer"))}
<1>1. PICK name \in {"MousePoint", "CoreLeft", "OopsLeft", "Class",
                     "PosixLastErrorOperation", "Snapshot"}:
        Call(name, <<Other("receiver")>>, Effects(name))
  BY DEF AnswersValue
<1>2. name \notin LeavesReceiver \cup Storing \cup IntegerOps
  BY DEF LeavesReceiver, Storing, IntegerOps
<1>3. \A e \in Effects(name):
        Balanced(name, <<Other("receiver")>>, e)
  BY <1>2, BalancedOne
<1> HIDE DEF Effects
<1> QED
  BY <1>1, <1>2, <1>3, CallOfOne

LEMMA ArgumentTaken ==
  ASSUME TakesArgument, IsSeq(stack)
  PROVE  Balances /\ Quiet /\ NoIntegerOp
<1> DEFINE Effects(name, v) ==
      {IF \/ name = "CursorLocPut" /\ v[1] # "point"
          \/ name \in {"InputSemaphore", "StdinInputSemaphore"}
               /\ ~SemaphoreOrNil(v)
       THEN Fail(1) ELSE AnswerReceiver(1)}
<1>1. PICK name \in {"CursorLocPut", "CursorLink", "InputSemaphore",
                     "StdinInputSemaphore", "TimeWordsInto", "TickWordsInto"},
           v \in {Other("semaphore"), Other("point"), Nil}:
        Call(name, <<Other("receiver"), v>>, Effects(name, v))
  BY DEF TakesArgument
<1>2. name \notin LeavesReceiver \cup Storing \cup IntegerOps
  BY DEF LeavesReceiver, Storing, IntegerOps
<1>3. \A e \in Effects(name, v):
        Balanced(name, <<Other("receiver"), v>>, e)
  BY <1>2, BalancedTwo, BalancedFail, Lengths
<1> HIDE DEF Effects
<1> QED
  BY <1>1, <1>2, <1>3, CallOfTwo

LEMMA EquivalentBalances ==
  ASSUME primitiveEquivalent, IsSeq(stack)
  PROVE  Balances /\ Quiet /\ NoIntegerOp
<1> DEFINE Effects(a, b) ==
      {Answer(2, Boolean(a = b))}
<1>1. PICK a \in {Integer(2), Nil}, b \in {Integer(2), Nil}:
        Call("Equivalent", <<a, b>>, Effects(a, b))
  BY DEF primitiveEquivalent
<1>2. "Equivalent" \notin LeavesReceiver \cup Storing \cup IntegerOps
  BY DEF LeavesReceiver, Storing, IntegerOps
<1>3. \A e \in Effects(a, b):
        Balanced("Equivalent", <<a, b>>, e)
  BY <1>2, BalancedTwo
<1> HIDE DEF Effects
<1> QED
  BY <1>1, <1>2, <1>3, CallOfTwo

LEMMA ErrorStringBalances ==
  ASSUME PosixErrorString, IsSeq(stack)
  PROVE  Balances /\ Quiet /\ NoIntegerOp
<1> DEFINE Effects(code) ==
      {AnswerIf(IsInt(code), 2, Other("aString"))}
<1>1. PICK code \in {Integer(2), Nil}:
        Call("PosixErrorStringOperation", <<Other("receiver"), code>>, Effects(code))
  BY DEF PosixErrorString
<1>2. "PosixErrorStringOperation" \notin LeavesReceiver \cup Storing \cup IntegerOps
  BY DEF LeavesReceiver, Storing, IntegerOps
<1>3. \A e \in Effects(code):
        Balanced("PosixErrorStringOperation", <<Other("receiver"), code>>, e)
  BY <1>2, BalancedTwo
<1> HIDE DEF Effects
<1> QED
  BY <1>1, <1>2, <1>3, CallOfTwo

LEMMA InstancesBalance ==
  ASSUME primitiveInstances, IsSeq(stack)
  PROVE  Balances /\ Quiet /\ NoIntegerOp
<1> DEFINE Effects == {FailWithout(1), Answer(1, Other("instance"))}
<1>1. PICK name \in {"SomeInstance", "NextInstance"}: Call(name, <<Nil>>, Effects)
  BY DEF primitiveInstances
<1>2. name \notin LeavesReceiver \cup Storing \cup IntegerOps /\ name \in DropsOperand
  BY DEF LeavesReceiver, DropsOperand, Storing, IntegerOps
<1>3. \A e \in Effects: Balanced(name, <<Nil>>, e)
  BY <1>2, BalancedOne, BalancedDrop
<1> HIDE DEF Effects
<1> QED
  BY <1>1, <1>2, <1>3, CallOfOne

LEMMA ReceiverAnswered ==
  ASSUME AnswersReceiver, IsSeq(stack)
  PROVE  Balances /\ Quiet /\ NoIntegerOp
<1>1. CASE \E name \in {"BeCursor", "BeSnapshotFile", "Quit", "ExitToDebugger",
                        "FlushCache"}:
             Call(name, <<Other("receiver")>>, {AnswerReceiver(0)})
  <2> DEFINE Effects == {AnswerReceiver(0)}
  <2>1. PICK name \in {"BeCursor", "BeSnapshotFile", "Quit", "ExitToDebugger",
                       "FlushCache"}: Call(name, <<Other("receiver")>>, Effects)
    BY <1>1
  <2>2. name \notin LeavesReceiver \cup Storing \cup IntegerOps
    BY DEF LeavesReceiver, Storing, IntegerOps
  <2>3. \A e \in Effects: Balanced(name, <<Other("receiver")>>, e)
    BY <2>2, BalancedOne
  <2> HIDE DEF Effects
  <2> QED
    BY <2>1, <2>2, <2>3, CallOfOne
<1>2. CASE \E name \in {"CopyBits", "BeDisplay", "SampleInterval"}, fails \in BOOLEAN:
             /\ name = "SampleInterval" => fails
             /\ Call(name, <<Other("receiver")>>,
                     {IF fails THEN Fail(0) ELSE AnswerReceiver(0)})
  <2> DEFINE Effects(fails) == {IF fails THEN Fail(0) ELSE AnswerReceiver(0)}
  <2>1. PICK name \in {"CopyBits", "BeDisplay", "SampleInterval"}, fails \in BOOLEAN:
          Call(name, <<Other("receiver")>>, Effects(fails))
    BY <1>2
  <2>2. name \notin LeavesReceiver \cup Storing \cup IntegerOps
    BY DEF LeavesReceiver, Storing, IntegerOps
  <2>3. Balanced(name, <<Other("receiver")>>, Fail(0))
    <3>1. 0 \in 0 .. Len(<<Other("receiver")>>)
      BY Lengths
    <3> QED
      BY <3>1, BalancedFail
  <2>4. \A e \in Effects(fails): Balanced(name, <<Other("receiver")>>, e)
    BY <2>2, <2>3, BalancedOne
  <2> HIDE DEF Effects
  <2> QED
    BY <2>1, <2>2, <2>4, CallOfOne
<1> QED
  BY <1>1, <1>2 DEF AnswersReceiver

LEMMA SignalAtBalances ==
  ASSUME primitiveSignalAt, IsSeq(stack)
  PROVE  Balances /\ Quiet /\ NoIntegerOp
<1>1. CASE \E v \in {Other("semaphore"), Other("point")}, limit \in {Integer(2), Nil}:
             Call("SignalAtTick", <<Other("receiver"), v, Other("time")>>,
                  {IF SemaphoreOrNil(v) THEN AnswerReceiver(2) ELSE Fail(2)})
  <2> DEFINE Effects(v) == {IF SemaphoreOrNil(v) THEN AnswerReceiver(2) ELSE Fail(2)}
  <2>1. PICK v \in {Other("semaphore"), Other("point")}:
          Call("SignalAtTick", <<Other("receiver"), v, Other("time")>>, Effects(v))
    BY <1>1
  <2>2. "SignalAtTick" \notin LeavesReceiver \cup Storing \cup IntegerOps
    BY DEF LeavesReceiver, Storing, IntegerOps
  <2>3. Balanced("SignalAtTick", <<Other("receiver"), v, Other("time")>>, Fail(2))
    <3>1. 2 \in 0 .. Len(<<Other("receiver"), v, Other("time")>>)
      BY Lengths
    <3> QED
      BY <3>1, BalancedFail
  <2>4. \A e \in Effects(v):
          Balanced("SignalAtTick", <<Other("receiver"), v, Other("time")>>, e)
    BY <2>2, <2>3, BalancedThree
  <2> HIDE DEF Effects
  <2> QED
    BY <2>1, <2>2, <2>4, CallOfThree
<1>2. CASE \E v \in {Other("semaphore"), Other("point")}, limit \in {Integer(2), Nil}:
             Call("SignalAtOopsLeftWordsLeft",
                  <<Other("receiver"), v, limit, Integer(2)>>,
                  {IF SemaphoreOrNil(v) /\ IsInt(limit) THEN AnswerReceiver(3)
                   ELSE Fail(3)})
  <2> DEFINE Effects(v, limit) ==
        {IF SemaphoreOrNil(v) /\ IsInt(limit) THEN AnswerReceiver(3) ELSE Fail(3)}
      Given(v, limit) == <<Other("receiver"), v, limit, Integer(2)>>
  <2>1. PICK v \in {Other("semaphore"), Other("point")}, limit \in {Integer(2), Nil}:
          Call("SignalAtOopsLeftWordsLeft", Given(v, limit), Effects(v, limit))
    BY <1>2
  <2>2. "SignalAtOopsLeftWordsLeft" \notin LeavesReceiver \cup Storing \cup IntegerOps
    BY DEF LeavesReceiver, Storing, IntegerOps
  <2>3. Len(Given(v, limit)) = 3 + 1 /\ 3 \in 0 .. Len(Given(v, limit)) /\ 3 \in Nat
    BY Lengths
  <2>4. \A e \in Effects(v, limit):
          Balanced("SignalAtOopsLeftWordsLeft", Given(v, limit), e)
    BY <2>2, <2>3, BalancedReceiver, BalancedFail
  <2> HIDE DEF Effects
  <2> QED
    BY <2>1, <2>2, <2>4, CallOfFour
<1> QED
  BY <1>1, <1>2 DEF primitiveSignalAt

LEMMA InputWordBalances ==
  ASSUME primitiveInputWord, IsSeq(stack)
  PROVE  Balances /\ Quiet /\ NoIntegerOp
<1> DEFINE Effects == {FailWithout(0), Answer(1, Other("answer"))}
<1>1. Call("InputWord", <<Other("receiver")>>, Effects)
  BY DEF primitiveInputWord
<1>2. "InputWord" \notin LeavesReceiver \cup Storing \cup IntegerOps
  BY DEF LeavesReceiver, Storing, IntegerOps
<1>3. Balanced("InputWord", <<Other("receiver")>>, FailWithout(0))
  <2>1. 0 \in 0 .. Len(<<Other("receiver")>>)
    BY Lengths
  <2> QED
    BY <2>1 DEF Balanced, BalancedStack, PutsBack, FailWithout, Does
<1>4. \A e \in Effects: Balanced("InputWord", <<Other("receiver")>>, e)
  BY <1>2, <1>3, BalancedOne
<1> HIDE DEF Effects
<1> QED
  BY <1>1, <1>2, <1>4, CallOfOne

LEMMA OntoPushed ==
  ASSUME PushesOnto, IsSeq(stack)
  PROVE  Balances /\ Quiet /\ NoIntegerOp
<1> DEFINE Effects == {Answer(0, Other("aString"))}
<1>1. PICK name \in LeavesReceiver: Call(name, <<Other("receiver")>>, Effects)
  BY DEF PushesOnto, LeavesReceiver
<1>2. \A e \in Effects: Balanced(name, <<Other("receiver")>>, e)
  BY DEF Balanced, BalancedStack, AddsOne, Answer, Does
<1>3. name \notin Storing \cup IntegerOps
  BY DEF LeavesReceiver, Storing, IntegerOps
<1> HIDE DEF Effects
<1> QED
  BY <1>1, <1>2, <1>3, CallOfOne

LEMMA ShowStdoutBalances ==
  ASSUME primitiveShowStdout, IsSeq(stack)
  PROVE  Balances /\ Quiet /\ NoIntegerOp
<1> DEFINE Effects(v) ==
      {IF v[1] = "aString" THEN AnswerReceiver(1) ELSE FailWithout(1)}
<1>1. PICK v \in {Other("aString"), Nil}:
        Call("ShowStdout", <<Other("receiver"), v>>, Effects(v))
  BY DEF primitiveShowStdout
<1>2. /\ "ShowStdout" \notin LeavesReceiver \cup Storing \cup IntegerOps
      /\ "ShowStdout" \in DropsOperand
  BY DEF LeavesReceiver, DropsOperand, Storing, IntegerOps
<1>3. \A e \in Effects(v): Balanced("ShowStdout", <<Other("receiver"), v>>, e)
  BY <1>2, BalancedTwo, BalancedDrop
<1> HIDE DEF Effects
<1> QED
  BY <1>1, <1>2, <1>3, CallOfTwo

LEMMA ScanCharactersBalances ==
  ASSUME primitiveScanCharacters, IsSeq(stack)
  PROVE  Balances /\ Quiet /\ NoIntegerOp
<1> DEFINE operands ==
      <<Other("receiver"), Integer(1), Integer(1), Nil, Integer(1), Nil, Nil>>
    Effects(answers) == {AnswerIf(answers, 7, Other("stop"))}
<1>1. PICK answers \in BOOLEAN: Call("ScanCharacters", operands, Effects(answers))
  BY DEF primitiveScanCharacters
<1>2. "ScanCharacters" \notin LeavesReceiver \cup Storing \cup IntegerOps
  BY DEF LeavesReceiver, Storing, IntegerOps
<1>3. /\ Len(operands) = 7 /\ 7 \in Nat /\ operands # <<>>
      /\ operands \in Seq({Other("receiver"), Integer(1), Nil})
  OBVIOUS
<1>4. \A e \in Effects(answers): Balanced("ScanCharacters", operands, e)
  BY <1>2, <1>3, BalancedEffects
<1> HIDE DEF Effects, operands
<1> QED
  BY <1>1, <1>2, <1>3, <1>4, EffectsBalance

(* A store answers, or it fails and has changed memory for an integer of   *)
(* 32 bits only.                                                           *)
LEMMA FailedStoreLeaves ==
  ASSUME NEW array, NEW index, NEW value \in Values, ~Storable(array, value),
         value # Other("large32")
  PROVE  StoringLeaves(array, index, value) = memory
<1>1. /\ ~IsPointers(ClassOf(array)) /\ ~IsInt(value)
      /\ ~(Words(ClassOf(array)) /\ value[1] = "large")
  BY DEF Storable
<1>2. value[1] # "large32"
  BY DEF Values, Integer, Large, Other, Char
<1>3. ~(Words(ClassOf(array)) /\ value[1] \in {"int", "large", "large32"})
  BY <1>1, <1>2 DEF IsInt
<1> QED
  BY <1>1, <1>3 DEF StoringLeaves

LEMMA StoreBalances ==
  ASSUME NEW name \in Storing, name \notin LeavesReceiver,
         NEW operands, NEW n \in Nat, Len(operands) = n, NEW array, NEW index,
         NEW value, NEW answer,
         \/ Storable(array, value)
         \/ /\ name \in {"AtPut", "InstVarAtPut"}
            /\ operands[3] = value /\ value \in Values
  PROVE  Balanced(name, operands, Store(n, array, index, value, answer))
<1>1. CASE Storable(array, value)
  BY <1>1 DEF Store, Does, Balanced, BalancedStack, AnswersOne
<1>2. CASE ~Storable(array, value)
  <2>1. /\ Store(n, array, index, value, answer).success = FALSE
        /\ Store(n, array, index, value, answer).pops = n
        /\ Store(n, array, index, value, answer).pushes = <<>>
        /\ Store(n, array, index, value, answer).unpops = n
        /\ Store(n, array, index, value, answer).memory
             = StoringLeaves(array, index, value)
    BY <1>2 DEF Store, Does
  <2>2. \/ StoringLeaves(array, index, value) = memory
        \/ operands[3] = Other("large32")
    BY <1>2, FailedStoreLeaves
  <2>3. n \in 0 .. Len(operands)
    OBVIOUS
  <2> QED
    BY <1>2, <2>1, <2>2, <2>3 DEF Balanced, BalancedStack, PutsBack
<1> QED
  BY <1>1, <1>2

LEMMA AtPutBalances ==
  ASSUME primitiveAtPut, IsSeq(stack)
  PROVE  Balances /\ NoIntegerOp
<1> DEFINE Effects(array, index, value) ==
      {IF ~Indexed(index, array) THEN Fail(3)
       ELSE IF ~Inside(index, array) THEN Abort
       ELSE Store(3, array, index[2] + FixedFields(ClassOf(array)), value, value)}
<1>1. PICK array \in Receivers, index \in Indices, value \in Values:
        Call("AtPut", <<array, index, value>>, Effects(array, index, value))
  BY DEF primitiveAtPut
<1>2. "AtPut" \notin LeavesReceiver /\ "AtPut" \in Storing \ IntegerOps
  BY DEF LeavesReceiver, Storing, IntegerOps
<1>3. \A i: Balanced("AtPut", <<array, index, value>>,
                     Store(3, array, i, value, value))
  <2>1. Len(<<array, index, value>>) = 3 /\ 3 \in Nat
        /\ <<array, index, value>>[3] = value
    OBVIOUS
  <2> QED
    BY <1>2, <2>1, StoreBalances
<1>4. \A e \in Effects(array, index, value):
        Balanced("AtPut", <<array, index, value>>, e)
  BY <1>2, <1>3, BalancedThree, BalancedAbort
<1> HIDE DEF Effects
<1> QED
  BY <1>1, <1>2, <1>4, CallOfThree

LEMMA InstVarAtPutBalances ==
  ASSUME primitiveInstVarAtPut, IsSeq(stack)
  PROVE  Balances /\ NoIntegerOp
<1> DEFINE Effects(object, index, value) ==
      {IF IsInt(index) /\ checkIndexableBounds(index[2], object)
       THEN Store(3, object, index[2], value, value) ELSE Fail(3)}
<1>1. PICK object \in {r \in Receivers: ClassOf(r) \notin {"Stream"}},
           index \in Indices, value \in Values:
        Call("InstVarAtPut", <<object, index, value>>, Effects(object, index, value))
  BY DEF primitiveInstVarAtPut
<1>2. "InstVarAtPut" \notin LeavesReceiver /\ "InstVarAtPut" \in Storing \ IntegerOps
  BY DEF LeavesReceiver, Storing, IntegerOps
<1>3. \A i: Balanced("InstVarAtPut", <<object, index, value>>,
                     Store(3, object, i, value, value))
  <2>1. Len(<<object, index, value>>) = 3 /\ 3 \in Nat
        /\ <<object, index, value>>[3] = value
    OBVIOUS
  <2> QED
    BY <1>2, <2>1, StoreBalances
<1>4. \A e \in Effects(object, index, value):
        Balanced("InstVarAtPut", <<object, index, value>>, e)
  BY <1>2, <1>3, BalancedThree
<1> HIDE DEF Effects
<1> QED
  BY <1>1, <1>2, <1>4, CallOfThree

LEMMA StringAtPutBalances ==
  ASSUME primitiveStringAtPut, IsSeq(stack)
  PROVE  Balances /\ NoIntegerOp
<1> DEFINE Effects(array, index, value) ==
      {IF Indexed(index, array) /\ value[1] = "char"
       THEN Store(3, array, index[2], Integer(value[2]), value) ELSE Fail(3)}
<1>1. PICK array \in {r \in Receivers: ClassOf(r) = "String"}, index \in Indices,
           value \in Values:
        Call("StringAtPut", <<array, index, value>>, Effects(array, index, value))
  BY DEF primitiveStringAtPut
<1>2. "StringAtPut" \notin LeavesReceiver /\ "StringAtPut" \in Storing \ IntegerOps
  BY DEF LeavesReceiver, Storing, IntegerOps
<1>3. Storable(array, Integer(value[2]))
  BY DEF Storable, IsInt, Integer
<1>4. \A i: Balanced("StringAtPut", <<array, index, value>>,
                     Store(3, array, i, Integer(value[2]), value))
  BY <1>2, <1>3, StoreBalances, Lengths
<1>5. \A e \in Effects(array, index, value):
        Balanced("StringAtPut", <<array, index, value>>, e)
  BY <1>2, <1>4, BalancedThree
<1> HIDE DEF Effects
<1> QED
  BY <1>1, <1>2, <1>5, CallOfThree

LEMMA NextPutBalances ==
  ASSUME primitiveNextPut, IsSeq(stack)
  PROVE  Balances /\ NoIntegerOp
<1> DEFINE
      Stored(stream, v) ==
        Store(2, Collection(stream), Position(stream) + 1, v, v)
      Put(stream, value, v) ==
        LET e == Store(2, Collection(stream), Position(stream) + 1, v, value)
        IN  IF e.success THEN [e EXCEPT !.memory = Advanced(@, stream)] ELSE e
      Effects(stream, value) ==
        IF ~MayAdvance(stream, WriteLimit(stream)) THEN {Fail(2)}
        ELSE IF ClassOf(Collection(stream)) = "Array" THEN {Put(stream, value, value)}
        ELSE IF value[1] = "char" THEN {Put(stream, value, Integer(value[2]))}
        ELSE {Fail(2)} \cup {Put(stream, value, Integer(i)): i \in 0 .. ByteSize - 1}
               \cup (IF IsInt(value) THEN {Abort} ELSE {})
<1>1. PICK stream \in Streams, value \in Values:
        Call("NextPut", <<stream, value>>, Effects(stream, value))
  BY DEF primitiveNextPut
<1>2. /\ "NextPut" \notin LeavesReceiver /\ "NextPut" \in Storing \ IntegerOps
      /\ Len(<<stream, value>>) = 2
  BY Lengths DEF LeavesReceiver, Storing, IntegerOps
<1>3. ASSUME NEW v, Storable(Collection(stream), v)
      PROVE  Balanced("NextPut", <<stream, value>>, Put(stream, value, v))
  BY <1>2, <1>3 DEF Store, Does, Balanced, BalancedStack, AnswersOne
<1>4. ClassOf(Collection(stream)) = "Array" => Storable(Collection(stream), value)
  BY DEF Storable, IsPointers
<1>5. \A i: Storable(Collection(stream), Integer(i))
  BY DEF Storable, IsInt, Integer
<1> HIDE DEF Put
<1>6. \A e \in Effects(stream, value): Balanced("NextPut", <<stream, value>>, e)
  BY <1>2, <1>3, <1>4, <1>5, BalancedTwo, BalancedAbort
<1> HIDE DEF Effects
<1> QED
  BY <1>1, <1>2, <1>6, CallOfTwo

-----------------------------------------------------------------------------
(* Between calls the stack loses values only.                              *)
LEMMA AnswerTaken ==
  ASSUME TakeAnswer, IsSeq(stack), IsSeq(call.operands)
  PROVE  Balances /\ NoIntegerOp
<1>1. PICK R, S: stack \in Seq(R) /\ call.operands \in Seq(S)
  BY DEF IsSeq
<1>2. Len(stack) \in Nat /\ Len(call.operands) \in Nat
  BY <1>1, LenProperties
<1>3. PICK used \in Nat: used <= Len(stack)
                         /\ stack' = SubSeq(stack, 1, Len(stack) - used)
  BY <1>2 DEF TakeAnswer
<1>4. Len(stack) - used \in 0 .. Len(stack)
  BY <1>2, <1>3
<1>5. stack' \in Seq(R)
  BY <1>1, <1>3, <1>4, PrefixOfSeq
<1>6. call # NoCall /\ call'.operands = <<>> /\ <<>> \in Seq({})
  BY DEF TakeAnswer, NoCall
<1>7. ~Called'
  BY DEF TakeAnswer, Called
<1> QED
  BY <1>5, <1>6, <1>7 DEF Balances, IsSeq, CallBalances, NoIntegerOp

LEMMA ContextChanged ==
  ASSUME NewContext
  PROVE  Balances /\ NoIntegerOp
<1>1. call'.operands = <<>> /\ <<>> \in Seq({}) /\ ~Called'
  BY DEF NewContext, NoCall, Called
<1>2. stack' \in Seq({Nil})
  BY DEF NewContext
<1> QED
  BY <1>1, <1>2 DEF Balances, IsSeq, CallBalances, NoIntegerOp, Called

LEMMA NextBalances ==
  ASSUME [Next]_vars, IsSeq(stack), IsSeq(call.operands)
  PROVE  Balances
<1>1. CASE UNCHANGED vars
  BY <1>1 DEF vars, Balances, CallBalances, Called
<1>2. CASE primitiveArithmetic \/ primitiveCompare \/ primitiveMakePoint
           \/ primitiveFloatUnary \/ primitiveFloatBinary
  BY <1>2, ArithmeticBalances, CompareBalances, MakePointBalances,
     FloatUnaryBalances, FloatBinaryBalances
<1>3. CASE primitiveAt \/ primitiveAtPut \/ primitiveSize \/ primitiveStringAt
           \/ primitiveStringAtPut \/ primitiveNext \/ primitiveNextPut
           \/ primitiveAtEnd
  BY <1>3, AtBalances, AtPutBalances, SizeBalances, StringAtBalances,
     StringAtPutBalances, StreamNextBalances, NextPutBalances, AtEndBalances
<1>4. CASE primitiveInstVarAt \/ primitiveInstVarAtPut \/ primitiveBecome
           \/ primitiveNew \/ primitiveNewWithArg \/ primitiveNewMethod
           \/ primitiveAsOop \/ primitiveAsObject \/ primitiveInstances
           \/ primitiveObjectAt
  BY <1>4, InstVarAtBalances, InstVarAtPutBalances, BecomeBalances, NewBalances,
     NewWithArgBalances, NewMethodBalances, AsOopBalances, AsObjectBalances,
     InstancesBalance, ObjectAtBalances
<1>5. CASE AnswersValue \/ AnswersReceiver \/ TakesArgument \/ primitiveSignalAt
           \/ primitiveInputWord \/ primitiveEquivalent \/ PushesOnto
           \/ primitiveShowStdout \/ PosixErrorString \/ primitiveScanCharacters
  BY <1>5, ValueAnswered, ReceiverAnswered, ArgumentTaken, SignalAtBalances,
     InputWordBalances, EquivalentBalances, OntoPushed, ShowStdoutBalances,
     ErrorStringBalances, ScanCharactersBalances
<1>6. CASE TakeAnswer \/ NewContext
  BY <1>6, AnswerTaken, ContextChanged
<1> QED
  BY <1>1, <1>2, <1>3, <1>4, <1>5, <1>6 DEF Next

(* Stack and operands are sequences.                                       *)
Sequences_ == IsSeq(stack) /\ IsSeq(call.operands)

LEMMA SequencesInvariant == Spec => []Sequences_
<1>1. Init => Sequences_
  <2> SUFFICES ASSUME Init PROVE Sequences_
    OBVIOUS
  <2>1. stack \in Seq({Nil}) /\ call.operands = <<>> /\ <<>> \in Seq({})
    BY DEF Init, NoCall
  <2> QED
    BY <2>1 DEF Sequences_, IsSeq
<1>2. Sequences_ /\ [Next]_vars => Sequences_'
  <2> SUFFICES ASSUME Sequences_, [Next]_vars PROVE Sequences_'
    OBVIOUS
  <2>1. Balances
    BY NextBalances DEF Sequences_
  <2> QED
    BY <2>1 DEF Sequences_, Balances, IsSeq
<1> QED
  BY <1>1, <1>2, PTL DEF Spec

(* A primitive answers one value in place of its operands and leaves the   *)
(* rest of the stack alone; one that fails leaves operands and memory as   *)
(* they were, whatever the operands, the memory and the size of the stack, *)
(* but for the primitives that DropsOperand, LeavesReceiver and            *)
(* StoresAndFails name (primitives.c, every success and unPop).            *)
THEOREM PrimitivesBalance == Spec => CallsBalance
<1>1. Sequences_ /\ [Next]_vars => [CallBalances]_vars
  BY NextBalances DEF Sequences_, Balances
<1> QED
  BY <1>1, SequencesInvariant, PTL DEF Spec, CallsBalance

-----------------------------------------------------------------------------
(* Memory: every object has a class and a sequence of fields.              *)
IsRecord(o) == \E C, V: o \in [class: C, fields: Seq(V)]
IsMemory(m) == \A name \in DOMAIN m: IsRecord(m[name])

(* An object, and a memory, with a value in a field.                       *)
RecordWith(o, i, v) == [o EXCEPT !.fields[i] = v]
MemoryWith(m, a, i, v) == [m EXCEPT ![a].fields[i] = v]

LEMMA RecordFieldStored ==
  ASSUME NEW o, IsRecord(o), NEW i, NEW v, NEW p, p = RecordWith(o, i, v)
  PROVE  /\ IsRecord(p)
         /\ p.class = o.class
         /\ i \in 1 .. Len(o.fields) => p.fields[i] = v
<1>1. PICK C, V: o \in [class: C, fields: Seq(V)]
  BY DEF IsRecord
<1>2. PICK s: s = o.fields
  OBVIOUS
<1>3. s \in Seq(V) /\ DOMAIN s = 1 .. Len(s)
  BY <1>1, <1>2, LenProperties
<1>4. PICK W: W = V \cup {v}
  OBVIOUS
<1>5. s \in Seq(W) /\ v \in W
  BY <1>3, <1>4, SeqMonotonic
<1>6. PICK t: t = [s EXCEPT ![i] = v]
  OBVIOUS
<1>7. t \in Seq(W)
  <2>1. CASE i \in 1 .. Len(s)
    BY <1>5, <1>6, <2>1, ExceptSeq
  <2>2. CASE i \notin 1 .. Len(s)
    <3>1. t = s
      BY <1>3, <1>6, <2>2
    <3> QED
      BY <3>1, <1>5
  <2> QED
    BY <2>1, <2>2
<1>8. i \in 1 .. Len(s) => t[i] = v
  BY <1>3, <1>6
<1>9. p = [o EXCEPT !.fields = t]
  BY <1>2, <1>6 DEF RecordWith
<1>10. p \in [class: C, fields: Seq(W)] /\ p.fields = t /\ p.class = o.class
  BY <1>1, <1>7, <1>9
<1> QED
  BY <1>2, <1>8, <1>10 DEF IsRecord

LEMMA FieldStored ==
  ASSUME NEW m, IsMemory(m), NEW a, NEW i, NEW v, NEW n,
         n = MemoryWith(m, a, i, v)
  PROVE  /\ IsMemory(n)
         /\ a \in DOMAIN m =>
              /\ n[a].class = m[a].class
              /\ i \in 1 .. Len(m[a].fields) => n[a].fields[i] = v
<1>1. PICK p: p = RecordWith(m[a], i, v)
  OBVIOUS
<1>2. /\ DOMAIN n = DOMAIN m
      /\ \A x \in DOMAIN m: n[x] = IF x = a THEN p ELSE m[x]
  BY <1>1 DEF MemoryWith, RecordWith
<1>3. a \in DOMAIN m => /\ IsRecord(p)
                        /\ p.class = m[a].class
                        /\ i \in 1 .. Len(m[a].fields) => p.fields[i] = v
  <2> SUFFICES ASSUME a \in DOMAIN m
               PROVE  /\ IsRecord(p)
                      /\ p.class = m[a].class
                      /\ i \in 1 .. Len(m[a].fields) => p.fields[i] = v
    OBVIOUS
  <2>1. PICK o: o = m[a]
    OBVIOUS
  <2>2. IsRecord(o) /\ p = RecordWith(o, i, v)
    BY <1>1, <2>1 DEF IsMemory
  <2> QED
    BY <2>1, <2>2, RecordFieldStored
<1> QED
  BY <1>2, <1>3 DEF IsMemory

(* A store leaves a memory, and in the field what a later read answers.    *)
LEMMA StoreLeavesMemory ==
  ASSUME IsMemory(memory), NEW array, NEW i, NEW value
  PROVE  IsMemory(StoringLeaves(array, i, value))
<1>1. \A v: IsMemory(WithField(array, i, v))
  <2> SUFFICES ASSUME NEW v PROVE IsMemory(WithField(array, i, v))
    OBVIOUS
  <2>1. PICK m, a, n: m = memory /\ a = array[1] /\ n = MemoryWith(m, a, i, v)
    OBVIOUS
  <2>2. IsMemory(n)
    BY <2>1, FieldStored
  <2> QED
    BY <2>1, <2>2 DEF WithField, MemoryWith
<1> QED
  BY <1>1 DEF StoringLeaves

LEMMA StoredIsThere ==
  ASSUME IsMemory(memory), NEW array, IsObject(array),
         NEW i \in 1 .. LengthOf(array), NEW value, Storable(array, value),
         NEW n, n = StoringLeaves(array, i, value)
  PROVE  /\ n[array[1]].class = ClassOf(array)
         /\ n[array[1]].fields[i] =
              IF IsPointers(ClassOf(array)) THEN value
              ELSE value[2] % (IF Words(ClassOf(array)) THEN WordSize ELSE ByteSize)
<1>1. ASSUME NEW v, n = WithField(array, i, v)
      PROVE  n[array[1]].class = ClassOf(array) /\ n[array[1]].fields[i] = v
  <2>1. PICK m, a: m = memory /\ a = array[1]
    OBVIOUS
  <2>2. n = MemoryWith(m, a, i, v)
    BY <1>1, <2>1 DEF WithField, MemoryWith
  <2>3. a \in DOMAIN m /\ i \in 1 .. Len(m[a].fields) /\ IsMemory(m)
    BY <2>1 DEF IsObject, LengthOf, Fields
  <2>4. n[a].class = m[a].class /\ n[a].fields[i] = v
    BY <2>2, <2>3, FieldStored
  <2> QED
    BY <2>1, <2>4 DEF ClassOf
<1>2. CASE IsPointers(ClassOf(array))
  BY <1>1, <1>2 DEF StoringLeaves
<1>3. CASE ~IsPointers(ClassOf(array)) /\ Words(ClassOf(array))
  <2>1. value[1] \in {"int", "large"}
    BY <1>3 DEF Storable, IsInt
  <2>2. positive16BitValueOf(value).value = value[2]
    BY <2>1 DEF positive16BitValueOf
  <2>3. n = WithField(array, i, value[2] % WordSize)
    BY <1>3, <2>1, <2>2 DEF StoringLeaves
  <2> QED
    BY <1>1, <1>3, <2>3
<1>4. CASE ~IsPointers(ClassOf(array)) /\ ~Words(ClassOf(array))
  <2>1. IsInt(value)
    BY <1>4 DEF Storable
  <2>2. n = WithField(array, i, value[2] % ByteSize)
    BY <1>4, <2>1 DEF StoringLeaves
  <2> QED
    BY <1>1, <1>4, <2>2
<1> QED
  BY <1>2, <1>3, <1>4

(* What a call does apart from the stack.                                  *)
LEMMA CallOutcome ==
  ASSUME NEW name, NEW operands, NEW Effects, Call(name, operands, Effects)
  PROVE  \E e \in Effects:
           \/ memory' = memory /\ ~Called'
           \/ /\ memory' = e.memory
              /\ call'.name = name /\ call'.operands = operands
              /\ call'.success = e.success
<1>1. PICK e \in Effects:
        IF e.aborts
        THEN running' = FALSE /\ UNCHANGED <<memory, stack, call>>
        ELSE /\ stack' = LeavesOn(stack \o operands, e)
             /\ memory' = e.memory
             /\ call' = [name |-> name, operands |-> operands,
                         success |-> e.success]
             /\ UNCHANGED running
  BY DEF Call
<1>2. CASE e.aborts
  BY <1>1, <1>2 DEF Called
<1>3. CASE ~e.aborts
  BY <1>1, <1>3
<1> QED
  BY <1>2, <1>3

(* What a call keeps: the memory, and that the last store reads back.      *)
Keeps == IsMemory(memory)' /\ StoreReadsBack'

LEMMA KeepsIfOther ==
  ASSUME NEW name, name \notin {"AtPut", "StringAtPut"}, NEW operands, NEW Effects,
         Call(name, operands, Effects), IsMemory(memory),
         \A e \in Effects: IsMemory(e.memory)
  PROVE  Keeps
<1>1. PICK e \in Effects:
        \/ memory' = memory /\ ~Called'
        \/ /\ memory' = e.memory
           /\ call'.name = name /\ call'.operands = operands
           /\ call'.success = e.success
  BY CallOutcome
<1>2. IsMemory(memory')
  BY <1>1
<1>3. ~Called' \/ call'.name \notin {"AtPut", "StringAtPut"}
  BY <1>1
<1> QED
  BY <1>2, <1>3 DEF Keeps, StoreReadsBack

LEMMA EffectMemories ==
  /\ \A n, v: Answer(n, v).memory = memory
  /\ \A n, v, m: AnswerStoring(n, v, m).memory = m
  /\ \A n: Fail(n).memory = memory /\ Fail(n).success = FALSE
  /\ Abort.memory = memory /\ Abort.success = FALSE
  /\ \A n, array, i, v, w:
       /\ Store(n, array, i, v, w).memory = StoringLeaves(array, i, v)
       /\ Store(n, array, i, v, w).success = TRUE <=> Storable(array, v)
BY DEF Answer, AnswerStoring, Fail, Abort, Store, Does

LEMMA IndexInside ==
  ASSUME NEW array, NEW index \in Indices, Indexed(index, array)
  PROVE  /\ index[2] \in Int /\ index[2] >= 1 /\ index[2] <= LengthOf(array)
         /\ FixedFields(ClassOf(array)) \in Nat
<1>1. index[1] \in {"int", "large"}
  BY DEF Indexed, positive16BitValueOf, Failure
<1>2. WordSize - 1 \in Int
  BY IntAssumption DEF WordSize
<1>3. index[2] \in Int
  BY <1>1, <1>2 DEF Indices, Integer, Large, Nil, Other
<1>4. index[2] >= 1 /\ index[2] <= LengthOf(array)
  BY DEF Indexed, checkIndexableBounds
<1>5. FixedFields(ClassOf(array)) \in Nat
  BY DEF FixedFields
<1> QED
  BY <1>3, <1>4, <1>5

(* What at:put: and its like for strings leave reads back.                 *)
LEMMA ReadsBack ==
  ASSUME NEW array, NEW index, NEW value, NEW stored, NEW i, NEW n,
         call'.operands = <<array, index, value>>,
         IsMemory(memory), IsObject(array), i \in 1 .. LengthOf(array),
         i = index[2] + FixedFields(ClassOf(array)),
         Storable(array, stored), n = StoringLeaves(array, i, stored), memory' = n,
         stored[2] = value[2], stored = value \/ ~IsPointers(ClassOf(array))
  PROVE  StoreReadsBack'
<1>1. PICK class: class = ClassOf(array)
  OBVIOUS
<1>2. /\ n[array[1]].class = class
      /\ n[array[1]].fields[i] =
           IF IsPointers(class) THEN stored
           ELSE stored[2] % (IF Words(class) THEN WordSize ELSE ByteSize)
  BY <1>1, StoredIsThere
<1>3. ClassOf(array)' = class /\ Fields(array)' = n[array[1]].fields
  BY <1>2 DEF ClassOf, Fields
<1>4. subscript(array, i)' =
        IF IsPointers(class) THEN n[array[1]].fields[i]
        ELSE IF Words(class) THEN positive16BitIntegerFor(n[array[1]].fields[i])
        ELSE Integer(n[array[1]].fields[i])
  BY <1>3 DEF subscript
<1>5. \A x: positive16BitIntegerFor(x)[2] = x /\ Integer(x)[2] = x
  BY DEF positive16BitIntegerFor, Integer, Large
<1>6. IF IsPointers(class) THEN subscript(array, i)' = value
      ELSE subscript(array, i)'[2]
             = value[2] % (IF Words(class) THEN WordSize ELSE ByteSize)
  BY <1>1, <1>2, <1>4, <1>5
<1>7. /\ call'.operands[1] = array /\ call'.operands[2] = index
      /\ call'.operands[3] = value
  OBVIOUS
<1>8. call'.operands[2][2] + FixedFields(ClassOf(array)') = i
  BY <1>1, <1>3, <1>7
<1> QED
  BY <1>3, <1>6, <1>7, <1>8 DEF StoreReadsBack

LEMMA AtPutKeeps ==
  ASSUME primitiveAtPut, IsMemory(memory)
  PROVE  Keeps
<1> DEFINE Effect(array, index, value) ==
      IF ~Indexed(index, array) THEN Fail(3)
      ELSE IF ~Inside(index, array) THEN Abort
      ELSE Store(3, array, index[2] + FixedFields(ClassOf(array)), value, value)
<1>1. PICK array \in Receivers, index \in Indices, value \in Values:
        Call("AtPut", <<array, index, value>>, {Effect(array, index, value)})
  BY DEF primitiveAtPut
<1>2. PICK e: e = Effect(array, index, value)
  OBVIOUS
<1>3. \/ memory' = memory /\ ~Called'
      \/ /\ memory' = e.memory
         /\ call'.operands = <<array, index, value>>
         /\ call'.success = e.success
  <2> HIDE DEF Effect
  <2>1. Call("AtPut", <<array, index, value>>, {e})
    BY <1>1, <1>2
  <2> QED
    BY <2>1, CallOutcome
<1>4. IsMemory(e.memory)
  BY <1>2, EffectMemories, StoreLeavesMemory
<1>5. IsMemory(memory')
  BY <1>3, <1>4
<1>6. CASE Called' /\ call'.success
  <2>1. e.success /\ memory' = e.memory /\ call'.operands = <<array, index, value>>
    BY <1>3, <1>6
  <2>2. PICK i: i = index[2] + FixedFields(ClassOf(array))
    OBVIOUS
  <2>3. /\ Indexed(index, array) /\ Inside(index, array)
        /\ e = Store(3, array, i, value, value)
    BY <1>2, <2>1, <2>2, EffectMemories
  <2>4. Storable(array, value) /\ memory' = StoringLeaves(array, i, value)
    BY <2>1, <2>3, EffectMemories DEF Store, Does
  <2>5. IsObject(array)
    BY DEF Receivers, Other, IsObject
  <2>6. LengthOf(array) \in Nat
    <3>1. PICK C, V: memory[array[1]] \in [class: C, fields: Seq(V)]
      BY <2>5 DEF IsMemory, IsRecord, IsObject
    <3> QED
      BY <3>1, LenProperties DEF LengthOf, Fields
  <2>7. i \in 1 .. LengthOf(array)
    BY <2>2, <2>3, <2>6, IndexInside DEF Inside
  <2>8. StoreReadsBack'
    BY <2>1, <2>2, <2>4, <2>5, <2>7, ReadsBack
  <2> QED
    BY <1>5, <2>8 DEF Keeps
<1> QED
  BY <1>5, <1>6 DEF Keeps, StoreReadsBack

LEMMA StringAtPutKeeps ==
  ASSUME primitiveStringAtPut, IsMemory(memory)
  PROVE  Keeps
<1> DEFINE Effect(array, index, value) ==
      IF Indexed(index, array) /\ value[1] = "char"
      THEN Store(3, array, index[2], Integer(value[2]), value) ELSE Fail(3)
<1>1. PICK array \in {r \in Receivers: ClassOf(r) = "String"}, index \in Indices,
           value \in Values:
        Call("StringAtPut", <<array, index, value>>, {Effect(array, index, value)})
  BY DEF primitiveStringAtPut
<1>2. PICK e: e = Effect(array, index, value)
  OBVIOUS
<1>3. \/ memory' = memory /\ ~Called'
      \/ /\ memory' = e.memory
         /\ call'.operands = <<array, index, value>>
         /\ call'.success = e.success
  <2> HIDE DEF Effect
  <2>1. Call("StringAtPut", <<array, index, value>>, {e})
    BY <1>1, <1>2
  <2> QED
    BY <2>1, CallOutcome
<1>4. IsMemory(e.memory)
  BY <1>2, EffectMemories, StoreLeavesMemory
<1>5. IsMemory(memory')
  BY <1>3, <1>4
<1>6. CASE Called' /\ call'.success
  <2>1. e.success /\ memory' = e.memory /\ call'.operands = <<array, index, value>>
    BY <1>3, <1>6
  <2>2. PICK i, stored: i = index[2] /\ stored = Integer(value[2])
    OBVIOUS
  <2>3. Indexed(index, array) /\ e = Store(3, array, i, stored, value)
    BY <1>2, <2>1, <2>2, EffectMemories
  <2>4. Storable(array, stored) /\ memory' = StoringLeaves(array, i, stored)
    BY <2>1, <2>3, EffectMemories DEF Store, Does
  <2>5. IsObject(array)
    BY DEF Receivers, Other, IsObject
  <2>6. LengthOf(array) \in Nat
    <3>1. PICK C, V: memory[array[1]] \in [class: C, fields: Seq(V)]
      BY <2>5 DEF IsMemory, IsRecord, IsObject
    <3> QED
      BY <3>1, LenProperties DEF LengthOf, Fields
  <2>7. i \in 1 .. LengthOf(array) /\ i = index[2] + FixedFields(ClassOf(array))
    <3>1. FixedFields("String") = 0
      BY DEF FixedFields
    <3> QED
      BY <2>2, <2>3, <2>6, <3>1, IndexInside
  <2>8. stored[2] = value[2] /\ ~IsPointers(ClassOf(array))
    BY <2>2 DEF Integer, IsPointers
  <2>9. StoreReadsBack'
    BY <2>1, <2>4, <2>5, <2>7, <2>8, ReadsBack
  <2> QED
    BY <1>5, <2>9 DEF Keeps
<1> QED
  BY <1>5, <1>6 DEF Keeps, StoreReadsBack

LEMMA AdvancedIsMemory ==
  ASSUME NEW m, IsMemory(m), NEW stream
  PROVE  IsMemory(Advanced(m, stream))
<1>1. PICK v: v = Integer(m[stream[1]].fields[2][2] + 1)
  OBVIOUS
<1>2. PICK a, n: a = stream[1] /\ n = MemoryWith(m, a, 2, v)
  OBVIOUS
<1>3. IsMemory(n)
  BY <1>2, FieldStored
<1>4. Advanced(m, stream) = n
  BY <1>1, <1>2 DEF Advanced, MemoryWith
<1> QED
  BY <1>3, <1>4

LEMMA NextKeeps ==
  ASSUME primitiveNext, IsMemory(memory)
  PROVE  Keeps
<1> DEFINE Effects(stream) ==
      {IF MayAdvance(stream, ReadLimit(stream))
       THEN LET result == subscript(Collection(stream), Position(stream) + 1)
            IN  AnswerStoring(1,
                  IF ClassOf(Collection(stream)) = "Array" THEN result
                  ELSE Char(result[2]), Advanced(memory, stream))
       ELSE Fail(1)}
<1>1. PICK stream \in Streams: Call("Next", <<stream>>, Effects(stream))
  BY DEF primitiveNext
<1>2. \A e \in Effects(stream): IsMemory(e.memory)
  BY EffectMemories, AdvancedIsMemory
<1> HIDE DEF Effects
<1> QED
  BY <1>1, <1>2, KeepsIfOther

LEMMA NextPutKeeps ==
  ASSUME primitiveNextPut, IsMemory(memory)
  PROVE  Keeps
<1> DEFINE
      Put(stream, value, v) ==
        LET e == Store(2, Collection(stream), Position(stream) + 1, v, value)
        IN  IF e.success THEN [e EXCEPT !.memory = Advanced(@, stream)] ELSE e
      Effects(stream, value) ==
        IF ~MayAdvance(stream, WriteLimit(stream)) THEN {Fail(2)}
        ELSE IF ClassOf(Collection(stream)) = "Array" THEN {Put(stream, value, value)}
        ELSE IF value[1] = "char" THEN {Put(stream, value, Integer(value[2]))}
        ELSE {Fail(2)} \cup {Put(stream, value, Integer(i)): i \in 0 .. ByteSize - 1}
               \cup (IF IsInt(value) THEN {Abort} ELSE {})
<1>1. PICK stream \in Streams, value \in Values:
        Call("NextPut", <<stream, value>>, Effects(stream, value))
  BY DEF primitiveNextPut
<1>2. \A v: IsMemory(Put(stream, value, v).memory)
  <2> SUFFICES ASSUME NEW v PROVE IsMemory(Put(stream, value, v).memory)
    OBVIOUS
  <2>1. PICK m: m = StoringLeaves(Collection(stream), Position(stream) + 1, v)
    OBVIOUS
  <2>2. IsMemory(m) /\ IsMemory(Advanced(m, stream))
    BY <2>1, StoreLeavesMemory, AdvancedIsMemory
  <2>3. Put(stream, value, v).memory \in {m, Advanced(m, stream)}
    BY <2>1 DEF Store, Does
  <2> QED
    BY <2>2, <2>3
<1> HIDE DEF Put
<1>3. \A e \in Effects(stream, value): IsMemory(e.memory)
  BY <1>2, EffectMemories
<1> HIDE DEF Effects
<1> QED
  BY <1>1, <1>3, KeepsIfOther

LEMMA InstVarAtPutKeeps ==
  ASSUME primitiveInstVarAtPut, IsMemory(memory)
  PROVE  Keeps
<1> DEFINE Effects(object, index, value) ==
      {IF IsInt(index) /\ checkIndexableBounds(index[2], object)
       THEN Store(3, object, index[2], value, value) ELSE Fail(3)}
<1>1. PICK object \in {r \in Receivers: ClassOf(r) \notin {"Stream"}},
           index \in Indices, value \in Values:
        Call("InstVarAtPut", <<object, index, value>>, Effects(object, index, value))
  BY DEF primitiveInstVarAtPut
<1>2. \A e \in Effects(object, index, value): IsMemory(e.memory)
  BY EffectMemories, StoreLeavesMemory
<1> HIDE DEF Effects
<1> QED
  BY <1>1, <1>2, KeepsIfOther

LEMMA BecomeKeeps ==
  ASSUME primitiveBecome, IsMemory(memory)
  PROVE  Keeps
<1> DEFINE
      Swapped(receiver, other) ==
        [memory EXCEPT ![receiver[1]] = memory[other[1]],
                       ![other[1]] = memory[receiver[1]]]
      Effects(receiver, other) ==
        {IF IsInt(receiver) \/ IsInt(other) THEN Fail(2)
         ELSE AnswerStoring(2, receiver, Swapped(receiver, other))}
<1>1. PICK receiver \in {r \in Receivers: ClassOf(r) = "Set"} \cup {Integer(2)},
           other \in {r \in Receivers: ClassOf(r) = "Bitmap"} \cup {Integer(2)}:
        Call("Become", <<receiver, other>>, Effects(receiver, other))
  BY DEF primitiveBecome
<1>2. ~IsInt(receiver) /\ ~IsInt(other) => IsMemory(Swapped(receiver, other))
  <2> SUFFICES ASSUME ~IsInt(receiver), ~IsInt(other)
               PROVE  IsMemory(Swapped(receiver, other))
    OBVIOUS
  <2>1. receiver[1] \in DOMAIN memory /\ other[1] \in DOMAIN memory
    BY DEF Receivers, Other, IsInt, Integer
  <2> QED
    BY <2>1 DEF IsMemory
<1> HIDE DEF Swapped
<1>3. \A e \in Effects(receiver, other): IsMemory(e.memory)
  BY <1>2, EffectMemories
<1> HIDE DEF Effects
<1> QED
  BY <1>1, <1>3, KeepsIfOther

(* What the invariant of stores is made of.                                *)
StoresInv == Sequences_ /\ IsMemory(memory) /\ StoreReadsBack

LEMMA StoresInvStep ==
  ASSUME StoresInv, [Next]_vars
  PROVE  StoresInv'
<1>1. IsSeq(stack) /\ IsSeq(call.operands) /\ IsMemory(memory) /\ StoreReadsBack
  BY DEF StoresInv, Sequences_
<1>2. Sequences_'
  <2>1. Balances
    BY <1>1, NextBalances
  <2> QED
    BY <1>1, <2>1 DEF Sequences_, Balances, IsSeq
<1>3. ASSUME Quiet PROVE Keeps
  BY <1>1, <1>3 DEF Quiet, Keeps, StoreReadsBack, Storing
<1>4. CASE UNCHANGED vars
  <2>1. StoreReadsBack'
    BY <1>1, <1>4
       DEF vars, StoreReadsBack, Called, ClassOf, subscript, Fields
  <2> QED
    BY <1>1, <1>2, <1>4, <2>1 DEF vars, StoresInv
<1>5. CASE primitiveArithmetic \/ primitiveCompare \/ primitiveMakePoint
           \/ primitiveFloatUnary \/ primitiveFloatBinary
  <2>1. Quiet
    BY <1>1, <1>5, ArithmeticBalances, CompareBalances, MakePointBalances,
       FloatUnaryBalances, FloatBinaryBalances
  <2> QED
    BY <1>2, <1>3, <2>1 DEF StoresInv, Keeps
<1>6. CASE primitiveAt \/ primitiveSize \/ primitiveStringAt \/ primitiveAtEnd
           \/ primitiveInstVarAt
  <2>1. Quiet
    BY <1>1, <1>6, AtBalances, SizeBalances, StringAtBalances, AtEndBalances,
       InstVarAtBalances
  <2> QED
    BY <1>2, <1>3, <2>1 DEF StoresInv, Keeps
<1>7. CASE primitiveAtPut \/ primitiveStringAtPut \/ primitiveNext
           \/ primitiveNextPut \/ primitiveInstVarAtPut \/ primitiveBecome
  <2>1. Keeps
    BY <1>1, <1>7, AtPutKeeps, StringAtPutKeeps, NextKeeps, NextPutKeeps,
       InstVarAtPutKeeps, BecomeKeeps
  <2> QED
    BY <1>2, <2>1 DEF StoresInv, Keeps
<1>8. CASE primitiveNew \/ primitiveNewWithArg \/ primitiveNewMethod
           \/ primitiveAsOop \/ primitiveAsObject \/ primitiveInstances
           \/ primitiveObjectAt
  <2>1. Quiet
    BY <1>1, <1>8, NewBalances, NewWithArgBalances, NewMethodBalances,
       AsOopBalances, AsObjectBalances, InstancesBalance, ObjectAtBalances
  <2> QED
    BY <1>2, <1>3, <2>1 DEF StoresInv, Keeps
<1>9. CASE AnswersValue \/ AnswersReceiver \/ TakesArgument \/ primitiveSignalAt
           \/ primitiveInputWord \/ primitiveEquivalent \/ PushesOnto
           \/ primitiveShowStdout \/ PosixErrorString \/ primitiveScanCharacters
  <2>1. Quiet
    BY <1>1, <1>9, ValueAnswered, ReceiverAnswered, ArgumentTaken, SignalAtBalances,
       InputWordBalances, EquivalentBalances, OntoPushed, ShowStdoutBalances,
       ErrorStringBalances, ScanCharactersBalances
  <2> QED
    BY <1>2, <1>3, <2>1 DEF StoresInv, Keeps
<1>10. CASE TakeAnswer \/ NewContext
  <2>1. memory' = memory /\ ~Called'
    BY <1>10 DEF TakeAnswer, NewContext, Called
  <2>2. Quiet
    BY <2>1 DEF Quiet
  <2> QED
    BY <1>2, <1>3, <2>2 DEF StoresInv, Keeps
<1> QED
  BY <1>4, <1>5, <1>6, <1>7, <1>8, <1>9, <1>10 DEF Next

(* What at:put: answers to have stored is there afterwards, in the field   *)
(* that at: of the same index reads, whatever the object, its class and    *)
(* the width of bytes and words (primitives.c:1104-1190).                  *)
THEOREM StoresReadBack == Spec => []StoreReadsBack
<1>1. Init => StoresInv
  <2> SUFFICES ASSUME Init PROVE StoresInv
    OBVIOUS
  <2>1. stack \in Seq({Nil}) /\ call.operands = <<>> /\ <<>> \in Seq({})
    BY DEF Init, NoCall
  <2>2. IsMemory(memory)
    BY MemoriesAssumption DEF Init, IsMemory, IsRecord
  <2>3. StoreReadsBack
    BY DEF Init, StoreReadsBack, Called
  <2> QED
    BY <2>1, <2>2, <2>3 DEF StoresInv, Sequences_, IsSeq
<1>2. StoresInv /\ [Next]_vars => StoresInv'
  BY StoresInvStep
<1>3. StoresInv => StoreReadsBack
  BY DEF StoresInv
<1> QED
  BY <1>1, <1>2, <1>3, PTL DEF Spec

-----------------------------------------------------------------------------
(* Arithmetic of integers: products keep the order, and a quotient and its *)
(* remainder are the only ones.                                            *)
LEMMA ProductOrder ==
  ASSUME NEW x \in Int, NEW y \in Int, x <= y, NEW b \in Int, b > 0
  PROVE  x * b <= y * b
OBVIOUS

LEMMA OneFloor ==
  ASSUME NEW b \in Int, b > 0, NEW s \in Int, NEW x \in Int, NEW y \in Int,
         x * b <= s, s < (x + 1) * b, y * b <= s, s < (y + 1) * b
  PROVE  x = y
<1>1. CASE x < y
  <2>1. x + 1 <= y
    BY <1>1
  <2>2. (x + 1) * b <= y * b
    BY <2>1, ProductOrder
  <2>3. (x + 1) * b \in Int /\ y * b \in Int
    OBVIOUS
  <2> QED
    BY <2>2, <2>3
<1>2. CASE y < x
  <2>1. y + 1 <= x
    BY <1>2
  <2>2. (y + 1) * b <= x * b
    BY <2>1, ProductOrder
  <2>3. (y + 1) * b \in Int /\ x * b \in Int
    OBVIOUS
  <2> QED
    BY <2>2, <2>3
<1> QED
  BY <1>1, <1>2

(* The quotient and the remainder of magnitudes.                           *)
LEMMA NaturalDivision ==
  ASSUME NEW x \in Nat, NEW b \in Int, b > 0
  PROVE  \E q \in Nat, m \in Nat:
           /\ q = x \div b /\ x = q * b + m /\ m < b /\ q <= x
<1>1. PICK q, m: q = x \div b /\ m = x % b
  OBVIOUS
<1>2. m \in Int /\ q \in Int /\ 0 <= m /\ m < b /\ x = b * q + m
  BY <1>1
<1>3. q >= 0
  <2> SUFFICES ASSUME q < 0 PROVE FALSE
    BY <1>2
  <2>1. q <= -1
    BY <1>2
  <2>2. q * b <= (-1) * b
    BY <1>2, <2>1, ProductOrder
  <2>3. q * b = b * q /\ (-1) * b = -b /\ q * b \in Int
    BY <1>2
  <2> QED
    BY <1>2, <2>2, <2>3
<1>4. q <= x
  <2>1. q * b >= q
    BY <1>2, <1>3
  <2>2. q * b = b * q /\ q * b \in Int
    BY <1>2
  <2> QED
    BY <1>2, <2>1, <2>2
<1>5. x = q * b + m
  BY <1>2
<1> QED
  BY <1>1, <1>2, <1>3, <1>4, <1>5

(* C's / and %: the quotient is rounded towards zero.                      *)
LEMMA TruncatedDivision ==
  ASSUME NEW r \in Int, NEW a \in Int, a # 0
  PROVE  \E q \in Int, m \in Int:
           /\ q = CDiv(r, a) /\ m = CRem(r, a)
           /\ r = q * a + m
           /\ Magnitude(m) < Magnitude(a)
           /\ r >= 0 => m >= 0
           /\ r <= 0 => m <= 0
           /\ Magnitude(q) <= Magnitude(r)
           /\ (r < 0) = (a < 0) => q >= 0
           /\ (r < 0) # (a < 0) => q <= 0
<1>1. PICK x, b: x = Magnitude(r) /\ b = Magnitude(a)
  OBVIOUS
<1>2. x \in Nat /\ b \in Int /\ b > 0
  BY <1>1 DEF Magnitude
<1>3. PICK p \in Nat, n \in Nat: p = x \div b /\ x = p * b + n /\ n < b /\ p <= x
  BY <1>2, NaturalDivision
<1>4. PICK q, m: q = CDiv(r, a) /\ m = CRem(r, a)
  OBVIOUS
<1>5. q = IF (r < 0) = (a < 0) THEN p ELSE -p
  BY <1>1, <1>3, <1>4 DEF CDiv
<1>6. m = r - a * q
  BY <1>4 DEF CRem
<1>7. PICK pb \in Int: pb = p * b
  BY <1>2
<1>8. a * q = IF r < 0 THEN -pb ELSE pb
  <2>1. b = IF a < 0 THEN -a ELSE a
    BY <1>1 DEF Magnitude
  <2>2. CASE a < 0 /\ r < 0
    BY <1>5, <1>7, <2>1, <2>2
  <2>3. CASE a < 0 /\ ~(r < 0)
    BY <1>5, <1>7, <2>1, <2>3
  <2>4. CASE ~(a < 0) /\ r < 0
    BY <1>5, <1>7, <2>1, <2>4
  <2>5. CASE ~(a < 0) /\ ~(r < 0)
    BY <1>5, <1>7, <2>1, <2>5
  <2> QED
    BY <2>2, <2>3, <2>4, <2>5
<1>9. m = IF r < 0 THEN -n ELSE n
  <2>1. x = pb + n
    BY <1>3, <1>7
  <2> QED
    BY <2>1, <1>1, <1>6, <1>7, <1>8 DEF Magnitude
<1>10. q \in Int /\ m \in Int /\ r = q * a + m
  <2>1. q \in Int
    BY <1>5
  <2>2. a * q = q * a /\ a * q \in Int
    BY <2>1
  <2> QED
    BY <1>6, <2>1, <2>2
<1>11. /\ Magnitude(m) < Magnitude(a)
       /\ r >= 0 => m >= 0
       /\ r <= 0 => m <= 0
  <2>1. Magnitude(m) = n
    BY <1>9 DEF Magnitude
  <2>2. r = 0 => n = 0
    <3>1. r = 0 => m = r - pb /\ x = 0 /\ x = pb + n /\ m = n
      BY <1>1, <1>3, <1>6, <1>7, <1>8, <1>9 DEF Magnitude
    <3>2. pb >= 0
      BY <1>2, <1>3, <1>7
    <3> QED
      BY <3>1, <3>2, <1>3, <1>7
  <2> QED
    BY <1>1, <1>3, <1>9, <2>1, <2>2
<1>12. /\ Magnitude(q) <= Magnitude(r)
       /\ (r < 0) = (a < 0) => q >= 0
       /\ (r < 0) # (a < 0) => q <= 0
  <2>1. CASE (r < 0) = (a < 0)
    <3>1. q = p
      BY <1>5, <2>1
    <3> QED
      BY <3>1, <2>1, <1>1, <1>3 DEF Magnitude
  <2>2. CASE (r < 0) # (a < 0)
    <3>1. q = -p
      BY <1>5, <2>2
    <3>2. q <= 0 /\ Magnitude(q) = p
      BY <3>1 DEF Magnitude
    <3> QED
      BY <3>2, <2>2, <1>1, <1>3
  <2> QED
    BY <2>1, <2>2
<1> QED
  BY <1>4, <1>10, <1>11, <1>12

(* What an outcome says of the numbers that are right.                     *)
Exact(c, right) ==
  /\ c.success \in BOOLEAN
  /\ c.success => c.value \in right \cap SmallInteger
  /\ ~c.success => right \cap SmallInteger = {}

LEMMA CheckedExact ==
  ASSUME NEW f, NEW right, f \in right, \A v \in right: v = f
  PROVE  Exact(Checked(f), right)
BY DEF Exact, Checked, Failure

LEMMA FailureExact ==
  ASSUME NEW right, right = {}
  PROVE  Exact(Failure, right)
BY DEF Exact, Failure

LEMMA OperandRange ==
  ASSUME NEW r \in SmallInteger
  PROVE  /\ r \in Int /\ WordSize \in Int /\ Magnitude(r) \in Nat
         /\ Magnitude(r) + 1 <= WordSize
         /\ r \in -WordSize .. WordSize
<1>1. SmallMax \in Nat
  BY IntAssumption
<1> QED
  BY <1>1 DEF SmallInteger, WordSize, Magnitude

LEMMA InRange ==
  ASSUME NEW r \in SmallInteger, NEW q \in Int, Magnitude(q) <= Magnitude(r) + 1
  PROVE  q \in -WordSize .. WordSize
BY OperandRange DEF Magnitude

(* / : the division has no remainder.                                      *)
LEMMA NoSecondQuotient ==
  ASSUME NEW x \in Int, NEW y \in Int, NEW a \in Int, a # 0, NEW m \in Int,
         Magnitude(m) < Magnitude(a), x * a = y * a + m
  PROVE  x = y /\ m = 0
<1>1. PICK xa \in Int, ya \in Int: xa = x * a /\ ya = y * a
  OBVIOUS
<1>2. (y + 1) * a = ya + a /\ (y - 1) * a = ya - a
  BY <1>1
<1>3. x = y
  <2>1. CASE x >= y + 1 /\ a > 0
    <3>1. (y + 1) * a <= x * a
      BY <2>1, ProductOrder
    <3> QED
      BY <1>1, <1>2, <2>1, <3>1 DEF Magnitude
  <2>2. CASE x <= y - 1 /\ a > 0
    <3>1. x * a <= (y - 1) * a
      BY <2>2, ProductOrder
    <3> QED
      BY <1>1, <1>2, <2>2, <3>1 DEF Magnitude
  <2>3. CASE x >= y + 1 /\ a < 0
    <3>1. (y + 1) * (-a) <= x * (-a)
      BY <2>3, ProductOrder
    <3>2. (y + 1) * (-a) = -(ya + a) /\ x * (-a) = -xa
      BY <1>1, <1>2
    <3> QED
      BY <1>1, <2>3, <3>1, <3>2 DEF Magnitude
  <2>4. CASE x <= y - 1 /\ a < 0
    <3>1. x * (-a) <= (y - 1) * (-a)
      BY <2>4, ProductOrder
    <3>2. (y - 1) * (-a) = -(ya - a) /\ x * (-a) = -xa
      BY <1>1, <1>2
    <3> QED
      BY <1>1, <2>4, <3>1, <3>2 DEF Magnitude
  <2> QED
    BY <2>1, <2>2, <2>3, <2>4
<1> QED
  BY <1>1, <1>3

LEMMA DivideExact ==
  ASSUME NEW r \in SmallInteger, NEW a \in SmallInteger, a # 0
  PROVE  Exact(Divide(r, a),
               {q \in -WordSize .. WordSize: a # 0 /\ q * a = r})
<1> DEFINE right == {q \in -WordSize .. WordSize: a # 0 /\ q * a = r}
<1>1. r \in Int /\ a \in Int /\ WordSize \in Int
  BY OperandRange
<1>2. PICK q \in Int, m \in Int:
        /\ q = CDiv(r, a) /\ m = CRem(r, a) /\ r = q * a + m
        /\ Magnitude(m) < Magnitude(a) /\ Magnitude(q) <= Magnitude(r)
  BY <1>1, TruncatedDivision
<1>3. \A v \in right: v = q /\ m = 0
  <2> SUFFICES ASSUME NEW v \in right PROVE v = q /\ m = 0
    OBVIOUS
  <2>1. v \in Int /\ v * a = q * a + m
    BY <1>1, <1>2
  <2> QED
    BY <1>1, <1>2, <2>1, NoSecondQuotient
<1>4. CASE m = 0
  <2>1. q \in -WordSize .. WordSize
    <3>1. Magnitude(q) <= Magnitude(r) + 1
      BY <1>1, <1>2 DEF Magnitude
    <3> QED
      BY <3>1, InRange
  <2>2. q * a = r
    <3>1. q * a \in Int
      BY <1>1
    <3> QED
      BY <1>2, <1>4, <3>1
  <2>3. q \in right
    BY <2>1, <2>2
  <2>4. Divide(r, a) = Checked(q)
    BY <1>2, <1>4 DEF Divide
  <2> HIDE DEF right
  <2>5. Exact(Checked(q), right)
    BY <2>3, <1>3, CheckedExact
  <2> QED
    BY <2>4, <2>5 DEF right
<1>5. CASE m # 0
  <2>1. right = {}
    BY <1>3, <1>5
  <2>2. Divide(r, a) = Failure
    BY <1>2, <1>5 DEF Divide
  <2> QED
    BY <2>1, <2>2, FailureExact
<1> QED
  BY <1>4, <1>5

(* // and \\ : one quotient is rounded down, for either sign.              *)
Floor(q, r, a) ==
  \/ a > 0 /\ q * a <= r /\ r < (q + 1) * a
  \/ a < 0 /\ q * a >= r /\ r > (q + 1) * a

LEMMA OneFloorOfAnySign ==
  ASSUME NEW r \in Int, NEW a \in Int, NEW x \in Int, NEW y \in Int,
         Floor(x, r, a), Floor(y, r, a)
  PROVE  x = y
<1>1. CASE a > 0
  BY <1>1, OneFloor DEF Floor
<1>2. CASE a < 0
  <2>1. PICK b \in Int, s \in Int: b = -a /\ s = -r
    OBVIOUS
  <2>2. \A z \in Int: z * b = -(z * a) /\ z * a \in Int
    BY <2>1
  <2>3. \A z \in Int: Floor(z, r, a) => z * b <= s /\ s < (z + 1) * b
    <3> SUFFICES ASSUME NEW z \in Int, Floor(z, r, a)
                 PROVE  z * b <= s /\ s < (z + 1) * b
      OBVIOUS
    <3>1. z * a >= r /\ r > (z + 1) * a
      BY <1>2 DEF Floor
    <3>2. z * b = -(z * a) /\ (z + 1) * b = -((z + 1) * a)
      BY <2>2
    <3>3. z * a \in Int /\ (z + 1) * a \in Int
      OBVIOUS
    <3> QED
      BY <2>1, <3>1, <3>2, <3>3
  <2>4. b > 0
    BY <1>2, <2>1
  <2> QED
    BY <2>3, <2>4, OneFloor
<1> QED
  BY <1>1, <1>2 DEF Floor

LEMMA NextProduct ==
  ASSUME NEW q \in Int, NEW a \in Int
  PROVE  (q + 1) * a = q * a + a /\ (q - 1) * a = q * a - a
OBVIOUS

LEMMA DivExact ==
  ASSUME NEW r \in SmallInteger, NEW a \in SmallInteger, ~RoundedWrong("Div", r, a)
  PROVE  Exact(Div(r, a), {q \in -WordSize .. WordSize: Floor(q, r, a)})
<1> DEFINE right == {q \in -WordSize .. WordSize: Floor(q, r, a)}
<1>1. r \in Int /\ a \in Int /\ WordSize \in Int
  BY OperandRange
<1>2. CASE a = 0
  <2>1. right = {}
    BY <1>2 DEF Floor
  <2> QED
    BY <1>2, <2>1, FailureExact DEF Div
<1>3. CASE a # 0
  <2>1. PICK q \in Int, m \in Int:
          /\ q = CDiv(r, a) /\ m = CRem(r, a) /\ r = q * a + m
          /\ Magnitude(m) < Magnitude(a)
          /\ r >= 0 => m >= 0
          /\ r <= 0 => m <= 0
          /\ Magnitude(q) <= Magnitude(r)
          /\ (r < 0) = (a < 0) => q >= 0
          /\ (r < 0) # (a < 0) => q <= 0
    BY <1>1, <1>3, TruncatedDivision
  <2>2. PICK f \in Int: f = IF m # 0 /\ q < 0 THEN q - 1 ELSE q
    OBVIOUS
  <2>3. PICK qa \in Int: qa = q * a
    BY <1>1
  <2>4. r = qa + m /\ (q + 1) * a = qa + a /\ (q - 1) * a = qa - a
    <3>1. r = qa + m
      BY <2>1, <2>3
    <3> QED
      BY <1>1, <2>3, <3>1, NextProduct
  <2>5. m = 0 => Floor(q, r, a)
    BY <1>1, <1>3, <2>3, <2>4 DEF Floor
  <2>6. m # 0 /\ q > 0 => Floor(q, r, a)
    <3> SUFFICES ASSUME m # 0, q > 0 PROVE Floor(q, r, a)
      OBVIOUS
    <3>1. (r < 0) = (a < 0)
      BY <2>1
    <3>2. CASE a > 0
      <4>1. m >= 0 /\ m < a
        BY <1>1, <2>1, <3>1, <3>2 DEF Magnitude
      <4> QED
        BY <1>1, <2>3, <2>4, <3>2, <4>1 DEF Floor
    <3>3. CASE a < 0
      <4>1. m <= 0 /\ m > a
        BY <1>1, <2>1, <3>1, <3>3 DEF Magnitude
      <4> QED
        BY <1>1, <2>3, <2>4, <3>3, <4>1 DEF Floor
    <3> QED
      BY <1>1, <1>3, <3>2, <3>3
  <2>7. m # 0 /\ q < 0 => Floor(q - 1, r, a)
    <3> SUFFICES ASSUME m # 0, q < 0 PROVE Floor(q - 1, r, a)
      OBVIOUS
    <3>1. (r < 0) # (a < 0)
      BY <2>1
    <3>2. (q - 1) + 1 = q
      OBVIOUS
    <3>3. CASE a > 0
      <4>1. m < 0 /\ -m < a
        BY <1>1, <2>1, <3>1, <3>3 DEF Magnitude
      <4>2. (q - 1) * a <= r /\ r < q * a
        BY <1>1, <2>3, <2>4, <4>1
      <4> QED
        BY <3>2, <3>3, <4>2 DEF Floor
    <3>4. CASE a < 0
      <4>1. m > 0 /\ m < -a
        BY <1>1, <2>1, <3>1, <3>4 DEF Magnitude
      <4>2. (q - 1) * a >= r /\ r > q * a
        BY <1>1, <2>3, <2>4, <4>1
      <4> QED
        BY <3>2, <3>4, <4>2 DEF Floor
    <3> QED
      BY <1>1, <1>3, <3>3, <3>4
  <2>8. m # 0 /\ q = 0 => Floor(q, r, a)
    <3> SUFFICES ASSUME m # 0, q = 0 PROVE Floor(q, r, a)
      OBVIOUS
    <3>1. qa = 0 /\ r = m
      BY <1>1, <2>3, <2>4
    <3>2. (r < 0) = (a < 0)
      BY <1>1, <1>3, <2>1, <3>1 DEF RoundedWrong
    <3>3. CASE a > 0
      <4>1. m >= 0 /\ m < a
        BY <1>1, <2>1, <3>2, <3>3 DEF Magnitude
      <4> QED
        BY <1>1, <2>3, <2>4, <3>3, <4>1 DEF Floor
    <3>4. CASE a < 0
      <4>1. m <= 0 /\ m > a
        BY <1>1, <2>1, <3>2, <3>4 DEF Magnitude
      <4> QED
        BY <1>1, <2>3, <2>4, <3>4, <4>1 DEF Floor
    <3> QED
      BY <1>1, <1>3, <3>3, <3>4
  <2>9. Floor(f, r, a)
    BY <2>2, <2>5, <2>6, <2>7, <2>8
  <2>10. f \in -WordSize .. WordSize
    <3>1. Magnitude(q) <= Magnitude(r)
      BY <2>1
    <3>2. f = q \/ (f = q - 1 /\ q < 0)
      BY <2>2
    <3>3. Magnitude(f) <= Magnitude(r) + 1
      BY <1>1, <3>1, <3>2 DEF Magnitude
    <3> QED
      BY <3>3, InRange
  <2>11. f \in right
    BY <2>9, <2>10
  <2>12. \A v \in right: v = f
    BY <1>1, <2>9, OneFloorOfAnySign
  <2>13. Div(r, a) = Checked(f)
    BY <1>3, <2>1, <2>2 DEF Div
  <2> HIDE DEF right
  <2>14. Exact(Checked(f), right)
    BY <2>11, <2>12, CheckedExact
  <2> QED
    BY <2>13, <2>14 DEF right
<1> QED
  BY <1>2, <1>3

LEMMA ModExact ==
  ASSUME NEW r \in SmallInteger, NEW a \in SmallInteger
  PROVE  Exact(Mod(r, a),
               {m \in -WordSize .. WordSize:
                  /\ (0 <= m /\ m < a) \/ (a < m /\ m <= 0)
                  /\ \E q \in -WordSize .. WordSize: r = q * a + m})
<1> DEFINE right ==
      {m \in -WordSize .. WordSize:
         /\ (0 <= m /\ m < a) \/ (a < m /\ m <= 0)
         /\ \E q \in -WordSize .. WordSize: r = q * a + m}
<1>1. r \in Int /\ a \in Int /\ WordSize \in Int
  BY OperandRange
<1>2. CASE a = 0
  <2>1. right = {}
    BY <1>1, <1>2
  <2> QED
    BY <1>2, <2>1, FailureExact DEF Mod
<1>3. CASE a # 0
  <2>1. PICK q \in Int, m \in Int:
          /\ q = CDiv(r, a) /\ m = CRem(r, a) /\ r = q * a + m
          /\ Magnitude(m) < Magnitude(a)
          /\ Magnitude(q) <= Magnitude(r)
    BY <1>1, <1>3, TruncatedDivision
  <2>2. PICK adjusted \in BOOLEAN:
          adjusted <=> (a < 0 /\ m > 0) \/ (a > 0 /\ m < 0)
    OBVIOUS
  <2>3. PICK n \in Int, p \in Int:
          IF adjusted THEN n = m + a /\ p = q - 1 ELSE n = m /\ p = q
    <3>1. m + a \in Int /\ q - 1 \in Int
      BY <1>1
    <3> QED
      BY <3>1
  <2>4. r = p * a + n
    <3>1. PICK qa \in Int: qa = q * a
      BY <1>1
    <3>2. (q - 1) * a = qa - a
      BY <1>1, <3>1, NextProduct
    <3>3. r = qa + m
      BY <2>1, <3>1
    <3>4. CASE adjusted
      BY <1>1, <2>3, <3>2, <3>3, <3>4
    <3>5. CASE ~adjusted
      BY <2>1, <2>3, <3>5
    <3> QED
      BY <3>4, <3>5
  <2>5. (0 <= n /\ n < a) \/ (a < n /\ n <= 0)
    <3>1. Magnitude(m) < Magnitude(a)
      BY <2>1
    <3>2. CASE a > 0
      BY <1>1, <2>2, <2>3, <3>1, <3>2 DEF Magnitude
    <3>3. CASE a < 0
      BY <1>1, <2>2, <2>3, <3>1, <3>3 DEF Magnitude
    <3> QED
      BY <1>1, <1>3, <3>2, <3>3
  <2>6. p \in -WordSize .. WordSize
    <3>1. Magnitude(q) <= Magnitude(r)
      BY <2>1
    <3>2. p = q \/ p = q - 1
      BY <2>3
    <3>3. Magnitude(p) <= Magnitude(r) + 1
      BY <1>1, <3>1, <3>2 DEF Magnitude
    <3> QED
      BY <3>3, InRange
  <2>7. n \in -WordSize .. WordSize
    <3>1. Magnitude(n) <= Magnitude(a) + 1
      BY <1>1, <2>5 DEF Magnitude
    <3> QED
      BY <3>1, InRange
  <2>8. n \in right
    BY <2>4, <2>5, <2>6, <2>7
  <2>9. ASSUME NEW k \in Int, NEW z \in Int, r = z * a + k,
               (0 <= k /\ k < a) \/ (a < k /\ k <= 0)
        PROVE  Floor(z, r, a)
    <3>1. PICK za \in Int: za = z * a
      BY <1>1
    <3>2. (z + 1) * a = za + a
      BY <1>1, <3>1
    <3> QED
      BY <1>1, <2>9, <3>1, <3>2 DEF Floor
  <2>10. \A v \in right: v = n
    <3> SUFFICES ASSUME NEW v \in right PROVE v = n
      OBVIOUS
    <3>1. v \in Int /\ ((0 <= v /\ v < a) \/ (a < v /\ v <= 0))
      BY <1>1
    <3>2. PICK z \in -WordSize .. WordSize: r = z * a + v
      OBVIOUS
    <3>3. z \in Int
      BY <1>1
    <3>4. Floor(z, r, a) /\ Floor(p, r, a)
      BY <2>4, <2>5, <2>9, <3>1, <3>2, <3>3
    <3>5. z = p
      BY <1>1, <3>3, <3>4, OneFloorOfAnySign
    <3>6. p * a \in Int
      BY <1>1
    <3> QED
      BY <2>4, <3>1, <3>2, <3>5, <3>6
  <2>11. Mod(r, a) = Checked(n)
    BY <1>3, <2>1, <2>2, <2>3 DEF Mod
  <2> HIDE DEF right
  <2>12. Exact(Checked(n), right)
    BY <2>8, <2>10, CheckedExact
  <2> QED
    BY <2>11, <2>12 DEF right
<1> QED
  BY <1>2, <1>3

(* quo: the quotient of the magnitudes, with its sign.                     *)
TowardsZero(q, r, a) ==
  /\ a # 0 /\ Magnitude(q * a) <= Magnitude(r)
  /\ Magnitude(r - q * a) < Magnitude(a)
  /\ (q = 0 \/ (q < 0) = ((r < 0) # (a < 0)))

LEMMA OneTowardsZero ==
  ASSUME NEW r \in Int, NEW a \in Int, NEW q \in Int, NEW m \in Int, NEW v \in Int,
         a # 0, r = q * a + m, Magnitude(m) < Magnitude(a),
         r >= 0 => m >= 0, r <= 0 => m <= 0,
         TowardsZero(v, r, a)
  PROVE  v = q
<1>1. PICK k \in Int, va \in Int, qa \in Int: va = v * a /\ k = r - va /\ qa = q * a
  OBVIOUS
<1>2. r = va + k /\ Magnitude(k) < Magnitude(a) /\ Magnitude(va) <= Magnitude(r)
  BY <1>1 DEF TowardsZero
<1>3. (r >= 0 => va >= 0) /\ (r <= 0 => va <= 0)
  <2>1. v = 0 \/ (v < 0) = ((r < 0) # (a < 0))
    BY DEF TowardsZero
  <2>2. v = 0 => va = 0
    BY <1>1
  <2>3. CASE r > 0
    <3>1. v = 0 \/ (v > 0 /\ a > 0) \/ (v < 0 /\ a < 0)
      BY <2>1, <2>3
    <3>2. va >= 0
      BY <1>1, <3>1
    <3> QED
      BY <2>3, <3>2
  <2>4. CASE r < 0
    <3>1. v = 0 \/ (v > 0 /\ a < 0) \/ (v < 0 /\ a > 0)
      BY <2>1, <2>4
    <3>2. va <= 0
      BY <1>1, <3>1
    <3> QED
      BY <2>4, <3>2
  <2>5. CASE r = 0
    BY <1>2, <2>5 DEF Magnitude
  <2> QED
    BY <2>3, <2>4, <2>5
<1>4. (r >= 0 => k >= 0) /\ (r <= 0 => k <= 0)
  BY <1>2, <1>3 DEF Magnitude
<1>5. PICK d \in Int: d = m - k
  OBVIOUS
<1>6. Magnitude(d) < Magnitude(a)
  BY <1>2, <1>4, <1>5 DEF Magnitude
<1>7. v * a = q * a + d
  <2>1. r = qa + m
    BY <1>1
  <2> QED
    BY <1>1, <1>2, <1>5, <2>1
<1> QED
  BY <1>6, <1>7, NoSecondQuotient

LEMMA QuoExact ==
  ASSUME NEW r \in SmallInteger, NEW a \in SmallInteger
  PROVE  Exact(Quo(r, a), {q \in -WordSize .. WordSize: TowardsZero(q, r, a)})
<1> DEFINE right == {q \in -WordSize .. WordSize: TowardsZero(q, r, a)}
<1>1. r \in Int /\ a \in Int /\ WordSize \in Int
  BY OperandRange
<1>2. CASE a = 0
  <2>1. right = {}
    BY <1>2 DEF TowardsZero
  <2> QED
    BY <1>2, <2>1, FailureExact DEF Quo
<1>3. CASE a # 0
  <2>1. PICK q \in Int, m \in Int:
          /\ q = CDiv(r, a) /\ m = CRem(r, a) /\ r = q * a + m
          /\ Magnitude(m) < Magnitude(a)
          /\ r >= 0 => m >= 0
          /\ r <= 0 => m <= 0
          /\ Magnitude(q) <= Magnitude(r)
          /\ (r < 0) = (a < 0) => q >= 0
          /\ (r < 0) # (a < 0) => q <= 0
    BY <1>1, <1>3, TruncatedDivision
  <2>2. TowardsZero(q, r, a)
    <3>1. PICK qa \in Int: qa = q * a
      BY <1>1
    <3>2. r - q * a = m
      BY <1>1, <2>1, <3>1
    <3>3. q = 0 \/ (q < 0) = ((r < 0) # (a < 0))
      BY <2>1
    <3>4. r = qa + m
      BY <2>1, <3>1
    <3>5. (r >= 0 => qa >= 0) /\ (r <= 0 => qa <= 0)
      <4>1. CASE r = 0
        <5>1. q = 0
          <6>1. Magnitude(q) <= Magnitude(r)
            BY <2>1
          <6> QED
            BY <4>1, <6>1 DEF Magnitude
        <5> QED
          BY <1>1, <3>1, <4>1, <5>1
      <4>2. CASE r > 0
        <5>1. (q >= 0 /\ a > 0) \/ (q <= 0 /\ a < 0)
          BY <1>1, <1>3, <2>1, <4>2
        <5>2. qa >= 0
          BY <1>1, <3>1, <5>1
        <5> QED
          BY <1>1, <4>2, <5>2
      <4>3. CASE r < 0
        <5>1. (q >= 0 /\ a < 0) \/ (q <= 0 /\ a > 0)
          BY <1>1, <1>3, <2>1, <4>3
        <5>2. qa <= 0
          BY <1>1, <3>1, <5>1
        <5> QED
          BY <1>1, <4>3, <5>2
      <4> QED
        BY <1>1, <4>1, <4>2, <4>3
    <3>6. Magnitude(q * a) <= Magnitude(r)
      BY <1>1, <2>1, <3>1, <3>4, <3>5 DEF Magnitude
    <3> QED
      BY <1>3, <2>1, <3>2, <3>3, <3>6 DEF TowardsZero
  <2>3. q \in right
    <3>1. Magnitude(q) <= Magnitude(r) + 1
      BY <1>1, <2>1 DEF Magnitude
    <3> QED
      BY <2>2, <3>1, InRange
  <2>4. \A v \in right: v = q
    <3> SUFFICES ASSUME NEW v \in right PROVE v = q
      OBVIOUS
    <3>1. v \in Int /\ TowardsZero(v, r, a)
      BY <1>1
    <3> QED
      BY <1>1, <1>3, <2>1, <3>1, OneTowardsZero
  <2>5. Quo(r, a) = Checked(q)
    BY <1>3, <2>1 DEF Quo
  <2> HIDE DEF right
  <2>6. Exact(Checked(q), right)
    BY <2>3, <2>4, CheckedExact
  <2> QED
    BY <2>5, <2>6 DEF right
<1> QED
  BY <1>2, <1>3

-----------------------------------------------------------------------------
(* The operations of ArithmeticExact compute what they stand for.          *)
LEMMA SumsExact ==
  ASSUME NEW f \in Int
  PROVE  Exact(Checked(f), {f})
BY CheckedExact

LEMMA OperationExact ==
  ASSUME NEW name \in IntegerOps, NEW r \in SmallInteger, NEW a \in SmallInteger,
         name = "Divide" => a # 0, ~RoundedWrong(name, r, a),
         NEW c \in Computed(name, r, a)
  PROVE  Exact(c, Right(name, r, a))
<1>1. r \in Int /\ a \in Int
  BY OperandRange
<1>2. CASE name = "Add"
  <2>1. c = Checked(r + a) /\ Right(name, r, a) = {r + a} /\ r + a \in Int
    BY <1>1, <1>2 DEF Computed, Right, Add
  <2> QED
    BY <2>1, SumsExact
<1>3. CASE name = "Subtract"
  <2>1. c = Checked(r - a) /\ Right(name, r, a) = {r - a} /\ r - a \in Int
    BY <1>1, <1>3 DEF Computed, Right, Subtract
  <2> QED
    BY <2>1, SumsExact
<1>4. CASE name = "Multiply"
  <2>1. c = Checked(r * a) /\ Right(name, r, a) = {r * a} /\ r * a \in Int
    BY <1>1, <1>4 DEF Computed, Right, Multiply
  <2> QED
    BY <2>1, SumsExact
<1>5. CASE name = "Divide"
  <2>1. c = Divide(r, a)
    BY <1>5 DEF Computed
  <2>2. Right(name, r, a) = {q \in -WordSize .. WordSize: a # 0 /\ q * a = r}
    BY <1>5 DEF Right
  <2> QED
    BY <1>5, <2>1, <2>2, DivideExact
<1>6. CASE name = "Mod"
  <2>1. c = Mod(r, a)
    BY <1>6 DEF Computed
  <2>2. Right(name, r, a) =
          {m \in -WordSize .. WordSize:
             /\ (0 <= m /\ m < a) \/ (a < m /\ m <= 0)
             /\ \E q \in -WordSize .. WordSize: r = q * a + m}
    BY <1>6 DEF Right
  <2> QED
    BY <2>1, <2>2, ModExact
<1>7. CASE name = "Div"
  <2>1. c = Div(r, a)
    BY <1>7 DEF Computed
  <2>2. Right(name, r, a) = {q \in -WordSize .. WordSize: Floor(q, r, a)}
    BY <1>7 DEF Right, Floor
  <2> QED
    BY <1>7, <2>1, <2>2, DivExact
<1>8. CASE name = "Quo"
  <2>1. c = Quo(r, a)
    BY <1>8 DEF Computed
  <2>2. Right(name, r, a) = {q \in -WordSize .. WordSize: TowardsZero(q, r, a)}
    BY <1>8 DEF Right, TowardsZero
  <2> QED
    BY <2>1, <2>2, QuoExact
<1> QED
  BY <1>2, <1>3, <1>4, <1>5, <1>6, <1>7, <1>8 DEF IntegerOps

(* The answer of a primitive with two operands is on top of the stack.     *)
LEMMA AnswerOfTwo ==
  ASSUME NEW name, NEW a, NEW b, NEW Effects, Call(name, <<a, b>>, Effects),
         IsSeq(stack), Called'
  PROVE  \E e \in Effects:
           /\ ~e.aborts
           /\ call'.name = name /\ call'.operands = <<a, b>>
           /\ call'.success = e.success
           /\ \A v: e = Answer(2, v) => Answered' = v
<1>1. PICK e \in Effects:
        IF e.aborts
        THEN running' = FALSE /\ UNCHANGED <<memory, stack, call>>
        ELSE /\ stack' = LeavesOn(stack \o <<a, b>>, e)
             /\ memory' = e.memory
             /\ call' = [name |-> name, operands |-> <<a, b>>,
                         success |-> e.success]
             /\ UNCHANGED running
  BY DEF Call
<1>2. ~e.aborts
  BY <1>1 DEF Called
<1>3. /\ call'.name = name /\ call'.operands = <<a, b>>
      /\ call'.success = e.success
      /\ stack' = LeavesOn(stack \o <<a, b>>, e)
  BY <1>1, <1>2
<1>4. ASSUME NEW v, e = Answer(2, v) PROVE Answered' = v
  <2>1. PICK R: stack \in Seq(R)
    BY DEF IsSeq
  <2>2. PICK S: S = R \cup {a, b, v}
    OBVIOUS
  <2>3. PICK s, o: s = stack /\ o = <<a, b>>
    OBVIOUS
  <2>4. s \in Seq(S) /\ v \in S
    BY <2>1, <2>2, <2>3, SeqMonotonic
  <2>5. o \in Seq(S) /\ Len(o) = 2
    BY <2>2, <2>3
  <2>6. e.pops = Len(o) /\ e.pushes = <<v>> /\ e.unpops = 0
    BY <1>4, <2>5 DEF Answer, Does
  <2>7. LeavesOn(s \o o, e) = Append(s, v)
    BY <2>4, <2>5, <2>6, OperandsAnswered
  <2>8. PICK u: u = Append(s, v)
    OBVIOUS
  <2>9. stack' = u
    BY <1>3, <2>3, <2>7, <2>8
  <2>10. Len(u) = Len(s) + 1 /\ u[Len(s) + 1] = v
    BY <2>4, <2>8, AppendProperties
  <2> QED
    BY <2>9, <2>10 DEF Answered
<1> QED
  BY <1>2, <1>3, <1>4

LEMMA ArithmeticStep ==
  ASSUME primitiveArithmetic, IsSeq(stack)
  PROVE  ArithmeticExact'
<1> SUFFICES ASSUME Called', call'.name \in IntegerOps
             PROVE  ArithmeticExact'
  BY DEF ArithmeticExact, IntegerOps
<1> DEFINE Effects(name, x, y) ==
      IF Traps(name, x, y) THEN {Abort}
      ELSE IF IsInt(x) /\ IsInt(y)
      THEN {AnswerIf(c.success, 2, Integer(c.value)):
              c \in Computed(name, x[2], y[2])}
      ELSE {Fail(2)}
<1>1. PICK name \in {"Add", "Subtract", "Multiply", "Divide", "Mod", "Div", "Quo",
                     "BitAnd", "BitOr", "BitXor", "BitShift"},
           x \in Operands, y \in Operands:
        Call(name, <<x, y>>, Effects(name, x, y))
  BY DEF primitiveArithmetic
<1>2. PICK e \in Effects(name, x, y):
        /\ ~e.aborts
        /\ call'.name = name /\ call'.operands = <<x, y>>
        /\ call'.success = e.success
        /\ \A v: e = Answer(2, v) => Answered' = v
  <2> HIDE DEF Effects
  <2> QED
    BY <1>1, AnswerOfTwo
<1>3. PICK r, a: r = x[2] /\ a = y[2]
  OBVIOUS
<1>4. PICK right: right = Right(name, r, a)
  OBVIOUS
<1>5. /\ DOMAIN call'.operands = {1, 2}
      /\ call'.operands[1] = x /\ call'.operands[2] = y
  BY <1>2
<1>6. SUFFICES ASSUME ~RoundedWrong(name, r, a)
               PROVE  /\ e.success => /\ IsInt(x) /\ IsInt(y)
                                      /\ \E v \in right \cap SmallInteger:
                                           Answered' = Integer(v)
                      /\ ~e.success => \/ ~IsInt(x) \/ ~IsInt(y)
                                       \/ right \cap SmallInteger = {}
  BY <1>2, <1>3, <1>4, <1>5 DEF ArithmeticExact, AnsweredOneOf
<1>7. ~Traps(name, x, y)
  BY <1>2 DEF Abort, Does
<1>8. CASE ~(IsInt(x) /\ IsInt(y))
  <2>1. e = Fail(2)
    BY <1>7, <1>8
  <2>2. e.success = FALSE
    BY <2>1 DEF Fail, Does
  <2> QED
    BY <1>8, <2>2
<1>9. CASE IsInt(x) /\ IsInt(y)
  <2>1. PICK c \in Computed(name, r, a):
          e = AnswerIf(c.success, 2, Integer(c.value))
    BY <1>3, <1>7, <1>9
  <2>2. /\ x = Integer(r) /\ r \in SmallInteger
        /\ y = Integer(a) /\ a \in SmallInteger
    BY <1>3, <1>9, IntegersAssumption DEF Operands, IsInt, Integer, Nil, Other
  <2>3. name = "Divide" => a # 0
    BY <1>7, <2>2 DEF Traps
  <2>4. name \in IntegerOps
    BY <1>2
  <2>5. Exact(c, right)
    BY <1>4, <1>6, <2>2, <2>3, <2>4, OperationExact
  <2>6. CASE c.success
    <3>1. e = Answer(2, Integer(c.value))
      BY <2>1, <2>6 DEF AnswerIf
    <3>2. Answered' = Integer(c.value)
      BY <1>2, <3>1
    <3>3. e.success = TRUE
      BY <3>1 DEF Answer, Does
    <3>4. c.value \in right \cap SmallInteger
      BY <2>5, <2>6 DEF Exact
    <3> QED
      BY <1>9, <3>2, <3>3, <3>4
  <2>7. CASE ~c.success
    <3>1. e = Fail(2)
      BY <2>1, <2>7 DEF AnswerIf
    <3>2. e.success = FALSE
      BY <3>1 DEF Fail, Does
    <3>3. right \cap SmallInteger = {}
      BY <2>5, <2>7 DEF Exact
    <3> QED
      BY <3>2, <3>3
  <2> QED
    BY <2>6, <2>7
<1> QED
  BY <1>8, <1>9

LEMMA OthersDoNotCompute ==
  ASSUME NoIntegerOp
  PROVE  ArithmeticExact'
BY DEF NoIntegerOp, ArithmeticExact, IntegerOps

LEMMA ArithmeticExactStep ==
  ASSUME Sequences_, ArithmeticExact, [Next]_vars
  PROVE  ArithmeticExact'
<1>1. IsSeq(stack) /\ IsSeq(call.operands)
  BY DEF Sequences_
<1>2. CASE UNCHANGED vars
  BY <1>2 DEF vars, ArithmeticExact, AnsweredOneOf, Answered, Called
<1>3. CASE primitiveArithmetic
  BY <1>1, <1>3, ArithmeticStep
<1>4. CASE primitiveCompare \/ primitiveMakePoint
           \/ primitiveFloatUnary \/ primitiveFloatBinary
  <2>1. NoIntegerOp
    BY <1>1, <1>4, CompareBalances, MakePointBalances, FloatUnaryBalances,
       FloatBinaryBalances
  <2> QED
    BY <2>1, OthersDoNotCompute
<1>5. CASE primitiveAt \/ primitiveAtPut \/ primitiveSize \/ primitiveStringAt
           \/ primitiveStringAtPut \/ primitiveNext \/ primitiveNextPut
           \/ primitiveAtEnd
  <2>1. NoIntegerOp
    BY <1>1, <1>5, AtBalances, AtPutBalances, SizeBalances, StringAtBalances,
       StringAtPutBalances, StreamNextBalances, NextPutBalances, AtEndBalances
  <2> QED
    BY <2>1, OthersDoNotCompute
<1>6. CASE primitiveInstVarAt \/ primitiveInstVarAtPut \/ primitiveBecome
           \/ primitiveNew \/ primitiveNewWithArg \/ primitiveNewMethod
           \/ primitiveAsOop \/ primitiveAsObject \/ primitiveInstances
           \/ primitiveObjectAt
  <2>1. NoIntegerOp
    BY <1>1, <1>6, InstVarAtBalances, InstVarAtPutBalances, BecomeBalances,
       NewBalances, NewWithArgBalances, NewMethodBalances, AsOopBalances,
       AsObjectBalances, InstancesBalance, ObjectAtBalances
  <2> QED
    BY <2>1, OthersDoNotCompute
<1>7. CASE AnswersValue \/ AnswersReceiver \/ TakesArgument \/ primitiveSignalAt
           \/ primitiveInputWord \/ primitiveEquivalent \/ PushesOnto
           \/ primitiveShowStdout \/ PosixErrorString \/ primitiveScanCharacters
  <2>1. NoIntegerOp
    BY <1>1, <1>7, ValueAnswered, ReceiverAnswered, ArgumentTaken,
       SignalAtBalances, InputWordBalances, EquivalentBalances, OntoPushed,
       ShowStdoutBalances, ErrorStringBalances, ScanCharactersBalances
  <2> QED
    BY <2>1, OthersDoNotCompute
<1>8. CASE TakeAnswer \/ NewContext
  BY <1>1, <1>8, AnswerTaken, ContextChanged, OthersDoNotCompute
<1> QED
  BY <1>2, <1>3, <1>4, <1>5, <1>6, <1>7, <1>8 DEF Next

(* The arithmetic primitives answer the exact result if it is a            *)
(* SmallInteger and fail if it is not, for SmallIntegers of any width and  *)
(* any operands, but for the known error of // (primitives.c:1548-1797).   *)
THEOREM ArithmeticIsExact == Spec => []ArithmeticExact
<1>1. Init => ArithmeticExact
  BY DEF Init, ArithmeticExact, Called
<1>2. Sequences_ /\ ArithmeticExact /\ [Next]_vars => ArithmeticExact'
  BY ArithmeticExactStep
<1> QED
  BY <1>1, <1>2, SequencesInvariant, PTL DEF Spec

=============================================================================
