---------------------------- MODULE ContextsProofs ----------------------------
(***************************************************************************)
(* Proofs about Contexts for any contexts, class hierarchy, methods, hash  *)
(* and arguments.                                                          *)
(***************************************************************************)
EXTENDS Contexts, TLAPS

(* The inductive invariant.  Of lookups: an entry of the cache is for the  *)
(* selector its method has.                                                *)
Entry == [selector: Selector, class: Class, method: Class \X Selector]

LookupRight ==
  /\ dictionary \in Dictionaries
  /\ methodCache \in [Slots -> {NoEntry} \cup Entry]
  /\ changed \subseteq Class
  /\ \A s \in Slots: methodCache[s] # NoEntry =>
       methodCache[s].method[2] = methodCache[s].selector
  /\ CacheRight

(* Of contexts: the home of a context is that of a method;                 *)
ContextRecord ==
  [home: Context \cup {NilPointer}, sender: Context \cup {NilPointer},
   ip: BOOLEAN, sp: Int, args: Nat, method: (Class \X Selector) \cup {NilPointer}]

ContextsTyped ==
  /\ contexts \in [Context -> ContextRecord]
  /\ activeContext \in Context
  /\ stackPointer \in Int
  /\ UNION {finished, misled, twice, spoiled} \subseteq Context
  /\ answerAt \in [Context -> Int]

HomesRight ==
  /\ \A c \in Context: contexts[c].home = NilPointer => contexts[c] = Unused
  /\ activeContext \in Used
  /\ \A c \in Used:
       /\ contexts[c].home \in Used
       /\ contexts[contexts[c].home].home = contexts[c].home

(* a context is called neither by itself nor by a block of its own;        *)
SendersRight ==
  \A c \in Used:
    /\ contexts[c].sender \in Used \cup {NilPointer}
    /\ contexts[c].sender # c
    /\ contexts[contexts[c].home].sender # c

(* what has returned, and nothing else, has no instruction pointer;        *)
FinishedRight ==
  /\ finished \subseteq Used /\ activeContext \notin finished
  /\ \A c \in Used: contexts[c].ip <=> c \notin finished

(* a block that is active or has called a context was called itself;       *)
Started(c) == c = activeContext \/ \E d \in Used: contexts[d].sender = c

StartedRight ==
  \A b \in Blocks: Started(b) => b \in finished \/ contexts[b].sender # NilPointer

(* and what waits for an answer has the stack it needs for it.             *)
Waits(c) ==
  /\ c # activeContext /\ c \notin finished
  /\ \E d \in Used: contexts[d].sender = c

WaitingRight ==
  \A c \in Used: Waits(c) => c \in spoiled \/ contexts[c].sp + 1 = answerAt[c]

ContextsRight ==
  /\ ContextsTyped
  /\ HomesRight /\ SendersRight /\ FinishedRight /\ StartedRight /\ WaitingRight
  /\ GivenItsArguments

IInv == LookupRight /\ ContextsRight /\ step \in {"return", "cannotReturn", "other"}

-----------------------------------------------------------------------------
(* Lookups.                                                                *)
LEMMA NearestClass ==
  ASSUME NEW class \in Class, NEW S \in SUBSET Above(class), S # {}
  PROVE  (CHOOSE c \in S: S \subseteq Above(c)) \in S
<1>1. \E c \in S: S \subseteq Above(c)
  BY ContextsAssumption
<1> QED
  BY <1>1

LEMMA LookupEntry ==
  ASSUME NEW selector \in Selector, NEW class \in Class, dictionary \in Dictionaries
  PROVE  lookupMethod(selector, class) # NilPointer =>
           /\ lookupMethod(selector, class) \in dictionary
           /\ lookupMethod(selector, class) \in Class \X Selector
           /\ lookupMethod(selector, class)[2] = selector
<1> DEFINE having == {c \in Above(class): <<c, selector>> \in dictionary}
           nearest == CHOOSE c \in having: having \subseteq Above(c)
<1>1. CASE having = {}
  BY <1>1 DEF lookupMethod
<1>2. CASE having # {}
  <2>1. lookupMethod(selector, class) = <<nearest, selector>>
    BY <1>2 DEF lookupMethod
  <2>2. having \in SUBSET Above(class)
    OBVIOUS
  <2>4. nearest \in having
    <3> HIDE DEF having
    <3> QED
      BY <1>2, <2>2, NearestClass
  <2>5. nearest \in Class /\ <<nearest, selector>> \in dictionary
    BY <2>4 DEF Above
  <2> HIDE DEF nearest
  <2> QED
    BY <2>1, <2>5
<1> QED
  BY <1>1, <1>2

(* doesNotUnderstand: is always found.                                     *)
LEMMA AlwaysUnderstood ==
  ASSUME NEW class \in Class, dictionary \in Dictionaries
  PROVE  lookupMethod(doesNotUnderstand, class) # NilPointer
<1> DEFINE having == {c \in Above(class): <<c, doesNotUnderstand>> \in dictionary}
           nearest == CHOOSE c \in having: having \subseteq Above(c)
<1>1. having # {}
  BY ContextsAssumption
<1>2. lookupMethod(doesNotUnderstand, class) = <<nearest, doesNotUnderstand>>
  BY <1>1 DEF lookupMethod
<1>3. having \in SUBSET Above(class)
  OBVIOUS
<1>4. nearest \in having
  <2> HIDE DEF having
  <2> QED
    BY <1>1, <1>3, NearestClass
<1>5. nearest \in Class
  BY <1>4 DEF Above
<1> HIDE DEF nearest
<1>6. <<nearest, doesNotUnderstand>> \in Class \X Selector
  BY <1>5, ContextsAssumption
<1> QED
  BY <1>2, <1>6, ContextsAssumption

LEMMA LookupAnswers ==
  ASSUME NEW selector \in Selector, NEW class \in Class, dictionary \in Dictionaries,
         NEW e, e = lookupMethodInClass(selector, class)
  PROVE  /\ e \in Entry
         /\ e.class = class
         /\ e.method[2] = e.selector
         /\ e.method = lookupMethod(e.selector, class)
         /\ e.selector \in {selector, doesNotUnderstand}
<1> DEFINE found == IF lookupMethod(selector, class) = NilPointer
                    THEN doesNotUnderstand ELSE selector
<1>1. found \in Selector
  BY ContextsAssumption
<1>2. lookupMethod(found, class) # NilPointer
  BY AlwaysUnderstood
<1>3. e = [selector |-> found, class |-> class, method |-> lookupMethod(found, class)]
  BY DEF lookupMethodInClass
<1> HIDE DEF found
<1>4. found \in {selector, doesNotUnderstand}
  BY DEF found
<1> QED
  BY <1>1, <1>2, <1>3, <1>4, LookupEntry DEF Entry

(* What a send runs is in the cache, or has been looked up.                *)
LEMMA FindAnswers ==
  ASSUME LookupRight, NEW selector \in Selector, NEW class \in Class,
         NEW e, e = findNewMethodInClass(selector, class)
  PROVE  /\ e \in Entry
         /\ e.method[2] = e.selector
         /\ \/ Above(e.class) \cap changed # {}
            \/ e.method = lookupMethod(e.selector, e.class)
         /\ e.selector \in {selector, doesNotUnderstand}
<1> DEFINE cached == methodCache[slotOf[selector][class]]
<1>1. CASE cached.selector = selector /\ cached.class = class
  <2>1. e = cached
    BY <1>1 DEF findNewMethodInClass
  <2>2. slotOf[selector][class] \in Slots
    BY DEF Slots
  <2>3. cached # NoEntry
    BY <1>1, ContextsAssumption DEF NoEntry
  <2>4. cached \in Entry
    BY <2>2, <2>3 DEF LookupRight
  <2> QED
    BY <1>1, <2>1, <2>2, <2>3, <2>4 DEF LookupRight, CacheRight
<1>2. CASE ~(cached.selector = selector /\ cached.class = class)
  <2>1. e = lookupMethodInClass(selector, class)
    BY <1>2 DEF findNewMethodInClass
  <2> QED
    BY <2>1, LookupAnswers DEF LookupRight
<1> QED
  BY <1>1, <1>2

(* A method runs with as many arguments as it has.                         *)
LEMMA CountsMatch ==
  ASSUME NEW selector \in Selector, NEW e \in Entry,
         e.selector \in {selector, doesNotUnderstand},
         NEW count \in Nat, e.selector = selector => count = arguments[selector]
  PROVE  /\ CountFor(e, selector, count) = arguments[e.selector]
         /\ CountFor(e, selector, count) \in Nat
  BY ContextsAssumption DEF CountFor, Understood, Entry

(* An entry that is right stays right while the methods that it depends on *)
(* do.                                                                     *)
LEMMA SameLookup ==
  ASSUME NEW selector \in Selector, NEW class \in Class,
         \A c \in Above(class):
           <<c, selector>> \in dictionary <=> <<c, selector>> \in dictionary'
  PROVE  lookupMethod(selector, class)' = lookupMethod(selector, class)
<1> DEFINE found(H) == IF H = {} THEN NilPointer
                       ELSE <<CHOOSE c \in H: H \subseteq Above(c), selector>>
           having == {c \in Above(class): <<c, selector>> \in dictionary}
           havingNow == {c \in Above(class): <<c, selector>> \in dictionary'}
<1>1. having = havingNow
  OBVIOUS
<1>2. lookupMethod(selector, class) = found(having)
  BY Zenon DEF lookupMethod
<1>3. lookupMethod(selector, class)' = found(havingNow)
  BY Zenon DEF lookupMethod
<1> HIDE DEF having, havingNow, found
<1> QED
  BY <1>1, <1>2, <1>3

LEMMA UnchangedLookup ==
  ASSUME LookupRight, UNCHANGED lookup
  PROVE  LookupRight'
<1>1. \A t, c: lookupMethod(t, c)' = lookupMethod(t, c)
  BY DEF lookupMethod, lookup
<1> QED
  BY <1>1 DEF LookupRight, CacheRight, lookup

LEMMA SendLookup ==
  ASSUME LookupRight, NEW selector \in Selector, NEW class \in Class,
         methodCache' = [methodCache EXCEPT ![slotOf[selector][class]] =
                           findNewMethodInClass(selector, class)],
         UNCHANGED <<dictionary, changed>>
  PROVE  LookupRight'
<1> DEFINE e == findNewMethodInClass(selector, class)
<1>1. /\ e \in Entry
      /\ e.method[2] = e.selector
      /\ \/ Above(e.class) \cap changed # {}
         \/ e.method = lookupMethod(e.selector, e.class)
  BY FindAnswers
<1> HIDE DEF e
<1>2. methodCache' = [methodCache EXCEPT ![slotOf[selector][class]] = e]
  BY DEF e
<1>3. \A s \in Slots: methodCache'[s] = e \/ methodCache'[s] = methodCache[s]
  BY <1>2 DEF LookupRight
<1>4. methodCache' \in [Slots -> {NoEntry} \cup Entry]
  BY <1>1, <1>2 DEF LookupRight
<1>5. \A t, c: lookupMethod(t, c)' = lookupMethod(t, c)
  BY DEF lookupMethod
<1>6. CacheRight'
  BY <1>1, <1>3, <1>4, <1>5 DEF LookupRight, CacheRight
<1>7. \A s \in Slots: methodCache'[s] # NoEntry =>
        methodCache'[s].method[2] = methodCache'[s].selector
  BY <1>1, <1>3 DEF LookupRight
<1> QED
  BY <1>4, <1>6, <1>7 DEF LookupRight

LEMMA ChangeLookup ==
  ASSUME LookupRight, ChangeMethods
  PROVE  LookupRight'
<1>1. PICK d \in Dictionaries:
        /\ dictionary' = d
        /\ changed' = changed \cup {m[1]: m \in (d \ dictionary) \cup (dictionary \ d)}
        /\ methodCache' = methodCache
  BY DEF ChangeMethods
<1>2. changed' \subseteq Class
  BY <1>1, ContextsAssumption DEF LookupRight
<1>3. CacheRight'
  <2> SUFFICES ASSUME NEW s \in Slots, methodCache[s] # NoEntry,
                      Above(methodCache[s].class) \cap changed' = {}
               PROVE  methodCache[s].method
                        = lookupMethod(methodCache[s].selector, methodCache[s].class)'
    BY <1>1 DEF CacheRight, LookupRight
  <2> PICK e: e = methodCache[s]
    OBVIOUS
  <2>1. e \in Entry
    BY DEF LookupRight
  <2>2. e.method = lookupMethod(e.selector, e.class)
    BY <1>1 DEF LookupRight, CacheRight
  <2>3. \A c \in Above(e.class):
          <<c, e.selector>> \in dictionary <=> <<c, e.selector>> \in dictionary'
    BY <1>1
  <2>4. e.selector \in Selector /\ e.class \in Class
    BY <2>1 DEF Entry
  <2>5. lookupMethod(e.selector, e.class)' = lookupMethod(e.selector, e.class)
    BY <2>3, <2>4, SameLookup
  <2> QED
    BY <1>1, <2>2, <2>5
<1> QED
  BY <1>1, <1>2, <1>3 DEF LookupRight

LEMMA FlushLookup ==
  ASSUME LookupRight, primitiveFlushCache
  PROVE  LookupRight'
  BY DEF LookupRight, CacheRight, primitiveFlushCache
-----------------------------------------------------------------------------
(* Contexts.  A context that is used has a home.                           *)
LEMMA UsedHasHome ==
  ASSUME ContextsTyped, NEW c \in Context,
         contexts[c].home = NilPointer => contexts[c] = Unused
  PROVE  c \in Used <=> contexts[c].home # NilPointer
  BY ContextsAssumption DEF Used, Unused

(* newActiveContext changes what it should of the two contexts.            *)
LEMMA Transferred ==
  ASSUME NEW cs \in [Context -> ContextRecord], activeContext \in Context,
         NEW c \in Context, c # activeContext, NEW n \in Int,
         newActiveContext(cs, c, n)
  PROVE  /\ contexts' \in [Context -> ContextRecord]
         /\ activeContext' = c
         /\ stackPointer' = cs[c].sp
         /\ contexts'[activeContext].ip = TRUE /\ contexts'[activeContext].sp = n
         /\ \A d \in Context:
              /\ contexts'[d].home = cs[d].home
              /\ contexts'[d].sender = cs[d].sender
              /\ contexts'[d].args = cs[d].args
              /\ contexts'[d].method = cs[d].method
              /\ d # activeContext => contexts'[d].ip = cs[d].ip
              /\ d \notin {activeContext, c} => contexts'[d].sp = cs[d].sp
<1> DEFINE a == activeContext
           stored == [cs EXCEPT ![a].ip = TRUE, ![a].sp = n]
<1>1. /\ stored \in [Context -> ContextRecord]
      /\ \A d \in Context:
           /\ stored[d].home = cs[d].home
           /\ stored[d].sender = cs[d].sender
           /\ stored[d].args = cs[d].args
           /\ stored[d].method = cs[d].method
           /\ stored[d].ip = (IF d = a THEN TRUE ELSE cs[d].ip)
           /\ stored[d].sp = (IF d = a THEN n ELSE cs[d].sp)
  BY DEF ContextRecord
<1>2. contexts' = [stored EXCEPT ![c].sp = 0] /\ activeContext' = c
      /\ stackPointer' = stored[c].sp
  BY DEF newActiveContext, Fetched
<1> HIDE DEF stored
<1>3. /\ contexts' \in [Context -> ContextRecord]
      /\ \A d \in Context:
           /\ contexts'[d].home = stored[d].home
           /\ contexts'[d].sender = stored[d].sender
           /\ contexts'[d].args = stored[d].args
           /\ contexts'[d].method = stored[d].method
           /\ contexts'[d].ip = stored[d].ip
           /\ contexts'[d].sp = (IF d = c THEN 0 ELSE stored[d].sp)
  BY <1>1, <1>2 DEF ContextRecord
<1>4. stackPointer' = cs[c].sp
  BY <1>1, <1>2
<1>5. contexts'[activeContext].ip = TRUE /\ contexts'[activeContext].sp = n
  BY <1>1, <1>3
<1>6. ASSUME NEW d \in Context
      PROVE  /\ contexts'[d].home = cs[d].home
             /\ contexts'[d].sender = cs[d].sender
             /\ contexts'[d].args = cs[d].args
             /\ contexts'[d].method = cs[d].method
             /\ d # activeContext => contexts'[d].ip = cs[d].ip
             /\ d \notin {activeContext, c} => contexts'[d].sp = cs[d].sp
  BY <1>1, <1>3
<1> QED
  BY <1>2, <1>3, <1>4, <1>5, <1>6

(* It goes to context c, which has the fields r from now on.               *)
LEMMA Entered ==
  ASSUME ContextsTyped, NEW c \in Context, c # activeContext,
         NEW r \in ContextRecord, NEW n \in Int,
         newActiveContext([contexts EXCEPT ![c] = r], c, n)
  PROVE  /\ contexts' \in [Context -> ContextRecord]
         /\ activeContext' = c
         /\ stackPointer' = r.sp
         /\ contexts'[c].home = r.home /\ contexts'[c].sender = r.sender
         /\ contexts'[c].args = r.args /\ contexts'[c].method = r.method
         /\ contexts'[c].ip = r.ip
         /\ contexts'[activeContext].ip = TRUE /\ contexts'[activeContext].sp = n
         /\ \A d \in Context \ {c}:
              /\ contexts'[d].home = contexts[d].home
              /\ contexts'[d].sender = contexts[d].sender
              /\ contexts'[d].args = contexts[d].args
              /\ contexts'[d].method = contexts[d].method
              /\ d # activeContext => /\ contexts'[d].sp = contexts[d].sp
                                      /\ contexts'[d].ip = contexts[d].ip
<1>1. PICK cs: cs = [contexts EXCEPT ![c] = r]
  OBVIOUS
<1>2. activeContext \in Context /\ contexts \in [Context -> ContextRecord]
  BY DEF ContextsTyped
<1>3. cs \in [Context -> ContextRecord] /\ cs[c] = r
      /\ \A d \in Context \ {c}: cs[d] = contexts[d]
  BY <1>1, <1>2
<1>4. newActiveContext(cs, c, n)
  BY <1>1
<1>5. /\ contexts' \in [Context -> ContextRecord]
      /\ activeContext' = c
      /\ stackPointer' = cs[c].sp
      /\ contexts'[activeContext].ip = TRUE /\ contexts'[activeContext].sp = n
      /\ \A d \in Context:
           /\ contexts'[d].home = cs[d].home
           /\ contexts'[d].sender = cs[d].sender
           /\ contexts'[d].args = cs[d].args
           /\ contexts'[d].method = cs[d].method
           /\ d # activeContext => contexts'[d].ip = cs[d].ip
           /\ d \notin {activeContext, c} => contexts'[d].sp = cs[d].sp
  BY <1>2, <1>3, <1>4, Transferred
<1>6. ASSUME NEW d \in Context \ {c}
      PROVE  /\ contexts'[d].home = contexts[d].home
             /\ contexts'[d].sender = contexts[d].sender
             /\ contexts'[d].args = contexts[d].args
             /\ contexts'[d].method = contexts[d].method
             /\ d # activeContext => /\ contexts'[d].sp = contexts[d].sp
                                     /\ contexts'[d].ip = contexts[d].ip
  BY <1>3, <1>5
<1> QED
  BY <1>2, <1>3, <1>5, <1>6

LEMMA OnlyTheStack ==
  ASSUME ContextsRight, UNCHANGED <<contexts, activeContext, auxiliary>>,
         stackPointer' \in Int
  PROVE  ContextsRight'
<1>1. UNCHANGED <<contexts, activeContext, finished, answerAt, misled, twice, spoiled>>
  BY DEF auxiliary
<1>2. Used' = Used /\ Blocks' = Blocks
  BY <1>1 DEF Blocks, Used
<1>3. \A c: Started(c)' = Started(c) /\ Waits(c)' = Waits(c)
  BY <1>1, <1>2 DEF Started, Waits
<1>4. ContextsTyped' /\ HomesRight' /\ SendersRight' /\ FinishedRight'
  BY <1>1, <1>2
     DEF ContextsRight, ContextsTyped, HomesRight, SendersRight, FinishedRight
<1>5. StartedRight' /\ WaitingRight' /\ GivenItsArguments'
  BY <1>1, <1>2, <1>3
     DEF ContextsRight, StartedRight, WaitingRight, GivenItsArguments
<1> QED
  BY <1>4, <1>5 DEF ContextsRight

(* Contexts N are made, of which one becomes active: they have been called *)
(* by each other or by the active one, a, and those that wait for an       *)
(* answer have the stack for it, unless it has been moved.                 *)
Called(N, a) ==
  \A c \in N:
    /\ contexts'[c].home = c /\ contexts'[c].ip = TRUE
    /\ contexts'[c].sender \in (N \cup {a}) \ {c}
    /\ c \in misled' \/ contexts'[c].args = arguments[contexts'[c].method[2]]

Spared(N, a) ==
  \A d \in Context \ N:
    /\ contexts'[d].home = contexts[d].home
    /\ contexts'[d].sender = contexts[d].sender
    /\ contexts'[d].args = contexts[d].args
    /\ contexts'[d].method = contexts[d].method
    /\ d # a => /\ contexts'[d].sp = contexts[d].sp
                /\ contexts'[d].ip = contexts[d].ip
                /\ answerAt'[d] = answerAt[d]

Awaiting(N, a) ==
  \A d \in (N \cup {a}) \ {activeContext'}:
    d \in spoiled' \/ contexts'[d].sp + 1 = answerAt'[d]

LEMMA CallsRight ==
  ASSUME ContextsRight, NEW a, a = activeContext, NEW N \in SUBSET (Context \ Used),
         contexts' \in [Context -> ContextRecord],
         activeContext' \in N, stackPointer' \in Int, contexts'[a].ip = TRUE,
         Called(N, a), Spared(N, a), Awaiting(N, a), answerAt' \in [Context -> Int],
         spoiled \subseteq spoiled', spoiled' \subseteq Context,
         misled \subseteq misled', misled' \subseteq Context, twice' \subseteq Context,
         finished' = finished
  PROVE  ContextsRight'
<1>0. /\ \A c \in N:
           /\ contexts'[c].home = c /\ contexts'[c].ip = TRUE
           /\ contexts'[c].sender \in (N \cup {a}) \ {c}
           /\ c \in misled' \/ contexts'[c].args = arguments[contexts'[c].method[2]]
      /\ \A d \in Context \ N:
           /\ contexts'[d].home = contexts[d].home
           /\ contexts'[d].sender = contexts[d].sender
           /\ contexts'[d].args = contexts[d].args
           /\ contexts'[d].method = contexts[d].method
           /\ d # a => /\ contexts'[d].sp = contexts[d].sp
                       /\ contexts'[d].ip = contexts[d].ip
                       /\ answerAt'[d] = answerAt[d]
      /\ \A d \in (N \cup {a}) \ {activeContext'}:
           d \in spoiled' \/ contexts'[d].sp + 1 = answerAt'[d]
  BY DEF Called, Spared, Awaiting
<1>1. ContextsTyped /\ HomesRight /\ SendersRight /\ FinishedRight /\ StartedRight
      /\ WaitingRight /\ GivenItsArguments
  BY DEF ContextsRight
<1>2. a \in Used /\ a \in Context /\ a \notin N /\ N \subseteq Context
  BY <1>1 DEF HomesRight, ContextsTyped
<1>3. ContextsTyped'
  BY <1>1, <1>2 DEF ContextsTyped
<1>4. ASSUME NEW d \in Context, contexts'[d].home = NilPointer
      PROVE  contexts'[d] = Unused
  <2>1. d \notin N
    BY <1>0, <1>4, ContextsAssumption
  <2>2. contexts[d] = Unused
    BY <1>0, <1>1, <1>4, <2>1 DEF HomesRight
  <2>3. d # a
    BY <1>2, <2>2 DEF Used
  <2>4. contexts'[d] \in ContextRecord /\ contexts[d] \in ContextRecord
    BY <1>1 DEF ContextsTyped
  <2>5. contexts'[d] = contexts[d]
    BY <1>0, <2>1, <2>3, <2>4 DEF ContextRecord
  <2> QED
    BY <2>2, <2>5
<1>5. Used' = Used \cup N
  <2>1. \A d \in Context: d \in Used <=> contexts[d].home # NilPointer
    BY <1>1, UsedHasHome DEF HomesRight
  <2>2. \A d \in Context: d \in Used' <=> contexts'[d].home # NilPointer
    <3> SUFFICES ASSUME NEW d \in Context
                 PROVE  contexts'[d] = Unused <=> contexts'[d].home = NilPointer
      BY DEF Used
    <3>1. contexts'[d] = Unused => contexts'[d].home = NilPointer
      BY DEF Unused
    <3> QED
      BY <3>1, <1>4
  <2>3. \A c \in N: c \in Used'
    BY <1>0, <1>2, <2>2, ContextsAssumption
  <2>4. ASSUME NEW d \in Context \ N PROVE d \in Used' <=> d \in Used
    BY <1>0, <2>1, <2>2, <2>4
  <2> QED
    BY <1>2, <2>3, <2>4 DEF Used
<1>6. \A d \in Used: d \in Context /\ d \notin N /\ contexts[d].home \in Used
  BY <1>1 DEF HomesRight, Used
<1>7. HomesRight'
  <2>1. ASSUME NEW d \in Used'
        PROVE  contexts'[d].home \in Used'
               /\ contexts'[contexts'[d].home].home = contexts'[d].home
    <3>1. CASE d \in N
      BY <1>0, <1>5, <3>1
    <3>2. CASE d \in Used
      <4>1. contexts[d].home \in Used
            /\ contexts[contexts[d].home].home = contexts[d].home
        BY <1>1, <3>2 DEF HomesRight
      <4> QED
        BY <1>0, <1>5, <1>6, <3>2, <4>1
    <3> QED
      BY <1>5, <3>1, <3>2
  <2> QED
    BY <1>4, <1>5, <2>1 DEF HomesRight
<1>8. SendersRight'
  <2> SUFFICES ASSUME NEW d \in Used'
               PROVE  /\ contexts'[d].sender \in Used' \cup {NilPointer}
                      /\ contexts'[d].sender # d
                      /\ contexts'[contexts'[d].home].sender # d
    BY DEF SendersRight
  <2>1. CASE d \in N
    BY <1>0, <1>2, <1>5, <2>1
  <2>2. CASE d \in Used
    BY <1>0, <1>1, <1>5, <1>6, <2>2 DEF SendersRight
  <2> QED
    BY <1>5, <2>1, <2>2
<1>9. FinishedRight'
  <2>1. finished \cap N = {}
    BY <1>1 DEF FinishedRight
  <2>2. a \notin finished
    BY <1>1 DEF FinishedRight
  <2>3. ASSUME NEW d \in Used' PROVE contexts'[d].ip <=> d \notin finished
    <3>1. CASE d \in N
      BY <1>0, <2>1, <3>1
    <3>2. CASE d \in Used
      BY <1>0, <1>1, <1>2, <1>6, <2>2, <3>2 DEF FinishedRight
    <3> QED
      BY <1>5, <2>3, <3>1, <3>2
  <2> QED
    BY <1>1, <1>5, <2>1, <2>3 DEF FinishedRight
<1>10. ASSUME NEW b \in Used, NEW d \in Used', contexts'[d].sender = b
       PROVE  b = a \/ (d \in Used /\ contexts[d].sender = b)
  BY <1>0, <1>5, <1>6, <1>10
<1>11. Blocks' = Blocks
  BY <1>0, <1>2, <1>5, <1>6 DEF Blocks
<1>12. StartedRight'
  <2> SUFFICES ASSUME NEW b \in Blocks, Started(b)'
               PROVE  b \in finished \/ contexts'[b].sender # NilPointer
    BY <1>11 DEF StartedRight
  <2>1. b \in Used
    BY DEF Blocks
  <2>2. Started(b)
    BY <1>0, <1>6, <1>10, <2>1 DEF Started
  <2> QED
    BY <1>0, <1>1, <1>6, <2>1, <2>2 DEF StartedRight
<1>13. WaitingRight'
  <2> SUFFICES ASSUME NEW d \in Used', Waits(d)'
               PROVE  d \in spoiled' \/ contexts'[d].sp + 1 = answerAt'[d]
    BY DEF WaitingRight
  <2>1. CASE d \in N \cup {a}
    BY <1>0, <2>1 DEF Waits
  <2>2. CASE d \in Used /\ d # a
    <3>1. Waits(d)
      BY <1>10, <2>2 DEF Waits
    <3>2. contexts'[d].sp = contexts[d].sp /\ answerAt'[d] = answerAt[d]
      BY <1>0, <1>6, <2>2
    <3> QED
      BY <1>1, <2>2, <3>1, <3>2 DEF WaitingRight
  <2> QED
    BY <1>5, <2>1, <2>2
<1>14. GivenItsArguments'
  <2> SUFFICES ASSUME NEW d \in Used', d \notin Blocks, d \notin misled'
               PROVE  contexts'[d].args = arguments[contexts'[d].method[2]]
    BY <1>11 DEF GivenItsArguments
  <2>1. CASE d \in N
    BY <1>0, <2>1
  <2>2. CASE d \in Used
    BY <1>0, <1>1, <1>6, <2>2 DEF GivenItsArguments
  <2> QED
    BY <1>5, <2>1, <2>2
<1> QED
  BY <1>3, <1>7, <1>8, <1>9, <1>12, <1>13, <1>14 DEF ContextsRight

(* A method is activated: its context is called by the active one, which   *)
(* waits for the answer unless its stack has been moved.                   *)
LEMMA ActivateRight ==
  ASSUME ContextsRight,
         NEW method \in Class \X Selector, NEW count \in Nat, NEW sp \in Int,
         activateNewMethod(method, count, sp),
         NEW depth \in Int, Awaits(depth),
         spoiled \subseteq spoiled', spoiled' \subseteq Context,
         activeContext \in spoiled' \/ depth = sp - count,
         misled \subseteq misled', misled' \subseteq Context,
         activeContext' \in misled' \/ count = arguments[method[2]],
         twice' = twice, finished' = finished
  PROVE  ContextsRight'
<1>1. PICK c \in Context \ Used:
        newActiveContext(
          [contexts EXCEPT ![c] = MethodContext(c, activeContext, 0, count, method)],
          c, sp - (count + 1))
  BY DEF activateNewMethod
<1>2. ContextsTyped /\ HomesRight
  BY DEF ContextsRight
<1>3. PICK a, r, rest:
        /\ a = activeContext /\ rest = sp - (count + 1)
        /\ r = MethodContext(c, activeContext, 0, count, method)
  OBVIOUS
<1>4. /\ a \in Used /\ a \in Context /\ c \in Context /\ c \notin Used /\ a # c
      /\ a = activeContext
  BY <1>1, <1>2, <1>3 DEF HomesRight, ContextsTyped
<1>5. /\ rest \in Int /\ rest + 1 = sp - count /\ r \in ContextRecord
      /\ r.home = c /\ r.sender = a /\ r.ip = TRUE /\ r.sp = 0 /\ r.args = count
      /\ r.method = method
      /\ newActiveContext([contexts EXCEPT ![c] = r], c, rest)
  BY <1>1, <1>3, <1>4 DEF ContextRecord, MethodContext
<1>6. /\ contexts' \in [Context -> ContextRecord]
      /\ activeContext' = c
      /\ stackPointer' = r.sp
      /\ contexts'[c].home = r.home /\ contexts'[c].sender = r.sender
      /\ contexts'[c].args = r.args /\ contexts'[c].method = r.method
      /\ contexts'[c].ip = r.ip
      /\ contexts'[activeContext].ip = TRUE /\ contexts'[activeContext].sp = rest
      /\ \A d \in Context \ {c}:
           /\ contexts'[d].home = contexts[d].home
           /\ contexts'[d].sender = contexts[d].sender
           /\ contexts'[d].args = contexts[d].args
           /\ contexts'[d].method = contexts[d].method
           /\ d # activeContext => /\ contexts'[d].sp = contexts[d].sp
                                   /\ contexts'[d].ip = contexts[d].ip
  BY <1>2, <1>4, <1>5, Entered
<1>7. answerAt' = [answerAt EXCEPT ![a] = depth]
  BY <1>4 DEF Awaits
<1>8. /\ answerAt' \in [Context -> Int] /\ answerAt'[a] = depth
      /\ \A d \in Context \ {a}: answerAt'[d] = answerAt[d]
  BY <1>2, <1>4, <1>7 DEF ContextsTyped
<1>9. twice' \subseteq Context
  BY <1>2 DEF ContextsTyped
<1>10. PICK N: N = {c}
  OBVIOUS
<1>11. N \in SUBSET (Context \ Used)
  BY <1>4, <1>10
<1>12. Called(N, a)
  BY <1>4, <1>5, <1>6, <1>10 DEF Called
<1>13. Awaiting(N, a)
  BY <1>4, <1>5, <1>6, <1>8, <1>10 DEF Awaiting
<1>14. Spared(N, a)
  <2> SUFFICES ASSUME NEW d \in Context \ N
               PROVE  /\ contexts'[d].home = contexts[d].home
                      /\ contexts'[d].sender = contexts[d].sender
                      /\ contexts'[d].args = contexts[d].args
                      /\ contexts'[d].method = contexts[d].method
                      /\ d # a => /\ contexts'[d].sp = contexts[d].sp
                                          /\ contexts'[d].ip = contexts[d].ip
                                          /\ answerAt'[d] = answerAt[d]
    BY DEF Spared
  <2> QED
    BY <1>4, <1>6, <1>8, <1>10
<1>15. activeContext' \in N /\ stackPointer' \in Int /\ contexts'[a].ip = TRUE
  BY <1>4, <1>5, <1>6, <1>10
<1> QED
  BY <1>4, <1>6, <1>8, <1>9, <1>11, <1>12, <1>13, <1>14, <1>15, CallsRight

(* A performed method is activated twice: the second is called by the      *)
(* first.                                                                  *)
LEMMA ActivateTwiceRight ==
  ASSUME ContextsRight,
         NEW method \in Class \X Selector, NEW count \in Nat, NEW sp \in Int,
         activateTwice(method, count, sp), count = arguments[method[2]],
         spoiled' = spoiled, finished' = finished
  PROVE  ContextsRight'
<1>1. PICK c \in Context \ Used: \E d \in Context \ (Used \cup {c}):
        /\ contexts' = [contexts EXCEPT
             ![activeContext].ip = TRUE, ![activeContext].sp = sp - (count + 1),
             ![c] = MethodContext(c, activeContext, -(count + 1), count, method),
             ![d] = MethodContext(d, c, 0, count, method)]
        /\ activeContext' = d
        /\ stackPointer' = 0
        /\ answerAt' = [answerAt EXCEPT ![activeContext] = sp - count, ![c] = -count]
        /\ twice' = twice \cup {c}
        /\ misled' = misled \cup {d}
  BY DEF activateTwice
<1>2. PICK e \in Context \ (Used \cup {c}):
        /\ contexts' = [contexts EXCEPT
             ![activeContext].ip = TRUE, ![activeContext].sp = sp - (count + 1),
             ![c] = MethodContext(c, activeContext, -(count + 1), count, method),
             ![e] = MethodContext(e, c, 0, count, method)]
        /\ activeContext' = e
        /\ stackPointer' = 0
        /\ answerAt' = [answerAt EXCEPT ![activeContext] = sp - count, ![c] = -count]
        /\ twice' = twice \cup {c}
        /\ misled' = misled \cup {e}
  BY <1>1
<1>3. ContextsTyped /\ HomesRight
  BY DEF ContextsRight
<1>4. PICK a, r, q, rest, deep, at, below:
        /\ a = activeContext /\ rest = sp - (count + 1) /\ deep = -(count + 1)
        /\ at = sp - count /\ below = -count
        /\ r = MethodContext(c, activeContext, -(count + 1), count, method)
        /\ q = MethodContext(e, c, 0, count, method)
  OBVIOUS
<1>5. /\ a \in Used /\ a \in Context /\ c \in Context /\ c \notin Used /\ a # c
      /\ e \in Context /\ e \notin Used /\ e # c /\ a # e
  BY <1>3, <1>4 DEF HomesRight, ContextsTyped
<1>6. /\ rest \in Int /\ rest + 1 = at /\ deep \in Int /\ deep + 1 = below
      /\ at \in Int /\ below \in Int
  BY <1>4
<1>7. /\ r \in ContextRecord /\ r.home = c /\ r.sender = a /\ r.ip = TRUE /\ r.sp = deep
      /\ r.args = count /\ r.method = method
      /\ q \in ContextRecord /\ q.home = e /\ q.sender = c /\ q.ip = TRUE
  BY <1>4, <1>5, <1>6 DEF ContextRecord, MethodContext
<1>8. PICK stored:
        stored = [contexts EXCEPT ![a].ip = TRUE, ![a].sp = rest]
  OBVIOUS
<1>9. /\ stored \in [Context -> ContextRecord]
      /\ \A d \in Context:
           /\ stored[d].home = contexts[d].home
           /\ stored[d].sender = contexts[d].sender
           /\ stored[d].args = contexts[d].args
           /\ stored[d].method = contexts[d].method
           /\ d # a => stored[d].sp = contexts[d].sp /\ stored[d].ip = contexts[d].ip
      /\ stored[a].ip = TRUE /\ stored[a].sp = rest
  BY <1>3, <1>5, <1>6, <1>8 DEF ContextsTyped, ContextRecord
<1>10. contexts' = [stored EXCEPT ![c] = r, ![e] = q]
  BY <1>2, <1>4, <1>8
<1>11. /\ contexts' \in [Context -> ContextRecord]
       /\ contexts'[c] = r /\ contexts'[e] = q
       /\ \A d \in Context \ {c, e}: contexts'[d] = stored[d]
  BY <1>5, <1>7, <1>9, <1>10
<1>12. answerAt' = [answerAt EXCEPT ![a] = at, ![c] = below]
  BY <1>2, <1>4
<1>13. /\ answerAt' \in [Context -> Int] /\ answerAt'[a] = at /\ answerAt'[c] = below
       /\ \A d \in Context \ {a, c}: answerAt'[d] = answerAt[d]
  BY <1>3, <1>5, <1>6, <1>12 DEF ContextsTyped
<1>14. /\ misled \subseteq misled' /\ misled' \subseteq Context /\ e \in misled'
       /\ twice' \subseteq Context /\ spoiled' \subseteq Context
  BY <1>2, <1>3, <1>5 DEF ContextsTyped
<1>15. PICK N: N = {c, e}
  OBVIOUS
<1>16. N \in SUBSET (Context \ Used)
  BY <1>5, <1>15
<1>17. Called(N, a)
  BY <1>5, <1>7, <1>11, <1>14, <1>15 DEF Called
<1>18. Awaiting(N, a)
  <2>1. contexts'[a].sp + 1 = answerAt'[a]
    BY <1>5, <1>6, <1>9, <1>11, <1>13
  <2>2. contexts'[c].sp + 1 = answerAt'[c]
    BY <1>6, <1>7, <1>11, <1>13
  <2> QED
    BY <1>2, <1>15, <2>1, <2>2 DEF Awaiting
<1>19. Spared(N, a)
  <2> SUFFICES ASSUME NEW d \in Context \ N
               PROVE  /\ contexts'[d].home = contexts[d].home
                      /\ contexts'[d].sender = contexts[d].sender
                      /\ contexts'[d].args = contexts[d].args
                      /\ contexts'[d].method = contexts[d].method
                      /\ d # a => /\ contexts'[d].sp = contexts[d].sp
                                          /\ contexts'[d].ip = contexts[d].ip
                                          /\ answerAt'[d] = answerAt[d]
    BY DEF Spared
  <2> QED
    BY <1>5, <1>9, <1>11, <1>13, <1>15
<1>20. activeContext' \in N /\ stackPointer' \in Int /\ contexts'[a].ip = TRUE
  BY <1>2, <1>5, <1>9, <1>11, <1>15
<1> QED
  BY <1>4, <1>11, <1>13, <1>14, <1>16, <1>17, <1>18, <1>19, <1>20, CallsRight

LEMMA FieldsSet ==
  ASSUME NEW y \in ContextRecord, NEW n \in Int, NEW s \in Context
  PROVE  [[[y EXCEPT !.ip = TRUE] EXCEPT !.sp = n] EXCEPT !.sender = s]
           = [home |-> y.home, sender |-> s, ip |-> TRUE, sp |-> n,
              args |-> y.args, method |-> y.method]
<1> DEFINE z == [[[y EXCEPT !.ip = TRUE] EXCEPT !.sp = n] EXCEPT !.sender = s]
<1>1. z \in ContextRecord
  BY DEF ContextRecord
<1>2. z.home = y.home /\ z.sender = s /\ z.ip = TRUE /\ z.sp = n
      /\ z.args = y.args /\ z.method = y.method
  BY DEF ContextRecord
<1> HIDE DEF z
<1>3. z = [home |-> y.home, sender |-> s, ip |-> TRUE, sp |-> n,
           args |-> y.args, method |-> y.method]
  BY <1>1, <1>2 DEF ContextRecord
<1> QED
  BY <1>3 DEF z

(* A block is evaluated that is not active.                                *)
LEMMA EvaluateRight ==
  ASSUME ContextsRight, NEW block \in Blocks, block # activeContext,
         NEW popped \in Nat, Evaluate(block, popped)
  PROVE  ContextsRight'
<1>1. ContextsTyped /\ HomesRight /\ SendersRight /\ FinishedRight /\ StartedRight
      /\ WaitingRight /\ GivenItsArguments
  BY DEF ContextsRight
<1>2. PICK a, r, rest:
        /\ a = activeContext /\ rest = stackPointer - popped
        /\ r = [home |-> contexts[block].home, sender |-> activeContext, ip |-> TRUE,
                sp |-> contexts[block].args, args |-> contexts[block].args,
                method |-> contexts[block].method]
  OBVIOUS
<1>3. /\ a \in Used /\ a \in Context /\ block \in Context /\ block \in Used
      /\ contexts[block].home # block /\ a # block /\ a = activeContext
  BY <1>1, <1>2 DEF HomesRight, ContextsTyped, Blocks, Used
<1>4. rest \in Int /\ rest + 1 = stackPointer - popped + 1
  BY <1>1, <1>2 DEF Evaluate, ContextsTyped
<1>5. r \in ContextRecord
  BY <1>1, <1>2, <1>3 DEF ContextsTyped, ContextRecord
<1>6. newActiveContext([contexts EXCEPT ![block] = r], block, rest)
  <2>1. [contexts EXCEPT ![block].ip = TRUE, ![block].sp = contexts[block].args,
                         ![block].sender = activeContext]
          = [contexts EXCEPT ![block] = r]
    <3>1. contexts \in [Context -> ContextRecord]
      BY <1>1 DEF ContextsTyped
    <3>2. /\ contexts[block] \in ContextRecord
          /\ contexts[block].args \in Nat /\ activeContext \in Context
      BY <1>3, <3>1 DEF ContextRecord
    <3>3. contexts[block].args \in Int
      BY <3>2
    <3>4. [[[contexts[block] EXCEPT !.ip = TRUE] EXCEPT !.sp = contexts[block].args]
             EXCEPT !.sender = activeContext] = r
      BY <1>2, <3>2, <3>3, FieldsSet
    <3> QED
      BY <1>3, <3>1, <3>4
  <2> QED
    BY <1>2, <2>1 DEF Evaluate
<1>7. /\ contexts' \in [Context -> ContextRecord]
      /\ activeContext' = block
      /\ stackPointer' = contexts[block].args
      /\ contexts'[block].home = contexts[block].home
      /\ contexts'[block].sender = a /\ contexts'[block].ip = TRUE
      /\ contexts'[a].sp = rest /\ contexts'[a].ip = TRUE
      /\ \A d \in Context \ {block}:
           /\ contexts'[d].home = contexts[d].home
           /\ contexts'[d].sender = contexts[d].sender
           /\ contexts'[d].args = contexts[d].args
           /\ contexts'[d].method = contexts[d].method
           /\ d # a => contexts'[d].sp = contexts[d].sp /\ contexts'[d].ip = contexts[d].ip
  <2>1. /\ contexts' \in [Context -> ContextRecord]
        /\ activeContext' = block
        /\ stackPointer' = r.sp
        /\ contexts'[block].home = r.home /\ contexts'[block].sender = r.sender
        /\ contexts'[block].args = r.args /\ contexts'[block].method = r.method
        /\ contexts'[block].ip = r.ip
        /\ contexts'[activeContext].ip = TRUE /\ contexts'[activeContext].sp = rest
        /\ \A d \in Context \ {block}:
             /\ contexts'[d].home = contexts[d].home
             /\ contexts'[d].sender = contexts[d].sender
             /\ contexts'[d].args = contexts[d].args
             /\ contexts'[d].method = contexts[d].method
             /\ d # activeContext => /\ contexts'[d].sp = contexts[d].sp
                                     /\ contexts'[d].ip = contexts[d].ip
    BY <1>1, <1>3, <1>4, <1>5, <1>6, Entered
  <2> QED
    BY <1>2, <1>3, <2>1
<1>8. /\ answerAt' = [answerAt EXCEPT ![a] = rest + 1]
      /\ finished' = finished \ {block} /\ spoiled' = spoiled \ {block}
      /\ misled' = misled /\ twice' = twice
  BY <1>3, <1>4 DEF Evaluate, Awaits
<1>9. ContextsTyped'
  BY <1>1, <1>3, <1>4, <1>5, <1>7, <1>8 DEF ContextsTyped, ContextRecord
<1>10. \A d \in Context: contexts'[d].home = contexts[d].home
  BY <1>7
<1>11. ASSUME NEW d \in Context, contexts'[d].home = NilPointer
       PROVE  contexts'[d] = Unused
  <2>1. contexts[d] = Unused
    BY <1>1, <1>10, <1>11 DEF HomesRight
  <2>2. d # a /\ d # block
    BY <1>3, <2>1 DEF Used
  <2>3. contexts'[d] \in ContextRecord /\ contexts[d] \in ContextRecord
    BY <1>1, <1>7 DEF ContextsTyped
  <2>4. contexts'[d] = contexts[d]
    BY <1>7, <2>2, <2>3 DEF ContextRecord
  <2> QED
    BY <2>1, <2>4
<1>12. Used' = Used /\ Blocks' = Blocks
  <2>1. \A d \in Context: d \in Used <=> contexts[d].home # NilPointer
    BY <1>1, UsedHasHome DEF HomesRight
  <2>2. \A d \in Context: d \in Used' <=> contexts'[d].home # NilPointer
    <3> SUFFICES ASSUME NEW d \in Context
                 PROVE  contexts'[d] = Unused <=> contexts'[d].home = NilPointer
      BY DEF Used
    <3>1. contexts'[d] = Unused => contexts'[d].home = NilPointer
      BY DEF Unused
    <3> QED
      BY <3>1, <1>11
  <2>3. Used' = Used
    BY <1>10, <2>1, <2>2 DEF Used
  <2> QED
    BY <1>10, <2>3 DEF Blocks, Used
<1>13. HomesRight'
  <2>1. ASSUME NEW d \in Used
        PROVE  contexts'[d].home \in Used
               /\ contexts'[contexts'[d].home].home = contexts'[d].home
    BY <1>1, <1>10, <2>1 DEF HomesRight, Used
  <2> QED
    BY <1>3, <1>7, <1>11, <1>12, <2>1 DEF HomesRight
<1>14. SendersRight'
  <2> SUFFICES ASSUME NEW d \in Used
               PROVE  /\ contexts'[d].sender \in Used \cup {NilPointer}
                      /\ contexts'[d].sender # d
                      /\ contexts'[contexts'[d].home].sender # d
    BY <1>12 DEF SendersRight
  <2>1. d \in Context /\ contexts[d].home \in Used /\ contexts[d].home \in Context
    BY <1>1 DEF HomesRight, Used
  <2>2. contexts[d].home # block
    BY <1>1, <1>3 DEF HomesRight
  <2> QED
    BY <1>1, <1>3, <1>7, <1>10, <2>1, <2>2 DEF SendersRight
<1>15. FinishedRight'
  <2> SUFFICES ASSUME NEW d \in Used
               PROVE  contexts'[d].ip <=> d \notin finished'
    BY <1>1, <1>3, <1>7, <1>8, <1>12 DEF FinishedRight
  <2>1. d \in Context
    BY DEF Used
  <2> QED
    BY <1>1, <1>3, <1>7, <1>8, <2>1 DEF FinishedRight
<1>16. StartedRight'
  <2> SUFFICES ASSUME NEW b \in Blocks, b # block, Started(b)'
               PROVE  b \in finished' \/ contexts'[b].sender # NilPointer
    BY <1>3, <1>7, <1>12, ContextsAssumption DEF StartedRight
  <2>1. b \in Context
    BY DEF Blocks, Used
  <2>2. Started(b)
    BY <1>3, <1>7, <1>12 DEF Started, Used
  <2> QED
    BY <1>1, <1>7, <1>8, <2>1, <2>2 DEF StartedRight
<1>17. WaitingRight'
  <2> SUFFICES ASSUME NEW d \in Used, Waits(d)'
               PROVE  d \in spoiled' \/ contexts'[d].sp + 1 = answerAt'[d]
    BY <1>12 DEF WaitingRight
  <2>1. d \in Context /\ d # block /\ d \notin finished
    BY <1>7, <1>8 DEF Waits, Used
  <2>2. CASE d = a
    BY <1>1, <1>3, <1>7, <1>8, <2>2 DEF ContextsTyped
  <2>3. CASE d # a
    <3>1. Waits(d)
      BY <1>3, <1>7, <1>12, <2>1, <2>3 DEF Waits, Used
    <3>2. contexts'[d].sp = contexts[d].sp /\ answerAt'[d] = answerAt[d]
      BY <1>1, <1>3, <1>7, <1>8, <2>1, <2>3 DEF ContextsTyped
    <3> QED
      BY <1>1, <1>8, <2>1, <3>1, <3>2 DEF WaitingRight
  <2> QED
    BY <2>2, <2>3
<1>18. GivenItsArguments'
  BY <1>1, <1>3, <1>7, <1>8, <1>12 DEF GivenItsArguments, Used, Blocks
<1> QED
  BY <1>9, <1>13, <1>14, <1>15, <1>16, <1>17, <1>18 DEF ContextsRight
(* A block is made: nobody has called it yet.                              *)
LEMMA BlockCopyRight ==
  ASSUME ContextsRight, primitiveBlockCopy
  PROVE  ContextsRight'
<1>1. ContextsTyped /\ HomesRight /\ SendersRight /\ FinishedRight /\ StartedRight
      /\ WaitingRight /\ GivenItsArguments
  BY DEF ContextsRight
<1>2. PICK c \in Context \ Used, r \in ContextRecord:
        /\ contexts' = [contexts EXCEPT ![c] = r]
        /\ r.home = homeContext /\ r.sender = NilPointer /\ r.ip = TRUE
  <2>1. PICK c \in Context \ Used, count \in 0 .. 1:
          contexts' = [contexts EXCEPT ![c] =
                         [home |-> homeContext, sender |-> NilPointer, ip |-> TRUE,
                          sp |-> 0, args |-> count, method |-> NilPointer]]
    BY DEF primitiveBlockCopy
  <2>2. homeContext \in Context
    BY <1>1 DEF homeContext, HomesRight, Used
  <2>3. count \in Nat
    BY <2>1
  <2>4. PICK r: r = [home |-> homeContext, sender |-> NilPointer, ip |-> TRUE,
                     sp |-> 0, args |-> count, method |-> NilPointer]
    OBVIOUS
  <2>5. r \in ContextRecord
    BY <2>2, <2>3, <2>4 DEF ContextRecord
  <2>6. contexts' = [contexts EXCEPT ![c] = r]
    BY <2>1, <2>4
  <2>7. r.home = homeContext /\ r.sender = NilPointer /\ r.ip = TRUE
    BY <2>4
  <2> QED
    BY <2>5, <2>6, <2>7
<1>3. /\ activeContext' = activeContext /\ finished' = finished
      /\ spoiled' = spoiled /\ misled' = misled /\ twice' = twice
      /\ answerAt' = answerAt
  BY DEF primitiveBlockCopy, auxiliary
<1>4. c \in Context /\ c \notin Used /\ c # NilPointer /\ c # activeContext
  BY <1>1, <1>2, ContextsAssumption DEF HomesRight
<1>5. /\ contexts' \in [Context -> ContextRecord]
      /\ contexts'[c] = r
      /\ \A d \in Context \ {c}: contexts'[d] = contexts[d]
  BY <1>1, <1>2, <1>4 DEF ContextsTyped
<1>6. ContextsTyped'
  BY <1>1, <1>3, <1>5 DEF primitiveBlockCopy, ContextsTyped
<1>7. homeContext \in Used /\ contexts[homeContext].home = homeContext
      /\ homeContext # c /\ homeContext \in Context /\ homeContext # NilPointer
  BY <1>1, <1>4, ContextsAssumption DEF HomesRight, homeContext, Used
<1>8. Used' = Used \cup {c}
  <2>1. contexts'[c] # Unused
    BY <1>2, <1>5, <1>7 DEF Unused
  <2> QED
    BY <1>4, <1>5, <2>1 DEF Used, Unused
<1>9. \A d \in Used: d \in Context /\ d # c /\ contexts'[d] = contexts[d]
  BY <1>4, <1>5 DEF Used
<1>10. HomesRight'
  <2>1. ASSUME NEW d \in Context, contexts'[d].home = NilPointer
        PROVE  contexts'[d] = Unused
    BY <1>1, <1>2, <1>5, <1>7, <2>1 DEF HomesRight
  <2>2. contexts'[c].home \in Used' /\ contexts'[contexts'[c].home].home = contexts'[c].home
    BY <1>2, <1>5, <1>7, <1>8
  <2>3. ASSUME NEW d \in Used
        PROVE  contexts'[d].home \in Used'
               /\ contexts'[contexts'[d].home].home = contexts'[d].home
    BY <1>1, <1>8, <1>9, <2>3 DEF HomesRight
  <2> QED
    BY <1>1, <1>3, <1>8, <2>1, <2>2, <2>3 DEF HomesRight
<1>11. SendersRight'
  <2>1. /\ contexts'[c].sender \in Used' \cup {NilPointer}
        /\ contexts'[c].sender # c
        /\ contexts'[contexts'[c].home].sender # c
    BY <1>1, <1>2, <1>4, <1>5, <1>7, <1>9 DEF SendersRight
  <2>2. ASSUME NEW d \in Used
        PROVE  /\ contexts'[d].sender \in Used' \cup {NilPointer}
               /\ contexts'[d].sender # d
               /\ contexts'[contexts'[d].home].sender # d
    BY <1>1, <1>8, <1>9 DEF SendersRight, HomesRight
  <2> QED
    BY <1>8, <2>1, <2>2 DEF SendersRight
<1>12. FinishedRight'
  <2>1. c \notin finished
    BY <1>1, <1>4 DEF FinishedRight
  <2> QED
    BY <1>1, <1>2, <1>3, <1>5, <1>8, <1>9, <2>1 DEF FinishedRight
<1>13. \A d \in Used': \A b \in Context: contexts'[d].sender = b =>
         d \in Used /\ contexts[d].sender = b /\ b # c
  BY <1>1, <1>2, <1>4, <1>5, <1>8, <1>9, ContextsAssumption DEF SendersRight
<1>14. StartedRight'
  <2> SUFFICES ASSUME NEW b \in Blocks', Started(b)'
               PROVE  b \in finished' \/ contexts'[b].sender # NilPointer
    BY DEF StartedRight
  <2>1. b \in Context /\ b # c /\ Started(b)
    BY <1>3, <1>4, <1>13 DEF Started, Blocks, Used
  <2>2. b \in Blocks
    BY <1>8, <1>9, <2>1 DEF Blocks
  <2> QED
    BY <1>1, <1>3, <1>5, <2>1, <2>2 DEF StartedRight
<1>15. WaitingRight'
  <2> SUFFICES ASSUME NEW d \in Used', Waits(d)'
               PROVE  d \in spoiled' \/ contexts'[d].sp + 1 = answerAt'[d]
    BY DEF WaitingRight
  <2>1. d \in Context /\ d # c /\ Waits(d)
    BY <1>3, <1>13 DEF Waits, Used
  <2> QED
    BY <1>1, <1>3, <1>5, <1>8, <2>1 DEF WaitingRight
<1>16. GivenItsArguments'
  <2> SUFFICES ASSUME NEW d \in Used' \ (Blocks' \cup misled')
               PROVE  contexts'[d].args = arguments[contexts'[d].method[2]]
    BY DEF GivenItsArguments
  <2>1. d # c
    BY <1>2, <1>5, <1>7, <1>8 DEF Blocks
  <2>2. d \in Used \ (Blocks \cup misled) /\ contexts'[d] = contexts[d]
    BY <1>3, <1>8, <1>9, <2>1 DEF Blocks
  <2> QED
    BY <1>1, <2>2 DEF GivenItsArguments
<1> QED
  BY <1>6, <1>10, <1>11, <1>12, <1>14, <1>15, <1>16 DEF ContextsRight

(* What a return goes to is another context, which a used one has called   *)
(* for.                                                                    *)
Target(context) == context \in {sender, caller}

LEMMA TargetCalled ==
  ASSUME ContextsRight, NEW context, Target(context), context # NilPointer
  PROVE  /\ context \in Used /\ context # activeContext
         /\ \E d \in Used: contexts[d].sender = context
<1>1. activeContext \in Used /\ homeContext \in Used
  BY DEF ContextsRight, HomesRight, homeContext
<1> QED
  BY <1>1 DEF ContextsRight, SendersRight, Target, sender, caller, homeContext

LEMMA ReturnRight ==
  ASSUME ContextsRight, NEW context, Target(context), NEW sp,
         CanReturnTo(context), returnValue(context, sp)
  PROVE  /\ ContextsRight'
         /\ UNCHANGED lookup /\ step' = "return"
         /\ activeContext' \notin finished
         /\ activeContext' \notin spoiled => stackPointer' = answerAt[activeContext']
<1>1. ContextsTyped /\ HomesRight /\ SendersRight /\ FinishedRight /\ StartedRight
      /\ WaitingRight /\ GivenItsArguments
  BY DEF ContextsRight
<1>2. PICK a: a = activeContext
  OBVIOUS
<1>3. /\ context \in Used /\ context # a /\ context \in Context
      /\ a \in Used /\ a \in Context
      /\ context # NilPointer /\ contexts[context].ip
  BY <1>1, <1>2, TargetCalled DEF CanReturnTo, HomesRight, Used
<1>4. /\ contexts' = [[contexts EXCEPT ![a].sender = NilPointer, ![a].ip = FALSE]
                        EXCEPT ![context].sp = 0]
      /\ activeContext' = context
      /\ stackPointer' = contexts[context].sp + 1
      /\ finished' = finished \cup {a}
      /\ step' = "return"
      /\ answerAt' = [answerAt EXCEPT ![context] = 0]
      /\ UNCHANGED <<lookup, misled, twice, spoiled>>
  BY <1>2 DEF returnValue, Fetched, nilContextFields
<1>5. /\ contexts' \in [Context -> ContextRecord]
      /\ contexts'[a].sender = NilPointer /\ contexts'[a].ip = FALSE
      /\ \A d \in Context:
           /\ contexts'[d].home = contexts[d].home
           /\ contexts'[d].args = contexts[d].args
           /\ contexts'[d].method = contexts[d].method
           /\ d # a => contexts'[d].sender = contexts[d].sender
                       /\ contexts'[d].ip = contexts[d].ip
           /\ d # context => contexts'[d].sp = contexts[d].sp
  <2>1. PICK cs: cs = [contexts EXCEPT ![a].sender = NilPointer, ![a].ip = FALSE]
    OBVIOUS
  <2>2. /\ cs \in [Context -> ContextRecord]
        /\ cs[a].sender = NilPointer /\ cs[a].ip = FALSE
        /\ \A d \in Context:
             /\ cs[d].home = contexts[d].home
             /\ cs[d].args = contexts[d].args
             /\ cs[d].method = contexts[d].method
             /\ cs[d].sp = contexts[d].sp
             /\ d # a => cs[d].sender = contexts[d].sender /\ cs[d].ip = contexts[d].ip
    BY <1>1, <1>3, <2>1 DEF ContextsTyped, ContextRecord
  <2>3. contexts' = [cs EXCEPT ![context].sp = 0]
    BY <1>4, <2>1
  <2>4. /\ contexts' \in [Context -> ContextRecord]
        /\ \A d \in Context:
             /\ contexts'[d].home = cs[d].home
             /\ contexts'[d].sender = cs[d].sender
             /\ contexts'[d].ip = cs[d].ip
             /\ contexts'[d].args = cs[d].args
             /\ contexts'[d].method = cs[d].method
             /\ d # context => contexts'[d].sp = cs[d].sp
    BY <1>3, <2>2, <2>3 DEF ContextRecord
  <2>5. ASSUME NEW d \in Context
        PROVE  /\ contexts'[d].home = contexts[d].home
               /\ contexts'[d].args = contexts[d].args
               /\ contexts'[d].method = contexts[d].method
               /\ d # a => contexts'[d].sender = contexts[d].sender
                           /\ contexts'[d].ip = contexts[d].ip
               /\ d # context => contexts'[d].sp = contexts[d].sp
    BY <2>2, <2>4
  <2> QED
    BY <1>3, <2>2, <2>4, <2>5
<1>6. ContextsTyped'
  <2>1. contexts[context].sp + 1 \in Int
    BY <1>1, <1>3 DEF ContextsTyped, ContextRecord
  <2> QED
    BY <1>1, <1>3, <1>4, <1>5, <2>1 DEF ContextsTyped
<1>7. ASSUME NEW d \in Context, contexts'[d].home = NilPointer
      PROVE  contexts'[d] = Unused
  <2>1. contexts[d] = Unused
    BY <1>1, <1>5, <1>7 DEF HomesRight
  <2>2. d # a /\ d # context
    BY <1>3, <2>1 DEF Used
  <2>3. contexts'[d] \in ContextRecord /\ contexts[d] \in ContextRecord
    BY <1>1, <1>5 DEF ContextsTyped
  <2>4. contexts'[d] = contexts[d]
    BY <1>5, <2>2, <2>3 DEF ContextRecord
  <2> QED
    BY <2>1, <2>4
<1>8. Used' = Used /\ Blocks' = Blocks
  <2>1. \A d \in Context: d \in Used <=> contexts[d].home # NilPointer
    BY <1>1, UsedHasHome DEF HomesRight
  <2>2. \A d \in Context: d \in Used' <=> contexts'[d].home # NilPointer
    <3> SUFFICES ASSUME NEW d \in Context
                 PROVE  contexts'[d] = Unused <=> contexts'[d].home = NilPointer
      BY DEF Used
    <3>1. contexts'[d] = Unused => contexts'[d].home = NilPointer
      BY DEF Unused
    <3> QED
      BY <3>1, <1>7
  <2>3. Used' = Used
    BY <1>5, <2>1, <2>2 DEF Used
  <2> QED
    BY <1>5, <2>3 DEF Blocks, Used
<1>9. HomesRight'
  <2>1. ASSUME NEW d \in Used
        PROVE  contexts'[d].home \in Used
               /\ contexts'[contexts'[d].home].home = contexts'[d].home
    BY <1>1, <1>5, <2>1 DEF HomesRight, Used
  <2> QED
    BY <1>3, <1>4, <1>7, <1>8, <2>1 DEF HomesRight
<1>10. \A d \in Used: d \in Context /\ contexts[d].home \in Used
  BY <1>1 DEF HomesRight, Used
<1>11. SendersRight'
  <2> SUFFICES ASSUME NEW d \in Used
               PROVE  /\ contexts'[d].sender \in Used \cup {NilPointer}
                      /\ contexts'[d].sender # d
                      /\ contexts'[contexts'[d].home].sender # d
    BY <1>8 DEF SendersRight
  <2>1. d \in Context /\ d # NilPointer /\ contexts[d].home \in Context
        /\ contexts'[d].home = contexts[d].home
    BY <1>5, <1>10, ContextsAssumption
  <2>2. ASSUME NEW e \in Context
        PROVE  contexts'[e].sender \in {contexts[e].sender, NilPointer}
    BY <1>5
  <2>3. /\ contexts'[d].sender \in {contexts[d].sender, NilPointer}
        /\ contexts'[contexts[d].home].sender
             \in {contexts[contexts[d].home].sender, NilPointer}
    BY <2>1, <2>2
  <2> QED
    BY <1>1, <2>1, <2>3 DEF SendersRight
<1>12. FinishedRight' /\ context \notin finished
  <2>1. context \notin finished
    BY <1>1, <1>3 DEF FinishedRight
  <2>2. ASSUME NEW d \in Used PROVE contexts'[d].ip <=> d \notin finished'
    BY <1>1, <1>3, <1>4, <1>5, <1>10 DEF FinishedRight
  <2> QED
    BY <1>1, <1>3, <1>4, <1>8, <2>1, <2>2 DEF FinishedRight
<1>13. StartedRight'
  <2> SUFFICES ASSUME NEW b \in Blocks, b # a, Started(b)'
               PROVE  contexts[b].sender # NilPointer \/ b \in finished
    BY <1>4, <1>5, <1>8 DEF StartedRight, Blocks, Used
  <2>1. b \in Context /\ b # NilPointer
    BY ContextsAssumption DEF Blocks, Used
  <2>2. Started(b)
    <3>1. CASE b = context
      BY <1>3, <3>1, TargetCalled DEF Started
    <3>2. CASE b # context
      BY <1>3, <1>4, <1>5, <1>8, <1>10, <2>1, <3>2 DEF Started
    <3> QED
      BY <3>1, <3>2
  <2> QED
    BY <1>1, <2>2 DEF StartedRight
<1>14. WaitingRight'
  <2> SUFFICES ASSUME NEW d \in Used, Waits(d)'
               PROVE  d \in spoiled' \/ contexts'[d].sp + 1 = answerAt'[d]
    BY <1>8 DEF WaitingRight
  <2>1. d \in Context /\ d # context /\ d # a /\ d \notin finished /\ d # NilPointer
    BY <1>4, ContextsAssumption DEF Waits, Used
  <2>2. Waits(d)
    BY <1>2, <1>5, <1>8, <1>10, <2>1 DEF Waits
  <2>3. contexts'[d].sp = contexts[d].sp /\ answerAt'[d] = answerAt[d]
    BY <1>1, <1>4, <1>5, <2>1 DEF ContextsTyped
  <2> QED
    BY <1>1, <1>4, <2>2, <2>3 DEF WaitingRight
<1>15. GivenItsArguments'
  <2> SUFFICES ASSUME NEW d \in Used \ (Blocks \cup misled)
               PROVE  contexts'[d].args = arguments[contexts'[d].method[2]]
    BY <1>4, <1>8 DEF GivenItsArguments
  <2> QED
    BY <1>1, <1>5, <1>10 DEF GivenItsArguments
<1>16. context \notin spoiled => stackPointer' = answerAt[context]
  <2>1. Waits(context)
    BY <1>2, <1>3, <1>12, TargetCalled DEF Waits
  <2> QED
    BY <1>1, <1>3, <1>4, <2>1 DEF WaitingRight
<1> QED
  BY <1>4, <1>6, <1>9, <1>11, <1>12, <1>13, <1>14, <1>15, <1>16 DEF ContextsRight
-----------------------------------------------------------------------------
(* The messages sent.                                                      *)
LEMMA ActivatedIsContext ==
  ASSUME NEW method, NEW count, NEW sp, activateNewMethod(method, count, sp)
  PROVE  activeContext' \in Context
  BY DEF activateNewMethod, newActiveContext

(* createActualMessage leaves the answer where it goes.                    *)
LEMMA DepthsMatch ==
  ASSUME NEW e, NEW selector, NEW count \in Nat, NEW sp \in Int
  PROVE  /\ CountFor(e, selector, count) \in Nat
         /\ DepthFor(e, selector, count, sp) \in Int
         /\ sp - count \in Int
         /\ sp - count = DepthFor(e, selector, count, sp) - CountFor(e, selector, count)
  BY DEF CountFor, DepthFor

LEMMA SendRight ==
  ASSUME LookupRight, ContextsRight, NEW selector \in Selector, NEW class \in Class,
         NEW sp \in Int, sendSelector(selector, class, sp)
  PROVE  LookupRight' /\ ContextsRight'
<1>1. PICK e, count, given, depth:
        /\ e = findNewMethodInClass(selector, class)
        /\ given = arguments[selector]
        /\ count = CountFor(e, selector, given)
        /\ depth = DepthFor(e, selector, given, sp)
  OBVIOUS
<1>2. /\ methodCache' = [methodCache EXCEPT ![slotOf[selector][class]] =
                           findNewMethodInClass(selector, class)]
      /\ activateNewMethod(e.method, count, depth)
      /\ Awaits(sp - given)
      /\ UNCHANGED <<dictionary, changed, finished, misled, twice, spoiled>>
  BY <1>1 DEF sendSelector
<1>3. given \in Nat
  BY <1>1, ContextsAssumption
<1>4. LookupRight'
  BY <1>2, SendLookup
<1>5. e \in Entry /\ e.method[2] = e.selector
      /\ e.selector \in {selector, doesNotUnderstand}
  BY <1>1, FindAnswers
<1>6. count = arguments[e.selector]
  BY <1>1, <1>3, <1>5, CountsMatch
<1>7. /\ count \in Nat /\ depth \in Int
      /\ sp - given \in Int /\ sp - given = depth - count
  BY <1>1, <1>3, DepthsMatch
<1>8. e.method \in Class \X Selector
  BY <1>5 DEF Entry
<1>9. spoiled \subseteq Context /\ misled \subseteq Context
  BY DEF ContextsRight, ContextsTyped
<1>10. PICK m, at: m = e.method /\ at = sp - given
  OBVIOUS
<1>11. activateNewMethod(m, count, depth) /\ Awaits(at)
  BY <1>2, <1>10
<1>12. ContextsRight'
  BY <1>2, <1>5, <1>6, <1>7, <1>8, <1>9, <1>10, <1>11, ActivateRight
<1> QED
  BY <1>4, <1>12

(* A performed method is activated once or twice.                          *)
LEMMA ActivatePerformedRight ==
  ASSUME ContextsRight, NEW method \in Class \X Selector, NEW count \in Nat,
         NEW sp \in Int, activatePerformed(method, count, sp),
         count = arguments[method[2]], spoiled' = spoiled, finished' = finished
  PROVE  ContextsRight'
<1>1. spoiled \subseteq Context /\ misled \subseteq Context
  BY DEF ContextsRight, ContextsTyped
<1>2. CASE activateTwice(method, count, sp)
  BY <1>2, ActivateTwiceRight
<1>3. CASE /\ activateNewMethod(method, count, sp)
           /\ Awaits(sp - count)
           /\ UNCHANGED <<misled, twice>>
  <2>1. PICK depth: depth = sp - count
    OBVIOUS
  <2>2. depth \in Int /\ Awaits(depth)
    BY <1>3, <2>1
  <2> QED
    BY <1>1, <1>3, <2>1, <2>2, ActivateRight
<1> QED
  BY <1>2, <1>3 DEF activatePerformed

(* A perform that fails misleads the method it activates.                  *)
LEMMA MisleadRight ==
  ASSUME ContextsRight, NEW method \in Class \X Selector, NEW count \in Nat,
         NEW sp \in Int, NEW depth \in Int, Mislead(method, count, sp, depth),
         spoiled \subseteq spoiled', spoiled' \subseteq Context,
         activeContext \in spoiled' \/ depth = sp - count, finished' = finished
  PROVE  ContextsRight'
<1>1. /\ activateNewMethod(method, count, sp) /\ Awaits(depth)
      /\ misled' = misled \cup {activeContext'} /\ twice' = twice
  BY DEF Mislead
<1>2. misled \subseteq Context /\ activeContext' \in Context
  BY <1>1, ActivatedIsContext DEF ContextsRight, ContextsTyped
<1>3. misled \subseteq misled' /\ misled' \subseteq Context /\ activeContext' \in misled'
  BY <1>1, <1>2
<1> QED
  BY <1>1, <1>3, ActivateRight

LEMMA PerformRight ==
  ASSUME LookupRight, ContextsRight, primitivePerform
  PROVE  LookupRight' /\ ContextsRight'
<1>1. PICK selector \in Selector, class \in Class, given \in PerformArguments:
        LET count == given + 1
            e == lookupMethodInClass(selector, class)
            succeeds == Understood(e, selector) /\ arguments[selector] = given
        IN  /\ IF succeeds
               THEN activatePerformed(e.method, given, stackPointer - 1)
               ELSE Mislead(e.method, CountFor(e, selector, count),
                            DepthFor(e, selector, count, stackPointer),
                            stackPointer - count)
            /\ UNCHANGED <<lookup, finished, spoiled>>
  BY DEF primitivePerform
<1>2. PICK e, sp, m, count: /\ e = lookupMethodInClass(selector, class)
                            /\ sp = stackPointer /\ m = e.method /\ count = given + 1
  OBVIOUS
<1>3. given \in Nat /\ count \in Nat /\ sp \in Int
  BY <1>2, ContextsAssumption DEF ContextsRight, ContextsTyped
<1>4. LookupRight'
  BY <1>1, UnchangedLookup
<1>5. /\ e \in Entry /\ m[2] = e.selector /\ m \in Class \X Selector
  BY <1>2, LookupAnswers DEF LookupRight, Entry
<1>6. spoiled \subseteq Context /\ spoiled' = spoiled /\ finished' = finished
  BY <1>1 DEF ContextsRight, ContextsTyped
<1>7. CASE Understood(e, selector) /\ arguments[selector] = given
  <2>1. PICK top: top = sp - 1
    OBVIOUS
  <2>2. activatePerformed(m, given, top) /\ top \in Int
    BY <1>1, <1>2, <1>3, <1>7, <2>1
  <2>3. given = arguments[m[2]]
    BY <1>5, <1>7 DEF Understood
  <2> QED
    BY <1>3, <1>4, <1>5, <1>6, <2>2, <2>3, ActivatePerformedRight
<1>8. CASE ~(Understood(e, selector) /\ arguments[selector] = given)
  <2>1. PICK n, depth, at: /\ n = CountFor(e, selector, count)
                           /\ depth = DepthFor(e, selector, count, sp)
                           /\ at = sp - count
    OBVIOUS
  <2>2. Mislead(m, n, depth, at)
    BY <1>1, <1>2, <1>8, <2>1
  <2>3. n \in Nat /\ depth \in Int /\ at \in Int /\ at = depth - n
    BY <1>3, <2>1, DepthsMatch
  <2> QED
    BY <1>4, <1>5, <1>6, <2>2, <2>3, MisleadRight
<1> QED
  BY <1>7, <1>8

LEMMA PerformWithArgsRight ==
  ASSUME LookupRight, ContextsRight, primitivePerformWithArgs
  PROVE  LookupRight' /\ ContextsRight'
<1>1. PICK selector \in Selector, class \in Class, given \in PerformArguments:
        LET receiver == stackPointer - 2
            e == lookupMethodInClass(selector, class)
            count == CountFor(e, selector, given)
            succeeds == arguments[e.selector] = count
            moved == ~succeeds /\ given > 0
        IN  /\ IF succeeds
               THEN activatePerformed(e.method, count,
                      DepthFor(e, selector, given, receiver + given))
               ELSE Mislead(e.method, 2, receiver + 2 * given + 2, receiver)
            /\ spoiled' = IF moved THEN spoiled \cup {activeContext} ELSE spoiled
            /\ UNCHANGED <<lookup, finished>>
  BY DEF primitivePerformWithArgs
<1>2. PICK e, receiver, m, count, top: /\ e = lookupMethodInClass(selector, class)
                                       /\ receiver = stackPointer - 2 /\ m = e.method
                                       /\ count = CountFor(e, selector, given)
                                       /\ top = receiver + given
  OBVIOUS
<1>3. given \in Nat /\ receiver \in Int /\ top \in Int
  BY <1>2, ContextsAssumption DEF ContextsRight, ContextsTyped
<1>4. LookupRight'
  BY <1>1, UnchangedLookup
<1>5. /\ e \in Entry /\ m[2] = e.selector /\ m \in Class \X Selector
  BY <1>2, LookupAnswers DEF LookupRight, Entry
<1>6. spoiled \subseteq Context /\ finished' = finished /\ activeContext \in Context
  BY <1>1 DEF ContextsRight, ContextsTyped
<1>7. CASE arguments[e.selector] = count
  <2>1. PICK depth: depth = DepthFor(e, selector, given, top)
    OBVIOUS
  <2>2. activatePerformed(m, count, depth) /\ spoiled' = spoiled
    BY <1>1, <1>2, <1>7, <2>1
  <2>3. count \in Nat /\ depth \in Int
    BY <1>2, <1>3, <2>1, DepthsMatch
  <2>4. count = arguments[m[2]]
    BY <1>5, <1>7
  <2> QED
    BY <1>4, <1>5, <1>6, <2>2, <2>3, <2>4, ActivatePerformedRight
<1>8. CASE arguments[e.selector] # count
  <2>1. PICK depth: depth = receiver + 2 * given + 2
    OBVIOUS
  <2>2. /\ Mislead(m, 2, depth, receiver)
        /\ spoiled' = IF given > 0 THEN spoiled \cup {activeContext} ELSE spoiled
    BY <1>1, <1>2, <1>8, <2>1
  <2>3. depth \in Int /\ (given > 0 \/ receiver = depth - 2)
    BY <1>3, <2>1
  <2>4. spoiled \subseteq spoiled' /\ spoiled' \subseteq Context
        /\ (given > 0 => activeContext \in spoiled')
    BY <1>6, <2>2
  <2> QED
    BY <1>3, <1>4, <1>5, <1>6, <2>2, <2>3, <2>4, MisleadRight
<1> QED
  BY <1>7, <1>8
(* What cannot be returned to has been returned from, or is nothing that   *)
(* has called a block.                                                     *)
LEMMA RefusedRight ==
  ASSUME ContextsRight, NEW context, ~CanReturnTo(context)
  PROVE  /\ context = sender =>
              \/ sender \in finished
              \/ sender = NilPointer /\ homeContext \in Used
         /\ activeContext \in Blocks /\ context = caller => caller \in finished
<1>1. HomesRight /\ FinishedRight /\ StartedRight
  BY DEF ContextsRight
<1>2. homeContext \in Used
  BY <1>1 DEF HomesRight, homeContext
<1>3. Target(context) /\ context # NilPointer => context \in finished
  BY <1>1, TargetCalled DEF CanReturnTo, FinishedRight
<1>4. activeContext \in Blocks => caller # NilPointer
  BY <1>1 DEF StartedRight, Started, FinishedRight, caller
<1> QED
  BY <1>2, <1>3, <1>4 DEF Target

-----------------------------------------------------------------------------
(* The invariant, and what a step may not do.                              *)
LEMMA ReturnsFollow ==
  ASSUME IInv, NEW context, Target(context), NEW sp \in Int,
         returnValue(context, sp)
  PROVE  /\ IInv'
         /\ step' \in {"return", "cannotReturn"}
         /\ step' = "return" => activeContext' \notin finished
         /\ step' = "return" /\ activeContext' \notin spoiled =>
              stackPointer' = answerAt[activeContext']
         /\ step' = "cannotReturn" => ~CanReturnTo(context)
<1>1. CASE CanReturnTo(context)
  <2>1. /\ ContextsRight'
        /\ UNCHANGED lookup /\ step' = "return"
        /\ activeContext' \notin finished
        /\ activeContext' \notin spoiled => stackPointer' = answerAt[activeContext']
    BY <1>1, ReturnRight DEF IInv
  <2>2. LookupRight'
    BY <2>1, UnchangedLookup DEF IInv
  <2> QED
    BY <2>1, <2>2 DEF IInv
<1>2. CASE ~CanReturnTo(context)
  <2>1. sendSelector(cannotReturn, contextClass, sp + 2) /\ step' = "cannotReturn"
    BY <1>2 DEF returnValue
  <2>2. cannotReturn \in Selector /\ contextClass \in Class /\ sp + 2 \in Int
    BY ContextsAssumption
  <2>3. LookupRight' /\ ContextsRight'
    BY <2>1, <2>2, SendRight DEF IInv
  <2> QED
    BY <1>2, <2>1, <2>3 DEF IInv
<1> QED
  BY <1>1, <1>2

LEMMA ReturnFromRight ==
  ASSUME IInv, ReturnFromMessage \/ ReturnFromBlock
  PROVE  /\ IInv'
         /\ step' = "return" => activeContext' \notin finished
         /\ step' = "return" /\ activeContext' \notin spoiled =>
              stackPointer' = answerAt[activeContext']
         /\ step' = "cannotReturn" =>
              \/ sender \in finished \/ caller \in finished
              \/ sender = NilPointer /\ homeContext \in Used
<1>1. PICK context, sp:
        /\ sp \in Int /\ returnValue(context, sp)
        /\ \/ context = sender
           \/ context = caller /\ activeContext \in Blocks
  <2>1. stackPointer \in Int
    BY DEF IInv, ContextsRight, ContextsTyped
  <2>2. PICK to, from, sp: to = sender /\ from = caller /\ sp = stackPointer
    OBVIOUS
  <2>3. sp \in Int /\ sp - 1 \in Int
    BY <2>1, <2>2
  <2>4. CASE ReturnFromMessage
    <3>1. PICK n \in Int: returnValue(to, n)
      BY <2>2, <2>3, <2>4 DEF ReturnFromMessage
    <3> QED
      BY <2>2, <3>1
  <2>5. CASE ReturnFromBlock
    <3>1. PICK n \in Int: returnValue(from, n)
      BY <2>2, <2>3, <2>5 DEF ReturnFromBlock
    <3>2. activeContext \in Blocks
      BY <2>5 DEF ReturnFromBlock
    <3> QED
      BY <2>2, <3>1, <3>2
  <2> QED
    BY <2>4, <2>5
<1>2. Target(context)
  BY <1>1 DEF Target
<1>3. /\ IInv'
      /\ step' \in {"return", "cannotReturn"}
      /\ step' = "return" => activeContext' \notin finished
      /\ step' = "return" /\ activeContext' \notin spoiled =>
           stackPointer' = answerAt[activeContext']
      /\ step' = "cannotReturn" => ~CanReturnTo(context)
  BY <1>1, <1>2, ReturnsFollow
<1>4. step' = "cannotReturn" =>
        \/ sender \in finished \/ caller \in finished
        \/ sender = NilPointer /\ homeContext \in Used
  BY <1>1, <1>3, RefusedRight DEF IInv
<1> QED
  BY <1>3, <1>4

LEMMA InitRight ==
  ASSUME Init
  PROVE  IInv
<1>1. PICK c \in Context, m \in UNION Dictionaries:
        /\ contexts = [d \in Context |->
             IF d = c THEN [home |-> c, sender |-> NilPointer, ip |-> TRUE,
                            sp |-> 0, args |-> arguments[m[2]], method |-> m]
                      ELSE Unused]
        /\ activeContext = c
  BY DEF Init
<1>2. m \in Class \X Selector /\ m[2] \in Selector /\ arguments[m[2]] \in Nat
  BY ContextsAssumption
<1>3. LookupRight
  BY DEF Init, LookupRight, CacheRight
<1>4. c \in Context /\ c # NilPointer
  BY ContextsAssumption
<1>5. PICK r: r = [home |-> c, sender |-> NilPointer, ip |-> TRUE,
                   sp |-> 0, args |-> arguments[m[2]], method |-> m]
  OBVIOUS
<1>6. r \in ContextRecord /\ Unused \in ContextRecord
  BY <1>2, <1>5 DEF ContextRecord, Unused
<1>7. /\ contexts[c] = r /\ \A d \in Context \ {c}: contexts[d] = Unused
      /\ contexts \in [Context -> ContextRecord]
  <2>1. contexts = [d \in Context |-> IF d = c THEN r ELSE Unused]
    BY <1>1, <1>5
  <2> QED
    BY <1>6, <2>1
<1>8. /\ contexts[c].home = c /\ contexts[c].sender = NilPointer
      /\ contexts[c].ip = TRUE /\ contexts[c].method = m
      /\ contexts[c].args = arguments[m[2]]
  BY <1>5, <1>7
<1>9. Used = {c}
  <2>1. contexts[c] # Unused
    BY <1>4, <1>8 DEF Unused
  <2> QED
    BY <1>7, <2>1 DEF Used
<1>10. Blocks = {}
  BY <1>8, <1>9 DEF Blocks
<1>11. ContextsTyped
  <2>1. stackPointer = 0 /\ finished = {} /\ misled = {} /\ twice = {} /\ spoiled = {}
        /\ answerAt = [d \in Context |-> 0]
    BY DEF Init
  <2>2. stackPointer \in Int /\ answerAt \in [Context -> Int]
    BY <2>1
  <2>3. UNION {finished, misled, twice, spoiled} \subseteq Context
    BY <2>1
  <2> QED
    BY <1>1, <1>7, <2>2, <2>3 DEF ContextsTyped
<1>12. HomesRight /\ SendersRight
  BY <1>1, <1>4, <1>7, <1>8, <1>9 DEF HomesRight, SendersRight
<1>13. FinishedRight /\ StartedRight
  BY <1>1, <1>8, <1>9, <1>10 DEF Init, FinishedRight, StartedRight
<1>14. WaitingRight
  BY <1>1, <1>9 DEF WaitingRight, Waits
<1>15. GivenItsArguments
  BY <1>8, <1>9 DEF GivenItsArguments
<1> QED
  BY <1>3, <1>11, <1>12, <1>13, <1>14, <1>15 DEF Init, IInv, ContextsRight

LEMMA NextRight ==
  ASSUME IInv, [Next]_vars
  PROVE  IInv'
<1>1. CASE UNCHANGED vars
  <2>1. UNCHANGED lookup /\ UNCHANGED <<contexts, activeContext, auxiliary>>
        /\ stackPointer' = stackPointer /\ step' = step
    BY <1>1 DEF vars
  <2>2. stackPointer' \in Int
    BY <2>1 DEF IInv, ContextsRight, ContextsTyped
  <2> QED
    BY <2>1, <2>2, UnchangedLookup, OnlyTheStack DEF IInv
<1>2. CASE PushOrPop
  <2>1. UNCHANGED lookup /\ UNCHANGED <<contexts, activeContext, auxiliary>>
        /\ step' = "other"
    BY <1>2 DEF PushOrPop
  <2>2. stackPointer' \in Int
    BY <1>2 DEF PushOrPop, IInv, ContextsRight, ContextsTyped
  <2> QED
    BY <2>1, <2>2, UnchangedLookup, OnlyTheStack DEF IInv
<1>3. CASE Send
  <2>1. stackPointer \in Int
    BY DEF IInv, ContextsRight, ContextsTyped
  <2>2. PICK selector \in Selector, class \in Class, sp \in Int:
          sendSelector(selector, class, sp)
    BY <1>3, <2>1 DEF Send
  <2>3. step' = "other"
    BY <1>3 DEF Send
  <2> QED
    BY <2>2, <2>3, SendRight DEF IInv
<1>4. CASE primitivePerform
  <2>1. step' = "other"
    BY <1>4 DEF primitivePerform
  <2> QED
    BY <1>4, <2>1, PerformRight DEF IInv
<1>5. CASE primitivePerformWithArgs
  <2>1. step' = "other"
    BY <1>5 DEF primitivePerformWithArgs
  <2> QED
    BY <1>5, <2>1, PerformWithArgsRight DEF IInv
<1>6. CASE primitiveBlockCopy
  <2>1. step' = "other" /\ UNCHANGED lookup
    BY <1>6 DEF primitiveBlockCopy
  <2> QED
    BY <1>6, <2>1, BlockCopyRight, UnchangedLookup DEF IInv
<1>7. CASE primitiveValue \/ primitiveValueWithArgs
  <2>1. PICK block \in Blocks, popped \in Nat:
          ~BeingEvaluated(block) /\ Evaluate(block, popped)
    <3>1. CASE primitiveValue
      <4>1. PICK block \in Blocks:
              ~BeingEvaluated(block) /\ Evaluate(block, contexts[block].args + 1)
        BY <3>1 DEF primitiveValue
      <4>2. PICK popped: popped = contexts[block].args + 1
        OBVIOUS
      <4>3. popped \in Nat
        BY <4>1, <4>2 DEF IInv, ContextsRight, ContextsTyped, ContextRecord, Blocks, Used
      <4> QED
        BY <4>1, <4>2, <4>3
    <3>2. CASE primitiveValueWithArgs
      BY <3>2 DEF primitiveValueWithArgs
    <3> QED
      BY <1>7, <3>1, <3>2
  <2>2. block # activeContext
    BY <2>1 DEF BeingEvaluated, Callers, IInv, ContextsRight, ContextsTyped
  <2>3. UNCHANGED lookup /\ step' = "other"
    BY <2>1 DEF Evaluate
  <2> QED
    BY <2>1, <2>2, <2>3, EvaluateRight, UnchangedLookup DEF IInv
<1>8. CASE ReturnFromMessage \/ ReturnFromBlock
  BY <1>8, ReturnFromRight
<1>9. CASE ChangeMethods
  <2>1. UNCHANGED <<contexts, activeContext, auxiliary>>
        /\ stackPointer' = stackPointer /\ step' = "other"
    BY <1>9 DEF ChangeMethods
  <2>2. stackPointer' \in Int
    BY <2>1 DEF IInv, ContextsRight, ContextsTyped
  <2>3. LookupRight'
    BY <1>9, ChangeLookup DEF IInv
  <2> QED
    BY <2>1, <2>2, <2>3, OnlyTheStack DEF IInv
<1>10. CASE primitiveFlushCache
  <2>1. UNCHANGED <<contexts, activeContext, auxiliary>>
        /\ stackPointer' = stackPointer /\ step' = "other"
    BY <1>10 DEF primitiveFlushCache
  <2>2. stackPointer' \in Int
    BY <2>1 DEF IInv, ContextsRight, ContextsTyped
  <2>3. LookupRight'
    BY <1>10, FlushLookup DEF IInv
  <2> QED
    BY <2>1, <2>2, <2>3, OnlyTheStack DEF IInv
<1> QED
  BY <1>1, <1>2, <1>3, <1>4, <1>5, <1>6, <1>7, <1>8, <1>9, <1>10 DEF Next

LEMMA InvariantHolds == Spec => []IInv
<1>1. Init => IInv
  BY InitRight
<1>2. IInv /\ [Next]_vars => IInv'
  BY NextRight
<1> QED
  BY <1>1, <1>2, PTL DEF Spec

(* The kinds of values the variables of Contexts take.                     *)
THEOREM TypeCorrect == Spec => []TypeOK
<1>1. IInv => TypeOK
  BY DEF IInv, LookupRight, ContextsRight, ContextsTyped, TypeOK, Entry, ContextRecord
<1> QED
  BY <1>1, InvariantHolds, PTL

(* The method a message runs is the one its class has for it now, be it    *)
(* from the cache, which answers as a lookup would until methods change    *)
(* without a flush, and it runs with its arguments (interpreter.c:430-475, *)
(* 819-958, primitives.c:285-352).                                         *)
THEOREM MessagesAreAnswered == Spec => []MessagesFindMethods
<1>1. IInv => MessagesFindMethods
  BY DEF IInv, LookupRight, ContextsRight, MessagesFindMethods
<1> QED
  BY <1>1, InvariantHolds, PTL

LEMMA OthersDoNotReturn ==
  ASSUME Next, ~ReturnFromMessage, ~ReturnFromBlock
  PROVE  step' = "other"
  BY DEF Next, PushOrPop, Send, primitivePerform, primitivePerformWithArgs,
         primitiveBlockCopy, primitiveValue, primitiveValueWithArgs, Evaluate,
         ChangeMethods, primitiveFlushCache

(* Nothing is run beyond its return, and cannotReturn: is sent only when   *)
(* there is nothing to return to (interpreter.c:1027-1068, 1124-1163).     *)
THEOREM ReturnsRight == Spec => ReturnsToTheLiving
<1>1. IInv /\ [Next]_vars =>
        [/\ step' = "return" => activeContext' \notin finished
         /\ step' = "cannotReturn" =>
              \/ homeContext \in finished \/ sender \in finished
              \/ caller \in finished
              \/ sender = NilPointer /\ homeContext \in Used]_vars
  <2> SUFFICES ASSUME IInv, Next
               PROVE  /\ step' = "return" => activeContext' \notin finished
                      /\ step' = "cannotReturn" =>
                           \/ homeContext \in finished \/ sender \in finished
                           \/ caller \in finished
                           \/ sender = NilPointer /\ homeContext \in Used
    OBVIOUS
  <2>1. ReturnFromMessage \/ ReturnFromBlock \/ step' = "other"
    BY OthersDoNotReturn
  <2> QED
    BY <2>1, ReturnFromRight
<1> QED
  BY <1>1, InvariantHolds, PTL DEF Spec, ReturnsToTheLiving

(* The answer of a message or block goes where the caller left off, after  *)
(* any lookup that fails, perform or return (interpreter.c:456-475,        *)
(* 930-957, 1027-1068).                                                    *)
THEOREM AnswersRight == Spec => AnswerInPlace
<1>1. IInv /\ [Next]_vars =>
        [step' = "return" /\ activeContext' \notin spoiled =>
           stackPointer' = answerAt[activeContext']]_vars
  <2> SUFFICES ASSUME IInv, Next, step' = "return", activeContext' \notin spoiled
               PROVE  stackPointer' = answerAt[activeContext']
    OBVIOUS
  <2>1. ReturnFromMessage \/ ReturnFromBlock \/ step' = "other"
    BY OthersDoNotReturn
  <2> QED
    BY <2>1, ReturnFromRight
<1> QED
  BY <1>1, InvariantHolds, PTL DEF Spec, AnswerInPlace
=============================================================================
