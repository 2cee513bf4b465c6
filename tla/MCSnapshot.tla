------------------------------ MODULE MCSnapshot ------------------------------
(***************************************************************************)
(* Small instance of Snapshot: two segments of seven words, four object    *)
(* pointers; nil and up to three other objects and chunks.                 *)
(***************************************************************************)
EXTENDS Snapshot

(* The i-th field of object o holds 10 * o + i; every class is nil.        *)
Entry(o, size, pointer, count) ==
  [free |-> FALSE, count |-> count, pointer |-> pointer, segment |-> 0,
   location |-> 0, class |-> Nil, fields |-> [i \in 1 .. size - HeaderSize |-> 10 * o + i]]
Kinds(o) ==
  {Entry(o, 2, FALSE, 1), Entry(o, 3, TRUE, 2), Entry(o, 4, TRUE, 1)}

(* Packed from the last object pointer down, as they may lie after they    *)
(* have been allocated and moved.                                          *)
Placed(m) ==
  FoldLeft(LAMBDA l, n:
      LET o == LastOop + 1 - n
          space == SpaceOf(m[o])
          fits == {s \in Segment: l.room[s] >= space}
      IN  IF m[o].free \/ ~l.success THEN l
          ELSE IF fits = {} THEN [l EXCEPT !.success = FALSE]
          ELSE [l EXCEPT !.room[Min(fits)] = @ - space,
                 !.memory[o] = [m[o] EXCEPT !.segment = Min(fits),
                    !.location = SegmentSize - l.room[Min(fits)]]],
      AtLoadStart, [n \in Oop |-> n])

MCMemories ==
  LET all == {m \in [Oop -> UNION {Kinds(o): o \in Oop} \cup {FreeEntry}]:
                /\ \A o \in Oop: m[o] \in Kinds(o) \cup {FreeEntry}
                /\ ~m[Nil].free}
  IN  {Placed(m).memory: m \in {n \in all: Placed(n).success}}
=============================================================================
