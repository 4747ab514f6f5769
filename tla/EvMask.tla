------------------------------- MODULE EvMask -------------------------------
(***************************************************************************)
(* The bitmaps of event numbers: event/event-mask.c in the kernel and the  *)
(* same functions for programs in lib/event-mask.c.  A map is an array of  *)
(* words.  A program prepares a mask and passes it to the kernel; the      *)
(* kernel keeps the mask of the thread and the map of pending numbers, and *)
(* picks the number to deliver from the two (event/async-event.c).         *)
(***************************************************************************)
EXTENDS Naturals, FiniteSetsExt, Bitwise

CONSTANTS
  EvBits,     \* bits of a word
  EvMapLen,   \* EV_MAP_LEN
  EvKill      \* EV_SIG_KILL

VARIABLES
  mprog,    \* the masks of the program, two for the functions of two
  mthr,     \* evque.masks of the thread
  mpend,    \* evque.events
  msets,    \* history: what the four maps stand for, in this order
  mfirst    \* history: whether the last number taken was the right one

maskVars == <<mprog, mthr, mpend, msets, mfirst>>

EvWord == 0 .. EvMapLen - 1
EvNumber == 0 .. EvMapLen * EvBits - 1
AllOnes == 2 ^ EvBits - 1
Complement(word) == AllOnes - word
Bit(idx) == 2 ^ idx

MapClr == [i \in EvWord |-> 0]
MapFill == [i \in EvWord |-> AllOnes]

\* Mutant: the bit within the word is not reduced to the word.
PlaceUnreduced(id) == [pos |-> id \div EvBits, idx |-> id]

\* The word and the bit of a number
Place(id) == [pos |-> id \div EvBits, idx |-> id % EvBits]

MapTest(map, id) == (map[Place(id).pos] & Bit(Place(id).idx)) # 0
MapEmpty(map) == \A pos \in EvWord : map[pos] = 0
MapSet(map, id) == [map EXCEPT ![Place(id).pos] = (@ | Bit(Place(id).idx)) % 2 ^ EvBits]
MapUnset(map, id) == [map EXCEPT ![Place(id).pos] = @ & Complement(Bit(Place(id).idx) % 2 ^ EvBits)]
MapXor(m1, m2) == [i \in EvWord |-> m1[i] ^^ m2[i]]
MapAnd(m1, m2) == [i \in EvWord |-> m1[i] & m2[i]]

EvMaskFill == MapUnset(MapFill, EvKill)
EvMaskSet(map, id) == IF id = EvKill THEN map ELSE MapSet(map, id)

\* ev_mask_find_first_bit of a map that is not empty
FindFirstBit(map) ==
  LET i == Min({k \in EvWord : map[k] # 0})
      j == Min({k \in 0 .. EvBits - 1 : (map[i] & Bit(k)) # 0})
  IN  i * EvBits + j

MaskInit ==
  /\ mprog = <<MapClr, MapClr>> /\ mthr = MapClr /\ mpend = MapClr
  /\ msets = <<{}, {}, {}, {}>> /\ mfirst = TRUE
-----------------------------------------------------------------------------
(* The program *)

ProgramMask(k, map, set) ==
  /\ mprog' = [mprog EXCEPT ![k] = map] /\ msets' = [msets EXCEPT ![k] = set]
  /\ UNCHANGED <<mthr, mpend, mfirst>>

UserClr(k) == ProgramMask(k, MapClr, {})
UserFill(k) == ProgramMask(k, EvMaskFill, EvNumber \ {EvKill})
UserSet(k, id) == ProgramMask(k, EvMaskSet(mprog[k], id), msets[k] \cup ({id} \ {EvKill}))
UserUnset(k, id) == ProgramMask(k, MapUnset(mprog[k], id), msets[k] \ {id})
UserXor == ProgramMask(1, MapXor(mprog[1], mprog[2]), (msets[1] \ msets[2]) \cup (msets[2] \ msets[1]))
UserAnd == ProgramMask(1, MapAnd(mprog[1], mprog[2]), msets[1] \cap msets[2])

\* yatos_set_event_mask, handle_set_evmask
SetEvMask ==
  /\ mthr' = MapUnset(mprog[1], EvKill) /\ msets' = [msets EXCEPT ![3] = msets[1] \ {EvKill}]
  /\ UNCHANGED <<mprog, mpend, mfirst>>

\* yatos_get_event_mask
GetEvMask == ProgramMask(1, mthr, msets[3])
-----------------------------------------------------------------------------
(* The kernel *)

\* An event arrives.
EvArrives(id) ==
  /\ mpend' = EvMaskSet(mpend, id) /\ msets' = [msets EXCEPT ![4] = @ \cup ({id} \ {EvKill})]
  /\ UNCHANGED <<mprog, mthr, mfirst>>

\* dequeue_from_evque_nolock: the first number that is pending and not masked
EvTaken ==
  LET deliver == MapAnd(mpend, MapXor(mpend, mthr))
      id == FindFirstBit(deliver)
  IN
  /\ ~MapEmpty(deliver)
  /\ mpend' = MapUnset(mpend, id)
  /\ msets' = [msets EXCEPT ![4] = @ \ {id}]
  /\ mfirst' = (msets[4] \ msets[3] # {} /\ id = Min(msets[4] \ msets[3]))
  /\ UNCHANGED <<mprog, mthr>>

MaskNext ==
  \/ \E k \in {1, 2} : UserClr(k) \/ UserFill(k) \/ \E id \in EvNumber : UserSet(k, id) \/ UserUnset(k, id)
  \/ UserXor \/ UserAnd \/ SetEvMask \/ GetEvMask \/ EvTaken
  \/ \E id \in EvNumber : EvArrives(id)
-----------------------------------------------------------------------------
\* After any sequence of operations every map stands for the set of numbers
\* that the operations describe, bit for bit, no number leaks into a
\* neighbouring word, and EV_SIG_KILL is never in it.  The number that is
\* delivered is the lowest pending one that the thread does not mask, although
\* the code combines the maps by exclusive or.
MasksExact ==
  /\ mfirst
  /\ \A k \in 1 .. 4 :
       LET map == IF k <= 2 THEN mprog[k] ELSE IF k = 3 THEN mthr ELSE mpend IN
       /\ {id \in EvNumber : MapTest(map, id)} = msets[k]
       /\ MapEmpty(map) <=> msets[k] = {}
       /\ EvKill \notin msets[k]
=============================================================================
