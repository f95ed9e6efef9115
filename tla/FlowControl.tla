----------------------------- MODULE FlowControl -----------------------------
(***************************************************************************)
(* The sender's picture of the buffer at the other end of a link:           *)
(* BufferState of buffer_state.cpp and its policies, as operators on the    *)
(* record of its state.  The shared policies keep a private part for each    *)
(* group of VCs and one part for all; limited, dynamic and shifting also    *)
(* bound what one VC may hold.  The feedback policies bound it by measured  *)
(* round trip times, by 1 at least: a tighter bound only delays a flit, so   *)
(* here it is the buffer, and what is kept is which flits are being timed.   *)
(***************************************************************************)
EXTENDS Integers, FiniteSets, Functions

CONSTANTS
  Vcs,           \* the VCs of the link
  Groups,        \* the private buffers
  GroupOf,       \* _private_buf_vc_map
  GroupSize,     \* _private_buf_size
  ConfBufSize,   \* buf_size, negative if not given
  ConfVcBufSize, \* vc_buf_size
  MaxHeld,       \* max_held_slots of the limited policy
  Policy,        \* buffer_policy
  WaitForTail    \* wait_for_tail_credit

Feedbacks == {"feedback", "simplefeedback"}
Limiting  == {"limited", "dynamic", "shifting"}
Policies  == {"private", "shared"} \cup Limiting \cup Feedbacks

ASSUME FlowAssumption ==
  /\ Policy \in Policies /\ WaitForTail \in BOOLEAN
  /\ IsFiniteSet(Vcs) /\ Vcs # {} /\ IsFiniteSet(Groups)
  /\ GroupOf \in [Vcs -> Groups] /\ GroupSize \in [Groups -> Nat]
  /\ ConfBufSize \in Int \ {0} /\ ConfVcBufSize \in Nat \ {0} /\ MaxHeld \in Nat \ {0}

(* All slots of the buffer, and those of a VC under the private policy.     *)
BufSize   == IF ConfBufSize < 0 THEN Cardinality(Vcs) * ConfVcBufSize ELSE ConfBufSize
VcBufSize == IF ConfBufSize >= Cardinality(Vcs) THEN ConfBufSize \div Cardinality(Vcs)
             ELSE ConfVcBufSize

(* What the private buffers leave to all: assert(_shared_buf_size >= 0).    *)
SharedSize == BufSize - SumFunctionOnSet(GroupSize, Groups)
ASSUME SharedAssumption == Policy # "private" => SharedSize \in Nat

StateInit == [
  occupancy |-> 0, vc_occupancy |-> [v \in Vcs |-> 0],
  in_use |-> [v \in Vcs |-> FALSE], tail_sent |-> [v \in Vcs |-> FALSE],
  group |-> [g \in Groups |-> 0], shared |-> 0, reserved |-> [v \in Vcs |-> 0],
  active |-> 0, held |-> IF Policy = "limited" THEN MaxHeld ELSE BufSize,
  timed |-> [v \in Vcs |-> 0], ahead |-> [v \in Vcs |-> 0]]

Larger(a, b)  == IF a > b THEN a ELSE b
Smaller(a, b) == IF a < b THEN a ELSE b

-----------------------------------------------------------------------------
(* What is asked of it.                                                    *)

GroupLeft(b, v)  == Larger(GroupSize[GroupOf[v]] - b.group[GroupOf[v]], 0)

IsFullFor(b, v) ==
  IF Policy = "private" THEN b.vc_occupancy[v] >= VcBufSize
  ELSE \/ b.reserved[v] = 0 /\ GroupLeft(b, v) = 0 /\ b.shared >= SharedSize
       \/ Policy # "shared" /\ b.vc_occupancy[v] >= b.held

AvailableFor(b, v) ==
  LET slots == b.reserved[v] + GroupLeft(b, v) + (SharedSize - b.shared)
  IN  CASE Policy = "private" -> VcBufSize - b.vc_occupancy[v]
        [] Policy = "shared"  -> slots
        [] OTHER              -> Smaller(slots, b.held - b.vc_occupancy[v])

IsAvailableFor(b, v) == ~b.in_use[v]

-----------------------------------------------------------------------------
(* How many slots a VC may hold when a VCs are active.  Shifting halves the  *)
(* buffer once for every bit of a - 1.                                      *)
Bits(n) == CHOOSE k \in 0 .. n : n < 2^k /\ (k = 0 \/ n >= 2^(k - 1))

HeldBy(b, a) == CASE Policy = "dynamic"  -> BufSize \div a
                  [] Policy = "shifting" -> BufSize \div 2^Bits(a - 1)
                  [] OTHER               -> b.held

(* A configuration the code accepts: a slot for every VC however many are    *)
(* active (assert(_max_held_slots > 0)), and private parts that come out of   *)
(* buf_size (if they do not fit, Buffer::AddFlit ends the program).         *)
ASSUME RoomAssumption ==
  /\ Policy = "private" => ConfBufSize < 0 \/ ConfBufSize >= Cardinality(Vcs)
  /\ Policy = "dynamic" => BufSize >= Cardinality(Vcs)
  /\ Policy = "shifting" => \A a \in 1 .. Cardinality(Vcs) : 2^Bits(a - 1) \in 1 .. BufSize

TakeBuffer(b, v) ==
  LET t == [b EXCEPT !.in_use[v] = TRUE, !.tail_sent[v] = FALSE]
  IN  IF Policy \notin Limiting THEN t
      ELSE [t EXCEPT !.active = @ + 1, !.held = HeldBy(b, b.active + 1)]

(* Slots go back to the group, and from there to all if it had too many.    *)
FreeSlotsAbove(b, v, n) ==   \* mutant: the last shared slot is not given back
  LET g == GroupOf[v]
  IN  [b EXCEPT !.group[g] = @ - n,
                !.shared = @ - Cardinality({k \in 1 .. n : b.group[g] - k > GroupSize[g]})]

FreeSlots(b, v, n) ==
  LET g == GroupOf[v]
  IN  [b EXCEPT !.group[g] = @ - n,
                !.shared = @ - Cardinality({k \in 1 .. n : b.group[g] - k >= GroupSize[g]})]

(* A flit takes the slot reserved for its VC or a new one; the tail gives    *)
(* back what is still reserved.                                            *)
Share(b, v, tail) ==
  LET g == GroupOf[v]
      t == IF b.reserved[v] > 0 THEN [b EXCEPT !.reserved[v] = @ - 1]
           ELSE [b EXCEPT !.group[g] = @ + 1,
                          !.shared = IF b.group[g] >= GroupSize[g] THEN @ + 1 ELSE @]
  IN  IF tail THEN [FreeSlots(t, v, t.reserved[v]) EXCEPT !.reserved[v] = 0] ELSE t

LimitKept(b, tail) == b   \* mutant: the tail does not end the activity

Limit(b, tail) ==
  IF Policy \notin Limiting \/ ~tail THEN b
  ELSE [b EXCEPT !.active = @ - 1, !.held = IF b.active > 1 THEN HeldBy(b, b.active - 1) ELSE @]

(* Feedback times every flit, simple feedback one at a time per VC and      *)
(* remembers how many credits come before that flit's.                      *)
Time(b, v) ==
  CASE Policy = "feedback" -> [b EXCEPT !.timed[v] = @ + 1]
    [] Policy = "simplefeedback" /\ b.timed[v] = 0 ->
         [b EXCEPT !.timed[v] = 1, !.ahead[v] = b.vc_occupancy[v] - 1]
    [] OTHER -> b

SendingFlit(b, v, tail) ==
  LET t == [b EXCEPT !.occupancy = @ + 1, !.vc_occupancy[v] = @ + 1]
      p == IF Policy = "private" THEN t ELSE Limit(Share(Time(t, v), v, tail), tail)
  IN  IF tail THEN [p EXCEPT !.tail_sent[v] = TRUE,
                             !.in_use[v] = IF WaitForTail THEN @ ELSE FALSE]
      ELSE p

-----------------------------------------------------------------------------
(* A credit: the slot is kept for the VC while a packet that still needs it   *)
(* has nothing else, and goes back otherwise.                               *)
FreeSlotForNow(b, v) == FreeSlots(b, v, 1)   \* mutant: nothing is reserved
FreeSlotFor(b, v) ==
  IF ~IsAvailableFor(b, v) /\ b.vc_occupancy[v] = 0 THEN [b EXCEPT !.reserved[v] = @ + 1]
  ELSE FreeSlots(b, v, 1)

Timed(b, v) ==
  CASE Policy = "feedback" -> [b EXCEPT !.timed[v] = @ - 1]
    [] Policy = "simplefeedback" /\ b.ahead[v] > 0 -> [b EXCEPT !.ahead[v] = @ - 1]
    [] Policy = "simplefeedback" /\ b.ahead[v] = 0 /\ b.timed[v] > 0 -> [b EXCEPT !.timed[v] = @ - 1]
    [] OTHER -> b

ProcessCreditStale(b, v) ==   \* mutant: tests the occupancy before the credit
  LET t == [b EXCEPT !.occupancy = @ - 1, !.vc_occupancy[v] = @ - 1,
                     !.in_use[v] = IF WaitForTail /\ b.vc_occupancy[v] = 0 /\ b.tail_sent[v]
                                   THEN FALSE ELSE @]
  IN  IF Policy = "private" THEN t ELSE Timed(FreeSlotFor(t, v), v)

ProcessCredit(b, v) ==
  LET n == b.vc_occupancy[v] - 1
      t == [b EXCEPT !.occupancy = @ - 1, !.vc_occupancy[v] = n,
                     !.in_use[v] = IF WaitForTail /\ n = 0 /\ b.tail_sent[v] THEN FALSE ELSE @]
  IN  IF Policy = "private" THEN t ELSE Timed(FreeSlotFor(t, v), v)
=============================================================================
