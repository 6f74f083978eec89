---------------------------- MODULE Dir24Readers ----------------------------
(***************************************************************************)
(* Packets looking an address up (fib4_lookup in the eBPF programs) while  *)
(* user space stores a plan.  A lookup is up to three separate array       *)
(* loads, each atomic, with no lock between them: TBL24, then TBL8 when    *)
(* the first word names a group, then DEFAULT4 when no route covered the   *)
(* address.  Any number of stores may fall between two of its loads.       *)
(*                                                                         *)
(* Besides its program counter and the words it has loaded, a lookup       *)
(* carries history the program does not have, for the properties: which    *)
(* answers were right at some moment since it began, how many route        *)
(* updates overlapped it, and what happened to the group it is about to    *)
(* index.                                                                  *)
(***************************************************************************)
EXTENDS Dir24

CONSTANTS Readers,   \* packets in flight, one per CPU
          Dsts       \* the addresses they look up

ASSUME DstsAssumption == Dsts \subseteq Addr

VARIABLES rd,     \* rd[r]: reader r's lookup
          prev    \* history: the shadow before the call that is running (or,
                  \* between calls, now), and whether that is a bulk call

rvars == <<vars, rd, prev>>

\* The reference answer (Dir24Engine::lookup, the oracle of the unit tests).
Lookup(rib, a) == FirstHitWord(rib, a, 0..W)

NoLookup == [pc |-> "idle", dst |-> <<0, 0>>, slot |-> ZeroWord,
             answer |-> ZeroWord, slots |-> {}, answers |-> {},
             updates |-> 0, stolen |-> FALSE, squeezed |-> FALSE, frees |-> 0]

InTbl8(r) == rd[r].pc = "tbl8"
Active(r) == rd[r].pc \in {"tbl8", "default"}

\* Cap of the two history counters: all the properties tell apart.
UpdatesCap == 2
FreesCap == QuarantineDepth

-----------------------------------------------------------------------------
RInit ==
    /\ Init
    /\ rd = [r \in Readers |-> NoLookup]
    /\ prev = [rib |-> shadow, bulk |-> FALSE]

\* Mistake: a miss in TBL8 is final.
AfterSlotNoDefault(l, w) ==
    IF w.kind = "group" THEN [l EXCEPT !.pc = "tbl8", !.slot = w]
    ELSE IF w.kind = "none" /\ l.pc = "idle"
         THEN [l EXCEPT !.pc = "default", !.slot = w]
         ELSE [l EXCEPT !.pc = "done", !.slot = w, !.answer = w]

\* Where a lookup goes once it has the word w from TBL24 or TBL8.
AfterSlot(l, w) ==
    CASE w.kind = "group" -> [l EXCEPT !.pc = "tbl8", !.slot = w]
      [] w.kind = "entry" -> [l EXCEPT !.pc = "done", !.slot = w, !.answer = w]
      [] w.kind = "none"  -> [l EXCEPT !.pc = "default", !.slot = w]

\* The first load, of TBL24.
BeginLookup(r, a) ==
    LET begun == [NoLookup EXCEPT
                    !.dst = a,
                    !.slots = {SlotWord(s, a[1], a[2]) : s \in {prev.rib, shadow}},
                    !.answers = {Lookup(s, a) : s \in {prev.rib, shadow}},
                    !.updates = IF Idle THEN 0
                                ELSE IF prev.bulk THEN UpdatesCap ELSE 1]
    IN  /\ rd[r].pc = "idle"
        /\ rd' = [rd EXCEPT ![r] = AfterSlot(begun, tbl24[a[1]])]
        /\ UNCHANGED <<vars, prev>>

ReadTbl8(r) ==
    /\ InTbl8(r)
    /\ rd' = [rd EXCEPT ![r] =
                AfterSlot(@, tbl8[<<rd[r].slot.id, rd[r].dst[2]>>])]
    /\ UNCHANGED <<vars, prev>>

ReadDefault4(r) ==
    /\ rd[r].pc = "default"
    /\ rd' = [rd EXCEPT ![r].pc = "done", ![r].answer = default4]
    /\ UNCHANGED <<vars, prev>>

\* The packet is forwarded or dropped; the CPU takes the next one.
EndLookup(r) ==
    /\ rd[r].pc = "done"
    /\ rd' = [rd EXCEPT ![r] = NoLookup]
    /\ UNCHANGED <<vars, prev>>

-----------------------------------------------------------------------------
\* What a step of the engine adds to the history of a lookup in progress.
Overlapped(r) ==
    LET l == rd[r]
        changed == shadow' # shadow
        pushed == \E b \in Blk : groups[b] # NoGroup /\ groups'[b] = NoGroup
    IN  IF ~Active(r) THEN l ELSE
        [l EXCEPT
           !.slots = @ \cup {SlotWord(shadow', l.dst[1], l.dst[2])},
           !.answers = @ \cup {Lookup(shadow', l.dst)},
           !.updates = IF todo # <<>> THEN UpdatesCap
                       ELSE IF changed /\ @ < UpdatesCap THEN @ + 1 ELSE @,
           !.stolen = @ \/ /\ InTbl8(r)
                           /\ \E b \in Blk \ {l.dst[1]} : groups'[b] = l.slot.id,
           !.squeezed = @ \/ (free = <<>> /\ quarantine' # quarantine
                              /\ groups' # groups /\ ~pushed),
           !.frees = IF InTbl8(r) /\ pushed /\ @ < FreesCap THEN @ + 1 ELSE @]

EngineStep ==
    /\ Next
    /\ rd' = [r \in Readers |-> Overlapped(r)]
    /\ prev' = CASE Idle' -> [rib |-> shadow', bulk |-> FALSE]
                 [] ~Idle' /\ Idle -> [rib |-> shadow, bulk |-> todo' # <<>>]
                 [] OTHER -> prev

ReaderStep(r) ==
    \/ \E a \in Dsts : BeginLookup(r, a)
    \/ ReadTbl8(r)
    \/ ReadDefault4(r)
    \/ EndLookup(r)

RNext == EngineStep \/ \E r \in Readers : ReaderStep(r)

RSpec == RInit /\ [][RNext]_rvars

-----------------------------------------------------------------------------
(***************************************************************************)
(* Properties.                                                             *)
(***************************************************************************)

\* What the quarantine does guarantee: the group a lookup is about to index
\* passes to another /24 only if QUARANTINE_DEPTH groups were freed since the
\* lookup loaded TBL24, or an exhausted pool took one out of quarantine.
GracePeriod ==
    \A r \in Readers :
        rd[r].stolen => rd[r].squeezed \/ rd[r].frees >= FreesCap

\* A lookup that straddles any number of updates still finds, in TBL24/TBL8,
\* a longest match that was right at some moment while it ran (a group taken
\* away under it excepted): the plan order alone protects it.
SlotRegular ==
    \A r \in Readers :
        rd[r].pc \in {"default", "done"} /\ ~rd[r].stolen
            => rd[r].slot \in rd[r].slots

\* A lookup that overlaps at most one single-route update is atomic as a
\* whole, default route included: its answer is the longest match before the
\* update or after it, so one update can neither lose a covered packet nor
\* send it to a route that was never best.
LookupAtomic ==
    \A r \in Readers :
        rd[r].pc = "done" /\ rd[r].updates <= 1 /\ ~rd[r].stolen
            => rd[r].answer \in rd[r].answers
=============================================================================
