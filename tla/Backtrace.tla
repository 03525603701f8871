----------------------------- MODULE Backtrace -----------------------------
(***************************************************************************)
(* diag/backtrace.c: the callers of a suspended task, found by executing   *)
(* the unwinding instructions the compiler left for every function.  The   *)
(* compiler and the linker are external: what calls leave on the stack     *)
(* (Entered) and the instructions of a function (its record) are theirs.   *)
(*                                                                         *)
(* An address is a number, odd if it has the Thumb bit; a negative one     *)
(* stands for an EXC_RETURN value.                                         *)
(***************************************************************************)
EXTENDS Integers, Sequences, FiniteSets

CONSTANTS
  Index,  \* the unwind index: functions in the order of their addresses
  Chains, \* the calls to look into: numbers of functions, the inmost first
  Wild,   \* what may be read where no stack is
  Top,    \* the end of the task's stack
  Frames  \* BACKTRACE_SIZE, the entries of the buffer

(* A function: where it starts, the registers it pushes, the room it makes *)
(* on the stack, and its unwinding instructions: the bytes of their words, *)
(* or none if it is marked EXIDX_CANTUNWIND.                               *)
Functions == 1 .. Len(Index)
TaskEnd   == Len(Index) \* task_end: what a task function returns to

ExcPsp   == -1 \* 0xfffffffd
ExcMsp   == -2 \* 0xfffffff1
ExcMspFp == -3 \* 0xffffffe1

VARIABLES
  calls,   \* the calls that were made, for reference
  stack,   \* the words of the stack
  wild,    \* what is read elsewhere
  frame,   \* backtrace_frame_t
  entries, \* the buffer: an address and the start of its function
  finished \* _backtrace_unwind returned

traceVars == <<calls, stack, wild, frame, entries, finished>>

-----------------------------------------------------------------------------
(* What the calls left: a return address is two bytes into the caller.     *)
Inside(f) == Index[f].start + 2

ReturnsTo(chain, i) ==
  IF i = Len(chain) THEN Index[TaskEnd].start + 1 ELSE Inside(chain[i + 1]) + 1

Pushed(f, outer, lr) ==
  LET base  == outer.sp - 4 * Len(f.saves)
      value == [r \in 0 .. 15 |-> CASE r = 7 -> outer.r7 [] r = 14 -> lr [] OTHER -> 0]
      saved == [i \in DOMAIN f.saves |-> base + 4 * (i - 1)]
  IN  [words |-> [a \in DOMAIN outer.words \cup {saved[i] : i \in DOMAIN saved} |->
                    IF a < outer.sp THEN value[f.saves[(a - base) \div 4 + 1]] ELSE outer.words[a]],
       sp |-> base - f.room, r7 |-> base - f.room, lr |-> lr]

(* After k of the calls, the outmost first.                                *)
AfterCalls(chain) ==
  LET n == Len(chain)
      after[k \in 0 .. n] ==
        IF k = 0 THEN [words |-> << >>, sp |-> Top, r7 |-> 0, lr |-> ReturnsTo(chain, n)]
        ELSE Pushed(Index[chain[n - k + 1]], after[k - 1], ReturnsTo(chain, n - k + 1))
  IN  after

Entered(chain) == AfterCalls(chain)[Len(chain)]

Expected(chain) ==
  [i \in 1 .. Len(chain) + 1 |->
     IF i <= Len(chain) THEN [address |-> Inside(chain[i]), function |-> Index[chain[i]].start]
     ELSE [address |-> Index[TaskEnd].start, function |-> Index[TaskEnd].start]]

(* shell_cmd_backtrace, of a task that is in the body of a function; its   *)
(* stack pointer is below what an exception saved.                         *)
TraceInit ==
  /\ calls \in Chains
  /\ wild \in Wild
  /\ LET now == Entered(calls)
     IN  /\ stack = now.words
         /\ frame = [fp |-> now.r7, sp |-> now.sp - 32, lr |-> now.lr, pc |-> Inside(Head(calls))]
  /\ entries = << >>
  /\ finished = FALSE

-----------------------------------------------------------------------------
(* unwind_search_index, between two positions of which the second is out.  *)
Halved(span, ip) ==
  LET from   == span[1]
      to     == span[2]
      middle == from + ((to - from + 1) \div 2)
  IN  IF from >= to - 1 THEN span
      ELSE IF ip < Index[middle].start THEN <<from, middle>>
      ELSE <<middle, to>>

SearchIndex(ip) ==
  LET turn[n \in 0 .. Len(Index)] ==
        IF n = 0 THEN <<1, Len(Index) + 1>> ELSE Halved(turn[n - 1], ip)
  IN  turn[Len(Index)][1]

Read(a) == IF a \in DOMAIN stack THEN stack[a] ELSE wild

(* unwind_control_block_init: three bytes, or two and those of the words   *)
(* that follow.  No bytes if the description is of another kind.           *)
ShortForm == 128
LongForm  == 129
Bytes(f) ==
  CASE f.insn[1] = ShortForm -> SubSeq(f.insn, 2, 4)
    [] f.insn[1] = LongForm  -> SubSeq(f.insn, 3, 4 + 4 * f.insn[2])
    [] OTHER             -> << >>

SP == 13
LR == 14
PC == 15

(* Pops the registers of a set, the smallest first.                        *)
Popped(vrs, regs) ==
  [r \in DOMAIN vrs |->
     IF r \in regs THEN Read(vrs[SP] + 4 * Cardinality({s \in regs : s < r})) ELSE vrs[r]]

Above(vrs, regs) == vrs[SP] + 4 * Cardinality(regs)

PowersOf2     == <<1, 2, 4, 8, 16, 32, 64, 128, 256, 512, 1024, 2048>>
Bits(mask, n) == {i \in 0 .. n - 1 : (mask \div PowersOf2[i + 1]) % 2 = 1}

(* One instruction b of unwind_execute_instruction, c the byte after it.   *)
(* Registers popped under a mask move the stack pointer only if it is one  *)
(* of them; r14 is always popped after r4 and its followers.               *)
PopMask(vrs, b, c) ==
  LET regs == {i + 4 : i \in Bits((b % 16) * 256 + c, 12)}
  IN  IF SP \in regs THEN [Popped(vrs, regs) EXCEPT ![SP] = Above(vrs, regs)]
      ELSE Popped(vrs, regs)

PopRange(vrs, b) ==
  LET regs == (4 .. 4 + (b % 8)) \cup {LR} IN [Popped(vrs, regs) EXCEPT ![SP] = Above(vrs, regs)]

PopLow(vrs, c) ==
  LET regs == Bits(c, 8) IN [Popped(vrs, regs) EXCEPT ![SP] = Above(vrs, regs)]

(* Floating-point registers are not kept, but r14 is overwritten.          *)
PopVfp(vrs, b) ==
  IF b \in {179, 200, 201}
    THEN [vrs EXCEPT ![LR] = wild, ![SP] = @ + 4]
    ELSE [vrs EXCEPT ![LR] = wild]

Finish(vrs) == IF vrs[PC] = 0 THEN [vrs EXCEPT ![PC] = vrs[LR]] ELSE vrs

Unwinding(vrs, at, how) == [vrs |-> vrs, at |-> at, how |-> how]

(* A turn of the loop: the instruction at s.at, of one byte or two.        *)
Turn(s, code) ==
  LET b   == code[s.at]
      c   == IF s.at < Len(code) THEN code[s.at + 1] ELSE -1
      vrs == s.vrs
      one(v)  == Unwinding(v, s.at + 1, "goes on")
      two(v)  == Unwinding(v, s.at + 2, "goes on")
      done(v) == Unwinding(v, s.at, "done")
  IN  IF s.at > Len(code) \/ s.how # "goes on" THEN s
      ELSE CASE b < 64  -> one([vrs EXCEPT ![SP] = @ + 4 * b + 4])
             [] b \in 64 .. 127 -> one([vrs EXCEPT ![SP] = @ - (4 * (b - 64) - 4)])
             [] b \in 128 .. 143 -> IF b = 128 /\ c = 0 THEN done(vrs) ELSE two(PopMask(vrs, b, c))
             [] b \in 144 .. 159 /\ b \notin {157, 159} -> one([vrs EXCEPT ![SP] = vrs[b % 16]])
             [] b \in 160 .. 175 -> one(PopRange(vrs, b))
             [] b = 176 -> done(Finish(vrs))
             [] b = 177 -> two(PopLow(vrs, c))
             [] b = 178 -> two([vrs EXCEPT ![SP] = @ + 516 + 4 * c])
             [] b \in {179, 200, 201} \cup (184 .. 191) \cup (208 .. 215) -> one(PopVfp(vrs, b))
             [] OTHER -> Unwinding(vrs, s.at, "refused")

Execute(vrs, code) ==
  LET run[n \in 0 .. Len(code)] ==
        IF n = 0 THEN Unwinding(vrs, 1, "goes on") ELSE Turn(run[n - 1], code)
  IN  run[Len(code)]

(* An exception frame: the program counter is the seventh word of the      *)
(* process stack, which is that of the task at work and not the one looked *)
(* into, or it is below r7 on the main stack.                              *)
NoStack == -1
ExceptionReturn(vrs) ==
  LET sp == vrs[7] - (vrs[7] % 8)
      at == CASE vrs[PC] = ExcPsp   -> NoStack
              [] vrs[PC] = ExcMspFp -> sp - 80
              [] OTHER              -> sp - 8
  IN  IF vrs[PC] >= 0 THEN vrs
      ELSE [vrs EXCEPT ![SP] = sp, ![PC] = Read(at), ![LR] = Read(at - 4)]

SameFunction(pc, next) == pc = next - (next % 2)                   \* mutant

(* unwind_frame, from a frame whose program counter has no Thumb bit.      *)
(* "same" is the comparison that ends the listing.                         *)
Same(pc, next) == pc = next

UnwindFrame(f) ==
  LET entry  == Index[SearchIndex(f.pc)]
      vrs    == [r \in 0 .. 15 |->
                   CASE r = 7 -> f.fp [] r = SP -> f.sp [] r = LR -> f.lr [] OTHER -> 0]
      result == Execute(vrs, Bytes(entry))
      after  == ExceptionReturn(Finish(result.vrs))
  IN  CASE entry.insn = << >>  -> [more |-> FALSE, frame |-> f]
        [] Bytes(entry) = << >> \/ result.how = "refused" -> [more |-> TRUE, frame |-> f]
        [] Same(f.pc, after[PC]) -> [more |-> FALSE, frame |-> f]
        [] OTHER -> [more  |-> TRUE,
                     frame |-> [fp |-> after[7], sp |-> after[SP], lr |-> after[LR], pc |-> after[PC]]]

(* One turn of the loop of _backtrace_unwind.                              *)
NoCaller == [address |-> 0, function |-> 0]

TraceNext ==
  /\ ~finished
  /\ IF frame.pc \in {0, 1}
       THEN /\ entries' = Append(entries, NoCaller)
            /\ finished' = TRUE
            /\ UNCHANGED frame
       ELSE LET pc   == frame.pc - (frame.pc % 2)
                next == UnwindFrame([frame EXCEPT !.pc = pc])
            IN  /\ entries' = Append(entries, [address  |-> pc,
                                               function |-> Index[SearchIndex(frame.pc)].start])
                /\ frame' = next.frame
                /\ finished' = (~next.more \/ Len(entries') >= Frames)
  /\ UNCHANGED <<calls, stack, wild>>

TraceSpec == TraceInit /\ [][TraceNext]_traceVars

-----------------------------------------------------------------------------
(* The listing begins with the calls that were made, the inmost first, and *)
(* it holds all of them if the buffer does (backtrace.c:344-379).  What is *)
(* past the task function is read from no stack and may be anything.       *)
CallersListed ==
  LET expected == Expected(calls)
  IN  /\ Len(entries) <= Frames
      /\ \A i \in DOMAIN entries : i <= Len(expected) => entries[i] = expected[i]
      /\ finished => Len(entries) >= Len(expected) \/ Len(entries) = Frames

=============================================================================
