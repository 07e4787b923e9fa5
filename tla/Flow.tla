-------------------------------- MODULE Flow --------------------------------
(***************************************************************************)
(* The flow of control in the functions that src/recompiler/lift.py emits: *)
(* branches become gotos or calls through the dispatch table, returns      *)
(* become C returns, a jump table becomes a switch, and the activations of *)
(* the C functions replace the ARM's program counter.                      *)
(*                                                                         *)
(* An action is the emitted statement of one instruction.  What computes   *)
(* is one instruction that leaves any value and any condition behind.      *)
(*                                                                         *)
(* The guest keeps the procedure call standard: it returns to the value    *)
(* that lr had when the function was entered, and it jumps to a function   *)
(* with lr either the next address (a call) or that value (a tail call).   *)
(***************************************************************************)
EXTENDS Integers, FiniteSetsExt, SequencesExt

CONSTANTS Images,        \* images: a set of functions from addresses to words
          Functions,     \* [start, end, heads] of each function found in them
          Imports,       \* the addresses of import slots
          Values,        \* what a computation may leave in a register
          Host,          \* the return address of what the host calls
          Done,          \* a C function whose next statement is its return
          MaxFrames      \* bound on activations and on saved addresses

ASSUME FlowAssumption ==
  /\ \A fn \in Functions : /\ fn.start \in fn.heads /\ fn.heads \subseteq Nat
                           /\ fn.start \notin Imports
  /\ Host \notin Nat /\ Done \notin Nat /\ Imports \subseteq Nat /\ Values \subseteq Nat
  /\ MaxFrames \in Nat \ {0}

VARIABLES image,         \* the instruction or data word at each address
          frames,        \* the activations on the host's stack, innermost last
          lr,            \* c->r[14]
          rm,            \* another register
          flag,          \* whether the condition of an instruction holds
          saved          \* the return addresses on the guest's stack

guest == <<image, lr, rm, flag, saved>>
vars == <<image, frames, lr, rm, flag, saved>>

Starts == {fn.start : fn \in Functions}
Registered(a) == a \in Starts \cup Imports
FunctionAt(a) == CHOOSE fn \in Functions : fn.start = a

\* An activation: which function, its next statement, and the value that lr
\* had when it was entered.
Entered(a, link) == [fn |-> a, at |-> a, home |-> link]

Init == /\ image \in Images /\ saved = << >> /\ rm \in Values /\ flag \in BOOLEAN
        /\ lr = Host
        /\ \E a \in Starts : frames = <<Entered(a, Host)>>

-----------------------------------------------------------------------------
\* What the lifter knows of a function.

HeadsOf(f) == FunctionAt(f).heads
After(f, a) == {h \in HeadsOf(f) : h > a}

\* The next emitted statement, or the closing brace.
NextHead(f, a) == IF After(f, a) = {} THEN Done ELSE Min(After(f, a))

\* emit's next_addr.
NextAddr(f, a) == IF After(f, a) = {} THEN FunctionAt(f).end ELSE Min(After(f, a))

\* Slip: every bx through a register is a tail call.
CallContinues_Never(f, a) == FALSE

\* _call_continue: the instruction decoded before this bx is mov lr, pc.
CallContinues(f, a) ==
  \E b \in HeadsOf(f) : NextHead(f, b) = a /\ image[b].op = "mov_lr_pc"

\* Slip: jump tables are not looked for.
Targets_None(f, a) == << >>

\* _jumptables: the words of the table up to the first that is no head of this
\* function, at most 256.
Targets(f, a) ==
  LET word(k) == image[a + 2 + k]
      taken(k) == /\ a + 2 + k \in DOMAIN image
                  /\ word(k).op = "word" /\ word(k).val \in HeadsOf(f)
      n == CHOOSE n \in 0..256 : /\ \A k \in 0..(n - 1) : taken(k)
                                 /\ n = 256 \/ ~taken(n)
  IN [k \in 1..n |-> word(k - 1).val]

-----------------------------------------------------------------------------
Top == Last(frames)
Running == frames # << >> /\ Top.at \notin Imports \cup {Done}
Current == image[Top.at]
Following == NextHead(Top.fn, Top.at)

At(a) == [frames EXCEPT ![Len(frames)].at = a]

Goto(a) == frames' = At(a)

\* ngage_call(a) with link in lr, after which the C function goes on at k;
\* ngage_call of what is not registered logs that and comes back.
CallThen(a, link, k) ==
  IF Registered(a)
  THEN Len(frames) < MaxFrames /\ frames' = Append(At(k), Entered(a, link))
  ELSE Goto(k)

Return == frames' = Front(frames)

\* The guest's part of the procedure call standard.
Hands(a) == a = Top.home

\* emit and _guard: the statement of an instruction whose condition holds.
Taken(op) == Running /\ Current.op = op /\ (Current.cc => flag)

Skip == /\ Running /\ Current.cc /\ ~flag
        /\ Goto(Following) /\ UNCHANGED guest

Compute == /\ Taken("compute")
           /\ rm' \in Values /\ flag' \in BOOLEAN
           /\ Goto(Following) /\ UNCHANGED <<image, lr, saved>>

\* A branch to a head of the function is a goto.
IsLocal(f, a) == a \in HeadsOf(f)

Branch == /\ Taken("b")
          /\ IF IsLocal(Top.fn, Current.to) THEN Goto(Current.to)
             ELSE Hands(lr) /\ CallThen(Current.to, lr, Done)
          /\ UNCHANGED guest

BranchLink == /\ Taken("bl")
              /\ lr' = NextAddr(Top.fn, Top.at)
              /\ CallThen(Current.to, NextAddr(Top.fn, Top.at), Following)
              /\ UNCHANGED <<image, rm, flag, saved>>

MoveLr == /\ Taken("mov_lr_pc")
          /\ lr' = Top.at + 2
          /\ Goto(Following) /\ UNCHANGED <<image, rm, flag, saved>>

BranchExchange == /\ Taken("bx") /\ Registered(rm)
                  /\ lr = Top.at + 1 \/ Hands(lr)
                  /\ CallThen(rm, lr, IF CallContinues(Top.fn, Top.at) THEN Following ELSE Done)
                  /\ UNCHANGED guest

ReturnByLr == /\ Taken("bx_lr") /\ Hands(lr)
              /\ Return /\ UNCHANGED guest

\* ldr pc of a constant slot.
LoadPc == /\ Taken("ldr_pc") /\ Hands(lr)
          /\ CallThen(image[Top.at + 2 + Current.disp].val, lr, Done)
          /\ UNCHANGED guest

\* A switch without a default: any other index would fall through, but the guest
\* compares it first.  A table that does not begin with a label of the function
\* is dispatched instead.
TableJump ==
  LET targets == Targets(Top.fn, Top.at)
      entry == Top.at + 2 + rm
  IN /\ Taken("ldr_pc_table")
     /\ entry \in DOMAIN image /\ image[entry].op = "word"
     /\ IF targets = << >> THEN Hands(lr) /\ CallThen(image[entry].val, lr, Done)
        ELSE Goto(IF rm < Len(targets) THEN targets[rm + 1] ELSE Following)
     /\ UNCHANGED guest

PushLr == /\ Taken("push_lr") /\ Len(saved) < MaxFrames
          /\ saved' = Append(saved, lr)
          /\ Goto(Following) /\ UNCHANGED <<image, lr, rm, flag>>

\* pop {..., pc}: the stack pointer moves and the popped value is not looked at.
PopPc == /\ Taken("pop_pc") /\ saved # << >> /\ Hands(Last(saved))
         /\ saved' = Front(saved)
         /\ Return /\ UNCHANGED <<image, lr, rm, flag>>

\* The return after a tail call, or the closing brace.
Leave == frames # << >> /\ Top.at = Done /\ Return /\ UNCHANGED guest

\* A shim of the runtime comes back to ngage_call.
ShimReturns == frames # << >> /\ Top.at \in Imports /\ Return /\ UNCHANGED guest

Next == \/ Skip \/ Compute \/ Branch \/ BranchLink \/ MoveLr \/ BranchExchange
        \/ ReturnByLr \/ LoadPc \/ TableJump \/ PushLr \/ PopPc
        \/ Leave \/ ShimReturns

Spec == Init /\ [][Next]_vars

-----------------------------------------------------------------------------
\* What lift.py takes for granted of an image i and a function found in it: the
\* emitted code follows the ARM only where it holds.

Jumps == {"b", "bx", "bx_lr", "ldr_pc", "ldr_pc_table", "pop_pc"}

\* The bx of an indirect call: the instruction before it in memory is mov lr, pc.
IsCall(i, h) == /\ h - 1 \in DOMAIN i /\ i[h - 1].op = "mov_lr_pc"
                /\ i[h].op = "bx"

FallsThrough(i, h) == i[h].cc \/ i[h].op \notin Jumps \/ IsCall(i, h)

\* The heads are all of the function's instructions, and it ends in a jump.
HeadsAreWhole(i, fn) ==
  \A h \in fn.heads : /\ h \in DOMAIN i /\ h \notin Imports
                      /\ FallsThrough(i, h) => h + 1 \in fn.heads

\* A jump that leaves the function reaches the start of one, or a shim.
TargetsAreKnown(i, fn) ==
  \A h \in fn.heads :
    /\ i[h].op = "b" => i[h].to \in fn.heads \/ Registered(i[h].to)
    /\ i[h].op = "bl" => Registered(i[h].to)
    /\ i[h].op = "ldr_pc" => Registered(i[h + 2 + i[h].disp].val)

IsLabel(i, fn, a) == a \in DOMAIN i /\ i[a].op = "word" /\ i[a].val \in fn.heads

\* The words that an index can reach are all labels, at most 256, or none is.
TablesAreUniform(i, fn) ==
  \A h \in fn.heads, r \in Values :
    (/\ i[h].op = "ldr_pc_table"
     /\ h + 2 + r \in DOMAIN i /\ i[h + 2 + r].op = "word")
    => \/ r < 256 /\ \A k \in 0..r : IsLabel(i, fn, h + 2 + k)
       \/ ~IsLabel(i, fn, h + 2) /\ Registered(i[h + 2 + r].val)

\* The two instructions of an indirect call are in the same function and under
\* one condition, and nothing jumps between them.
CallsAreWhole(i, fn) ==
  \A h \in fn.heads :
    /\ IsCall(i, h) => h # fn.start /\ h - 1 \in fn.heads /\ i[h - 1].cc = i[h].cc
    /\ i[h].op = "b" /\ i[h].to \in fn.heads => ~IsCall(i, i[h].to)
    /\ \A r \in Values : i[h].op = "ldr_pc_table" /\ IsLabel(i, fn, h + 2 + r)
                          => ~IsCall(i, i[h + 2 + r].val)

Liftable(i) ==
  \A fn \in Functions : /\ HeadsAreWhole(i, fn) /\ TargetsAreKnown(i, fn)
                        /\ TablesAreUniform(i, fn) /\ CallsAreWhole(i, fn)

-----------------------------------------------------------------------------
\* Where the ARM is: at the next statement of the innermost C function that has
\* more to do than to return.
Pc == LET busy == {k \in DOMAIN frames : frames[k].at # Done}
      IN IF busy = {} THEN Host ELSE frames[Max(busy)].at

\* Every statement of the emitted functions takes the machine where the ARM
\* goes, with the same lr and the same stack of return addresses; nothing is
\* skipped or done twice when C functions return (README of the recompiler,
\* lines 117-123, bugs 3 and 4).
Arm == INSTANCE ArmFlow WITH pc <- Pc
ImplementsArm == Arm!Spec
=============================================================================
