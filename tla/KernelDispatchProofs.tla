------------------------ MODULE KernelDispatchProofs ------------------------
(***************************************************************************)
(* The plain executor, for every program and every table of kernels: its    *)
(* types, when it gives up, and that expanding a fused opcode into calls on *)
(* the result buffer implements instructions evaluated in one step.         *)
(***************************************************************************)
EXTENDS KernelDispatch, TLAPS

(* Sequences written out.                                                   *)
LEMMA JoinsOne ==
  ASSUME NEW x
  PROVE  <<x>> \o << >> = <<x>>
<1>1. <<x>> \in Seq({x}) /\ << >> \in Seq({x})
  OBVIOUS
<1>2. QED
  BY <1>1

LEMMA JoinsTwo ==
  ASSUME NEW x, NEW y
  PROVE  <<x>> \o <<y>> = <<x, y>> /\ <<x, y>> \o << >> = <<x, y>>
<1> DEFINE s == <<x>> \o <<y>>
           t == <<x, y>>
<1>1. <<x>> \in Seq({x, y}) /\ <<y>> \in Seq({x, y}) /\ << >> \in Seq({x, y})
  OBVIOUS
<1>2. s \in Seq({x, y}) /\ Len(s) = 2 /\ s[1] = x /\ s[2] = y
  BY <1>1
<1>3. t \in Seq({x, y}) /\ Len(t) = 2 /\ t[1] = x /\ t[2] = y
  OBVIOUS
<1> HIDE DEF s, t
<1>4. s = t /\ t \o << >> = t
  BY <1>1, <1>2, <1>3
<1>5. QED
  BY <1>4 DEF s, t

LEMMA JoinsThree ==
  ASSUME NEW x, NEW y, NEW z
  PROVE  <<x, y>> \o <<z>> = <<x, y, z>>
<1> DEFINE s == <<x, y>> \o <<z>>
           t == <<x, y, z>>
           S == {x, y, z}
<1>1. <<x, y>> \in Seq(S) /\ <<z>> \in Seq(S)
  OBVIOUS
<1>2. s \in Seq(S) /\ Len(s) = 3 /\ s[1] = x /\ s[2] = y /\ s[3] = z
  BY <1>1
<1>3. t \in Seq(S) /\ Len(t) = 3 /\ t[1] = x /\ t[2] = y /\ t[3] = z
  OBVIOUS
<1> HIDE DEF s, t, S
<1>4. s = t
  BY <1>2, <1>3
<1>5. QED
  BY <1>4 DEF s, t

(* The tail of a short sequence, element by element.                        *)
LEMMA TailElements ==
  ASSUME NEW S, NEW s \in Seq(S), s # << >>
  PROVE  /\ Tail(s) \in Seq(S) /\ Len(Tail(s)) = Len(s) - 1
         /\ Len(s) \in Nat \ {0} /\ Head(s) = s[1] /\ Head(s) \in S
         /\ \A j \in 1..(Len(s) - 1) : Tail(s)[j] = s[j + 1]
OBVIOUS

(* Calling the first one is the first step of calling them all.             *)
LEMMA EffectSteps ==
  ASSUME NEW S, NEW s \in Seq(S), s # << >>, Len(s) <= 3, NEW c
  PROVE  Effect(Tail(s), Written(Head(s), c)) = Effect(s, c)
<1>1. /\ Len(Tail(s)) = Len(s) - 1 /\ Len(s) \in Nat \ {0} /\ Head(s) = s[1]
      /\ \A j \in 1..(Len(s) - 1) : Tail(s)[j] = s[j + 1]
  BY TailElements
<1>2. CASE Len(s) = 1
  <2>1. Len(Tail(s)) = 0
    BY <1>1, <1>2
  <2>2. QED
    BY <1>1, <1>2, <2>1 DEF Effect
<1>3. CASE Len(s) = 2
  <2> DEFINE t == Tail(s)
  <2>1. Len(t) = 1 /\ t[1] = s[2]
    BY <1>1, <1>3
  <2> HIDE DEF t
  <2>2. \A d : Effect(t, d) = Written(t[1], d)
    BY <2>1 DEF Effect
  <2>3. Effect(s, c) = Written(s[2], Written(s[1], c))
    BY <1>3 DEF Effect
  <2>4. Effect(t, Written(s[1], c)) = Effect(s, c)
    BY <2>1, <2>2, <2>3
  <2>5. QED
    BY <1>1, <2>4 DEF t
<1>4. CASE Len(s) = 3
  <2> DEFINE t == Tail(s)
  <2>1. Len(t) = 2 /\ 1 \in 1..(Len(s) - 1) /\ 2 \in 1..(Len(s) - 1)
    BY <1>1, <1>4
  <2>2. t[1] = s[1 + 1] /\ t[2] = s[2 + 1]
    BY <1>1, <2>1
  <2> HIDE DEF t
  <2>3. \A d : Effect(t, d) = Written(t[2], Written(t[1], d))
    BY <2>1 DEF Effect
  <2>4. Effect(s, c) = Written(s[3], Written(s[2], Written(s[1], c)))
    BY <1>4 DEF Effect
  <2>5. Effect(t, Written(s[1], c)) = Effect(s, c)
    BY <2>2, <2>3, <2>4
  <2>6. QED
    BY <1>1, <2>5 DEF t
<1>5. QED
  BY <1>1, <1>2, <1>3, <1>4

(* A missing kernel further down stays there.                               *)
LEMMA StopsLater ==
  ASSUME NEW S, NEW s \in Seq(S), s # << >>, Head(s) # NoKernel
  PROVE  Stops(Tail(s)) <=> Stops(s)
<1>0. /\ Len(Tail(s)) = Len(s) - 1 /\ Len(s) \in Nat \ {0} /\ Head(s) = s[1]
      /\ \A j \in 1..(Len(s) - 1) : Tail(s)[j] = s[j + 1]
  BY TailElements
<1>1. ASSUME Stops(Tail(s)) PROVE Stops(s)
  <2>1. PICK j \in 1..Len(Tail(s)) : Tail(s)[j] = NoKernel
    BY <1>1 DEF Stops
  <2>2. j + 1 \in 1..Len(s) /\ s[j + 1] = NoKernel
    BY <2>1, <1>0
  <2>3. QED
    BY <2>2 DEF Stops
<1>2. ASSUME Stops(s) PROVE Stops(Tail(s))
  <2>1. PICK j \in 1..Len(s) : s[j] = NoKernel
    BY <1>2 DEF Stops
  <2>2. j # 1
    BY <2>1, <1>0
  <2>3. j - 1 \in 1..Len(Tail(s)) /\ Tail(s)[j - 1] = NoKernel
    BY <2>1, <2>2, <1>0
  <2>4. QED
    BY <2>3 DEF Stops
<1>3. QED
  BY <1>1, <1>2

-----------------------------------------------------------------------------
(* What an instruction turns into, case by case.                            *)

(* Up to three calls, each to a registered opcode and into the result of    *)
(* the instruction, or to a missing kernel.                                 *)
Shape(s, inst) ==
  /\ s \in Seq(Range(s))
  /\ s # << >> /\ Len(s) <= 3
  /\ \A k \in Range(s) : k = NoKernel \/ (k.res = inst.res /\ k.op \in table)

LEMMA OneCall ==
  ASSUME NEW inst, NEW k, k = NoKernel \/ (k.res = inst.res /\ k.op \in table)
  PROVE  Shape(<<k>>, inst)
<1>1. Range(<<k>>) = {k}
  BY DEF Range
<1>2. QED
  BY <1>1 DEF Shape

LEMMA TwoCalls ==
  ASSUME NEW inst, NEW k, k = NoKernel \/ (k.res = inst.res /\ k.op \in table),
         NEW l, l = NoKernel \/ (l.res = inst.res /\ l.op \in table)
  PROVE  Shape(<<k, l>>, inst)
<1>1. Range(<<k, l>>) = {k, l}
  BY DEF Range
<1>2. QED
  BY <1>1 DEF Shape

LEMMA ThreeCalls ==
  ASSUME NEW inst, NEW k, k = NoKernel \/ (k.res = inst.res /\ k.op \in table),
         NEW l, l = NoKernel \/ (l.res = inst.res /\ l.op \in table),
         NEW m, m = NoKernel \/ (m.res = inst.res /\ m.op \in table)
  PROVE  Shape(<<k, l, m>>, inst)
<1>1. Range(<<k, l, m>>) = {k, l, m}
  BY DEF Range
<1>2. QED
  BY <1>1 DEF Shape

LEMMA Required ==
  ASSUME NEW op, NEW r, NEW args, NEW inst, inst.res = r
  PROVE  \E k : /\ Require(op, r, args) = <<k>>
                /\ k = NoKernel \/ (k.res = inst.res /\ k.op \in table)
<1>1. CASE op \in table
  <2>1. Require(op, r, args) = <<Kernel(op, r, args)>>
    BY <1>1 DEF Require
  <2>2. Kernel(op, r, args).res = inst.res /\ Kernel(op, r, args).op \in table
    BY <1>1 DEF Kernel
  <2>3. QED
    BY <2>1, <2>2
<1>2. CASE op \notin table
  <2>1. Require(op, r, args) = <<NoKernel>>
    BY <1>2 DEF Require
  <2>2. QED
    BY <2>1
<1>3. QED
  BY <1>1, <1>2

LEMMA Optionals ==
  ASSUME NEW op, NEW inst
  PROVE  \/ Optional(op, inst.res) = << >>
         \/ \E k : /\ Optional(op, inst.res) = <<k>>
                   /\ k.res = inst.res /\ k.op \in table
BY DEF Optional, Kernel

LEMMA CallsShape ==
  ASSUME NEW inst
  PROVE  Shape(CallsOf(inst), inst)
<1> DEFINE r == inst.res
           a == inst.args[1]
           b == inst.args[2]
<1>1. CASE inst.op \in table
  BY <1>1, OneCall DEF CallsOf, Kernel
<1>2. CASE inst.op \notin table
  <2>1. CallsOf(inst) = Decompose(inst)
    BY <1>2 DEF CallsOf
  <2>2. CASE inst.op = "HMULT"
    <3>1. Decompose(inst) = Require("MULT_CC", r, <<a, b>>)
                              \o Optional("RELINEARIZE", r) \o Optional("RESCALE", r)
      BY <2>2 DEF Decompose
    <3>2. PICK k : /\ Require("MULT_CC", r, <<a, b>>) = <<k>>
                   /\ k = NoKernel \/ (k.res = inst.res /\ k.op \in table)
      BY Required
    <3>3. CASE Optional("RELINEARIZE", r) = << >>
      <4>1. <<k>> \o << >> = <<k>>
        BY JoinsOne
      <4>2. CASE Optional("RESCALE", r) = << >>
        BY <2>1, <3>1, <3>2, <3>3, <4>1, <4>2, OneCall
      <4>3. CASE \E m : /\ Optional("RESCALE", r) = <<m>>
                        /\ m.res = inst.res /\ m.op \in table
        <5>1. PICK m : /\ Optional("RESCALE", r) = <<m>>
                       /\ m.res = inst.res /\ m.op \in table
          BY <4>3
        <5>2. <<k>> \o <<m>> = <<k, m>>
          BY JoinsTwo
        <5>3. QED
          BY <2>1, <3>1, <3>2, <3>3, <4>1, <5>1, <5>2, TwoCalls
      <4>4. QED
        BY <4>2, <4>3, Optionals
    <3>4. CASE \E l : /\ Optional("RELINEARIZE", r) = <<l>>
                      /\ l.res = inst.res /\ l.op \in table
      <4>1. PICK l : /\ Optional("RELINEARIZE", r) = <<l>>
                     /\ l.res = inst.res /\ l.op \in table
        BY <3>4
      <4>2. <<k>> \o <<l>> = <<k, l>> /\ <<k, l>> \o << >> = <<k, l>>
        BY JoinsTwo
      <4>3. CASE Optional("RESCALE", r) = << >>
        BY <2>1, <3>1, <3>2, <4>1, <4>2, <4>3, TwoCalls
      <4>4. CASE \E m : /\ Optional("RESCALE", r) = <<m>>
                        /\ m.res = inst.res /\ m.op \in table
        <5>1. PICK m : /\ Optional("RESCALE", r) = <<m>>
                       /\ m.res = inst.res /\ m.op \in table
          BY <4>4
        <5>2. <<k, l>> \o <<m>> = <<k, l, m>>
          BY JoinsThree
        <5>3. QED
          BY <2>1, <3>1, <3>2, <4>1, <4>2, <5>1, <5>2, ThreeCalls
      <4>5. QED
        BY <4>3, <4>4, Optionals
    <3>5. QED
      BY <3>3, <3>4, Optionals
  <2>3. CASE inst.op = "HROT"
    <3>1. Decompose(inst) = Require("ROTATE", r, <<a>>)
      BY <2>3 DEF Decompose
    <3>2. QED
      BY <2>1, <3>1, Required, OneCall
  <2>4. CASE inst.op = "HROT_ADD"
    <3>1. Decompose(inst) = RotationCalls(r, a) \o Require("ADD_CC", r, <<r, b>>)
      BY <2>4 DEF Decompose
    <3>2. PICK k : /\ RotationCalls(r, a) = <<k>>
                   /\ k = NoKernel \/ (k.res = inst.res /\ k.op \in table)
      BY Required DEF RotationCalls
    <3>3. PICK l : /\ Require("ADD_CC", r, <<r, b>>) = <<l>>
                   /\ l = NoKernel \/ (l.res = inst.res /\ l.op \in table)
      BY Required
    <3>4. <<k>> \o <<l>> = <<k, l>>
      BY JoinsTwo
    <3>5. QED
      BY <2>1, <3>1, <3>2, <3>3, <3>4, TwoCalls
  <2>5. CASE inst.op = "HCONJ_ADD" /\ {"CONJUGATE", "ADD_CC"} \subseteq table
    <3>1. Decompose(inst) = <<Kernel("CONJUGATE", r, <<a>>), Kernel("ADD_CC", r, <<r, b>>)>>
      BY <2>5 DEF Decompose
    <3>2. QED
      BY <2>1, <2>5, <3>1, TwoCalls DEF Kernel
  <2>6. CASE inst.op = "MAD" /\ b \notin {Unused, r}
               /\ {"MULT_CS", "ADD_CC"} \subseteq table
    <3>1. Decompose(inst) = <<Kernel("MULT_CS", r, <<a>>), Kernel("ADD_CC", r, <<r, b>>)>>
      BY <2>6 DEF Decompose
    <3>2. QED
      BY <2>1, <2>6, <3>1, TwoCalls DEF Kernel
  <2>7. CASE /\ inst.op \notin {"HMULT", "HROT", "HROT_ADD"}
             /\ ~(inst.op = "HCONJ_ADD" /\ {"CONJUGATE", "ADD_CC"} \subseteq table)
             /\ ~(inst.op = "MAD" /\ b \notin {Unused, r}
                    /\ {"MULT_CS", "ADD_CC"} \subseteq table)
    <3>1. Decompose(inst) = <<NoKernel>>
      BY <2>7 DEF Decompose
    <3>2. QED
      BY <2>1, <3>1, OneCall
  <2>8. QED
    BY <2>2, <2>3, <2>4, <2>5, <2>6, <2>7
<1>3. QED
  BY <1>1, <1>2

-----------------------------------------------------------------------------
(* The inductive invariant.                                                 *)

LEMMA CurrentTyped ==
  ASSUME States, pos <= Size(program)
  PROVE  /\ Current \in Instruction /\ Current.res \in Ids(program)
         /\ Current.res = Result(program, pos) /\ pos \in Positions(program)
         /\ program \in Program
<1>1. program \in Program /\ pos \in 1..Len(program.code)
  BY ProgramsAssumption DEF States, Size
<1>2. program.code[pos] \in Instruction
  BY <1>1 DEF Program
<1>3. QED
  BY <1>1, <1>2 DEF Current, Ids, Result, Positions, Size

LEMMA DispatchInit ==
  ASSUME Init
  PROVE  DispatchInv
<1>1. program \in Program
  BY ProgramsAssumption DEF Init
<1>2. Size(program) \in Nat
  BY <1>1 DEF Program, Size
<1>3. QED
  BY <1>1, <1>2 DEF Init, DispatchInv, States, Begun, Between, Finished, Expanding,
     Left, GivenUp

LEMMA KeptStates ==
  ASSUME States, UNCHANGED <<program, table>>
  PROVE  /\ Size(program)' = Size(program) /\ Ids(program)' = Ids(program)
         /\ Size(program) \in Nat /\ pos \in Int
<1>1. program \in Program
  BY ProgramsAssumption DEF States
<1>2. Size(program) \in Nat
  BY <1>1 DEF Program, Size
<1>3. pos \in Int
  BY <1>2 DEF States
<1>4. QED
  BY <1>2, <1>3

(* The instruction and its calls stay the same while it is being executed.  *)
LEMMA CurrentKept ==
  ASSUME UNCHANGED <<program, table, pos>>
  PROVE  /\ Current' = Current /\ CallsOf(Current)' = CallsOf(Current)
         /\ Range(CallsOf(Current))' = Range(CallsOf(Current))
         /\ Stops(CallsOf(Current))' <=> Stops(CallsOf(Current))
<1>1. Current' = Current
  BY DEF Current
<1>2. CallsOf(Current)' = CallsOf(Current)
  BY <1>1 DEF CallsOf, Decompose, Require, Optional, RotationCalls, Kernel,
     OperandSlots, NoKernel
<1>3. Range(CallsOf(Current))' = Range(CallsOf(Current))
  BY <1>2 DEF Range
<1>4. Stops(CallsOf(Current))' <=> Stops(CallsOf(Current))
  BY <1>2 DEF Stops
<1>5. QED
  BY <1>1, <1>2, <1>3, <1>4

LEMMA StartKeeps ==
  ASSUME DispatchInv, Start
  PROVE  DispatchInv'
<1>1. Size(program)' = Size(program) /\ Ids(program)' = Ids(program)
  BY DEF Start
<1>2. QED
  BY <1>1 DEF Start, DispatchInv, States, Begun, Between, Finished, Expanding,
     Left, GivenUp, Current

LEMMA NextInstructionKeeps ==
  ASSUME DispatchInv, NextInstruction
  PROVE  DispatchInv'
<1>1. States /\ UNCHANGED <<program, table, pos, contents, refused>> /\ pc = "run"
      /\ refused # "missing"
  BY DEF NextInstruction, DispatchInv, GivenUp
<1>2. /\ Size(program)' = Size(program) /\ Ids(program)' = Ids(program)
      /\ Size(program) \in Nat /\ pos \in Int
  BY <1>1, KeptStates
<1>3. contents = before /\ calls = << >>
  BY <1>1 DEF DispatchInv, Between
<1>4. CASE pos > Size(program)
  <2>1. pc' = "ok" /\ calls' = << >> /\ before' = before /\ pos = Size(program) + 1
    BY <1>1, <1>2, <1>3, <1>4 DEF NextInstruction, States
  <2>2. QED
    BY <1>1, <1>2, <2>1 DEF DispatchInv, States, Begun, Between, Finished, Expanding,
       Left, GivenUp, Current
<1>5. CASE pos <= Size(program)
  <2>1. pc' = "call" /\ calls' = CallsOf(Current) /\ before' = contents
    BY <1>1, <1>2, <1>5 DEF NextInstruction, Current
  <2>2. /\ Current' = Current /\ CallsOf(Current)' = CallsOf(Current)
        /\ Range(CallsOf(Current))' = Range(CallsOf(Current))
        /\ Stops(CallsOf(Current))' <=> Stops(CallsOf(Current))
    BY <1>1, CurrentKept
  <2>3. States'
    BY <1>1, <1>2, <2>1 DEF States
  <2>4. Left'
    <3>1. /\ CallsOf(Current) \in Seq(Range(CallsOf(Current)))
          /\ Len(CallsOf(Current)) <= 3
      BY CallsShape DEF Shape
    <3>2. calls' \in Seq(Range(CallsOf(Current))) /\ Len(calls') <= 3
      BY <2>1, <3>1, Zenon
    <3>3. QED
      BY <1>1, <1>2, <1>5, <2>2, <3>2 DEF Left
  <2>5. Expanding'
    <3>1. Effect(calls, contents)' = Effect(CallsOf(Current), before')
      BY <1>1, <2>1 DEF Effect, Written
    <3>2. Effect(CallsOf(Current), before)' = Effect(CallsOf(Current), before')
      BY <2>2 DEF Effect, Written
    <3>3. Stops(calls)' <=> Stops(CallsOf(Current))'
      BY <2>1, <2>2 DEF Stops
    <3>4. QED
      BY <1>1, <1>2, <1>5, <2>1, <3>1, <3>2, <3>3 DEF Expanding
  <2>6. QED
    BY <1>1, <2>1, <2>3, <2>4, <2>5 DEF DispatchInv, Begun, Between, Finished, GivenUp
<1>6. QED
  BY <1>2, <1>4, <1>5

(* While calls are left, the next one is a kernel of the table on the       *)
(* result buffer, or missing.                                               *)
LEMMA NextCall ==
  ASSUME DispatchInv, calls # << >>
  PROVE  /\ calls \in Seq(Range(CallsOf(Current))) /\ Len(calls) <= 3
         /\ Head(calls) \in Range(CallsOf(Current))
         /\ Head(calls) # NoKernel => /\ Head(calls).res = Current.res
                                      /\ Head(calls).op \in table
         /\ pos <= Size(program)
<1>1. calls \in Seq(Range(CallsOf(Current))) /\ Len(calls) <= 3 /\ pos <= Size(program)
  BY DEF DispatchInv, Left
<1>2. Head(calls) \in Range(CallsOf(Current))
  BY <1>1, TailElements
<1>3. \A k \in Range(CallsOf(Current)) :
        k = NoKernel \/ (k.res = Current.res /\ k.op \in table)
  BY CallsShape DEF Shape
<1>4. QED
  BY <1>1, <1>2, <1>3

LEMMA CallKernelKeeps ==
  ASSUME DispatchInv, CallKernel
  PROVE  DispatchInv'
<1>1. /\ States /\ UNCHANGED <<program, table, pc, pos, before, refused>> /\ pc = "call"
      /\ calls # << >> /\ Head(calls) # NoKernel /\ calls' = Tail(calls)
      /\ contents' = Written(Head(calls), contents)
  BY DEF CallKernel, DispatchInv, Written
<1>2. /\ Size(program)' = Size(program) /\ Ids(program)' = Ids(program)
      /\ Size(program) \in Nat /\ pos \in Int
  BY <1>1, KeptStates
<1>3. /\ Current' = Current /\ CallsOf(Current)' = CallsOf(Current)
      /\ Range(CallsOf(Current))' = Range(CallsOf(Current))
      /\ Stops(CallsOf(Current))' <=> Stops(CallsOf(Current))
  BY <1>1, CurrentKept
<1>4. /\ calls \in Seq(Range(CallsOf(Current))) /\ Len(calls) <= 3
      /\ Head(calls).res = Current.res /\ pos <= Size(program)
  BY <1>1, NextCall
<1>5. /\ DOMAIN contents' = DOMAIN contents
      /\ \A id \in DOMAIN contents \ {Current.res} : contents'[id] = contents[id]
  BY <1>1, <1>4 DEF Written
<1>6. States'
  BY <1>1, <1>2, <1>5 DEF States
<1>7. Left'
  <2>1. Tail(calls) \in Seq(Range(CallsOf(Current))) /\ Len(Tail(calls)) <= 3
    <3>1. /\ Tail(calls) \in Seq(Range(CallsOf(Current)))
          /\ Len(Tail(calls)) = Len(calls) - 1 /\ Len(calls) \in Nat
      BY <1>1, <1>4, TailElements
    <3>2. QED
      BY <1>4, <3>1
  <2>2. QED
    BY <1>1, <1>2, <1>3, <1>4, <2>1 DEF Left
<1>8. Expanding'
  <2>1. Effect(calls, contents)' = Effect(calls, contents)
    <3>1. Effect(Tail(calls), Written(Head(calls), contents)) = Effect(calls, contents)
      BY <1>1, <1>4, EffectSteps
    <3>2. Effect(calls, contents)' = Effect(Tail(calls), Written(Head(calls), contents))
      BY <1>1 DEF Effect, Written
    <3>3. QED
      BY <3>1, <3>2
  <2>2. Effect(CallsOf(Current), before)' = Effect(CallsOf(Current), before)
    BY <1>1, <1>3 DEF Effect, Written
  <2>3. Stops(calls)' <=> Stops(calls)
    <3>1. Stops(Tail(calls)) <=> Stops(calls)
      BY <1>1, <1>4, StopsLater
    <3>2. Stops(calls)' <=> Stops(Tail(calls))
      BY <1>1 DEF Stops
    <3>3. QED
      BY <3>1, <3>2
  <2>4. /\ Effect(calls, contents) = Effect(CallsOf(Current), before)
        /\ Stops(calls) <=> Stops(CallsOf(Current))
        /\ \A id \in DOMAIN contents \ {Current.res} : contents[id] = before[id]
    BY <1>1 DEF DispatchInv, Expanding
  <2>5. \A id \in DOMAIN contents' \ {Current'.res} : contents'[id] = before'[id]
    BY <1>1, <1>3, <1>5, <2>4
  <2>6. Effect(calls, contents)' = Effect(CallsOf(Current), before)'
    BY <2>1, <2>2, <2>4
  <2>7. Stops(calls)' <=> Stops(CallsOf(Current))'
    BY <1>3, <2>3, <2>4
  <2>8. (pos <= Size(program))'
    BY <1>1, <1>2, <1>4
  <2>9. QED
    BY <2>5, <2>6, <2>7, <2>8 DEF Expanding
<1>9. GivenUp' /\ Begun' /\ Between' /\ Finished'
  BY <1>1 DEF DispatchInv, GivenUp, Begun, Between, Finished
<1>10. QED
  BY <1>6, <1>7, <1>8, <1>9 DEF DispatchInv

LEMMA KernelFailsKeeps ==
  ASSUME DispatchInv, KernelFails
  PROVE  DispatchInv'
<1>1. /\ States /\ UNCHANGED <<program, table, pos, calls, before>> /\ pc = "call"
      /\ pc' = "failed" /\ refused' = "kernel"
      /\ contents' = [contents EXCEPT ![Head(calls).res] = <<"JUNK">>]
  BY DEF KernelFails, DispatchInv
<1>2. /\ Size(program)' = Size(program) /\ Ids(program)' = Ids(program)
  BY <1>1, KeptStates
<1>3. /\ Range(CallsOf(Current))' = Range(CallsOf(Current))
  BY <1>1, CurrentKept
<1>4. States'
  BY <1>1, <1>2 DEF States
<1>5. Left'
  BY <1>1, <1>2, <1>3 DEF Left, DispatchInv
<1>6. QED
  BY <1>1, <1>4, <1>5 DEF DispatchInv, GivenUp, Begun, Between, Finished, Expanding

LEMMA NoSuchKernelKeeps ==
  ASSUME DispatchInv, NoSuchKernel
  PROVE  DispatchInv'
<1>1. /\ States /\ UNCHANGED <<program, table, pos, calls, contents, before>>
      /\ pc = "call" /\ pc' = "failed" /\ refused' = "missing"
      /\ calls # << >> /\ Head(calls) = NoKernel
  BY DEF NoSuchKernel, DispatchInv
<1>2. /\ Size(program)' = Size(program) /\ Ids(program)' = Ids(program)
  BY <1>1, KeptStates
<1>3. /\ Range(CallsOf(Current))' = Range(CallsOf(Current))
      /\ Stops(CallsOf(Current))' <=> Stops(CallsOf(Current))
  BY <1>1, CurrentKept
<1>4. States'
  BY <1>1, <1>2 DEF States
<1>5. Left'
  BY <1>1, <1>2, <1>3 DEF Left, DispatchInv
<1>6. calls \in Seq(Range(CallsOf(Current))) /\ pos <= Size(program)
  BY <1>1, NextCall
<1>7. Stops(calls)
  <2>1. Len(calls) \in Nat \ {0} /\ Head(calls) = calls[1]
    BY <1>1, <1>6, TailElements
  <2>2. QED
    BY <1>1, <2>1 DEF Stops
<1>8. Stops(CallsOf(Current))
  BY <1>1, <1>7 DEF DispatchInv, Expanding
<1>9. GivenUp'
  BY <1>1, <1>2, <1>3, <1>6, <1>8 DEF GivenUp
<1>10. QED
  BY <1>1, <1>4, <1>5, <1>9 DEF DispatchInv, Begun, Between, Finished, Expanding

LEMMA InstructionDoneKeeps ==
  ASSUME DispatchInv, InstructionDone
  PROVE  DispatchInv'
<1>1. /\ States /\ UNCHANGED <<program, table, calls, contents, refused>>
      /\ pc = "call" /\ pc' = "run" /\ pos' = pos + 1 /\ before' = contents
      /\ calls = << >> /\ refused # "missing" /\ pos <= Size(program)
  BY DEF InstructionDone, DispatchInv, GivenUp, Expanding
<1>2. /\ Size(program)' = Size(program) /\ Ids(program)' = Ids(program)
      /\ Size(program) \in Nat /\ pos \in Int
  BY <1>1, KeptStates
<1>3. States'
  BY <1>1, <1>2 DEF States
<1>4. QED
  BY <1>1, <1>3 DEF DispatchInv, GivenUp, Begun, Between, Finished, Expanding, Left

LEMMA DispatchStep ==
  ASSUME DispatchInv, [Next]_vars
  PROVE  DispatchInv'
<1>1. CASE UNCHANGED vars
  <2>1. /\ States /\ UNCHANGED <<program, table, pc, pos, calls, contents, before, refused>>
    BY <1>1 DEF vars, DispatchInv
  <2>2. Size(program)' = Size(program) /\ Ids(program)' = Ids(program)
    BY <2>1, KeptStates
  <2>3. /\ Current' = Current /\ CallsOf(Current)' = CallsOf(Current)
        /\ Range(CallsOf(Current))' = Range(CallsOf(Current))
        /\ Stops(CallsOf(Current))' <=> Stops(CallsOf(Current))
    BY <2>1, CurrentKept
  <2>4. /\ Effect(calls, contents)' = Effect(calls, contents)
        /\ Effect(CallsOf(Current), before)' = Effect(CallsOf(Current), before)
        /\ Stops(calls)' <=> Stops(calls)
    BY <2>1, <2>3 DEF Effect, Written, Stops
  <2>5. Expanding'
    BY <2>1, <2>2, <2>3, <2>4 DEF DispatchInv, Expanding
  <2>6. Left' /\ GivenUp'
    BY <2>1, <2>2, <2>3 DEF DispatchInv, Left, GivenUp
  <2>7. States' /\ Begun' /\ Between' /\ Finished'
    BY <2>1, <2>2 DEF DispatchInv, States, Begun, Between, Finished
  <2>8. QED
    BY <2>5, <2>6, <2>7 DEF DispatchInv
<1>2. QED
  BY <1>1, StartKeeps, NextInstructionKeeps, CallKernelKeeps, KernelFailsKeeps,
     NoSuchKernelKeeps, InstructionDoneKeeps DEF Next

(* The inductive invariant holds of every program and every table: the      *)
(* calls decompose still has to make (FhnDefaultExecutor.cpp:126-211), made *)
(* from here, always give what the whole expansion gives.                   *)
THEOREM DispatchInductive == Spec => []DispatchInv
<1>1. Init => DispatchInv
  BY DispatchInit
<1>2. DispatchInv /\ [Next]_vars => DispatchInv'
  BY DispatchStep
<1>3. QED
  BY <1>1, <1>2, PTL DEF Spec

(* Every variable of the plain executor keeps its type; a call that is made *)
(* always goes to an opcode the backend registered a kernel for.            *)
THEOREM DispatchTypeCorrect == Spec => []TypeOK
<1>1. ASSUME DispatchInv PROVE TypeOK
  <2>1. program \in Program /\ table \in SUBSET OpCodes
    BY <1>1, ProgramsAssumption, TablesAssumption DEF DispatchInv, States
  <2>2. \A k \in Range(calls) : k.op \in table \cup {"NONE"}
    <3>1. CASE calls = << >>
      BY <3>1 DEF Range
    <3>2. CASE calls # << >>
      <4>1. calls \in Seq(Range(CallsOf(Current)))
        BY <1>1, <3>2, NextCall
      <4>2. \A k \in Range(CallsOf(Current)) : k = NoKernel \/ k.op \in table
        BY CallsShape DEF Shape
      <4>3. \A k \in Range(calls) : k \in Range(CallsOf(Current))
        <5> DEFINE R == Range(CallsOf(Current))
        <5>1. calls \in Seq(R)
          BY <4>1
        <5> HIDE DEF R
        <5>2. \A k \in Range(calls) : k \in R
          BY <5>1 DEF Range
        <5>3. QED
          BY <5>2 DEF R
      <4>4. QED
        BY <4>2, <4>3 DEF NoKernel, Kernel
    <3>3. QED
      BY <3>1, <3>2
  <2>3. QED
    BY <1>1, <2>1, <2>2 DEF DispatchInv, States, TypeOK
<1>2. DispatchInv => TypeOK
  BY <1>1
<1>3. QED
  BY <1>2, DispatchInductive, PTL

-----------------------------------------------------------------------------
(* When an expansion stops, and what it computes when it does not.          *)

LEMMA StopsAre ==
  /\ \A k : Stops(<<k>>) <=> k = NoKernel
  /\ \A k, l : Stops(<<k, l>>) <=> k = NoKernel \/ l = NoKernel
  /\ \A k, l, m : Stops(<<k, l, m>>) <=> k = NoKernel \/ l = NoKernel \/ m = NoKernel
<1>1. ASSUME NEW k PROVE Stops(<<k>>) <=> k = NoKernel
  BY DEF Stops
<1>2. ASSUME NEW k, NEW l PROVE Stops(<<k, l>>) <=> k = NoKernel \/ l = NoKernel
  <2>1. 1..Len(<<k, l>>) = {1, 2}
    OBVIOUS
  <2>2. QED
    BY <2>1 DEF Stops
<1>3. ASSUME NEW k, NEW l, NEW m
      PROVE  Stops(<<k, l, m>>) <=> k = NoKernel \/ l = NoKernel \/ m = NoKernel
  <2>1. 1..Len(<<k, l, m>>) = {1, 2, 3}
    OBVIOUS
  <2>2. QED
    BY <2>1 DEF Stops
<1>4. QED
  BY <1>1, <1>2, <1>3

(* The contents c with the term t in buffer r.                              *)
Put(c, r, t) == [c EXCEPT ![r] = t]

LEMMA Puts ==
  ASSUME NEW c, NEW r \in DOMAIN c, NEW t
  PROVE  /\ Put(c, r, t)[r] = t
         /\ \A b \in DOMAIN c : b # r => Put(c, r, t)[b] = c[b]
         /\ \A u : Put(Put(c, r, t), r, u) = Put(c, r, u)
BY DEF Put

(* A kernel on one and on two operands.                                     *)
LEMMA WrittenOne ==
  ASSUME NEW op, NEW r, NEW x, NEW c
  PROVE  Written(Kernel(op, r, <<x>>), c) = Put(c, r, <<op, <<c[x]>> >>)
<1>1. [j \in DOMAIN <<x>> |-> c[<<x>>[j]]] = <<c[x]>>
  OBVIOUS
<1>2. QED
  BY <1>1 DEF Written, Kernel, Put

LEMMA WrittenTwo ==
  ASSUME NEW op, NEW r, NEW x, NEW y, NEW c
  PROVE  Written(Kernel(op, r, <<x, y>>), c) = Put(c, r, <<op, <<c[x], c[y]>> >>)
<1>1. [j \in DOMAIN <<x, y>> |-> c[<<x, y>>[j]]] = <<c[x], c[y]>>
  OBVIOUS
<1>2. QED
  BY <1>1 DEF Written, Kernel, Put

(* A stage on the result buffer replaces what the stage before it left      *)
(* there, and an addition in place adds to it.                              *)
LEMMA StageInPlace ==
  ASSUME NEW op, NEW c, NEW r \in DOMAIN c, NEW t
  PROVE  Written(Kernel(op, r, <<r>>), Put(c, r, t)) = Put(c, r, <<op, <<t>> >>)
<1>1. PICK d : d = Put(c, r, t)
  OBVIOUS
<1>2. Written(Kernel(op, r, <<r>>), d) = Put(d, r, <<op, <<d[r]>> >>)
  BY WrittenOne
<1>3. QED
  BY <1>1, <1>2, Puts

LEMMA AddInPlace ==
  ASSUME NEW op, NEW c, NEW r \in DOMAIN c, NEW t, NEW b \in DOMAIN c, b # r
  PROVE  Written(Kernel(op, r, <<r, b>>), Put(c, r, t)) =
           Put(c, r, <<op, <<t, c[b]>> >>)
<1>1. PICK d : d = Put(c, r, t)
  OBVIOUS
<1>2. Written(Kernel(op, r, <<r, b>>), d) = Put(d, r, <<op, <<d[r], d[b]>> >>)
  BY WrittenTwo
<1>3. QED
  BY <1>1, <1>2, Puts

(* The calls of each fused opcode without a kernel of its own.              *)
LEMMA CallsOfHMULT ==
  ASSUME NEW inst, inst.op = "HMULT", inst.op \notin table,
         NEW k, Require("MULT_CC", inst.res, <<inst.args[1], inst.args[2]>>) = <<k>>
  PROVE  LET relin == Kernel("RELINEARIZE", inst.res, <<inst.res>>)
             rescale == Kernel("RESCALE", inst.res, <<inst.res>>)
         IN  CallsOf(inst) =
               IF "RELINEARIZE" \in table
                 THEN IF "RESCALE" \in table THEN <<k, relin, rescale>> ELSE <<k, relin>>
                 ELSE IF "RESCALE" \in table THEN <<k, rescale>> ELSE <<k>>
<1> DEFINE relin == Kernel("RELINEARIZE", inst.res, <<inst.res>>)
           rescale == Kernel("RESCALE", inst.res, <<inst.res>>)
<1>1. CallsOf(inst) =
        (<<k>> \o Optional("RELINEARIZE", inst.res)) \o Optional("RESCALE", inst.res)
  BY DEF CallsOf, Decompose
<1>2. Optional("RELINEARIZE", inst.res) =
        IF "RELINEARIZE" \in table THEN <<relin>> ELSE << >>
  BY DEF Optional
<1>3. Optional("RESCALE", inst.res) = IF "RESCALE" \in table THEN <<rescale>> ELSE << >>
  BY DEF Optional
<1> HIDE DEF relin, rescale
<1>4. <<k>> \o Optional("RELINEARIZE", inst.res) =
        IF "RELINEARIZE" \in table THEN <<k, relin>> ELSE <<k>>
  BY <1>2, JoinsOne, JoinsTwo
<1>5. CallsOf(inst) =
        IF "RELINEARIZE" \in table
          THEN IF "RESCALE" \in table THEN <<k, relin, rescale>> ELSE <<k, relin>>
          ELSE IF "RESCALE" \in table THEN <<k, rescale>> ELSE <<k>>
  <2>1. CASE "RELINEARIZE" \in table
    BY <1>1, <1>3, <1>4, <2>1, JoinsTwo, JoinsThree
  <2>2. CASE "RELINEARIZE" \notin table
    BY <1>1, <1>3, <1>4, <2>2, JoinsOne, JoinsTwo
  <2>3. QED
    BY <2>1, <2>2
<1>6. QED
  BY <1>5 DEF relin, rescale

LEMMA CallsOfHROTADD ==
  ASSUME NEW inst, inst.op = "HROT_ADD", inst.op \notin table
  PROVE  LET rot == IF "HROT" \in table
                      THEN Kernel("HROT", inst.res, <<inst.args[1]>>)
                      ELSE IF "ROTATE" \in table
                             THEN Kernel("ROTATE", inst.res, <<inst.args[1]>>)
                             ELSE NoKernel
             add == IF "ADD_CC" \in table
                      THEN Kernel("ADD_CC", inst.res, <<inst.res, inst.args[2]>>)
                      ELSE NoKernel
         IN  CallsOf(inst) = <<rot, add>>
<1> DEFINE rot == IF "HROT" \in table
                    THEN Kernel("HROT", inst.res, <<inst.args[1]>>)
                    ELSE IF "ROTATE" \in table
                           THEN Kernel("ROTATE", inst.res, <<inst.args[1]>>)
                           ELSE NoKernel
           add == IF "ADD_CC" \in table
                    THEN Kernel("ADD_CC", inst.res, <<inst.res, inst.args[2]>>)
                    ELSE NoKernel
<1>1. CallsOf(inst) =
        RotationCalls(inst.res, inst.args[1])
          \o Require("ADD_CC", inst.res, <<inst.res, inst.args[2]>>)
  BY DEF CallsOf, Decompose
<1>2. RotationCalls(inst.res, inst.args[1]) = <<rot>>
  BY DEF RotationCalls, Require
<1>3. Require("ADD_CC", inst.res, <<inst.res, inst.args[2]>>) = <<add>>
  BY DEF Require
<1> HIDE DEF rot, add
<1>4. CallsOf(inst) = <<rot, add>>
  BY <1>1, <1>2, <1>3, JoinsTwo
<1>5. QED
  BY <1>4 DEF rot, add

LEMMA EffectsAre ==
  ASSUME NEW c
  PROVE  /\ \A k : Effect(<<k>>, c) = Written(k, c)
         /\ \A k, l : Effect(<<k, l>>, c) = Written(l, Written(k, c))
         /\ \A k, l, m : Effect(<<k, l, m>>, c) = Written(m, Written(l, Written(k, c)))
BY DEF Effect

LEMMA KernelIsThere ==
  ASSUME NEW op, op # "NONE", NEW r, NEW args
  PROVE  Kernel(op, r, args) # NoKernel
BY DEF Kernel, NoKernel

(* The executor stops for want of a kernel only where the instruction has   *)
(* no expansion, or is a MAD without an addend of its own.                  *)
LEMMA StopsOnlyInexpressible ==
  ASSUME NEW inst, inst.op # "NONE", Stops(CallsOf(inst))
  PROVE  \/ ~Semantics!Expandable(table, inst.op)
         \/ inst.op = "MAD" /\ inst.args[2] \in {Unused, inst.res}
<1> DEFINE r == inst.res
           a == inst.args[1]
           b == inst.args[2]
<1>1. inst.op \notin table
  <2>1. ASSUME inst.op \in table PROVE FALSE
    <3>1. CallsOf(inst) = <<Kernel(inst.op, r, [j \in OperandSlots(inst) |-> inst.args[j]])>>
      BY <2>1 DEF CallsOf
    <3>2. QED
      BY <3>1, StopsAre, KernelIsThere
  <2>2. QED
    BY <2>1
<1>2. CASE inst.op = "HMULT"
  <2>1. ASSUME "MULT_CC" \in table PROVE FALSE
    <3> DEFINE k == Kernel("MULT_CC", r, <<a, b>>)
               relin == Kernel("RELINEARIZE", r, <<r>>)
               rescale == Kernel("RESCALE", r, <<r>>)
    <3>1. Require("MULT_CC", r, <<a, b>>) = <<k>>
      BY <2>1 DEF Require
    <3>2. k # NoKernel /\ relin # NoKernel /\ rescale # NoKernel
      BY KernelIsThere
    <3>3. CallsOf(inst) =
            IF "RELINEARIZE" \in table
              THEN IF "RESCALE" \in table THEN <<k, relin, rescale>> ELSE <<k, relin>>
              ELSE IF "RESCALE" \in table THEN <<k, rescale>> ELSE <<k>>
      BY <1>1, <1>2, <3>1, CallsOfHMULT
    <3> HIDE DEF k, relin, rescale
    <3>4. QED
      BY <3>2, <3>3, StopsAre
  <2>2. QED
    BY <1>1, <1>2, <2>1 DEF Semantics!Expandable
<1>3. CASE inst.op = "HROT"
  <2>1. CallsOf(inst) = Require("ROTATE", r, <<a>>)
    BY <1>1, <1>3 DEF CallsOf, Decompose
  <2>2. "ROTATE" \notin table
    BY <2>1, StopsAre, KernelIsThere DEF Require
  <2>3. QED
    BY <1>1, <1>3, <2>2 DEF Semantics!Expandable
<1>4. CASE inst.op = "HROT_ADD"
  <2> DEFINE rot == IF "HROT" \in table THEN Kernel("HROT", r, <<a>>)
                    ELSE IF "ROTATE" \in table THEN Kernel("ROTATE", r, <<a>>)
                    ELSE NoKernel
             add == IF "ADD_CC" \in table THEN Kernel("ADD_CC", r, <<r, b>>) ELSE NoKernel
  <2>1. CallsOf(inst) = <<rot, add>>
    BY <1>1, <1>4, CallsOfHROTADD
  <2>2. rot = NoKernel => table \cap {"HROT", "ROTATE"} = {}
    BY KernelIsThere
  <2>3. add = NoKernel => "ADD_CC" \notin table
    BY KernelIsThere
  <2> HIDE DEF rot, add
  <2>4. rot = NoKernel \/ add = NoKernel
    BY <2>1, StopsAre
  <2>5. QED
    BY <1>1, <1>4, <2>2, <2>3, <2>4 DEF Semantics!Expandable
<1>5. CASE inst.op = "HCONJ_ADD"
  <2>1. ASSUME {"CONJUGATE", "ADD_CC"} \subseteq table PROVE FALSE
    <3>1. CallsOf(inst) = <<Kernel("CONJUGATE", r, <<a>>), Kernel("ADD_CC", r, <<r, b>>)>>
      BY <1>1, <1>5, <2>1 DEF CallsOf, Decompose
    <3>2. QED
      BY <3>1, StopsAre, KernelIsThere
  <2>2. QED
    BY <1>1, <1>5, <2>1 DEF Semantics!Expandable
<1>6. CASE inst.op = "MAD"
  <2>1. ASSUME b \notin {Unused, r}, {"MULT_CS", "ADD_CC"} \subseteq table PROVE FALSE
    <3>1. CallsOf(inst) = <<Kernel("MULT_CS", r, <<a>>), Kernel("ADD_CC", r, <<r, b>>)>>
      BY <1>1, <1>6, <2>1 DEF CallsOf, Decompose
    <3>2. QED
      BY <3>1, StopsAre, KernelIsThere
  <2>2. QED
    BY <1>1, <1>6, <2>1 DEF Semantics!Expandable
<1>7. CASE inst.op \notin {"HMULT", "HROT", "HROT_ADD", "HCONJ_ADD", "MAD"}
  BY <1>1, <1>7 DEF Semantics!Expandable
<1>8. QED
  BY <1>2, <1>3, <1>4, <1>5, <1>6, <1>7

(* A program fails for want of a kernel only at an instruction that the     *)
(* backend's table cannot express, whichever program and whichever table    *)
(* (FhnDefaultExecutor.cpp:126-211).                                        *)
THEOREM RefusalsJustified == Spec => []RefusesOnlyInexpressible
<1>1. ASSUME DispatchInv PROVE RefusesOnlyInexpressible
  <2>1. ASSUME refused = "missing"
        PROVE  \/ ~Semantics!Expandable(table, Current.op)
               \/ Current.op = "MAD" /\ Current.args[2] \in {Unused, Current.res}
    <3>1. Stops(CallsOf(Current)) /\ pos <= Size(program) /\ States
      BY <1>1, <2>1 DEF DispatchInv, GivenUp
    <3>2. Current \in Instruction
      BY <3>1, CurrentTyped
    <3>3. Current.op # "NONE"
      BY <3>2 DEF Instruction, OpCodes
    <3>4. QED
      BY <3>1, <3>3, StopsOnlyInexpressible
  <2>2. QED
    BY <2>1 DEF RefusesOnlyInexpressible, Current
<1>2. DispatchInv => RefusesOnlyInexpressible
  BY <1>1
<1>3. QED
  BY <1>2, DispatchInductive, PTL

(* The meaning of an opcode with a kernel, and of each fused one.           *)
LEMMA MeaningIs ==
  ASSUME NEW inst, NEW c
  PROVE  LET a == c[inst.args[1]]
             b == c[inst.args[2]]
             relin == IF "RELINEARIZE" \in table
                        THEN <<"RELINEARIZE", << <<"MULT_CC", <<a, b>> >> >> >>
                        ELSE <<"MULT_CC", <<a, b>> >>
             rot == IF "HROT" \in table THEN <<"HROT", <<a>> >> ELSE <<"ROTATE", <<a>> >>
         IN  /\ inst.op \in table =>
                  Semantics!Meaning(table, inst, c) =
                    <<inst.op, [j \in OperandSlots(inst) |-> c[inst.args[j]]]>>
             /\ inst.op \notin table /\ inst.op = "HMULT" =>
                  Semantics!Meaning(table, inst, c) =
                    IF "RESCALE" \in table THEN <<"RESCALE", <<relin>> >> ELSE relin
             /\ inst.op \notin table /\ inst.op = "HROT" =>
                  Semantics!Meaning(table, inst, c) = rot
             /\ inst.op \notin table /\ inst.op = "HROT_ADD" =>
                  Semantics!Meaning(table, inst, c) = <<"ADD_CC", <<rot, b>> >>
             /\ inst.op \notin table /\ inst.op = "HCONJ_ADD" =>
                  Semantics!Meaning(table, inst, c) =
                    <<"ADD_CC", << <<"CONJUGATE", <<a>> >>, b>> >>
             /\ inst.op \notin table /\ inst.op = "MAD" =>
                  Semantics!Meaning(table, inst, c) =
                    <<"ADD_CC", << <<"MULT_CS", <<a>> >>, b>> >>
<1>1. CASE inst.op \in table
  <2>1. Semantics!Reads(inst, c) = [j \in OperandSlots(inst) |-> c[inst.args[j]]]
    BY DEF Semantics!Reads, Semantics!OperandSlots, OperandSlots, Semantics!Unused, Unused
  <2>2. Semantics!Meaning(table, inst, c) = <<inst.op, Semantics!Reads(inst, c)>>
    BY <1>1 DEF Semantics!Meaning, Semantics!Apply
  <2>3. QED
    BY <1>1, <2>1, <2>2
<1>2. CASE inst.op \notin table
  BY <1>2 DEF Semantics!Meaning, Semantics!Apply, Semantics!Rotation, Semantics!IfRegistered
<1>3. QED
  BY <1>1, <1>2

(* What the three patterns of an expansion compute.                         *)
LEMMA EffectOfOne ==
  ASSUME NEW op, NEW r, NEW a, NEW c
  PROVE  Effect(<<Kernel(op, r, <<a>>)>>, c) = Put(c, r, <<op, <<c[a]>> >>)
<1> DEFINE k == Kernel(op, r, <<a>>)
<1>1. Written(k, c) = Put(c, r, <<op, <<c[a]>> >>)
  BY WrittenOne
<1> HIDE DEF k
<1>2. Effect(<<k>>, c) = Written(k, c)
  BY EffectsAre
<1>3. QED
  BY <1>1, <1>2 DEF k

LEMMA EffectOfAdd ==
  ASSUME NEW op, NEW c, NEW r \in DOMAIN c, NEW a, NEW b \in DOMAIN c, b # r
  PROVE  Effect(<<Kernel(op, r, <<a>>), Kernel("ADD_CC", r, <<r, b>>)>>, c) =
           Put(c, r, <<"ADD_CC", << <<op, <<c[a]>> >>, c[b]>> >>)
<1> DEFINE k == Kernel(op, r, <<a>>)
           add == Kernel("ADD_CC", r, <<r, b>>)
<1>1. PICK t : t = <<op, <<c[a]>> >>
  OBVIOUS
<1>2. Written(k, c) = Put(c, r, t)
  BY <1>1, WrittenOne
<1>3. Written(add, Put(c, r, t)) = Put(c, r, <<"ADD_CC", <<t, c[b]>> >>)
  BY AddInPlace
<1> HIDE DEF k, add
<1>4. Effect(<<k, add>>, c) = Written(add, Written(k, c))
  BY EffectsAre
<1>5. QED
  BY <1>1, <1>2, <1>3, <1>4 DEF k, add

Product(r, a, b) == Kernel("MULT_CC", r, <<a, b>>)
ProductTerm(c, a, b) == <<"MULT_CC", <<c[a], c[b]>> >>
Stage(op, r) == Kernel(op, r, <<r>>)
StageTerm(op, t) == <<op, <<t>> >>

LEMMA EffectOfProduct ==
  ASSUME NEW c, NEW r \in DOMAIN c, NEW a, NEW b, NEW t, t = ProductTerm(c, a, b)
  PROVE  LET k == Product(r, a, b)
             relin == Stage("RELINEARIZE", r)
             rescale == Stage("RESCALE", r)
             u == StageTerm("RELINEARIZE", t)
         IN  /\ Effect(<<k>>, c) = Put(c, r, t)
             /\ Effect(<<k, relin>>, c) = Put(c, r, u)
             /\ Effect(<<k, rescale>>, c) = Put(c, r, StageTerm("RESCALE", t))
             /\ Effect(<<k, relin, rescale>>, c) = Put(c, r, StageTerm("RESCALE", u))
<1> DEFINE k == Product(r, a, b)
           relin == Stage("RELINEARIZE", r)
           rescale == Stage("RESCALE", r)
           u == StageTerm("RELINEARIZE", t)
<1>1. Written(k, c) = Put(c, r, t)
  BY WrittenTwo DEF Product, ProductTerm
<1>2. Written(relin, Put(c, r, t)) = Put(c, r, u)
  BY StageInPlace DEF Stage, StageTerm
<1>3. /\ Written(rescale, Put(c, r, t)) = Put(c, r, StageTerm("RESCALE", t))
      /\ Written(rescale, Put(c, r, u)) = Put(c, r, StageTerm("RESCALE", u))
  BY StageInPlace DEF Stage, StageTerm
<1> HIDE DEF k, relin, rescale, u
<1>4. /\ Effect(<<k>>, c) = Written(k, c)
      /\ Effect(<<k, relin>>, c) = Written(relin, Written(k, c))
      /\ Effect(<<k, rescale>>, c) = Written(rescale, Written(k, c))
      /\ Effect(<<k, relin, rescale>>, c) = Written(rescale, Written(relin, Written(k, c)))
  BY EffectsAre
<1>5. /\ Effect(<<k>>, c) = Put(c, r, t)
      /\ Effect(<<k, relin>>, c) = Put(c, r, u)
      /\ Effect(<<k, rescale>>, c) = Put(c, r, StageTerm("RESCALE", t))
      /\ Effect(<<k, relin, rescale>>, c) = Put(c, r, StageTerm("RESCALE", u))
  BY <1>1, <1>2, <1>3, <1>4
<1>6. QED
  BY <1>5 DEF k, relin, rescale, u

(* An expansion that does not stop computes the meaning of its instruction  *)
(* in the result buffer.                                                    *)
LEMMA ExpansionMeans ==
  ASSUME NEW inst, NEW c, ~Stops(CallsOf(inst)),
         inst.res \in DOMAIN c, inst.args[1] \in DOMAIN c, inst.args[2] \in DOMAIN c,
         inst.op \in {"HROT_ADD", "HCONJ_ADD"} => inst.args[2] # inst.res
  PROVE  /\ Semantics!Expandable(table, inst.op)
         /\ Effect(CallsOf(inst), c) =
              Put(c, inst.res, Semantics!Meaning(table, inst, c))
<1> DEFINE r == inst.res
           a == inst.args[1]
           b == inst.args[2]
           M == Semantics!Meaning(table, inst, c)
<1>1. CASE inst.op \in table
  <2> DEFINE k == Kernel(inst.op, r, [j \in OperandSlots(inst) |-> inst.args[j]])
  <2>1. CallsOf(inst) = <<k>>
    BY <1>1 DEF CallsOf
  <2>2. Effect(<<k>>, c) = Written(k, c)
    BY EffectsAre
  <2>3. Written(k, c) = Put(c, r, <<inst.op, [j \in OperandSlots(inst) |-> c[inst.args[j]]]>>)
    BY DEF Written, Kernel, Put
  <2>4. M = <<inst.op, [j \in OperandSlots(inst) |-> c[inst.args[j]]]>>
    BY <1>1, MeaningIs
  <2>5. Semantics!Expandable(table, inst.op)
    BY <1>1 DEF Semantics!Expandable
  <2>6. QED
    BY <2>1, <2>2, <2>3, <2>4, <2>5
<1>2. CASE inst.op \notin table /\ inst.op = "HMULT"
  <2> DEFINE k == Kernel("MULT_CC", r, <<a, b>>)
             relin == Kernel("RELINEARIZE", r, <<r>>)
             rescale == Kernel("RESCALE", r, <<r>>)
             t == <<"MULT_CC", <<c[a], c[b]>> >>
             u == <<"RELINEARIZE", <<t>> >>
  <2>1. "MULT_CC" \in table
    <3>1. ASSUME "MULT_CC" \notin table PROVE FALSE
      <4>1. Require("MULT_CC", r, <<a, b>>) = <<NoKernel>>
        BY <3>1 DEF Require
      <4>2. CallsOf(inst) =
              IF "RELINEARIZE" \in table
                THEN IF "RESCALE" \in table THEN <<NoKernel, relin, rescale>> ELSE <<NoKernel, relin>>
                ELSE IF "RESCALE" \in table THEN <<NoKernel, rescale>> ELSE <<NoKernel>>
        BY <1>2, <4>1, CallsOfHMULT
      <4> HIDE DEF relin, rescale
      <4>3. QED
        BY <4>2, StopsAre
    <3>2. QED
      BY <3>1
  <2>2. CallsOf(inst) =
          IF "RELINEARIZE" \in table
            THEN IF "RESCALE" \in table THEN <<k, relin, rescale>> ELSE <<k, relin>>
            ELSE IF "RESCALE" \in table THEN <<k, rescale>> ELSE <<k>>
    <3>1. Require("MULT_CC", r, <<a, b>>) = <<k>>
      BY <2>1 DEF Require
    <3>2. QED
      BY <1>2, <3>1, CallsOfHMULT
  <2>3. /\ Effect(<<k>>, c) = Put(c, r, t)
        /\ Effect(<<k, relin>>, c) = Put(c, r, u)
        /\ Effect(<<k, rescale>>, c) = Put(c, r, <<"RESCALE", <<t>> >>)
        /\ Effect(<<k, relin, rescale>>, c) = Put(c, r, <<"RESCALE", <<u>> >>)
    <3>1. /\ k = Product(r, a, b)
          /\ relin = Stage("RELINEARIZE", r)
          /\ rescale = Stage("RESCALE", r)
          /\ t = ProductTerm(c, a, b)
          /\ u = StageTerm("RELINEARIZE", t)
          /\ <<"RESCALE", <<t>> >> = StageTerm("RESCALE", t)
          /\ <<"RESCALE", <<u>> >> = StageTerm("RESCALE", u)
      BY DEF Product, Stage, ProductTerm, StageTerm
    <3>2. r \in DOMAIN c
      BY DEF r
    <3> HIDE DEF k, relin, rescale, t, u, r, a, b
    <3>3. /\ Effect(<<Product(r, a, b)>>, c) = Put(c, r, t)
          /\ Effect(<<Product(r, a, b), Stage("RELINEARIZE", r)>>, c) =
               Put(c, r, StageTerm("RELINEARIZE", t))
          /\ Effect(<<Product(r, a, b), Stage("RESCALE", r)>>, c) =
               Put(c, r, StageTerm("RESCALE", t))
          /\ Effect(<<Product(r, a, b), Stage("RELINEARIZE", r), Stage("RESCALE", r)>>, c) =
               Put(c, r, StageTerm("RESCALE", StageTerm("RELINEARIZE", t)))
      BY <3>1, <3>2, EffectOfProduct
    <3>4. QED
      BY <3>1, <3>3
  <2>4. M = LET w == IF "RELINEARIZE" \in table THEN u ELSE t
            IN  IF "RESCALE" \in table THEN <<"RESCALE", <<w>> >> ELSE w
    BY <1>2, MeaningIs
  <2>5. Semantics!Expandable(table, inst.op)
    BY <1>2, <2>1 DEF Semantics!Expandable
  <2> HIDE DEF k, relin, rescale, t, u, M
  <2>6. Effect(CallsOf(inst), c) = Put(c, r, M)
    BY <2>2, <2>3, <2>4
  <2>7. QED
    BY <2>5, <2>6 DEF M
<1>3. CASE inst.op \notin table /\ inst.op = "HROT"
  <2>1. CallsOf(inst) = Require("ROTATE", r, <<a>>)
    BY <1>3 DEF CallsOf, Decompose
  <2>2. "ROTATE" \in table
    BY <2>1, StopsAre DEF Require
  <2>3. CallsOf(inst) = <<Kernel("ROTATE", r, <<a>>)>>
    BY <2>1, <2>2 DEF Require
  <2>4. Effect(CallsOf(inst), c) = Put(c, r, <<"ROTATE", <<c[a]>> >>)
    BY <2>3, EffectOfOne
  <2>5. M = <<"ROTATE", <<c[a]>> >>
    BY <1>3, MeaningIs
  <2>6. QED
    BY <1>3, <2>2, <2>4, <2>5 DEF Semantics!Expandable
<1>4. CASE inst.op \notin table /\ inst.op = "HROT_ADD"
  <2> DEFINE rot == IF "HROT" \in table THEN Kernel("HROT", r, <<a>>)
                    ELSE IF "ROTATE" \in table THEN Kernel("ROTATE", r, <<a>>)
                    ELSE NoKernel
             add == IF "ADD_CC" \in table THEN Kernel("ADD_CC", r, <<r, b>>) ELSE NoKernel
             t == IF "HROT" \in table THEN <<"HROT", <<c[a]>> >> ELSE <<"ROTATE", <<c[a]>> >>
  <2>1. CallsOf(inst) = <<rot, add>>
    BY <1>4, CallsOfHROTADD
  <2>2. "ADD_CC" \in table /\ table \cap {"HROT", "ROTATE"} # {}
    BY <2>1, StopsAre
  <2>3. Effect(<<rot, add>>, c) = Put(c, r, <<"ADD_CC", <<t, c[b]>> >>)
    <3>1. CASE "HROT" \in table
      <4>1. rot = Kernel("HROT", r, <<a>>) /\ add = Kernel("ADD_CC", r, <<r, b>>)
            /\ t = <<"HROT", <<c[a]>> >>
        BY <2>2, <3>1
      <4>2. QED
        BY <1>4, <4>1, EffectOfAdd
    <3>2. CASE "HROT" \notin table
      <4>1. rot = Kernel("ROTATE", r, <<a>>) /\ add = Kernel("ADD_CC", r, <<r, b>>)
            /\ t = <<"ROTATE", <<c[a]>> >>
        BY <2>2, <3>2
      <4>2. QED
        BY <1>4, <4>1, EffectOfAdd
    <3>3. QED
      BY <3>1, <3>2
  <2>4. M = <<"ADD_CC", <<t, c[b]>> >>
    BY <1>4, MeaningIs
  <2>5. Semantics!Expandable(table, inst.op)
    BY <1>4, <2>2 DEF Semantics!Expandable
  <2>6. QED
    BY <2>1, <2>3, <2>4, <2>5
<1>5. CASE inst.op \notin table /\ inst.op = "HCONJ_ADD"
  <2> DEFINE k == Kernel("CONJUGATE", r, <<a>>)
             add == Kernel("ADD_CC", r, <<r, b>>)
             t == <<"CONJUGATE", <<c[a]>> >>
  <2>1. {"CONJUGATE", "ADD_CC"} \subseteq table
    <3>1. ASSUME ~({"CONJUGATE", "ADD_CC"} \subseteq table) PROVE FALSE
      <4>1. CallsOf(inst) = <<NoKernel>>
        BY <1>5, <3>1 DEF CallsOf, Decompose
      <4>2. QED
        BY <4>1, StopsAre
    <3>2. QED
      BY <3>1
  <2>2. CallsOf(inst) = <<k, add>>
    BY <1>5, <2>1 DEF CallsOf, Decompose
  <2>3. Effect(<<k, add>>, c) = Put(c, r, <<"ADD_CC", <<t, c[b]>> >>)
    BY <1>5, EffectOfAdd
  <2>4. M = <<"ADD_CC", <<t, c[b]>> >>
    BY <1>5, MeaningIs
  <2>5. Semantics!Expandable(table, inst.op)
    BY <1>5, <2>1 DEF Semantics!Expandable
  <2>6. QED
    BY <2>2, <2>3, <2>4, <2>5
<1>6. CASE inst.op \notin table /\ inst.op = "MAD"
  <2> DEFINE k == Kernel("MULT_CS", r, <<a>>)
             add == Kernel("ADD_CC", r, <<r, b>>)
             t == <<"MULT_CS", <<c[a]>> >>
  <2>1. {"MULT_CS", "ADD_CC"} \subseteq table /\ b \notin {Unused, r}
    <3>1. ASSUME ~({"MULT_CS", "ADD_CC"} \subseteq table /\ b \notin {Unused, r}) PROVE FALSE
      <4>1. CallsOf(inst) = <<NoKernel>>
        BY <1>6, <3>1 DEF CallsOf, Decompose
      <4>2. QED
        BY <4>1, StopsAre
    <3>2. QED
      BY <3>1
  <2>2. CallsOf(inst) = <<k, add>>
    BY <1>6, <2>1 DEF CallsOf, Decompose
  <2>3. Effect(<<k, add>>, c) = Put(c, r, <<"ADD_CC", <<t, c[b]>> >>)
    BY <2>1, EffectOfAdd
  <2>4. M = <<"ADD_CC", <<t, c[b]>> >>
    BY <1>6, MeaningIs
  <2>5. Semantics!Expandable(table, inst.op)
    BY <1>6, <2>1 DEF Semantics!Expandable
  <2>6. QED
    BY <2>2, <2>3, <2>4, <2>5
<1>7. CASE inst.op \notin table \cup {"HMULT", "HROT", "HROT_ADD", "HCONJ_ADD", "MAD"}
  <2>1. CallsOf(inst) = <<NoKernel>>
    BY <1>7 DEF CallsOf, Decompose
  <2>2. QED
    BY <2>1, StopsAre
<1>8. QED
  BY <1>1, <1>2, <1>3, <1>4, <1>5, <1>6, <1>7

-----------------------------------------------------------------------------
(* The refinement.  Its one hypothesis on programs is the finding of the    *)
(* run in_place, stated as what a caller has to respect.                    *)

(* Operands have buffers, and the addend of a rotation-add or conjugate-add *)
(* is not the buffer the result goes to.                                    *)
AddendsApart ==
  \A p \in Programs : \A i \in Positions(p) :
    /\ Operands(p, i) \subseteq Ids(p)
    /\ p.code[i].op \in {"HROT_ADD", "HCONJ_ADD"} => p.code[i].args[2] # Result(p, i)

LEMMA SameWords ==
  /\ Semantics!Program = Program /\ Semantics!OpCodes = OpCodes
  /\ Semantics!Unused = Unused
  /\ \A p : Semantics!Size(p) = Size(p) /\ Semantics!Ids(p) = Ids(p)
  /\ \A p, i : Semantics!Result(p, i) = Result(p, i)
<1>1. Semantics!OpCodes = OpCodes
  BY DEF Semantics!OpCodes, OpCodes
<1>2. Semantics!Instruction = Instruction
  BY <1>1 DEF Semantics!Instruction, Instruction
<1>3. Semantics!Program = Program
  BY <1>2 DEF Semantics!Program, Program
<1>4. Semantics!Unused = Unused
  BY DEF Semantics!Unused, Unused
<1>5. ASSUME NEW p PROVE Semantics!Size(p) = Size(p) /\ Semantics!Ids(p) = Ids(p)
  BY DEF Semantics!Size, Size, Semantics!Ids, Ids, Semantics!Inputs, Inputs,
     Semantics!Positions, Positions, Semantics!Result, Result
<1>6. ASSUME NEW p, NEW i PROVE Semantics!Result(p, i) = Result(p, i)
  BY DEF Semantics!Result, Result
<1>7. QED
  BY <1>1, <1>3, <1>4, <1>5, <1>6

(* What the abstract executor sees of the buffers and of the end.           *)
Seen == IF pc = "failed" THEN contents ELSE before
Outcome == IF pc \in {"ok", "failed"} THEN pc ELSE "running"

LEMMA SemanticsInit ==
  ASSUME Init
  PROVE  Semantics!Init
<1>1. program \in Program /\ table \in SUBSET OpCodes
  BY ProgramsAssumption, TablesAssumption DEF Init
<1>2. QED
  BY <1>1, SameWords DEF Init, Semantics!Init

LEMMA SemanticsStands ==
  ASSUME UNCHANGED <<program, table, pos>>, Seen' = Seen, Outcome' = Outcome
  PROVE  UNCHANGED Semantics!vars
BY DEF Semantics!vars, Seen, Outcome

(* The instruction is complete: its expansion has computed its meaning.     *)
LEMMA SemanticsEvaluates ==
  ASSUME AddendsApart, DispatchInv, InstructionDone
  PROVE  Semantics!Next
<1>1. /\ States /\ UNCHANGED <<program, table, calls, contents, refused>>
      /\ pc = "call" /\ pc' = "run" /\ pos' = pos + 1 /\ before' = contents
      /\ calls = << >> /\ pos <= Size(program)
      /\ Effect(calls, contents) = Effect(CallsOf(Current), before)
      /\ Stops(calls) <=> Stops(CallsOf(Current))
  BY DEF InstructionDone, DispatchInv, Expanding
<1>2. /\ Current \in Instruction /\ Current.res \in Ids(program)
      /\ Current.res = Result(program, pos) /\ pos \in Positions(program)
  BY <1>1, CurrentTyped
<1>3. Effect(calls, contents) = contents /\ ~Stops(calls)
  <2>1. Len(calls) = 0
    BY <1>1
  <2>2. QED
    BY <2>1 DEF Effect, Stops
<1>4. DOMAIN before = Ids(program) \cup {Unused} /\ program \in Programs
  BY <1>1 DEF States
<1>5. Operands(program, pos) \subseteq Ids(program)
  BY <1>2, <1>4 DEF AddendsApart
<1>6. Current.args[1] \in DOMAIN before /\ Current.args[2] \in DOMAIN before
  BY <1>4, <1>5 DEF Operands, Current
<1>7. Current.op \in {"HROT_ADD", "HCONJ_ADD"} => Current.args[2] # Current.res
  BY <1>2, <1>4 DEF AddendsApart, Current
<1>8. /\ Semantics!Expandable(table, Current.op)
      /\ contents = Put(before, Current.res, Semantics!Meaning(table, Current, before))
  BY <1>1, <1>2, <1>3, <1>4, <1>6, <1>7, ExpansionMeans
<1>9. /\ Seen = before /\ Seen' = contents /\ Outcome = "running" /\ Outcome' = "running"
  BY <1>1 DEF Seen, Outcome
<1>10. pos - 1 < Size(program) /\ (pos - 1) + 1 = pos /\ pos' - 1 = (pos - 1) + 1
  <2>1. Size(program) \in Nat /\ pos \in Int
    BY <1>1, KeptStates
  <2>2. QED
    BY <1>1, <2>1
<1>11. Semantics!Evaluate
  BY <1>1, <1>8, <1>9, <1>10, SameWords DEF Semantics!Evaluate, Put, Seen, Outcome, Current
<1>12. QED
  BY <1>11 DEF Semantics!Next

LEMMA SemanticsSucceeds ==
  ASSUME DispatchInv, NextInstruction, pos > Size(program)
  PROVE  Semantics!Next
<1>1. /\ States /\ UNCHANGED <<program, table, pos, contents>> /\ pc = "run"
      /\ pc' = "ok" /\ before' = before
  BY DEF NextInstruction, DispatchInv
<1>2. Size(program) \in Nat /\ pos \in Int
  BY <1>1, KeptStates
<1>3. pos - 1 = Size(program)
  BY <1>1, <1>2 DEF States
<1>4. /\ Seen = before /\ Seen' = before /\ Outcome = "running" /\ Outcome' = "ok"
  BY <1>1 DEF Seen, Outcome
<1>5. Semantics!Succeed
  BY <1>1, <1>3, <1>4, SameWords DEF Semantics!Succeed, Seen, Outcome
<1>6. QED
  BY <1>5 DEF Semantics!Next

(* A failing call leaves every buffer but the result as it was when the     *)
(* instruction began.                                                       *)
LEMMA SemanticsFails ==
  ASSUME DispatchInv, KernelFails \/ NoSuchKernel
  PROVE  Semantics!Next
<1>1. /\ States /\ UNCHANGED <<program, table, pos>> /\ pc = "call" /\ pc' = "failed"
      /\ calls # << >>
      /\ pos <= Size(program)
      /\ \A id \in DOMAIN contents \ {Current.res} : contents[id] = before[id]
      /\ DOMAIN before = DOMAIN contents
  BY DEF KernelFails, NoSuchKernel, DispatchInv, Expanding, States
<1>2. /\ Current.res = Result(program, pos)
      /\ Size(program) \in Nat /\ pos \in Int
  BY <1>1, CurrentTyped, KeptStates
<1>3. \A id \in DOMAIN before \ {Current.res} : contents'[id] = before[id]
  <2>1. CASE KernelFails
    <3>1. /\ Head(calls) # NoKernel
          /\ contents' = [contents EXCEPT ![Head(calls).res] = <<"JUNK">>]
      BY <2>1 DEF KernelFails
    <3>2. Head(calls).res = Current.res
      BY <1>1, <3>1, NextCall
    <3>3. QED
      BY <1>1, <3>1, <3>2
  <2>2. CASE NoSuchKernel
    BY <1>1, <2>2 DEF NoSuchKernel
  <2>3. QED
    BY <2>1, <2>2
<1>4. /\ Seen = before /\ Seen' = contents' /\ Outcome = "running" /\ Outcome' = "failed"
  BY <1>1 DEF Seen, Outcome
<1>5. pos - 1 < Size(program) /\ (pos - 1) + 1 = pos /\ pos' - 1 = pos - 1
  BY <1>1, <1>2
<1>6. Semantics!Fail
  BY <1>1, <1>2, <1>3, <1>4, <1>5, SameWords DEF Semantics!Fail, Seen, Outcome
<1>7. QED
  BY <1>6 DEF Semantics!Next

LEMMA SemanticsStarts ==
  ASSUME DispatchInv, Start
  PROVE  [Semantics!Next]_(Semantics!vars)
<1>1. /\ UNCHANGED <<program, table, pos, contents, before>> /\ pc = "start"
      /\ pos = 1 /\ contents = before
  BY DEF Start, DispatchInv, Begun, Between
<1>2. CASE pc' = "run"
  BY <1>1, <1>2, SemanticsStands DEF Seen, Outcome
<1>3. CASE pc' = "failed"
  <2>1. /\ Seen = before /\ Seen' = before /\ Outcome = "running" /\ Outcome' = "failed"
    BY <1>1, <1>3 DEF Seen, Outcome
  <2>2. Semantics!Refuse
    BY <1>1, <2>1 DEF Semantics!Refuse, Seen, Outcome
  <2>3. QED
    BY <2>2 DEF Semantics!Next
<1>4. QED
  BY <1>2, <1>3 DEF Start

LEMMA SemanticsStep ==
  ASSUME AddendsApart
  PROVE  DispatchInv /\ [Next]_vars => [Semantics!Next]_(Semantics!vars)
<1> SUFFICES ASSUME DispatchInv, [Next]_vars
             PROVE  [Semantics!Next]_(Semantics!vars)
  OBVIOUS
<1>1. CASE Start
  BY <1>1, SemanticsStarts
<1>2. CASE NextInstruction
  <2>1. CASE pos > Size(program)
    BY <1>2, <2>1, SemanticsSucceeds
  <2>2. CASE ~(pos > Size(program))
    <3>1. /\ UNCHANGED <<program, table, pos>> /\ pc = "run" /\ pc' = "call"
          /\ before' = contents /\ contents = before
      BY <1>2, <2>2 DEF NextInstruction, DispatchInv, Between
    <3>2. QED
      BY <3>1, SemanticsStands DEF Seen, Outcome
  <2>3. QED
    BY <2>1, <2>2
<1>3. CASE CallKernel
  BY <1>3, SemanticsStands DEF CallKernel, Seen, Outcome
<1>4. CASE KernelFails \/ NoSuchKernel
  BY <1>4, SemanticsFails
<1>5. CASE InstructionDone
  BY <1>5, SemanticsEvaluates
<1>6. CASE UNCHANGED vars
  BY <1>6, SemanticsStands DEF vars, Seen, Outcome
<1>7. QED
  BY <1>1, <1>2, <1>3, <1>4, <1>5, <1>6 DEF Next

(* Expanding a fused opcode into primitives on the result buffer implements *)
(* instructions evaluated in one step, with the meaning fhn_program.h:47-52 *)
(* gives them: for every table, and for every program whose rotation-adds   *)
(* and conjugate-adds keep their addend out of the result buffer            *)
(* (FhnDefaultExecutor.cpp:23-57 and 126-211).                              *)
THEOREM SemanticsImplemented ==
  ASSUME AddendsApart
  PROVE  Spec => ImplementsSemantics
<1>1. Init => Semantics!Init
  BY SemanticsInit
<1>2. DispatchInv /\ [Next]_vars => [Semantics!Next]_(Semantics!vars)
  BY SemanticsStep
<1>3. Spec => Semantics!Spec
  BY <1>1, <1>2, DispatchInductive, PTL DEF Spec, Semantics!Spec
<1>4. QED
  BY <1>3 DEF ImplementsSemantics
=============================================================================
